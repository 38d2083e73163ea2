--------------------------- MODULE MCConfigSync ----------------------------
(* Small instances of ConfigSync for TLC.                                  *)
EXTENDS ConfigSync

CONSTANTS t1, t2

\* Both tunnels, or only the one whose port may be taken by somebody else: the
\* sets an editor saves and the scopes an operator gives.
BothOrSecond == {{t1, t2}, {t2}}
=============================================================================
