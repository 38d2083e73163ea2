---------------------------- MODULE MCAdmission ----------------------------
(* Small instances of Admission for TLC.                                   *)
EXTENDS Admission, TLC

CONSTANTS a1, a2, c1, c2, c3

OneAgent == c1 :> a1 @@ c2 :> a1 @@ c3 :> a1
=============================================================================
