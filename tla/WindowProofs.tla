---------------------------- MODULE WindowProofs ----------------------------
(***************************************************************************)
(* Machine-checked proofs about the window's screens, for every number of  *)
(* filters, pages, players, minutes, settings, tunnels, nicknames, calls   *)
(* under way, commands, timers, machines and countries.                    *)
(***************************************************************************)
EXTENDS MCScreens, FigureProofs

-----------------------------------------------------------------------------
(* The polled screens.                                                     *)

\* An answer that is still listened to is for the key in use.
AliveIsAsked == \A f \in flights : f.alive => f.key = CurrentKey

\* A dossier is always somebody's.
DossierHasPerson == view = "dossier" => person \in People

PollInv == PollTypeOK /\ DossierHasPerson /\ AliveIsAsked /\ ShownIsAsked

FlightType == [key : Keys, answer : Answer, alive : BOOLEAN]

-----------------------------------------------------------------------------
\* What a screen asks for is a key, or nothing.
LEMMA KeyType ==
  ASSUME NEW v \in Lists \cup {"away", "dossier"}, NEW f \in Filters, NEW p \in Page,
         NEW m \in 0..MaxMinute, NEW who, v = "dossier" => who \in People
  PROVE  Key(v, f, p, m, who) \in Keys \cup {Nothing}
<1>1. CASE v \in Lists
  <2>1. (IF v = "history" THEN m ELSE 0) \in 0..MaxMinute
    BY ViewsAssumption
  <2>2. Key(v, f, p, m, who) =
          [filter |-> f, page |-> p, minute |-> IF v = "history" THEN m ELSE 0]
    BY <1>1 DEF Key, Lists
  <2> QED  BY <2>1, <2>2 DEF Keys, Query
<1>2. CASE v = "dossier"
  BY <1>2 DEF Key, Keys, Lists
<1>3. CASE v = "away"
  BY <1>3 DEF Key, Lists
<1> QED  BY <1>1, <1>2, <1>3

\* A fetch that goes out carries an answer of its key.
LEMMA FlightOK ==
  ASSUME PollTypeOK, NEW k \in Keys, NEW b \in BOOLEAN
  PROVE  Flight(k, b) \in FlightType
<1>1. CASE k \in People
  BY <1>1 DEF Flight, FlightType, PollTypeOK
<1>2. CASE k \notin People
  <2>1. k.filter \in Filters
    BY <1>2 DEF Keys, Query
  <2>2. rows[k.filter] \in Answer
    BY <2>1 DEF PollTypeOK
  <2> QED  BY <1>2, <2>2 DEF Flight, FlightType
<1> QED  BY <1>1, <1>2

LEMMA SendOK ==
  ASSUME PollTypeOK, NEW k \in Keys \cup {Nothing}
  PROVE  /\ Send(k) \subseteq FlightType
         /\ \A f \in Send(k) : f.key = k
<1>1. CASE k = Nothing
  BY <1>1 DEF Send
<1>2. CASE k # Nothing
  <2>1. k \in Keys /\ Send(k) = {Flight(k, TRUE)}
    BY <1>2 DEF Send
  <2>2. Flight(k, TRUE) \in FlightType
    BY <2>1, FlightOK
  <2>3. Flight(k, TRUE).key = k
    BY DEF Flight
  <2> QED  BY <2>1, <2>2, <2>3
<1> QED  BY <1>1, <1>2

\* The cleanup leaves no answer that is listened to.
LEMMA ForgetOK ==
  ASSUME NEW S \in SUBSET FlightType
  PROVE  /\ Forget(S) \subseteq FlightType
         /\ \A f \in Forget(S) : f.alive = FALSE
BY DEF Forget, FlightType

\* The effect on a key: afterwards what is shown, and what is listened to, is of
\* that key.
LEMMA RekeyOK ==
  ASSUME PollInv, NEW k \in Keys \cup {Nothing}, NEW extra \in SUBSET Keys, Rekey(k, extra)
  PROVE  /\ data' \in Shown \cup {Nothing}
         /\ flights' \subseteq FlightType
         /\ data' # Nothing => data'.key = k
         /\ \A f \in flights' : f.alive => f.key = k
<1> USE DEF PollInv
<1>1. CASE k = CurrentKey
  BY <1>1 DEF Rekey, PollTypeOK, FlightType, AliveIsAsked, ShownIsAsked
<1>2. CASE k # CurrentKey
  <2> DEFINE sent == UNION {Send(x) : x \in extra}
  <2>1. flights \cup sent \in SUBSET FlightType
    <3>1. \A x \in extra : Send(x) \subseteq FlightType
      BY SendOK
    <3>2. flights \subseteq FlightType
      BY DEF PollTypeOK, FlightType
    <3> QED  BY <3>1, <3>2
  <2>2. /\ data' = IF k = Nothing \/ cache[k] = Nothing THEN Nothing
                   ELSE [key |-> k, answer |-> cache[k]]
        /\ flights' = Forget(flights \cup sent) \cup Send(k)
    BY <1>2 DEF Rekey
  <2>3. data' \in Shown \cup {Nothing} /\ (data' # Nothing => data'.key = k)
    <3>1. CASE k = Nothing \/ cache[k] = Nothing
      BY <2>2, <3>1
    <3>2. CASE ~(k = Nothing \/ cache[k] = Nothing)
      <4>1. k \in Keys /\ cache[k] \in Answer
        BY <3>2 DEF PollTypeOK
      <4> QED  BY <2>2, <3>2, <4>1 DEF Shown
    <3> QED  BY <3>1, <3>2
  <2> HIDE DEF sent
  <2>4. flights' \subseteq FlightType
    BY <2>1, <2>2, ForgetOK, SendOK
  <2>5. \A f \in flights' : f.alive => f.key = k
    BY <2>1, <2>2, ForgetOK, SendOK
  <2> QED  BY <2>3, <2>4, <2>5
<1> QED  BY <1>1, <1>2

-----------------------------------------------------------------------------
\* The part of the type that no key has a say in.
RestOK ==
  /\ view \in Lists \cup {"away", "dossier"}
  /\ typed \in Filters /\ filter \in Filters
  /\ page \in Page /\ minute \in 0..MaxMinute
  /\ person \in People \cup {Nothing} /\ queued \in People \cup {Nothing}
  /\ cache \in [Keys -> Answer \cup {Nothing}]
  /\ rows \in [Filters \cup People -> Answer]
  /\ clicks \in 0..MaxClicks
  /\ still \in BOOLEAN

LEMMA RestOfType == PollTypeOK => RestOK
BY DEF PollTypeOK, RestOK

\* The key that the views have, by view.
LEMMA KeyOfView ==
  ASSUME NEW f, NEW p, NEW m, NEW who
  PROVE  /\ \A w : Key("wall", f, p, m, who) = Key("wall", f, p, m, w)
         /\ \A w : Key("history", f, p, m, who) = Key("history", f, p, m, w)
         /\ Key("dossier", f, p, m, who) = who
         /\ Key("away", f, p, m, who) = Nothing
BY DEF Key, Lists

\* A step that asks for a key keeps the invariant if that key is the one of the
\* state it leads to.
LEMMA RekeyStep ==
  ASSUME PollInv, RestOK', DossierHasPerson',
         NEW extra \in SUBSET Keys, Rekey(CurrentKey', extra)
  PROVE  PollInv'
<1>1. CurrentKey' \in Keys \cup {Nothing}
  <2>1. /\ view' \in Lists \cup {"away", "dossier"} /\ filter' \in Filters
        /\ page' \in Page /\ minute' \in 0..MaxMinute
        /\ view' = "dossier" => person' \in People
    BY DEF RestOK, DossierHasPerson
  <2>2. Key(view', filter', page', minute', person') \in Keys \cup {Nothing}
    BY <2>1, KeyType
  <2> QED  BY <2>2 DEF CurrentKey
<1>2. /\ data' \in Shown \cup {Nothing}
      /\ flights' \subseteq FlightType
      /\ data' # Nothing => data'.key = CurrentKey'
      /\ \A f \in flights' : f.alive => f.key = CurrentKey'
  BY <1>1, RekeyOK
<1>3. PollTypeOK'
  BY <1>2 DEF RestOK, PollTypeOK, FlightType
<1> QED  BY <1>2, <1>3 DEF PollInv, AliveIsAsked, ShownIsAsked

\* A step that asks for nothing keeps it too, as long as the key stays.
LEMMA SameKeyStep ==
  ASSUME PollInv, RestOK', DossierHasPerson', CurrentKey' = CurrentKey,
         data' = data, flights' \subseteq flights
  PROVE  PollInv'
<1>1. PollTypeOK'
  BY DEF PollInv, RestOK, PollTypeOK
<1> QED  BY <1>1 DEF PollInv, AliveIsAsked, ShownIsAsked

-----------------------------------------------------------------------------
\* The hook's own steps.
LEMMA HookSteps ==
  ASSUME PollInv,
         \/ PollAgain \/ ArriveFails \/ \E n \in Answer : Arrive(n)
  PROVE  PollInv'
<1> USE DEF PollInv
<1>1. CASE PollAgain
  <2>1. Send(CurrentKey) \subseteq FlightType /\ \A f \in Send(CurrentKey) : f.key = CurrentKey
    <3>1. CurrentKey \in Keys \cup {Nothing}
      BY KeyType DEF CurrentKey, PollTypeOK, DossierHasPerson
    <3> QED  BY <3>1, SendOK
  <2>2. flights' = flights \cup Send(CurrentKey) /\ CurrentKey' = CurrentKey
    BY <1>1 DEF PollAgain, CurrentKey
  <2>3. PollTypeOK' /\ DossierHasPerson'
    BY <1>1, <2>1, <2>2 DEF PollAgain, PollTypeOK, DossierHasPerson, FlightType
  <2>4. AliveIsAsked' /\ ShownIsAsked'
    BY <1>1, <2>1, <2>2 DEF PollAgain, AliveIsAsked, ShownIsAsked
  <2> QED  BY <2>3, <2>4
<1>2. CASE ArriveFails
  <2>1. /\ RestOK' /\ DossierHasPerson' /\ data' = data
        /\ CurrentKey' = CurrentKey /\ flights' \subseteq flights
    BY <1>2, RestOfType DEF ArriveFails, RestOK, DossierHasPerson, CurrentKey
  <2> QED  BY <2>1, SameKeyStep
<1>3. ASSUME NEW n \in Answer, Arrive(n)
      PROVE  PollInv'
  <2>1. PICK f \in flights :
          /\ f.answer = n /\ flights' = flights \ {f}
          /\ IF f.alive
             THEN /\ data' = [key |-> f.key, answer |-> f.answer]
                  /\ cache' = [cache EXCEPT ![f.key] = f.answer]
             ELSE UNCHANGED <<data, cache>>
    BY <1>3 DEF Arrive
  <2>2. CurrentKey' = CurrentKey
    BY <1>3 DEF Arrive, CurrentKey
  <2>3. f.key \in Keys /\ f.answer \in Answer /\ f.alive \in BOOLEAN
    BY DEF PollTypeOK
  <2>4. CASE f.alive
    <3>1. f.key = CurrentKey
      BY <2>4 DEF AliveIsAsked
    <3>2. data' \in Shown /\ data'.key = CurrentKey'
      BY <2>1, <2>2, <2>3, <2>4, <3>1 DEF Shown
    <3>3. cache' \in [Keys -> Answer \cup {Nothing}]
      BY <2>1, <2>3, <2>4 DEF PollTypeOK
    <3>4. PollTypeOK' /\ DossierHasPerson'
      BY <1>3, <2>1, <3>2, <3>3 DEF Arrive, PollTypeOK, DossierHasPerson
    <3> QED  BY <2>1, <2>2, <3>2, <3>4 DEF AliveIsAsked, ShownIsAsked
  <2>5. CASE ~f.alive
    <3>1. /\ RestOK' /\ DossierHasPerson' /\ data' = data
          /\ flights' \subseteq flights
      BY <1>3, <2>1, <2>5, RestOfType DEF Arrive, RestOK, DossierHasPerson
    <3> QED  BY <2>2, <3>1, SameKeyStep
  <2> QED  BY <2>3, <2>4, <2>5
<1> QED  BY <1>1, <1>2, <1>3

\* The steps that leave what is asked for as it is.
LEMMA QuietSteps ==
  ASSUME PollInv, QueueDossier \/ Type \/ StoreGrows \/ StandStill
  PROVE  PollInv'
<1> USE RestOfType DEF PollInv, RestOK
<1>1. ASSUME RestOK', UNCHANGED <<view, filter, page, minute, person, data, flights>>
      PROVE  PollInv'
  <2>1. DossierHasPerson' /\ CurrentKey' = CurrentKey
    BY <1>1 DEF DossierHasPerson, CurrentKey
  <2> QED  BY <1>1, <2>1, SameKeyStep
<1>2. CASE QueueDossier
  <2>1. clicks' \in 0..MaxClicks
    BY <1>2, ViewsAssumption DEF QueueDossier, User
  <2> QED  BY <1>1, <1>2, <2>1 DEF QueueDossier, User
<1>3. CASE Type
  <2>1. clicks' \in 0..MaxClicks
    BY <1>3, ViewsAssumption DEF Type, User
  <2> QED  BY <1>1, <1>3, <2>1 DEF Type, User
<1>4. CASE StoreGrows
  BY <1>1, <1>4 DEF StoreGrows, Answer
<1>5. CASE StandStill
  BY <1>1, <1>5 DEF StandStill
<1> QED  BY <1>2, <1>3, <1>4, <1>5

\* What the user may do is counted up to the bound.
LEMMA UserOK ==
  ASSUME PollInv, User
  PROVE  /\ clicks' \in 0..MaxClicks
         /\ UNCHANGED <<cache, rows, still>>
BY ViewsAssumption DEF PollInv, PollTypeOK, User

\* The steps that come to another screen.
LEMMA ScreenSteps ==
  ASSUME PollInv, Enter \/ EnterHistory \/ Leave \/ OpenDossier \/ CloseDossier
  PROVE  PollInv'
<1> USE RestOfType, ViewsAssumption DEF PollInv
<1>0. 0 \in Page /\ {} \in SUBSET Keys
  BY DEF Page
<1>1. CASE Enter
  <2>1. RestOK' /\ DossierHasPerson'
    BY <1>0, <1>1, UserOK DEF Enter, User, RestOK, DossierHasPerson, Lists
  <2>2. CurrentKey' = Key(view', AnyFilter, 0, minute, queued)
    BY <1>1 DEF Enter, CurrentKey
  <2> QED  BY <1>0, <1>1, <2>1, <2>2, RekeyStep DEF Enter
<1>2. CASE EnterHistory
  <2>1. RestOK' /\ DossierHasPerson'
    BY <1>0, <1>2, UserOK DEF EnterHistory, User, RestOK, DossierHasPerson, Lists
  <2>2. CurrentKey' = Key("history", AnyFilter, 0, minute, Nothing)
    BY <1>2, KeyOfView DEF EnterHistory, CurrentKey
  <2> QED  BY <1>0, <1>2, <2>1, <2>2, RekeyStep DEF EnterHistory
<1>3. CASE Leave
  <2>1. RestOK' /\ DossierHasPerson'
    BY <1>3, UserOK DEF Leave, User, RestOK, DossierHasPerson
  <2>2. CurrentKey' = Nothing
    BY <1>3, KeyOfView DEF Leave, CurrentKey
  <2> QED  BY <1>0, <1>3, <2>1, <2>2, RekeyStep DEF Leave
<1>4. CASE OpenDossier
  <2>1. PICK who \in People : person' = who /\ Rekey(who, {})
    BY <1>4 DEF OpenDossier
  <2>2. RestOK' /\ DossierHasPerson'
    BY <1>4, <2>1, UserOK DEF OpenDossier, User, RestOK, DossierHasPerson
  <2>3. CurrentKey' = who
    BY <1>4, <2>1, KeyOfView DEF OpenDossier, CurrentKey
  <2> QED  BY <1>0, <2>1, <2>2, <2>3, RekeyStep
<1>5. CASE CloseDossier
  <2>1. RestOK' /\ DossierHasPerson'
    BY <1>0, <1>5, UserOK DEF CloseDossier, User, RestOK, DossierHasPerson, Lists
  <2>2. CurrentKey' = Key("wall", AnyFilter, 0, minute, Nothing)
    BY <1>5, KeyOfView DEF CloseDossier, CurrentKey
  <2> QED  BY <1>0, <1>5, <2>1, <2>2, RekeyStep DEF CloseDossier
<1> QED  BY <1>1, <1>2, <1>3, <1>4, <1>5

\* A new filter restarts paging: the page that the old render asked for is
\* forgotten with the rest.
LEMMA RestartStep ==
  ASSUME PollInv, NEW f \in Filters, Restart(f), view \in Lists,
         UNCHANGED <<view, minute, person>>, RestOK'
  PROVE  PollInv'
<1> USE DEF PollInv
<1> DEFINE extra == IF page = 0 THEN {} ELSE {Ask(f, page)}
<1>1. Ask(f, page) \in Keys
  <2>1. (IF view = "history" THEN minute ELSE 0) \in 0..MaxMinute
    BY ViewsAssumption DEF PollTypeOK
  <2>2. Ask(f, page) =
          [filter |-> f, page |-> page,
           minute |-> IF view = "history" THEN minute ELSE 0]
    BY DEF Ask, Key, Lists
  <2> QED  BY <2>1, <2>2 DEF PollTypeOK, Keys, Query
<1>2. extra \in SUBSET Keys
  BY <1>1
<1>3. CurrentKey' = Ask(f, 0)
  BY DEF Restart, CurrentKey, Ask
<1>4. Rekey(CurrentKey', extra)
  BY <1>3 DEF Restart
<1>5. DossierHasPerson'
  BY DEF DossierHasPerson
<1> HIDE DEF extra
<1> QED  BY <1>2, <1>4, <1>5, RekeyStep

\* The steps that ask for something else on the same screen.
LEMMA QuerySteps ==
  ASSUME PollInv, Settle \/ ChooseFilter \/ Turn \/ NextMinute
  PROVE  PollInv'
<1> USE RestOfType, ViewsAssumption DEF PollInv
<1>0. 0 \in Page /\ {} \in SUBSET Keys
  BY DEF Page
<1>1. CASE Settle
  <2>1. RestOK' /\ view \in Lists /\ typed \in Filters
    BY <1>0, <1>1 DEF Settle, Restart, RestOK, Lists
  <2> QED  BY <1>1, <2>1, RestartStep DEF Settle
<1>2. CASE ChooseFilter
  <2>1. PICK f \in Filters \ {filter} : typed' = f /\ Restart(f)
    BY <1>2 DEF ChooseFilter
  <2>2. RestOK'
    BY <1>0, <1>2, <2>1, UserOK DEF ChooseFilter, Restart, RestOK
  <2> QED  BY <1>2, <2>1, <2>2, RestartStep DEF ChooseFilter
<1>3. CASE Turn
  <2>1. data.answer \in {0, MaxRows}
    BY <1>3 DEF Turn, PollTypeOK, Shown, Answer
  <2>2. page' \in Page
    <3>1. page \in 0..MaxRows /\ MaxRows \in Nat
      BY DEF PollTypeOK, Page
    <3>2. \/ page > 0 /\ page' = page - 1
          \/ page + 1 < data.answer /\ page' = page + 1
      BY <1>3 DEF Turn
    <3> QED  BY <2>1, <3>1, <3>2 DEF Page
  <2>3. RestOK' /\ DossierHasPerson'
    BY <1>3, <2>2, UserOK DEF Turn, User, RestOK, DossierHasPerson
  <2>4. CurrentKey' = Ask(filter, page')
    BY <1>3 DEF Turn, Ask, CurrentKey
  <2> QED  BY <1>0, <1>3, <2>3, <2>4, RekeyStep DEF Turn
<1>4. CASE NextMinute
  <2>1. minute' \in 0..MaxMinute
    BY <1>4 DEF NextMinute, PollTypeOK
  <2>2. RestOK' /\ DossierHasPerson'
    BY <1>4, <2>1 DEF NextMinute, RestOK, DossierHasPerson
  <2>3. CurrentKey' = Key(view, filter, page, minute', person)
    BY <1>4 DEF NextMinute, CurrentKey
  <2> QED  BY <1>0, <1>4, <2>2, <2>3, RekeyStep DEF NextMinute
<1> QED  BY <1>1, <1>2, <1>3, <1>4

-----------------------------------------------------------------------------
LEMMA PollInvInit == PollInit => PollInv
<1> SUFFICES ASSUME PollInit
             PROVE  PollInv
  OBVIOUS
<1>1. PollTypeOK
  <2>1. cache \in [Keys -> Answer \cup {Nothing}]
    BY DEF PollInit
  <2>2. rows \in [Filters \cup People -> Answer]
    BY DEF PollInit, Answer
  <2>3. 0 \in Page /\ 0 \in 0..MaxMinute /\ 0 \in 0..MaxClicks
    BY ViewsAssumption DEF Page
  <2> QED  BY <2>1, <2>2, <2>3, ViewsAssumption DEF PollInit, PollTypeOK
<1>2. DossierHasPerson /\ AliveIsAsked /\ ShownIsAsked
  BY DEF PollInit, DossierHasPerson, AliveIsAsked, ShownIsAsked
<1> QED  BY <1>1, <1>2 DEF PollInv

LEMMA PollInvStep == PollInv /\ [PollNext]_pollVars => PollInv'
<1> SUFFICES ASSUME PollInv, [PollNext]_pollVars
             PROVE  PollInv'
  OBVIOUS
<1>1. CASE PollAgain \/ ArriveFails \/ \E n \in Answer : Arrive(n)
  BY <1>1, HookSteps
<1>2. CASE QueueDossier \/ Type \/ StoreGrows \/ StandStill
  BY <1>2, QuietSteps
<1>3. CASE Enter \/ EnterHistory \/ Leave \/ OpenDossier \/ CloseDossier
  BY <1>3, ScreenSteps
<1>4. CASE Settle \/ ChooseFilter \/ Turn \/ NextMinute
  BY <1>4, QuerySteps
<1>5. CASE UNCHANGED pollVars
  <2>1. /\ RestOK' /\ DossierHasPerson' /\ CurrentKey' = CurrentKey
        /\ data' = data /\ flights' = flights
    BY <1>5, RestOfType
       DEF pollVars, PollInv, RestOK, DossierHasPerson, CurrentKey
  <2> QED  BY <2>1, SameKeyStep
<1> QED  BY <1>1, <1>2, <1>3, <1>4, <1>5 DEF PollNext

\* The variables of the polled screens keep their types.
THEOREM PollTypeCorrect == PollSpec => []PollTypeOK
<1>1. PollInv => PollTypeOK
  BY DEF PollInv
<1> QED  BY <1>1, PollInvInit, PollInvStep, PTL DEF PollSpec

\* An answer that usePolled still listens to is for the key in use: the cleanup
\* of the effect comes before the fetch of the next key.
THEOREM NoStaleListener == PollSpec => []AliveIsAsked
<1>1. PollInv => AliveIsAsked
  BY DEF PollInv
<1> QED  BY <1>1, PollInvInit, PollInvStep, PTL DEF PollSpec

\* What a polled screen shows was fetched for what it asks for now.
THEOREM ShownWasAsked == PollSpec => []ShownIsAsked
<1>1. PollInv => ShownIsAsked
  BY DEF PollInv
<1> QED  BY <1>1, PollInvInit, PollInvStep, PTL DEF PollSpec

-----------------------------------------------------------------------------
(* Pages.                                                                  *)

RowsOf(k) == rows[IF k \in People THEN k ELSE k.filter]

\* No answer, shown, cached or under way, has more rows than there are now.
AnswersExist ==
  /\ data # Nothing => data.answer <= RowsOf(data.key)
  /\ \A k \in Keys : cache[k] # Nothing => cache[k] <= RowsOf(k)
  /\ \A f \in flights : f.answer <= RowsOf(f.key)

LEMMA RowsType ==
  ASSUME PollTypeOK, NEW k \in Keys
  PROVE  RowsOf(k) \in Answer /\ RowsOf(k) \in Nat
<1>1. (IF k \in People THEN k ELSE k.filter) \in Filters \cup People
  BY DEF Keys, Query
<1>2. RowsOf(k) \in Answer
  BY <1>1 DEF RowsOf, PollTypeOK
<1>. QED  BY <1>2, ViewsAssumption DEF Answer

LEMMA RekeyAnswers ==
  ASSUME PollInv, AnswersExist, UNCHANGED <<rows, cache>>,
         NEW k \in Keys \cup {Nothing}, NEW extra \in SUBSET Keys, Rekey(k, extra)
  PROVE  AnswersExist'
<1>1. CASE k = CurrentKey
  BY <1>1 DEF Rekey, AnswersExist, RowsOf
<1>2. CASE k # CurrentKey
  <2>. DEFINE sent == UNION {Send(x) : x \in extra}
  <2>1. /\ data' = IF k = Nothing \/ cache[k] = Nothing THEN Nothing
                   ELSE [key |-> k, answer |-> cache[k]]
        /\ flights' = Forget(flights \cup sent) \cup Send(k)
    BY <1>2 DEF Rekey
  <2>2. \A x \in Keys \cup {Nothing} : \A f \in Send(x) : f \in FlightType /\ f.answer <= RowsOf(f.key)
    <3>1. ASSUME NEW x \in Keys PROVE Flight(x, TRUE).answer <= RowsOf(Flight(x, TRUE).key)
      BY RowsType DEF Flight, RowsOf, PollInv
    <3>. QED  BY <3>1, SendOK DEF Send, PollInv
  <2>3. \A f \in flights \cup sent : f \in FlightType /\ f.answer <= RowsOf(f.key)
    BY <2>2 DEF AnswersExist, PollInv, PollTypeOK, FlightType
  <2>. HIDE DEF sent
  <2>4. \A f \in Forget(flights \cup sent) : f.answer <= RowsOf(f.key)
    BY <2>3 DEF Forget, FlightType
  <2>5. data' # Nothing => data'.answer <= RowsOf(data'.key)
    BY <2>1 DEF AnswersExist
  <2>. QED  BY <2>1, <2>2, <2>4, <2>5 DEF AnswersExist, RowsOf
<1>. QED  BY <1>1, <1>2

\* The steps that ask, or may ask, for another key.
LEMMA AskingSteps ==
  ASSUME PollInv, PollInv', AnswersExist,
         \/ Enter \/ EnterHistory \/ Leave \/ OpenDossier \/ CloseDossier
         \/ Settle \/ ChooseFilter \/ Turn \/ NextMinute
  PROVE  AnswersExist'
<1>1. CurrentKey' \in Keys \cup {Nothing}
  BY KeyType DEF PollInv, PollTypeOK, DossierHasPerson, CurrentKey
<1>2. ASSUME NEW f \in Filters, Restart(f), view \in Lists, UNCHANGED <<view, minute, person>>
      PROVE  \E extra \in SUBSET Keys : Rekey(CurrentKey', extra)
  <2>1. CurrentKey' = Ask(f, 0)
    BY <1>2 DEF Restart, CurrentKey, Ask
  <2>2. Ask(f, page) \in Keys
    <3>1. /\ (IF view = "history" THEN minute ELSE 0) \in 0..MaxMinute /\ page \in Page
      BY ViewsAssumption DEF PollInv, PollTypeOK
    <3>2. Ask(f, page) =
            [filter |-> f, page |-> page, minute |-> IF view = "history" THEN minute ELSE 0]
      BY <1>2 DEF Ask, Key, Lists
    <3>. QED  BY <3>1, <3>2 DEF Keys, Query
  <2>. QED  BY <1>2, <2>1, <2>2 DEF Restart
<1>3. \E extra \in SUBSET Keys : Rekey(CurrentKey', extra)
  <2>1. CASE Enter
    BY <2>1 DEF Enter, CurrentKey
  <2>2. CASE EnterHistory
    BY <2>2, KeyOfView DEF EnterHistory, CurrentKey
  <2>3. CASE Leave
    BY <2>3, KeyOfView DEF Leave, CurrentKey
  <2>4. CASE OpenDossier
    BY <2>4, KeyOfView DEF OpenDossier, CurrentKey
  <2>5. CASE CloseDossier
    BY <2>5, KeyOfView DEF CloseDossier, CurrentKey
  <2>6. CASE Settle
    BY <1>2, <2>6 DEF Settle, PollInv, PollTypeOK, Lists
  <2>7. CASE ChooseFilter
    BY <1>2, <2>7 DEF ChooseFilter
  <2>8. CASE Turn
    BY <2>8 DEF Turn, Ask, CurrentKey
  <2>9. CASE NextMinute
    BY <2>9 DEF NextMinute, CurrentKey
  <2>. QED  BY <2>1, <2>2, <2>3, <2>4, <2>5, <2>6, <2>7, <2>8, <2>9
<1>4. UNCHANGED <<rows, cache>>
  BY DEF Enter, EnterHistory, Leave, OpenDossier, CloseDossier, Settle, ChooseFilter, Turn,
         NextMinute, User
<1>. QED  BY <1>1, <1>3, <1>4, RekeyAnswers

LEMMA AnswersStep ==
  ASSUME PollInv, PollInv', AnswersExist, [PollNext]_pollVars
  PROVE  AnswersExist'
<1>1. CASE PollAgain
  <2>1. CurrentKey \in Keys
    BY <1>1, KeyType DEF PollAgain, PollInv, PollTypeOK, DossierHasPerson, CurrentKey
  <2>2. flights' = flights \cup {Flight(CurrentKey, TRUE)} /\ UNCHANGED <<rows, cache, data>>
    BY <1>1 DEF PollAgain, Send
  <2>3. Flight(CurrentKey, TRUE).answer <= RowsOf(Flight(CurrentKey, TRUE).key)
    BY <2>1, RowsType DEF Flight, RowsOf, PollInv
  <2>. QED  BY <2>2, <2>3 DEF AnswersExist, RowsOf
<1>2. CASE ArriveFails
  BY <1>2 DEF ArriveFails, AnswersExist, RowsOf
<1>3. ASSUME NEW n \in Answer, Arrive(n) PROVE AnswersExist'
  <2>1. PICK f \in flights :
          /\ flights' = flights \ {f}
          /\ IF f.alive
             THEN /\ data' = [key |-> f.key, answer |-> f.answer]
                  /\ cache' = [cache EXCEPT ![f.key] = f.answer]
             ELSE UNCHANGED <<data, cache>>
    BY <1>3 DEF Arrive
  <2>2. f.key \in Keys /\ cache \in [Keys -> Answer \cup {Nothing}] /\ rows' = rows
    BY <1>3 DEF Arrive, PollInv, PollTypeOK
  <2>. QED  BY <2>1, <2>2 DEF AnswersExist, RowsOf
<1>4. CASE StoreGrows
  <2>1. PICK k \in DOMAIN rows : rows[k] = 0 /\ rows' = [rows EXCEPT ![k] = MaxRows]
    BY <1>4 DEF StoreGrows
  <2>2. \A x \in Keys : RowsOf(x) <= RowsOf(x)'
    <3>1. SUFFICES ASSUME NEW x \in Keys PROVE RowsOf(x) <= RowsOf(x)'
      OBVIOUS
    <3>. DEFINE y == IF x \in People THEN x ELSE x.filter
    <3>2. y \in Filters \cup People /\ rows \in [Filters \cup People -> Answer]
      BY DEF Keys, Query, PollInv, PollTypeOK
    <3>3. rows'[y] = IF y = k THEN MaxRows ELSE rows[y]
      BY <2>1, <3>2
    <3>4. rows[y] <= rows'[y]
      BY <2>1, <3>2, <3>3, ViewsAssumption DEF Answer
    <3>. QED  BY <3>4 DEF RowsOf
  <2>3. \A x \in Keys : RowsOf(x) \in Nat /\ RowsOf(x)' \in Nat
    <3>1. SUFFICES ASSUME NEW x \in Keys PROVE RowsOf(x) \in Nat /\ RowsOf(x)' \in Nat
      OBVIOUS
    <3>. DEFINE y == IF x \in People THEN x ELSE x.filter
    <3>2. y \in Filters \cup People
      BY DEF Keys, Query
    <3>3. rows[y] \in Nat /\ rows'[y] \in Nat
      BY <2>1, <3>2, ViewsAssumption DEF PollInv, PollTypeOK, Answer
    <3>. QED  BY <3>3 DEF RowsOf
  <2>4. UNCHANGED <<data, cache, flights>>
    BY <1>4 DEF StoreGrows
  <2>5. /\ data # Nothing => data.key \in Keys /\ data.answer \in Nat
        /\ \A x \in Keys : cache[x] # Nothing => cache[x] \in Nat
        /\ \A f \in flights : f.key \in Keys /\ f.answer \in Nat
    BY ViewsAssumption DEF PollInv, PollTypeOK, Shown, Answer
  <2>. QED  BY <2>2, <2>3, <2>4, <2>5 DEF AnswersExist
<1>5. CASE QueueDossier \/ Type \/ StandStill \/ UNCHANGED pollVars
  BY <1>5 DEF QueueDossier, Type, StandStill, pollVars, User, AnswersExist, RowsOf
<1>. QED  BY <1>1, <1>2, <1>3, <1>4, <1>5, AskingSteps DEF PollNext

\* The rows of the list on screen, by what is shown of them.
LEMMA ShownRows ==
  ASSUME PollInv, AnswersExist, view \in Lists, data # Nothing
  PROVE  data.answer <= rows[filter] /\ data.answer \in Nat /\ rows[filter] \in Nat
<1>1. data.key = [filter |-> filter, page |-> page, minute |-> IF view = "history" THEN minute ELSE 0]
  BY DEF PollInv, ShownIsAsked, CurrentKey, Key, Lists
<1>2. data.key \in Query
  <2>1. (IF view = "history" THEN minute ELSE 0) \in 0..MaxMinute
    BY ViewsAssumption DEF PollInv, PollTypeOK
  <2>. QED  BY <1>1, <2>1 DEF PollInv, PollTypeOK, Query
<1>3. RowsOf(data.key) = rows[filter]
  BY <1>1, <1>2, KeysAssumption DEF RowsOf
<1>. QED
  BY <1>2, <1>3, RowsType, ViewsAssumption DEF AnswersExist, PollInv, PollTypeOK, Shown, Answer, Keys

LEMMA PageStep ==
  ASSUME PollInv, PollInv', AnswersExist, PageExists, [PollNext]_pollVars
  PROVE  PageExists'
<1>. DEFINE R == rows[filter]
<1>1. filter \in Filters /\ rows \in [Filters \cup People -> Answer] /\ page \in Nat /\ MaxRows \in Nat
  BY ViewsAssumption DEF PollInv, PollTypeOK, Page
<1>2. ASSUME UNCHANGED <<view, page, filter, rows>> PROVE PageExists'
  BY <1>2 DEF PageExists
<1>3. ASSUME page' = 0 \/ view' \notin Lists PROVE PageExists'
  BY <1>3 DEF PageExists
<1>4. CASE Turn
  <2>1. /\ view \in Lists /\ data # Nothing /\ UNCHANGED <<view, filter, rows>>
        /\ \/ page > 0 /\ page' = page - 1
           \/ page + 1 < data.answer /\ page' = page + 1
    BY <1>4 DEF Turn, User
  <2>2. data.answer <= R /\ data.answer \in Nat /\ R \in Nat
    BY <2>1, ShownRows
  <2>3. page' = 0 \/ page' < R
    BY <1>1, <2>1, <2>2 DEF PageExists
  <2>. QED  BY <2>1, <2>3 DEF PageExists
<1>5. CASE StoreGrows
  <2>1. PICK k \in DOMAIN rows : rows[k] = 0 /\ rows' = [rows EXCEPT ![k] = MaxRows]
    BY <1>5 DEF StoreGrows
  <2>2. rows[filter] <= rows'[filter] /\ rows[filter] \in Nat /\ rows'[filter] \in Nat
    BY <1>1, <2>1 DEF Answer
  <2>3. UNCHANGED <<view, page, filter>>
    BY <1>5 DEF StoreGrows
  <2>. QED  BY <1>1, <2>2, <2>3 DEF PageExists
<1>6. CASE Enter \/ EnterHistory \/ Leave \/ OpenDossier \/ CloseDossier \/ Settle \/ ChooseFilter
  BY <1>3, <1>6 DEF Enter, EnterHistory, Leave, OpenDossier, CloseDossier, Settle, ChooseFilter,
                    Restart, Lists
<1>7. CASE \/ PollAgain \/ ArriveFails \/ (\E n \in Answer : Arrive(n)) \/ QueueDossier \/ Type
           \/ NextMinute \/ StandStill \/ UNCHANGED pollVars
  BY <1>2, <1>7 DEF PollAgain, ArriveFails, Arrive, QueueDossier, Type, NextMinute, StandStill,
                    pollVars, User
<1>. QED  BY <1>4, <1>5, <1>6, <1>7 DEF PollNext

PagesInv == PollInv /\ AnswersExist /\ PageExists

LEMMA PagesInit == PollInit => PagesInv
<1> SUFFICES ASSUME PollInit PROVE PagesInv
  OBVIOUS
<1>1. AnswersExist /\ PageExists
  BY DEF PollInit, AnswersExist, PageExists, Lists
<1>. QED  BY <1>1, PollInvInit DEF PagesInv

LEMMA PagesStep == PagesInv /\ [PollNext]_pollVars => PagesInv'
BY PollInvStep, AnswersStep, PageStep DEF PagesInv

-----------------------------------------------------------------------------
(* The forms.                                                              *)

\* What comes back to a screen that was left finds nobody.
AwayIsBlank ==
  screen = "away" =>
    /\ draft = None /\ list = None /\ loads = {}
    /\ \A c \in saves \cup persists \cup rotates : ~c.here

\* While only one call at a time was made, and nothing touched while it was under
\* way, a screen knows what its answers will say.
SettingsAlone ==
  (screen = "settings" /\ ~raced) =>
    /\ \A c \in loads : c.settings = conf.settings
    /\ (draft # None /\ ~dirty) => draft.settings = conf.settings
    /\ saves # {} => loads = {} /\ rotates = {}
    /\ \A c, d \in saves : c = d
    /\ \A c \in saves :
         /\ c.here /\ dirty
         /\ IF c.step = "called" THEN draft = c.out ELSE draft.settings = conf.settings

TunnelsAlone ==
  (screen = "tunnels" /\ ~raced) =>
    /\ \A c \in loads : c.tunnels = conf.tunnels
    /\ saves = {} /\ rotates = {}
    /\ (list # None /\ persists = {}) => list = conf.tunnels
    /\ persists # {} => loads = {}
    /\ \A c, d \in persists : c = d
    /\ \A c \in persists :
         /\ c.here
         /\ IF c.landed THEN conf.tunnels = c.next ELSE list = conf.tunnels

\* An edit is an edit of something.
DirtyIsDraft == dirty => draft \in Config

FormsInv == FormsTypeOK /\ DirtyIsDraft /\ SavedRuns /\ AwayIsBlank /\ SettingsAlone /\ TunnelsAlone

SaveCall == [out : Config, step : {"called", "written", "restarted"}, here : BOOLEAN]
PersistCall == [next : SUBSET Tunnels, landed : BOOLEAN, here : BOOLEAN]
RotateCall == [landed : BOOLEAN, here : BOOLEAN]

\* A configuration with one part changed is a configuration, its other parts the same.
LEMMA ConfigParts ==
  ASSUME NEW c \in Config
  PROVE  /\ \A s \in Settings : [c EXCEPT !.settings = s] \in Config
         /\ \A t \in Themes : /\ [c EXCEPT !.theme = t] \in Config
                              /\ [c EXCEPT !.theme = t].settings = c.settings
                              /\ [c EXCEPT !.theme = t].tunnels = c.tunnels
         /\ \A l \in SUBSET Tunnels : /\ [c EXCEPT !.tunnels = l] \in Config
                                      /\ [c EXCEPT !.tunnels = l].settings = c.settings
                                      /\ [c EXCEPT !.tunnels = l].tunnels = l
         /\ c.token < MaxToken => /\ [c EXCEPT !.token = @ + 1] \in Config
                                  /\ [c EXCEPT !.token = @ + 1].settings = c.settings
                                  /\ [c EXCEPT !.token = @ + 1].tunnels = c.tunnels
         /\ c.settings \in Settings /\ c.tunnels \in SUBSET Tunnels
BY FormsAssumption DEF Config

LEMMA TouchOK ==
  ASSUME FormsTypeOK, Touch
  PROVE  touches' \in 0..MaxTouches /\ UNCHANGED <<attached, runs>>
BY FormsAssumption DEF FormsTypeOK, Touch

LEMMA HereOK ==
  ASSUME FormsTypeOK, Here
  PROVE  /\ touches' \in 0..MaxTouches /\ UNCHANGED <<attached, runs, screen>>
         /\ raced' \in BOOLEAN
         /\ ~raced' => ~raced /\ saves = {} /\ persists = {} /\ rotates = {} /\ loads = {}
BY TouchOK DEF FormsTypeOK, Here, Calling

\* Calls that are left go on, as calls of nobody.
LEMMA LeftCalls ==
  ASSUME FormsTypeOK, LeaveForm
  PROVE  /\ saves' \subseteq SaveCall /\ persists' \subseteq PersistCall
         /\ rotates' \subseteq RotateCall
         /\ \A c \in saves' \cup persists' \cup rotates' : ~c.here
         /\ (\E c \in saves : c.step = "written") => (\E c \in saves' : c.step = "written")
<1>1. /\ saves' = {[c EXCEPT !.here = FALSE] : c \in saves}
      /\ persists' = {[c EXCEPT !.here = FALSE] : c \in persists}
      /\ rotates' = {[c EXCEPT !.here = FALSE] : c \in rotates}
  BY DEF LeaveForm
<1>2. saves \subseteq SaveCall /\ persists \subseteq PersistCall /\ rotates \subseteq RotateCall
  BY DEF FormsTypeOK, SaveCall, PersistCall, RotateCall
<1>3. \A c \in SaveCall : /\ [c EXCEPT !.here = FALSE] \in SaveCall
                          /\ [c EXCEPT !.here = FALSE].here = FALSE
                          /\ [c EXCEPT !.here = FALSE].step = c.step
  BY DEF SaveCall
<1>4. \A c \in PersistCall : /\ [c EXCEPT !.here = FALSE] \in PersistCall
                             /\ [c EXCEPT !.here = FALSE].here = FALSE
  BY DEF PersistCall
<1>5. \A c \in RotateCall : /\ [c EXCEPT !.here = FALSE] \in RotateCall
                            /\ [c EXCEPT !.here = FALSE].here = FALSE
  BY DEF RotateCall
<1>6. saves' \subseteq SaveCall /\ \A c \in saves' : ~c.here
  BY <1>1, <1>2, <1>3
<1>7. persists' \subseteq PersistCall /\ \A c \in persists' : ~c.here
  BY <1>1, <1>2, <1>4
<1>8. rotates' \subseteq RotateCall /\ \A c \in rotates' : ~c.here
  BY <1>1, <1>2, <1>5
<1>9. (\E c \in saves : c.step = "written") => (\E c \in saves' : c.step = "written")
  BY <1>1, <1>2, <1>3
<1>. QED  BY <1>6, <1>7, <1>8, <1>9

LEMMA FormsTypeStep ==
  ASSUME FormsTypeOK, DirtyIsDraft, [FormsNext]_formVars
  PROVE  FormsTypeOK' /\ DirtyIsDraft'
<1>. USE DEF FormsTypeOK, DirtyIsDraft, form
<1>1. CASE OpenForm
  BY <1>1, TouchOK DEF OpenForm, Calling
<1>2. CASE LeaveForm
  BY <1>2, TouchOK, LeftCalls DEF LeaveForm, SaveCall, PersistCall, RotateCall
<1>3. CASE Patch
  <2>1. draft' \in Config
    BY <1>3, ConfigParts DEF Patch
  <2>. QED  BY <1>3, <2>1, HereOK DEF Patch
<1>4. CASE Discard
  BY <1>4, HereOK DEF Discard
<1>5. CASE Save
  <2>1. saves' = saves \cup {[out |-> draft, step |-> "called", here |-> TRUE]} /\ draft \in Config
    BY <1>5 DEF Save
  <2>2. [out |-> draft, step |-> "called", here |-> TRUE] \in SaveCall
    BY <2>1 DEF SaveCall
  <2>. QED  BY <1>5, <2>1, <2>2, HereOK DEF Save, SaveCall
<1>6. CASE Rotate
  <2>1. rotates' = rotates \cup {[landed |-> FALSE, here |-> TRUE]}
    BY <1>6 DEF Rotate
  <2>2. [landed |-> FALSE, here |-> TRUE] \in RotateCall
    BY DEF RotateCall
  <2>. QED  BY <1>6, <2>1, <2>2, HereOK DEF Rotate, RotateCall
<1>7. CASE PickTheme
  <2>1. conf' \in Config
    BY <1>7, ConfigParts DEF PickTheme
  <2>. QED  BY <1>7, <2>1, TouchOK DEF PickTheme
<1>8. CASE ChangeTunnel
  <2>1. list \in SUBSET Tunnels
    BY <1>8 DEF ChangeTunnel
  <2>2. PICK next \in SUBSET Tunnels :
          persists' = persists \cup {[next |-> next, landed |-> FALSE, here |-> TRUE]}
    BY <1>8, <2>1 DEF ChangeTunnel
  <2>3. [next |-> next, landed |-> FALSE, here |-> TRUE] \in PersistCall
    BY DEF PersistCall
  <2>. QED  BY <1>8, <2>2, <2>3, HereOK DEF ChangeTunnel, PersistCall
<1>9. CASE LoadArrives
  BY <1>9, ConfigParts DEF LoadArrives
<1>10. CASE SaveWrites
  BY <1>10 DEF SaveWrites, Reply
<1>11. CASE SaveRestarts \/ SaveEnds
  BY <1>11 DEF SaveRestarts, SaveEnds, Reply
<1>12. CASE RotateLands
  <2>1. conf' \in Config
    BY <1>12, ConfigParts DEF RotateLands
  <2>2. rotates' \subseteq RotateCall
    BY <1>12 DEF RotateLands, Reply, RotateCall
  <2>. QED  BY <1>12, <2>1, <2>2 DEF RotateLands, RotateCall
<1>13. CASE RotateEnds
  BY <1>13 DEF RotateEnds
<1>14. CASE PersistLands
  <2>1. PICK c \in persists :
          /\ persists' = (persists \ {c}) \cup {[c EXCEPT !.landed = TRUE]}
          /\ conf' = [conf EXCEPT !.tunnels = c.next]
          /\ runs' = IF runs = None THEN None ELSE [runs EXCEPT !.tunnels = c.next]
    BY <1>14 DEF PersistLands, Reply
  <2>2. c.next \in SUBSET Tunnels /\ [c EXCEPT !.landed = TRUE] \in PersistCall
    BY DEF PersistCall
  <2>3. conf' \in Config /\ runs' \in Config \cup {None}
    BY <2>1, <2>2, ConfigParts
  <2>. QED  BY <1>14, <2>1, <2>2, <2>3 DEF PersistLands, PersistCall
<1>15. CASE PersistEnds
  BY <1>15 DEF PersistEnds
<1>16. CASE UNCHANGED formVars
  BY <1>16 DEF formVars
<1>. QED  BY <1>1, <1>2, <1>3, <1>4, <1>5, <1>6, <1>7, <1>8, <1>9, <1>10, <1>11, <1>12, <1>13,
             <1>14, <1>15, <1>16 DEF FormsNext

\* What the engine was started with changes along with what is saved, or a restart is due.
LEMMA SavedRunsStep ==
  ASSUME FormsTypeOK, FormsTypeOK', SavedRuns, [FormsNext]_formVars
  PROVE  SavedRuns'
<1>1. conf \in Config /\ runs \in Config \cup {None}
  BY DEF FormsTypeOK
<1>2. CASE UNCHANGED <<attached, conf, runs, saves>>
  BY <1>2 DEF SavedRuns
<1>3. CASE LeaveForm
  BY <1>3, LeftCalls, TouchOK DEF LeaveForm, SavedRuns
<1>4. CASE Save
  BY <1>4, HereOK DEF Save, SavedRuns
<1>5. CASE PickTheme
  <2>1. PICK t \in Themes : conf' = [conf EXCEPT !.theme = t]
    BY <1>5 DEF PickTheme
  <2>2. UNCHANGED <<attached, runs, saves>>
    BY <1>5, TouchOK DEF PickTheme
  <2>3. ASSUME runs # None, [runs EXCEPT !.theme = conf.theme] = conf
        PROVE  [runs EXCEPT !.theme = conf'.theme] = conf'
    <3>1. conf'.theme = t
      BY <1>1, <2>1 DEF Config
    <3>2. [runs EXCEPT !.theme = t] = [[runs EXCEPT !.theme = conf.theme] EXCEPT !.theme = t]
      BY <1>1, <2>3 DEF Config
    <3>. QED  BY <2>1, <2>3, <3>1, <3>2
  <2>. QED  BY <2>2, <2>3 DEF SavedRuns
<1>6. CASE SaveWrites
  <2>1. PICK c \in saves :
          /\ c.step = "called"
          /\ \/ saves' = (saves \ {c}) \cup {[c EXCEPT !.step = "written"]}
             \/ saves' = saves \ {c} /\ conf' = conf
    BY <1>6 DEF SaveWrites, Reply
  <2>2. UNCHANGED <<attached, runs>>
    BY <1>6 DEF SaveWrites
  <2>3. [c EXCEPT !.step = "written"].step = "written"
    BY DEF FormsTypeOK
  <2>. QED  BY <2>1, <2>2, <2>3 DEF SavedRuns
<1>7. CASE SaveRestarts
  <2>1. UNCHANGED <<attached, conf>> /\ (~attached => runs' \in {conf, None})
    BY <1>7 DEF SaveRestarts
  <2>2. [conf EXCEPT !.theme = conf.theme] = conf
    BY <1>1 DEF Config
  <2>. QED  BY <2>1, <2>2 DEF SavedRuns
<1>8. CASE SaveEnds
  BY <1>8 DEF SaveEnds, SavedRuns
<1>9. CASE RotateLands
  <2>1. runs' \in {conf', None} /\ conf' \in Config
    BY <1>9 DEF RotateLands, FormsTypeOK
  <2>2. [conf' EXCEPT !.theme = conf'.theme] = conf'
    BY <2>1 DEF Config
  <2>. QED  BY <2>1, <2>2 DEF SavedRuns
<1>10. CASE PersistLands
  <2>1. PICK next \in SUBSET Tunnels :
          /\ conf' = [conf EXCEPT !.tunnels = next]
          /\ runs' = IF runs = None THEN None ELSE [runs EXCEPT !.tunnels = next]
    BY <1>10 DEF PersistLands, FormsTypeOK
  <2>2. UNCHANGED <<attached, saves>>
    BY <1>10 DEF PersistLands
  <2>3. ASSUME runs # None, [runs EXCEPT !.theme = conf.theme] = conf
        PROVE  [runs' EXCEPT !.theme = conf'.theme] = conf'
    <3>1. conf'.theme = conf.theme /\ runs' = [runs EXCEPT !.tunnels = next]
      BY <1>1, <2>1, <2>3 DEF Config
    <3>2. [[runs EXCEPT !.tunnels = next] EXCEPT !.theme = conf.theme]
            = [[runs EXCEPT !.theme = conf.theme] EXCEPT !.tunnels = next]
      BY <1>1, <2>3 DEF Config
    <3>. QED  BY <2>1, <2>3, <3>1, <3>2
  <2>4. runs' # None => runs # None
    BY <2>1
  <2>. QED  BY <2>2, <2>3, <2>4 DEF SavedRuns
<1>11. CASE OpenForm \/ Patch \/ Discard \/ Rotate \/ ChangeTunnel \/ LoadArrives \/ RotateEnds
            \/ PersistEnds \/ UNCHANGED formVars
  BY <1>2, <1>11, TouchOK, HereOK DEF OpenForm, Patch, Discard, Rotate, ChangeTunnel, LoadArrives,
                                  RotateEnds, PersistEnds, formVars
<1>. QED  BY <1>3, <1>4, <1>5, <1>6, <1>7, <1>8, <1>9, <1>10, <1>11 DEF FormsNext

LEMMA AwayStep ==
  ASSUME FormsTypeOK, AwayIsBlank, [FormsNext]_formVars
  PROVE  AwayIsBlank'
<1>. USE DEF AwayIsBlank, form
<1>1. CASE LeaveForm
  BY <1>1, LeftCalls DEF LeaveForm
<1>2. CASE OpenForm
  BY <1>2 DEF OpenForm
<1>3. CASE Patch \/ Discard \/ Save \/ Rotate \/ ChangeTunnel
  BY <1>3, HereOK DEF Patch, Discard, Save, Rotate, ChangeTunnel
<1>4. CASE PickTheme \/ UNCHANGED formVars
  BY <1>4 DEF PickTheme, formVars
<1>5. CASE LoadArrives
  BY <1>5 DEF LoadArrives
<1>6. CASE SaveWrites \/ SaveRestarts \/ SaveEnds
  <2>1. SUFFICES ASSUME screen = "away", screen' = "away"
                 PROVE  AwayIsBlank'
    BY <1>6 DEF SaveWrites, SaveRestarts, SaveEnds
  <2>2. \A c \in saves : \A st \in {"called", "written", "restarted"} :
          [c EXCEPT !.step = st].here = c.here
    BY DEF FormsTypeOK
  <2>3. \A c \in saves' : ~c.here
    BY <1>6, <2>1, <2>2 DEF SaveWrites, SaveRestarts, SaveEnds, Reply
  <2>4. draft' = draft /\ UNCHANGED <<list, loads, persists, rotates>>
    BY <1>6, <2>1 DEF SaveWrites, SaveRestarts, SaveEnds
  <2>. QED  BY <2>1, <2>3, <2>4
<1>7. CASE RotateLands \/ RotateEnds
  <2>1. \A c \in rotates : [c EXCEPT !.landed = TRUE].here = c.here
    BY DEF FormsTypeOK
  <2>. QED  BY <1>7, <2>1 DEF RotateLands, RotateEnds, Reply
<1>8. CASE PersistLands \/ PersistEnds
  <2>1. \A c \in persists : [c EXCEPT !.landed = TRUE].here = c.here
    BY DEF FormsTypeOK
  <2>. QED  BY <1>8, <2>1 DEF PersistLands, PersistEnds, Reply
<1>. QED  BY <1>1, <1>2, <1>3, <1>4, <1>5, <1>6, <1>7, <1>8 DEF FormsNext

LEMMA SettingsStep ==
  ASSUME FormsTypeOK, DirtyIsDraft, AwayIsBlank, SettingsAlone, [FormsNext]_formVars
  PROVE  SettingsAlone'
<1>. SUFFICES ASSUME screen' = "settings", ~raced'
              PROVE  SettingsAlone'
  BY DEF SettingsAlone
<1>. USE DEF SettingsAlone, form
<1>1. CASE OpenForm
  BY <1>1 DEF OpenForm, AwayIsBlank, Calling
<1>2. CASE LeaveForm
  BY <1>2 DEF LeaveForm
<1>3. CASE Patch
  BY <1>3, HereOK DEF Patch
<1>4. CASE Discard
  BY <1>4, HereOK DEF Discard
<1>5. CASE Save
  <2>1. /\ saves' = saves \cup {[out |-> draft, step |-> "called", here |-> TRUE]}
        /\ dirty /\ UNCHANGED <<conf, draft, dirty, loads, rotates>>
    BY <1>5 DEF Save
  <2>2. saves = {} /\ loads = {} /\ rotates = {} /\ ~raced /\ screen = "settings"
    BY <1>5, HereOK DEF Save
  <2>. QED  BY <2>1, <2>2
<1>6. CASE PickTheme
  <2>1. conf'.settings = conf.settings
    BY <1>6, ConfigParts DEF PickTheme, FormsTypeOK
  <2>. QED  BY <1>6, <2>1 DEF PickTheme
<1>7. CASE Rotate
  BY <1>7, HereOK DEF Rotate
<1>8. CASE ChangeTunnel
  BY <1>8, HereOK DEF ChangeTunnel
<1>9. CASE LoadArrives
  BY <1>9 DEF LoadArrives
<1>10. CASE SaveWrites
  <2>1. PICK c \in saves :
          /\ c.step = "called"
          /\ \/ /\ conf' = c.out /\ saves' = (saves \ {c}) \cup {[c EXCEPT !.step = "written"]}
                /\ draft' = (IF c.here THEN c.out ELSE draft)
             \/ saves' = saves \ {c} /\ UNCHANGED <<conf, draft>>
    BY <1>10 DEF SaveWrites, Reply
  <2>2. UNCHANGED <<screen, dirty, loads, rotates, raced>>
    BY <1>10 DEF SaveWrites
  <2>3. c.here /\ dirty /\ saves = {c} /\ loads = {} /\ rotates = {}
    BY <2>2, <2>1
  <2>4. /\ [c EXCEPT !.step = "written"].step = "written"
        /\ [c EXCEPT !.step = "written"].here = c.here
    BY DEF FormsTypeOK
  <2>. QED  BY <2>1, <2>2, <2>3, <2>4
<1>11. CASE SaveRestarts
  <2>1. PICK c \in saves :
          c.step = "written" /\ saves' = (saves \ {c}) \cup {[c EXCEPT !.step = "restarted"]}
    BY <1>11 DEF SaveRestarts, Reply
  <2>2. UNCHANGED <<conf, screen, draft, dirty, loads, rotates, raced>>
    BY <1>11 DEF SaveRestarts
  <2>3. /\ [c EXCEPT !.step = "restarted"].step = "restarted"
        /\ [c EXCEPT !.step = "restarted"].here = c.here
    BY DEF FormsTypeOK
  <2>. QED  BY <2>1, <2>2, <2>3
<1>12. CASE SaveEnds
  <2>1. PICK c \in saves :
          /\ c.step = "restarted" /\ saves' = saves \ {c}
          /\ IF c.here THEN dirty' = FALSE ELSE dirty' = dirty
    BY <1>12 DEF SaveEnds
  <2>2. UNCHANGED <<conf, screen, draft, loads, rotates, raced>>
    BY <1>12 DEF SaveEnds
  <2>. QED  BY <2>1, <2>2
<1>13. CASE RotateLands
  <2>1. conf'.settings = conf.settings
    BY <1>13, ConfigParts DEF RotateLands, FormsTypeOK
  <2>2. PICK c \in rotates : rotates' = (rotates \ {c}) \cup {[c EXCEPT !.landed = TRUE]}
    BY <1>13 DEF RotateLands, Reply
  <2>. QED  BY <1>13, <2>1, <2>2 DEF RotateLands
<1>14. CASE RotateEnds
  BY <1>14 DEF RotateEnds
<1>15. CASE PersistLands
  <2>1. conf'.settings = conf.settings
    BY <1>15, ConfigParts DEF PersistLands, FormsTypeOK
  <2>. QED  BY <1>15, <2>1 DEF PersistLands
<1>16. CASE PersistEnds \/ UNCHANGED formVars
  BY <1>16 DEF PersistEnds, formVars
<1>. QED  BY <1>1, <1>2, <1>3, <1>4, <1>5, <1>6, <1>7, <1>8, <1>9, <1>10, <1>11, <1>12, <1>13,
             <1>14, <1>15, <1>16 DEF FormsNext

LEMMA TunnelsStep ==
  ASSUME FormsTypeOK, AwayIsBlank, TunnelsAlone, [FormsNext]_formVars
  PROVE  TunnelsAlone'
<1>. SUFFICES ASSUME screen' = "tunnels", ~raced'
              PROVE  TunnelsAlone'
  BY DEF TunnelsAlone
<1>. USE DEF TunnelsAlone, form
<1>1. CASE OpenForm
  BY <1>1 DEF OpenForm, AwayIsBlank, Calling
<1>2. CASE LeaveForm \/ Patch \/ Save \/ Rotate
  BY <1>2, HereOK DEF LeaveForm, Patch, Save, Rotate
<1>3. CASE Discard
  BY <1>3, HereOK DEF Discard
<1>4. CASE PickTheme
  <2>1. conf'.tunnels = conf.tunnels
    BY <1>4, ConfigParts DEF PickTheme, FormsTypeOK
  <2>. QED  BY <1>4, <2>1 DEF PickTheme
<1>5. CASE ChangeTunnel
  <2>1. PICK next :
          persists' = persists \cup {[next |-> next, landed |-> FALSE, here |-> TRUE]}
    BY <1>5 DEF ChangeTunnel
  <2>2. /\ UNCHANGED <<conf, list, loads, saves, rotates>> /\ list # None
        /\ screen = "tunnels" /\ ~raced /\ persists = {} /\ loads = {}
    BY <1>5, HereOK DEF ChangeTunnel
  <2>. QED  BY <2>1, <2>2
<1>6. CASE LoadArrives
  BY <1>6 DEF LoadArrives
<1>7. CASE SaveWrites \/ SaveRestarts \/ SaveEnds \/ RotateLands \/ RotateEnds
  BY <1>7 DEF SaveWrites, SaveRestarts, SaveEnds, RotateLands, RotateEnds
<1>8. CASE PersistLands
  <2>1. PICK c \in persists :
          /\ ~c.landed /\ persists' = (persists \ {c}) \cup {[c EXCEPT !.landed = TRUE]}
          /\ conf' = [conf EXCEPT !.tunnels = c.next]
    BY <1>8 DEF PersistLands, Reply
  <2>2. UNCHANGED <<screen, raced, list, loads, saves, rotates>>
    BY <1>8 DEF PersistLands
  <2>3. /\ [c EXCEPT !.landed = TRUE].landed = TRUE
        /\ [c EXCEPT !.landed = TRUE].here = c.here
        /\ [c EXCEPT !.landed = TRUE].next = c.next
    BY DEF FormsTypeOK
  <2>4. conf'.tunnels = c.next
    BY <2>1, ConfigParts DEF FormsTypeOK
  <2>. QED  BY <2>1, <2>2, <2>3, <2>4
<1>9. CASE PersistEnds
  <2>1. PICK c \in persists :
          persists' = persists \ {c} /\ list' = IF c.landed /\ c.here THEN c.next ELSE list
    BY <1>9 DEF PersistEnds
  <2>2. UNCHANGED <<conf, screen, raced, loads, saves, rotates>>
    BY <1>9 DEF PersistEnds
  <2>. QED  BY <2>1, <2>2
<1>10. CASE UNCHANGED formVars
  BY <1>10 DEF formVars
<1>. QED  BY <1>1, <1>2, <1>3, <1>4, <1>5, <1>6, <1>7, <1>8, <1>9, <1>10 DEF FormsNext

LEMMA FormsInvInit == FormsInit => FormsInv
<1>. SUFFICES ASSUME FormsInit PROVE FormsInv
  OBVIOUS
<1>1. PICK s \in Settings : conf = [settings |-> s, tunnels |-> {}, theme |-> "dark", token |-> 0]
  BY DEF FormsInit
<1>2. conf \in Config
  BY <1>1, FormsAssumption DEF Config, Themes
<1>3. FormsTypeOK
  <2>1. 0 \in 0..MaxTouches /\ runs \in Config \cup {None}
    BY <1>2, FormsAssumption DEF FormsInit
  <2>. QED  BY <1>2, <2>1 DEF FormsInit, FormsTypeOK
<1>4. [conf EXCEPT !.theme = conf.theme] = conf
  BY <1>1
<1>. QED  BY <1>3, <1>4 DEF FormsInit, FormsInv, DirtyIsDraft, SavedRuns, AwayIsBlank, SettingsAlone,
                            TunnelsAlone

LEMMA FormsInvStep == FormsInv /\ [FormsNext]_formVars => FormsInv'
BY FormsTypeStep, SavedRunsStep, AwayStep, SettingsStep, TunnelsStep DEF FormsInv

\* What the forms promise follows from what their screens know.
LEMMA FormsPromise == FormsInv => FormsTypeOK /\ SavedRuns /\ BarTells /\ ListIsSaved
BY DEF FormsInv, SettingsAlone, TunnelsAlone, BarTells, ListIsSaved, Calling

-----------------------------------------------------------------------------
(* The roster.                                                             *)

\* What is still listened to is not older than the write that was heard of last, and a
\* write carries the roster that its click saw.
AliveIsFresh == \A f \in fetches : f.alive => visible /\ f.roster.version >= base
WritesCarry == \A w \in writes : w.roster # Nobody

RosterInv == RosterTypeOK /\ base <= version /\ AliveIsFresh /\ WritesCarry

FetchType == [nonce : 0..MaxNonce, roster : Roster, alive : BOOLEAN]

LEMMA FetchOK ==
  ASSUME RosterTypeOK, NEW n \in 0..MaxNonce
  PROVE  /\ Fetch(n) \in FetchType /\ Fetch(n).alive
         /\ Fetch(n).nonce = n /\ Fetch(n).roster.version = version
BY DEF RosterTypeOK, Fetch, FetchType, Roster

LEMMA QuietOK ==
  ASSUME RosterTypeOK
  PROVE  /\ {[f EXCEPT !.alive = FALSE] : f \in fetches} \subseteq FetchType
         /\ \A f \in {[f EXCEPT !.alive = FALSE] : f \in fetches} : ~f.alive
BY DEF RosterTypeOK, FetchType

\* A render keeps the fields of the form fields.
LEMMA ShowOK ==
  ASSUME RosterTypeOK, NEW r \in Roster \cup {Nobody}, NEW sel \in BOOLEAN, Show(r, sel)
  PROVE  roster' = r /\ selected' \in BOOLEAN /\ fields' \in Fields
<1>1. roster' = r /\ selected' \in BOOLEAN
  BY DEF Show
<1>2. ASSUME Listed(r) PROVE FieldsOf(r) \in Fields
  BY <1>2 DEF Listed, FieldsOf, Roster, AgentView, Fields
<1>3. fields' \in Fields
  BY <1>2 DEF Show, Reseed, RosterTypeOK
<1>. QED  BY <1>1, <1>3

LEMMA OperatorOK ==
  ASSUME RosterTypeOK, Operator
  PROVE  edits' \in 0..MaxEdits /\ edits' # edits /\ UNCHANGED <<agent, version, calm>>
BY RosterAssumption DEF RosterTypeOK, Operator

\* The refresh: a new key, under which only answers of now are listened to.
LEMMA RefreshOK ==
  ASSUME RosterTypeOK, NEW w \in writes, nonce < MaxNonce, Refresh(w)
  PROVE  /\ nonce' = nonce + 1 /\ nonce' \in 0..MaxNonce
         /\ rosterCache' \in [0..(MaxNonce + 1) -> Roster \cup {Nobody}]
         /\ fetches' \subseteq FetchType
         /\ \A f \in fetches' : f.alive => f.roster.version = version
         /\ roster' = rosterCache'[nonce + 1] /\ roster' \in Roster \cup {Nobody}
         /\ w.nonce = nonce => roster' = w.roster
         /\ selected' \in BOOLEAN /\ fields' \in Fields
<1>. DEFINE carried == [rosterCache EXCEPT ![w.nonce + 1] = w.roster]
<1>1. w.nonce \in 0..MaxNonce /\ w.roster \in Roster
  BY DEF RosterTypeOK, Call
<1>2. nonce + 1 \in 0..MaxNonce /\ nonce + 1 \in 0..(MaxNonce + 1) /\ w.nonce + 1 \in 0..(MaxNonce + 1)
  BY <1>1, RosterAssumption DEF RosterTypeOK
<1>3. /\ nonce' = nonce + 1 /\ rosterCache' = carried
      /\ fetches' = {[f EXCEPT !.alive = FALSE] : f \in fetches} \cup {Fetch(nonce + 1)}
      /\ Show(carried[nonce + 1], selected)
  BY DEF Refresh
<1>4. carried \in [0..(MaxNonce + 1) -> Roster \cup {Nobody}]
  BY <1>1, <1>2 DEF RosterTypeOK
<1>5. carried[nonce + 1] \in Roster \cup {Nobody}
  BY <1>2, <1>4
<1>6. w.nonce = nonce => carried[nonce + 1] = w.roster
  BY <1>2 DEF RosterTypeOK
<1>. HIDE DEF carried
<1>7. fetches' \subseteq FetchType /\ \A f \in fetches' : f.alive => f.roster.version = version
  BY <1>2, <1>3, FetchOK, QuietOK
<1>8. selected \in BOOLEAN
  BY DEF RosterTypeOK
<1>. QED  BY <1>2, <1>3, <1>4, <1>5, <1>6, <1>7, <1>8, ShowOK

LEMMA RosterInvInit == RosterInit => RosterInv
<1>. SUFFICES ASSUME RosterInit PROVE RosterInv
  OBVIOUS
<1>1. (CHOOSE n \in Nicknames : TRUE) \in Nicknames
  BY RosterAssumption
<1>2. agent \in AgentView
  BY <1>1 DEF RosterInit, AgentView, Scopes
<1>3. fields \in Fields
  BY <1>2 DEF RosterInit, Fields, AgentView
<1>4. 0 \in 0..MaxVersion /\ 0 \in 0..MaxNonce /\ 0 \in 0..MaxEdits
  BY RosterAssumption
<1>5. rosterCache \in [0..(MaxNonce + 1) -> Roster \cup {Nobody}]
  BY DEF RosterInit
<1>6. version \in 0..MaxVersion /\ nonce \in 0..MaxNonce /\ base \in 0..MaxVersion /\ edits \in 0..MaxEdits
  BY <1>4 DEF RosterInit
<1>7. base <= version
  BY DEF RosterInit
<1>. QED  BY <1>2, <1>3, <1>5, <1>6, <1>7 DEF RosterInit, RosterInv, RosterTypeOK, AliveIsFresh, WritesCarry

LEMMA RosterInvStep ==
  ASSUME RosterInv, [RosterNext]_rosterVars
  PROVE  RosterInv'
<1>. USE DEF RosterInv
<1>0. version \in Nat /\ base \in Nat /\ (\A f \in fetches : f.roster.version \in Nat)
  BY RosterAssumption DEF RosterTypeOK, Roster
<1>1. CASE OpenRoster
  <2>1. rosterCache[0] \in Roster \cup {Nobody} /\ 0 \in 0..MaxNonce /\ 0 \in 0..MaxVersion
    BY RosterAssumption DEF RosterTypeOK
  <2>2. /\ Show(rosterCache[0], FALSE) /\ nonce' = 0 /\ base' = 0 /\ visible' = TRUE
        /\ fetches' = fetches \cup {Fetch(0)} /\ UNCHANGED <<rosterCache, writes>>
        /\ UNCHANGED <<agent, version, calm>> /\ edits' \in 0..MaxEdits
    BY <1>1, OperatorOK DEF OpenRoster
  <2>3. roster' \in Roster \cup {Nobody} /\ selected' \in BOOLEAN /\ fields' \in Fields
    BY <2>1, <2>2, ShowOK
  <2>4. Fetch(0) \in FetchType /\ Fetch(0).roster.version = version
    BY <2>1, FetchOK
  <2>5. AliveIsFresh'
    BY <1>0, <2>2, <2>4 DEF AliveIsFresh
  <2>6. fetches' \subseteq FetchType
    BY <2>2, <2>4 DEF RosterTypeOK, FetchType
  <2>. QED  BY <2>1, <2>2, <2>3, <2>5, <2>6 DEF RosterTypeOK, WritesCarry, FetchType
<1>2. CASE CloseRoster
  <2>1. /\ visible' = FALSE /\ roster' = Nobody /\ selected' = FALSE
        /\ fetches' = {[f EXCEPT !.alive = FALSE] : f \in fetches}
        /\ UNCHANGED <<nonce, rosterCache, fields, writes, base, agent, version, calm>>
        /\ edits' \in 0..MaxEdits
    BY <1>2, OperatorOK DEF CloseRoster
  <2>. QED  BY <2>1, QuietOK DEF RosterTypeOK, AliveIsFresh, WritesCarry, FetchType
<1>3. CASE FetchAgain
  <2>1. /\ visible /\ fetches' = fetches \cup {Fetch(nonce)}
        /\ UNCHANGED <<agent, version, visible, nonce, roster, rosterCache, selected, fields, writes,
                       base, edits, calm>>
    BY <1>3 DEF FetchAgain
  <2>2. Fetch(nonce) \in FetchType /\ Fetch(nonce).roster.version = version
    BY FetchOK DEF RosterTypeOK
  <2>. QED  BY <1>0, <2>1, <2>2 DEF RosterTypeOK, AliveIsFresh, WritesCarry, FetchType
<1>4. ASSUME NEW v \in 0..MaxVersion, FetchEnds(v) PROVE RosterInv'
  <2>1. PICK f \in fetches :
          /\ fetches' = fetches \ {f}
          /\ IF f.alive
             THEN /\ rosterCache' = [rosterCache EXCEPT ![f.nonce] = f.roster]
                  /\ Show(f.roster, selected)
             ELSE UNCHANGED <<rosterCache, roster, selected, fields>>
    BY <1>4 DEF FetchEnds
  <2>2. UNCHANGED <<agent, version, visible, nonce, writes, base, edits, calm>>
    BY <1>4 DEF FetchEnds
  <2>3. f.nonce \in 0..MaxNonce /\ f.roster \in Roster /\ selected \in BOOLEAN
    BY DEF RosterTypeOK
  <2>4. /\ rosterCache' \in [0..(MaxNonce + 1) -> Roster \cup {Nobody}]
        /\ roster' \in Roster \cup {Nobody} /\ selected' \in BOOLEAN /\ fields' \in Fields
    BY <2>1, <2>3, ShowOK DEF RosterTypeOK
  <2>. QED  BY <2>1, <2>2, <2>4 DEF RosterTypeOK, AliveIsFresh, WritesCarry
<1>5. CASE FetchFails
  BY <1>5 DEF FetchFails, RosterTypeOK, AliveIsFresh, WritesCarry
<1>6. CASE Select
  <2>1. roster \in Roster \cup {Nobody} /\ (~selected) \in BOOLEAN
    BY DEF RosterTypeOK
  <2>2. Show(roster, ~selected) /\ UNCHANGED <<visible, nonce, rosterCache, fetches, writes, base>>
    BY <1>6 DEF Select
  <2>3. edits' \in 0..MaxEdits /\ UNCHANGED <<agent, version, calm>>
    BY <1>6, OperatorOK DEF Select
  <2>4. roster' \in Roster \cup {Nobody} /\ selected' \in BOOLEAN /\ fields' \in Fields
    BY <2>1, <2>2, ShowOK
  <2>. QED  BY <2>2, <2>3, <2>4 DEF RosterTypeOK, AliveIsFresh, WritesCarry
<1>7. CASE EditField
  BY <1>7, OperatorOK DEF EditField, RosterTypeOK, AliveIsFresh, WritesCarry
<1>8. CASE StartWrite
  <2>1. PICK k \in {"name", "scope", "revoke"} :
          writes' = writes \cup {[kind |-> k, arg |-> fields, nonce |-> nonce, roster |-> roster,
                                  landed |-> FALSE]}
    BY <1>8 DEF StartWrite
  <2>2. roster # Nobody
    BY <1>8 DEF StartWrite, Detail, Listed
  <2>3. [kind |-> k, arg |-> fields, nonce |-> nonce, roster |-> roster, landed |-> FALSE] \in Call
    BY <2>2 DEF Call, RosterTypeOK
  <2>4. UNCHANGED <<visible, nonce, roster, rosterCache, fetches, selected, fields, base>>
    BY <1>8 DEF StartWrite
  <2>5. edits' \in 0..MaxEdits /\ UNCHANGED <<agent, version, calm>>
    BY <1>8, OperatorOK DEF StartWrite
  <2>6. writes' \subseteq Call
    BY <2>1, <2>3 DEF RosterTypeOK
  <2>. QED  BY <2>1, <2>2, <2>4, <2>5, <2>6 DEF RosterTypeOK, AliveIsFresh, WritesCarry
<1>9. CASE WriteLands
  <2>1. PICK w \in writes :
          agent' = Written(w) /\ writes' = (writes \ {w}) \cup {[w EXCEPT !.landed = TRUE]}
    BY <1>9 DEF WriteLands
  <2>2. w \in Call
    BY DEF RosterTypeOK
  <2>3. [w EXCEPT !.landed = TRUE] \in Call /\ [w EXCEPT !.landed = TRUE].roster = w.roster
    BY <2>2 DEF Call
  <2>4. agent' \in AgentView
    <3>1. agent \in AgentView /\ w.kind \in {"name", "scope", "revoke"}
      BY <2>2 DEF RosterTypeOK, Call
    <3>2. w.arg.name \in Nicknames /\ w.arg.scope \in Scopes
      BY <2>2 DEF Call, Fields
    <3>. QED  BY <2>1, <3>1, <3>2 DEF Written, AgentView
  <2>5. version' = version + 1 /\ version' \in 0..MaxVersion
    BY <1>9, RosterAssumption DEF WriteLands, RosterTypeOK
  <2>6. UNCHANGED <<visible, nonce, roster, rosterCache, fetches, selected, fields, base, edits, calm>>
    BY <1>9 DEF WriteLands
  <2>7. writes' \subseteq Call
    BY <2>1, <2>3 DEF RosterTypeOK
  <2>8. WritesCarry'
    BY <2>1, <2>3 DEF WritesCarry
  <2>9. base' <= version'
    BY <1>0, <2>5, <2>6
  <2>. QED  BY <2>4, <2>5, <2>6, <2>7, <2>8, <2>9 DEF RosterTypeOK, AliveIsFresh
<1>10. CASE EndWrite
  <2>1. PICK w \in writes :
          /\ writes' = writes \ {w}
          /\ IF visible
             THEN nonce < MaxNonce /\ Refresh(w) /\ base' = version
             ELSE /\ rosterCache' = [rosterCache EXCEPT ![w.nonce + 1] = w.roster]
                  /\ UNCHANGED <<nonce, fetches, roster, selected, fields, base>>
    BY <1>10 DEF EndWrite
  <2>2. UNCHANGED <<agent, version, visible, edits, calm>>
    BY <1>10 DEF EndWrite
  <2>3. CASE visible
    <3>1. nonce < MaxNonce /\ Refresh(w) /\ base' = version
      BY <2>1, <2>3
    <3>2. /\ nonce' \in 0..MaxNonce
          /\ rosterCache' \in [0..(MaxNonce + 1) -> Roster \cup {Nobody}]
          /\ fetches' \subseteq FetchType
          /\ \A f \in fetches' : f.alive => f.roster.version = version
          /\ roster' \in Roster \cup {Nobody} /\ selected' \in BOOLEAN /\ fields' \in Fields
      BY <3>1, RefreshOK
    <3>3. AliveIsFresh'
      BY <1>0, <2>2, <2>3, <3>1, <3>2 DEF AliveIsFresh
    <3>. QED  BY <1>0, <2>1, <2>2, <3>1, <3>2, <3>3 DEF RosterTypeOK, WritesCarry, FetchType
  <2>4. CASE ~visible
    <3>1. w.roster \in Roster
      BY DEF RosterTypeOK, Call
    <3>2. rosterCache' \in [0..(MaxNonce + 1) -> Roster \cup {Nobody}]
      BY <2>1, <2>4, <3>1 DEF RosterTypeOK
    <3>. QED  BY <2>1, <2>2, <2>4, <3>2 DEF RosterTypeOK, AliveIsFresh, WritesCarry
  <2>. QED  BY <2>3, <2>4
<1>11. CASE WriteFails
  BY <1>11 DEF WriteFails, RosterTypeOK, AliveIsFresh, WritesCarry
<1>12. CASE Fleet
  <2>1. agent' \in AgentView
    BY <1>12 DEF Fleet, RosterTypeOK, AgentView
  <2>2. version' = version + 1 /\ version' \in 0..MaxVersion
    BY <1>12, RosterAssumption DEF Fleet, RosterTypeOK
  <2>. QED  BY <1>0, <1>12, <2>1, <2>2 DEF Fleet, RosterTypeOK, AliveIsFresh, WritesCarry
<1>13. CASE GoQuiet \/ UNCHANGED rosterVars
  BY <1>13 DEF GoQuiet, rosterVars, RosterTypeOK, AliveIsFresh, WritesCarry
<1>. QED  BY <1>1, <1>2, <1>3, <1>4, <1>5, <1>6, <1>7, <1>8, <1>9, <1>10, <1>11, <1>12, <1>13
          DEF RosterNext

-----------------------------------------------------------------------------
\* What no step of the roster does.

LEMMA NotUndoneStep ==
  ASSUME RosterInv, [RosterNext]_rosterVars,
         visible, visible', nonce' = nonce, roster # Nobody, roster.version >= base
  PROVE  roster' # Nobody /\ roster'.version >= base
<1>1. CASE roster' = roster
  BY <1>1
<1>2. ASSUME NEW v \in 0..MaxVersion, FetchEnds(v) PROVE roster' # Nobody /\ roster'.version >= base
  <2>1. PICK f \in fetches :
          IF f.alive THEN Show(f.roster, selected) ELSE UNCHANGED roster
    BY <1>2 DEF FetchEnds
  <2>2. CASE f.alive
    <3>1. roster' = f.roster /\ f.roster.version >= base
      BY <2>1, <2>2 DEF Show, RosterInv, AliveIsFresh
    <3>2. f.roster # Nobody
      BY NobodyAssumption DEF RosterInv, RosterTypeOK
    <3>. QED  BY <3>1, <3>2
  <2>. QED  BY <2>1, <2>2
<1>3. CASE EndWrite
  <2>1. PICK w \in writes : nonce < MaxNonce /\ Refresh(w)
    BY <1>3 DEF EndWrite
  <2>2. nonce' = nonce + 1 /\ nonce \in Nat
    BY <2>1, RosterAssumption DEF Refresh, RosterInv, RosterTypeOK
  <2>. QED  BY <2>2
<1>4. CASE Select
  BY <1>4 DEF Select, Show
<1>5. CASE \/ OpenRoster \/ CloseRoster \/ FetchAgain \/ FetchFails \/ EditField \/ StartWrite
           \/ WriteLands \/ WriteFails \/ Fleet \/ GoQuiet \/ UNCHANGED rosterVars
  BY <1>1, <1>5 DEF OpenRoster, CloseRoster, FetchAgain, FetchFails, EditField, StartWrite, WriteLands,
                    WriteFails, Fleet, GoQuiet, rosterVars
<1>. QED  BY <1>2, <1>3, <1>4, <1>5 DEF RosterNext

LEMMA EditStep ==
  ASSUME RosterInv, [RosterNext]_rosterVars, Detail, Detail', fields' # fields, edits' = edits
  PROVE  FieldsOf(roster') # FieldsOf(roster)
<1>1. ASSUME NEW r, NEW sel, Show(r, sel) PROVE FieldsOf(roster') # FieldsOf(roster)
  BY <1>1 DEF Show, Reseed
<1>2. CASE OpenRoster \/ CloseRoster \/ Select \/ EditField \/ StartWrite
  BY <1>2, OperatorOK DEF OpenRoster, CloseRoster, Select, EditField, StartWrite, RosterInv
<1>3. ASSUME NEW v \in 0..MaxVersion, FetchEnds(v) PROVE FieldsOf(roster') # FieldsOf(roster)
  BY <1>1, <1>3 DEF FetchEnds
<1>4. CASE EndWrite
  BY <1>1, <1>4 DEF EndWrite, Refresh
<1>5. CASE FetchAgain \/ FetchFails \/ WriteLands \/ WriteFails \/ Fleet \/ GoQuiet \/ UNCHANGED rosterVars
  BY <1>5 DEF FetchAgain, FetchFails, WriteLands, WriteFails, Fleet, GoQuiet, rosterVars
<1>. QED  BY <1>2, <1>3, <1>4, <1>5 DEF RosterNext

LEMMA BlankStep ==
  ASSUME RosterInv, [RosterNext]_rosterVars, visible, visible', roster # Nobody, roster' = Nobody
  PROVE  \E w \in writes \ writes' : w.nonce # nonce
<1>1. CASE EndWrite
  <2>1. PICK w \in writes : nonce < MaxNonce /\ Refresh(w) /\ writes' = writes \ {w}
    BY <1>1 DEF EndWrite
  <2>2. w.nonce = nonce => roster' = w.roster
    BY <2>1, RefreshOK DEF RosterInv
  <2>3. w.roster # Nobody
    BY DEF RosterInv, WritesCarry
  <2>. QED  BY <2>1, <2>2, <2>3
<1>2. ASSUME NEW v \in 0..MaxVersion, FetchEnds(v) PROVE FALSE
  <2>1. PICK f \in fetches : IF f.alive THEN roster' = f.roster ELSE roster' = roster
    BY <1>2 DEF FetchEnds, Show
  <2>. QED  BY <2>1, NobodyAssumption DEF RosterInv, RosterTypeOK
<1>3. CASE Select
  BY <1>3 DEF Select, Show
<1>4. CASE \/ OpenRoster \/ CloseRoster \/ FetchAgain \/ FetchFails \/ EditField \/ StartWrite
           \/ WriteLands \/ WriteFails \/ Fleet \/ GoQuiet \/ UNCHANGED rosterVars
  BY <1>4 DEF OpenRoster, CloseRoster, FetchAgain, FetchFails, EditField, StartWrite, WriteLands,
              WriteFails, Fleet, GoQuiet, rosterVars
<1>. QED  BY <1>1, <1>2, <1>3, <1>4 DEF RosterNext

-----------------------------------------------------------------------------
(* The backdrop.                                                           *)

\* A verdict that waits is that of the snapshot on screen, and has been it as long.
WaitsItsTurn ==
  /\ waited \in Nat /\ steady \in Nat
  /\ pending # Unread => pending = AmbientOf(shown) /\ waited <= steady

LEMMA WaitsInit == StatusInit => WaitsItsTurn
BY DEF StatusInit, WaitsItsTurn

LEMMA SeeWaits ==
  ASSUME WaitsItsTurn, NEW s, See(s)
  PROVE  WaitsItsTurn'
<1>. DEFINE next == AmbientOf(s)
<1>. USE DEF WaitsItsTurn
<1>1. /\ AmbientOf(shown)' = next
      /\ steady' = IF next = AmbientOf(shown) THEN steady ELSE 0
      /\ Debounce(next)
  BY DEF See
<1>. HIDE DEF next
<1>2. CASE next = applied
  BY <1>1, <1>2 DEF Debounce
<1>3. CASE next # applied /\ pending = next
  BY <1>1, <1>3 DEF Debounce
<1>4. CASE next # applied /\ pending # next
  BY <1>1, <1>4 DEF Debounce
<1>. QED  BY <1>2, <1>3, <1>4

LEMMA WaitsStep ==
  ASSUME WaitsItsTurn, [StatusNext]_statusVars
  PROVE  WaitsItsTurn'
<1>1. CASE Snapshot \/ FirstAnswer
  BY <1>1, SeeWaits DEF Snapshot, FirstAnswer
<1>2. CASE Elapse
  <2>1. /\ pending # Unread => waited < Hold
        /\ waited' = IF pending = Unread THEN 0 ELSE waited + 1
        /\ steady' = AtMost(steady + 1, Hold + 1)
        /\ UNCHANGED <<shown, pending>>
    BY <1>2 DEF Elapse
  <2>2. Hold \in Nat
    BY StatusAssumption
  <2>. QED  BY <2>1, <2>2 DEF WaitsItsTurn, AtMost, AmbientOf, Linked, Sessions, HealthScore, Score
<1>3. CASE Apply
  BY <1>3 DEF Apply, WaitsItsTurn
<1>4. CASE UNCHANGED <<shown, pending, waited, steady>>
  BY <1>4 DEF WaitsItsTurn
<1>5. CASE \/ LinkChanges \/ EngineDies \/ RestartFailed \/ FirstFails \/ Look \/ CascadeEnds
           \/ OpenOverview \/ CloseOverview \/ UNCHANGED statusVars
  BY <1>4, <1>5 DEF LinkChanges, EngineDies, RestartFailed, FirstFails, Look, CascadeEnds,
                    OpenOverview, CloseOverview, viewVars, statusVars
<1>. QED  BY <1>1, <1>2, <1>3, <1>5 DEF StatusNext

\* Only the timer shifts the backdrop, once its verdict has waited.
LEMMA StrobeStep ==
  ASSUME WaitsItsTurn, [StatusNext]_statusVars, applied' # applied
  PROVE  applied' = AmbientOf(shown) /\ steady >= Hold
<1>1. CASE Apply
  BY <1>1, StatusAssumption DEF Apply, WaitsItsTurn
<1>2. CASE Snapshot \/ FirstAnswer
  BY <1>2 DEF Snapshot, FirstAnswer, See, Debounce
<1>3. CASE \/ LinkChanges \/ EngineDies \/ RestartFailed \/ FirstFails \/ Look \/ CascadeEnds \/ Elapse
           \/ OpenOverview \/ CloseOverview \/ UNCHANGED statusVars
  BY <1>3 DEF LinkChanges, EngineDies, RestartFailed, FirstFails, Look, CascadeEnds, Elapse,
              OpenOverview, CloseOverview, viewVars, statusVars
<1>. QED  BY <1>1, <1>2, <1>3 DEF StatusNext

-----------------------------------------------------------------------------
(* The map.                                                                *)

\* What the next snapshot is compared with is the one on screen.
GeoInv == GeoTypeOK /\ geo.prev = geo.snap

LEMMA GeoInvInit == GeoInit => GeoInv
<1>1. 0 \in 0..MaxCount
  BY ReplayAssumption
<1>. QED  BY <1>1 DEF GeoInit, GeoInv, GeoTypeOK, GeoSnapshot, Ranges

\* A new snapshot lights what has grown, and nothing else.
LEMMA ComparedOK ==
  ASSUME GeoInv, NEW s \in GeoSnapshot, geo' = Compared(s)
  PROVE  /\ GeoInv' /\ geo'.range = geo.range /\ geo'.snap = s
         /\ geo'.flash # geo.flash => geo.prev # Blank /\ geo'.flash = Grown(s)
<1>1. Grown(s) \subseteq Countries
  BY DEF Grown
<1>. DEFINE lit == IF geo.prev # Blank /\ Grown(s) # {} THEN Grown(s) ELSE geo.flash
            on == geo.prev # Blank /\ Grown(s) # {}
<1>2. lit \subseteq Countries /\ on \in BOOLEAN /\ [geo.cache EXCEPT ![geo.range] = s] \in [Ranges -> GeoSnapshot \cup {Blank}]
  BY <1>1 DEF GeoInv, GeoTypeOK
<1>3. geo' = [geo EXCEPT !.cache[geo.range] = s, !.snap = s, !.prev = s, !.flash = lit, !.timer = on]
  BY DEF Compared
<1>4. lit # geo.flash => geo.prev # Blank /\ lit = Grown(s)
  OBVIOUS
<1>. HIDE DEF lit, on
<1>. QED  BY <1>2, <1>3, <1>4 DEF GeoInv, GeoTypeOK

LEMMA GeoInvStep ==
  ASSUME GeoInv, [GeoNext]_geo
  PROVE  GeoInv'
<1>1. CASE SessionsChange
  <2>1. PICK r \in Ranges, c \in Countries, n \in 0..MaxCount : geo' = [geo EXCEPT !.real[r][c] = n]
    BY <1>1 DEF SessionsChange
  <2>2. [geo.real EXCEPT ![r][c] = n] \in [Ranges -> GeoSnapshot]
    BY DEF GeoInv, GeoTypeOK, GeoSnapshot
  <2>. QED  BY <2>1, <2>2 DEF GeoInv, GeoTypeOK
<1>2. CASE SnapshotArrives
  <2>1. geo.real[geo.range] \in GeoSnapshot
    BY DEF GeoInv, GeoTypeOK
  <2>. QED  BY <1>2, <2>1, ComparedOK DEF SnapshotArrives
<1>3. CASE FlashEnds
  BY <1>3 DEF FlashEnds, GeoInv, GeoTypeOK
<1>4. CASE PickRange
  BY <1>4 DEF PickRange, GeoInv, GeoTypeOK
<1>5. CASE UNCHANGED geo
  BY <1>5 DEF GeoInv, GeoTypeOK
<1>. QED  BY <1>1, <1>2, <1>3, <1>4, <1>5 DEF GeoNext

LEMMA FlashStep ==
  ASSUME GeoInv, [GeoNext]_geo, NEW c \in geo'.flash \ geo.flash
  PROVE  geo'.range = geo.range /\ geo.snap # Blank /\ geo'.snap[c] > geo.snap[c]
<1>1. CASE SnapshotArrives
  <2>1. geo.real[geo.range] \in GeoSnapshot
    BY DEF GeoInv, GeoTypeOK
  <2>. QED  BY <1>1, <2>1, ComparedOK DEF SnapshotArrives, GeoInv, Grown
<1>2. CASE SessionsChange \/ FlashEnds \/ PickRange \/ UNCHANGED geo
  BY <1>2 DEF SessionsChange, FlashEnds, PickRange, GeoInv, GeoTypeOK
<1>. QED  BY <1>1, <1>2 DEF GeoNext

-----------------------------------------------------------------------------
(* What floats over the Tunnels screen.                                    *)

AnyPalette == [q : DOMAIN Hits, idx : Int, told : BOOLEAN, followed : BOOLEAN,
               shifted : BOOLEAN, inField : BOOLEAN]

\* An exit that plays is that of the palette that is open, unless it was there before.
PaletteTold ==
  /\ palExits \in Nat
  /\ pal # Shut => pal \in AnyPalette /\ (palExits > 0 => pal.told \/ pal.followed)

\* So with the editor.
EditorTold ==
  /\ exits \in Nat
  /\ editor # Shut => editor \in Editor /\ (exits > 0 => editor.told \/ editor.followed)

\* A button asks after one click; a call that nothing overlapped takes away what
\* was clicked twice.
CallsDelete ==
  /\ persisting \in Seq([next : SUBSET Rows, own : BOOLEAN])
  /\ taps \in [Rows -> 0..2] /\ tunnelRows \subseteq Rows /\ armed \subseteq tunnelRows
  /\ mixed \in BOOLEAN
  /\ \A t \in armed : taps[t] > 0
  /\ ~mixed => /\ Len(persisting) <= 1
               /\ \A i \in DOMAIN persisting : \A t \in tunnelRows \ persisting[i].next : taps[t] = 2

\* An editor that was opened with nothing under way has made the only call there is.
CallIsOwn ==
  (editor # Shut /\ ~editor.followed /\ persisting # <<>>) =>
    Len(persisting) = 1 /\ persisting[1].own /\ ~err

OverlaysInv == PaletteTold /\ EditorTold /\ CallsDelete /\ CallIsOwn

CallType == [next : SUBSET Rows, own : BOOLEAN]

-----------------------------------------------------------------------------
\* The sequences of calls.

LEMMA OrphansOK ==
  ASSUME NEW s \in Seq(CallType)
  PROVE  /\ Orphans(s) \in Seq(CallType) /\ Len(Orphans(s)) = Len(s)
         /\ \A i \in DOMAIN s : Orphans(s)[i].next = s[i].next
         /\ Orphans(s) = <<>> <=> s = <<>>
<1>1. Orphans(s) = [i \in 1..Len(s) |-> [s[i] EXCEPT !.own = FALSE]]
  BY DEF Orphans
<1>2. \A i \in 1..Len(s) : s[i] \in CallType
  OBVIOUS
<1>3. \A i \in 1..Len(s) : /\ [s[i] EXCEPT !.own = FALSE] \in CallType
                           /\ [s[i] EXCEPT !.own = FALSE].next = s[i].next
  BY <1>2 DEF CallType
<1>4. Orphans(s) \in Seq(CallType) /\ Len(Orphans(s)) = Len(s)
  BY <1>1, <1>3
<1>. QED  BY <1>1, <1>3, <1>4

LEMMA RemoveOK ==
  ASSUME NEW s \in Seq(CallType), NEW i \in DOMAIN s
  PROVE  /\ RemoveAt(s, i) \in Seq(CallType) /\ Len(RemoveAt(s, i)) = Len(s) - 1
         /\ Len(s) = 1 <=> RemoveAt(s, i) = <<>>
<1>. DEFINE a == SubSeq(s, 1, i - 1)
            b == SubSeq(s, i + 1, Len(s))
<1>1. RemoveAt(s, i) = a \o b
  BY DEF RemoveAt
<1>2. i \in 1..Len(s) /\ Len(s) \in Nat
  OBVIOUS
<1>3. a \in Seq(CallType) /\ Len(a) = i - 1
  BY <1>2
<1>4. b \in Seq(CallType) /\ Len(b) = Len(s) - i
  BY <1>2
<1>. HIDE DEF a, b
<1>5. a \o b \in Seq(CallType) /\ Len(a \o b) = Len(s) - 1
  BY <1>2, <1>3, <1>4
<1>6. \A t \in Seq(CallType) : Len(t) = 0 <=> t = <<>>
  OBVIOUS
<1>7. Len(a \o b) = 0 <=> a \o b = <<>>
  BY <1>5, <1>6
<1>8. Len(s) = 1 <=> Len(a \o b) = 0
  BY <1>2, <1>5
<1>. QED  BY <1>1, <1>5, <1>7, <1>8

LEMMA PersistOK ==
  ASSUME CallsDelete, NEW next \in SUBSET Rows, NEW own \in BOOLEAN, Persist(next, own)
  PROVE  /\ persisting' \in Seq(CallType) /\ persisting' # <<>> /\ err' = FALSE
         /\ mixed' \in BOOLEAN
         /\ ~mixed' => ~mixed /\ persisting = <<>>
         /\ persisting = <<>> => /\ Len(persisting') = 1 /\ DOMAIN persisting' = {1}
                                 /\ persisting'[1].next = next /\ persisting'[1].own = own
<1>. DEFINE call == [next |-> next, own |-> own]
<1>1. call \in CallType
  BY DEF CallType
<1>2. persisting \in Seq(CallType) /\ persisting' = Append(persisting, call)
  BY DEF CallsDelete, CallType, Persist
<1>3. err' = FALSE /\ mixed' = (mixed \/ persisting # <<>>)
  BY DEF Persist
<1>. HIDE DEF call
<1>4. persisting' \in Seq(CallType) /\ Len(persisting') = Len(persisting) + 1
  BY <1>1, <1>2
<1>5. persisting' # <<>>
  BY <1>2, <1>4
<1>6. persisting = <<>> => /\ Len(persisting') = 1 /\ DOMAIN persisting' = {1} /\ persisting'[1] = call
  BY <1>1, <1>2, <1>4
<1>7. mixed' \in BOOLEAN /\ (~mixed' => ~mixed /\ persisting = <<>>)
  BY <1>3 DEF CallsDelete
<1>. QED  BY <1>3, <1>4, <1>5, <1>6, <1>7 DEF call

-----------------------------------------------------------------------------
\* The palette.

\* The updates of a palette.
LEMMA PaletteOK ==
  ASSUME NEW p \in AnyPalette
  PROVE  /\ [p EXCEPT !.told = TRUE] \in AnyPalette /\ [p EXCEPT !.told = TRUE].told
         /\ [p EXCEPT !.shifted = TRUE] \in AnyPalette /\ [p EXCEPT !.shifted = TRUE].told = p.told
         /\ [p EXCEPT !.shifted = TRUE].followed = p.followed
         /\ \A b \in BOOLEAN : /\ [p EXCEPT !.inField = b] \in AnyPalette
                               /\ [p EXCEPT !.inField = b].told = p.told
                               /\ [p EXCEPT !.inField = b].followed = p.followed
         /\ \A n \in Int : /\ [p EXCEPT !.idx = n] \in AnyPalette
                           /\ [p EXCEPT !.idx = n].told = p.told
                           /\ [p EXCEPT !.idx = n].followed = p.followed
         /\ \A n \in Int : [p EXCEPT !.idx = n, !.inField = FALSE] \in AnyPalette
         /\ \A q \in DOMAIN Hits :
              /\ [p EXCEPT !.q = q, !.idx = 0, !.shifted = FALSE] \in AnyPalette
              /\ [p EXCEPT !.q = q, !.idx = 0, !.shifted = FALSE].told = p.told
              /\ [p EXCEPT !.q = q, !.idx = 0, !.shifted = FALSE].followed = p.followed
<1>. USE DEF AnyPalette
<1>1. [p EXCEPT !.told = TRUE] \in AnyPalette /\ [p EXCEPT !.told = TRUE].told
  OBVIOUS
<1>2. /\ [p EXCEPT !.shifted = TRUE] \in AnyPalette /\ [p EXCEPT !.shifted = TRUE].told = p.told
      /\ [p EXCEPT !.shifted = TRUE].followed = p.followed
  OBVIOUS
<1>3. \A b \in BOOLEAN : /\ [p EXCEPT !.inField = b] \in AnyPalette
                         /\ [p EXCEPT !.inField = b].told = p.told
                         /\ [p EXCEPT !.inField = b].followed = p.followed
  OBVIOUS
<1>4. \A n \in Int : /\ [p EXCEPT !.idx = n] \in AnyPalette
                     /\ [p EXCEPT !.idx = n].told = p.told
                     /\ [p EXCEPT !.idx = n].followed = p.followed
                     /\ [p EXCEPT !.idx = n, !.inField = FALSE] \in AnyPalette
  OBVIOUS
<1>5. ASSUME NEW q \in DOMAIN Hits, NEW r, r = [p EXCEPT !.q = q, !.idx = 0, !.shifted = FALSE]
      PROVE  r \in AnyPalette /\ r.told = p.told /\ r.followed = p.followed
  <2>1. r = [q |-> q, idx |-> 0, told |-> p.told, followed |-> p.followed, shifted |-> FALSE,
             inField |-> p.inField]
    BY <1>5
  <2>. QED  BY <2>1
<1>. HIDE DEF AnyPalette
<1>. QED  BY <1>1, <1>2, <1>3, <1>4, <1>5

LEMMA BeginCloseOK ==
  ASSUME PaletteTold, NEW p \in AnyPalette, BeginClose(p)
  PROVE  PaletteTold' /\ pal' # Shut
<1>1. palExits' \in Nat
  BY DEF PaletteTold, BeginClose
<1>2. pal' \in AnyPalette /\ pal'.told
  BY PaletteOK DEF BeginClose
<1>. QED  BY <1>1, <1>2, ShutAssumption DEF PaletteTold, AnyPalette

\* A change that leaves what the palette was told.
LEMMA PaletteKept ==
  ASSUME PaletteTold, UNCHANGED palExits, pal # Shut,
         pal' \in AnyPalette, pal'.told = pal.told, pal'.followed = pal.followed
  PROVE  PaletteTold' /\ pal' # Shut
BY ShutAssumption DEF PaletteTold, AnyPalette

LEMMA BlurOK ==
  ASSUME PaletteTold, Blur, palExits' = palExits
  PROVE  PaletteTold' /\ (pal # Shut => pal' # Shut)
<1>1. CASE pal = Shut
  BY <1>1 DEF Blur, PaletteTold
<1>2. CASE pal # Shut
  BY <1>2, PaletteOK, PaletteKept DEF Blur, PaletteTold
<1>. QED  BY <1>1, <1>2

\* The palette, and what takes it away.
LEMMA PaletteStep ==
  ASSUME PaletteTold, [OverlaysNext]_overlayVars
  PROVE  /\ PaletteTold'
         /\ (pal # Shut /\ pal' = Shut) => pal.told \/ pal.followed \/ CtrlK
<1>1. CASE UNCHANGED paletteVars
  BY <1>1 DEF paletteVars, PaletteTold
<1>2. CASE TypeInEditor \/ ToggleMenu \/ Backdrop \/ Cancel \/ SaveEditor
  BY <1>2, BlurOK DEF TypeInEditor, ToggleMenu, Backdrop, Cancel, SaveEditor
<1>3. CASE CtrlK
  <2>1. Opened \in AnyPalette /\ Opened.followed = (palExits > 0)
    <3>1. (CHOOSE q \in DOMAIN Hits : Hits[q] = ToSet(Commands)) \in DOMAIN Hits
      BY OverlaysAssumption
    <3>. QED  BY <3>1 DEF Opened, AnyPalette
  <2>2. palExits' = palExits /\ pal' \in {Opened, Shut}
    BY <1>3 DEF CtrlK
  <2>. QED  BY <1>3, <2>1, <2>2 DEF PaletteTold
<1>4. CASE TypeQuery
  <2>1. PICK q \in DOMAIN Hits : pal' = [pal EXCEPT !.q = q, !.idx = 0, !.shifted = FALSE]
    BY <1>4 DEF TypeQuery, Requery
  <2>2. pal # Shut /\ palExits' = palExits
    BY <1>4 DEF TypeQuery
  <2>. QED  BY <2>1, <2>2, PaletteOK, PaletteKept DEF PaletteTold
<1>5. CASE Arrow
  <2>1. pal # Shut /\ palExits' = palExits /\ pal \in AnyPalette /\ pal.idx \in Int
    BY <1>5 DEF Arrow, PaletteTold, AnyPalette
  <2>2. PICK n \in Int : pal' = [pal EXCEPT !.idx = n]
    <3>. DEFINE last == Len(Results(pal)) - 1
    <3>1. pal' = [pal EXCEPT !.idx = IF last < pal.idx + 1 THEN last ELSE pal.idx + 1]
          \/ pal' = [pal EXCEPT !.idx = IF pal.idx - 1 < 0 THEN 0 ELSE pal.idx - 1]
      BY <1>5 DEF Arrow
    <3>2. last \in Int
      OBVIOUS
    <3>. HIDE DEF last
    <3>. QED  BY <2>1, <3>1, <3>2
  <2>. QED  BY <2>1, <2>2, PaletteOK, PaletteKept
<1>6. CASE PressEnter
  <2>1. pal # Shut /\ BeginClose(pal)
    BY <1>6 DEF PressEnter
  <2>. QED  BY <2>1, BeginCloseOK DEF PaletteTold
<1>7. CASE ClickCommand
  <2>1. PICK i \in 1..Len(Results(pal)) : BeginClose([pal EXCEPT !.idx = i - 1, !.inField = FALSE])
    BY <1>7 DEF ClickCommand
  <2>2. pal \in AnyPalette
    BY <1>7 DEF ClickCommand, PaletteTold
  <2>3. i - 1 \in Int
    BY <2>1
  <2>4. [pal EXCEPT !.idx = i - 1, !.inField = FALSE] \in AnyPalette
    BY <2>2, <2>3, PaletteOK
  <2>. QED  BY <2>1, <2>4, BeginCloseOK
<1>8. CASE ClickPalette
  <2>1. pal # Shut /\ pal \in AnyPalette
    BY <1>8 DEF ClickPalette, PaletteTold
  <2>2. CASE BeginClose([pal EXCEPT !.inField = FALSE])
    BY <2>1, <2>2, BeginCloseOK, PaletteOK
  <2>3. ASSUME NEW b \in BOOLEAN, pal' = [pal EXCEPT !.inField = b], UNCHANGED palExits
        PROVE  PaletteTold' /\ pal' # Shut
    BY <2>1, <2>3, PaletteOK, PaletteKept
  <2>. QED  BY <1>8, <2>2, <2>3 DEF ClickPalette
<1>9. CASE CloseEnds
  BY <1>9 DEF CloseEnds, PaletteTold
<1>10. CASE GatesMove
  <2>1. palExits' = palExits /\ pal' = IF pal = Shut THEN Shut ELSE [pal EXCEPT !.shifted = TRUE]
    BY <1>10 DEF GatesMove
  <2>2. CASE pal = Shut
    BY <2>1, <2>2 DEF PaletteTold
  <2>3. CASE pal # Shut
    BY <2>1, <2>3, PaletteOK, PaletteKept DEF PaletteTold
  <2>. QED  BY <2>2, <2>3
<1>11. CASE PressEscape
  <2>1. (pal # Shut /\ BeginClose(pal)) \/ UNCHANGED paletteVars
    BY <1>11 DEF PressEscape
  <2>2. CASE pal # Shut /\ BeginClose(pal)
    BY <2>2, BeginCloseOK DEF PaletteTold
  <2>3. CASE UNCHANGED paletteVars
    BY <1>1, <2>3 DEF paletteVars
  <2>. QED  BY <2>1, <2>2, <2>3
<1>12. CASE \/ OpenEditor \/ ExitEnds \/ ClickDelete \/ Disarm \/ PersistAnswers
            \/ UNCHANGED overlayVars
  BY <1>1, <1>12 DEF OpenEditor, ExitEnds, ClickDelete, Disarm, PersistAnswers, overlayVars, paletteVars
<1>. QED  BY <1>2, <1>3, <1>4, <1>5, <1>6, <1>7, <1>8, <1>9, <1>10, <1>11, <1>12 DEF OverlaysNext

-----------------------------------------------------------------------------
\* The editor.

\* The updates of an editor.
LEMMA EditorOK ==
  ASSUME NEW e \in Editor
  PROVE  /\ [e EXCEPT !.told = TRUE, !.menu = FALSE] \in Editor
         /\ [e EXCEPT !.told = TRUE, !.menu = FALSE].told
         /\ [e EXCEPT !.told = TRUE, !.menu = FALSE].followed = e.followed
         /\ \A f \in {[e EXCEPT !.typed = TRUE, !.menu = FALSE], [e EXCEPT !.menu = ~@],
                      [e EXCEPT !.menu = FALSE]} :
              f \in Editor /\ f.told = e.told /\ f.followed = e.followed
BY DEF Editor

LEMMA BeginExitOK ==
  ASSUME EditorTold, editor # Shut, BeginExit
  PROVE  EditorTold' /\ editor'.followed = editor.followed
<1>1. exits' \in Nat
  BY DEF EditorTold, BeginExit
<1>2. editor \in Editor /\ editor' = [editor EXCEPT !.told = TRUE, !.menu = FALSE]
  BY DEF EditorTold, BeginExit
<1>3. editor' \in Editor /\ editor'.told /\ editor'.followed = editor.followed
  BY <1>2, EditorOK
<1>. QED  BY <1>1, <1>3 DEF EditorTold

LEMMA EditorStep ==
  ASSUME EditorTold, [OverlaysNext]_overlayVars
  PROVE  EditorTold'
<1>1. CASE UNCHANGED editorVars
  BY <1>1 DEF editorVars, EditorTold
<1>2. CASE OpenEditor
  <2>1. /\ editor' = [typed |-> FALSE, menu |-> FALSE, told |-> FALSE,
                      followed |-> exits > 0 \/ persisting # <<>>]
        /\ exits' = exits
    BY <1>2 DEF OpenEditor
  <2>. QED  BY <2>1 DEF EditorTold, Editor
<1>3. CASE TypeInEditor \/ ToggleMenu \/ SaveEditor
  <2>1. /\ editor # Shut /\ exits' = exits
        /\ \/ editor' = [editor EXCEPT !.typed = TRUE, !.menu = FALSE]
           \/ editor' = [editor EXCEPT !.menu = ~@]
           \/ editor' = [editor EXCEPT !.menu = FALSE]
    BY <1>3 DEF TypeInEditor, ToggleMenu, SaveEditor
  <2>2. editor' \in Editor /\ editor'.told = editor.told /\ editor'.followed = editor.followed
    BY <2>1, EditorOK DEF EditorTold
  <2>. QED  BY <2>1, <2>2 DEF EditorTold
<1>4. CASE Backdrop
  BY <1>4, BeginExitOK DEF Backdrop
<1>5. CASE Cancel \/ ExitEnds
  BY <1>5 DEF Cancel, ExitEnds, EditorTold
<1>6. CASE PersistAnswers
  <2>1. exits' = exits /\ (editor' = Shut \/ editor' = editor)
    BY <1>6 DEF PersistAnswers
  <2>. QED  BY <2>1 DEF EditorTold
<1>7. CASE PressEnter \/ ClickCommand
  <2>1. (editor' = Shut /\ exits' = 0) \/ UNCHANGED editorVars
    BY <1>7 DEF PressEnter, ClickCommand, Run, LeaveScreen
  <2>. QED  BY <1>1, <2>1 DEF EditorTold
<1>8. CASE PressEscape
  <2>1. CASE editor = Shut
    BY <1>1, <1>8, <2>1 DEF PressEscape
  <2>2. CASE editor # Shut /\ editor.menu
    <3>1. editor' = [editor EXCEPT !.menu = FALSE] /\ exits' = exits
      BY <1>8, <2>2 DEF PressEscape
    <3>2. editor' \in Editor /\ editor'.told = editor.told /\ editor'.followed = editor.followed
      BY <2>2, <3>1, EditorOK DEF EditorTold
    <3>. QED  BY <2>2, <3>1, <3>2 DEF EditorTold
  <2>3. CASE editor # Shut /\ ~editor.menu
    <3>1. BeginExit
      BY <1>8, <2>3 DEF PressEscape
    <3>. QED  BY <2>3, <3>1, BeginExitOK
  <2>. QED  BY <2>1, <2>2, <2>3
<1>9. CASE \/ ClickDelete \/ Disarm \/ CtrlK \/ TypeQuery \/ Arrow \/ ClickPalette \/ CloseEnds \/ GatesMove
           \/ UNCHANGED overlayVars
  BY <1>1, <1>9 DEF ClickDelete, Disarm, CtrlK, TypeQuery, Arrow, ClickPalette, CloseEnds, GatesMove,
                    overlayVars, editorVars
<1>. QED  BY <1>2, <1>3, <1>4, <1>5, <1>6, <1>7, <1>8, <1>9 DEF OverlaysNext

-----------------------------------------------------------------------------
\* The calls.

\* The screen that is left takes its calls along.
LEMMA LeaveOK ==
  ASSUME CallsDelete, LeaveScreen
  PROVE  CallsDelete' /\ persisting' = <<>> /\ editor' = Shut
<1>1. \A c \in ToSet(persisting) : c.next \subseteq Rows
  <2>1. persisting \in Seq(CallType)
    BY DEF CallsDelete, CallType
  <2>2. \A i \in DOMAIN persisting : persisting[i] \in CallType
    BY <2>1
  <2>. QED  BY <2>2 DEF ToSet, CallType
<1>2. tunnelRows' \subseteq Rows
  BY <1>1 DEF CallsDelete, LeaveScreen
<1>3. taps' \in [Rows -> 0..2]
  BY DEF LeaveScreen
<1>4. /\ persisting' = <<>> /\ armed' = {} /\ mixed' = FALSE /\ editor' = Shut
  BY DEF LeaveScreen
<1>5. persisting' \in Seq([next : SUBSET Rows, own : BOOLEAN]) /\ Len(persisting') = 0
      /\ DOMAIN persisting' = {}
  BY <1>4
<1>6. armed' \subseteq tunnelRows' /\ (\A t \in armed' : taps'[t] > 0) /\ mixed' \in BOOLEAN
  BY <1>4
<1>7. /\ Len(persisting') <= 1
      /\ \A i \in DOMAIN persisting' : \A t \in tunnelRows' \ persisting'[i].next : taps'[t] = 2
  BY <1>5
<1>. QED  BY <1>2, <1>3, <1>4, <1>5, <1>6, <1>7 DEF CallsDelete

\* An answer: what was saved is the list now, or nothing is but the error.
LEMMA AnswerOK ==
  ASSUME CallsDelete, PersistAnswers
  PROVE  /\ CallsDelete'
         /\ (Len(persisting) = 1) => persisting' = <<>>
         /\ editor' # editor => /\ editor' = Shut /\ err' = err
                                /\ \E i \in DOMAIN persisting : tunnelRows' = persisting[i].next
<1>1. PICK i \in DOMAIN persisting :
        /\ \/ /\ persisting' = Orphans(RemoveAt(persisting, i))
              /\ tunnelRows' = persisting[i].next /\ armed' = ArmedIn(persisting[i].next)
              /\ editor' = Shut /\ err' = err
              /\ taps' = [t \in Rows |-> IF t \in persisting[i].next THEN taps[t] ELSE 0]
           \/ persisting' = RemoveAt(persisting, i) /\ UNCHANGED <<tunnelRows, armed, editor, taps>>
        /\ mixed' = (mixed /\ RemoveAt(persisting, i) # <<>>)
  BY DEF PersistAnswers
<1>. DEFINE rest == RemoveAt(persisting, i)
            next == persisting[i].next
<1>2. persisting \in Seq(CallType)
  BY DEF CallsDelete, CallType
<1>3. /\ rest \in Seq(CallType) /\ Len(rest) = Len(persisting) - 1
      /\ Len(persisting) = 1 <=> rest = <<>>
  BY <1>2, RemoveOK
<1>4. Orphans(rest) \in Seq(CallType) /\ (rest = <<>> => Orphans(rest) = <<>>)
  BY <1>3, OrphansOK
<1>5. next \subseteq Rows
  <2>1. persisting[i] \in CallType
    BY <1>2
  <2>. QED  BY <2>1 DEF CallType
<1>6. persisting' \in Seq(CallType) /\ (rest = <<>> => persisting' = <<>>)
  BY <1>1, <1>3, <1>4
<1>7. mixed' \in BOOLEAN /\ mixed' = (mixed /\ rest # <<>>)
  BY <1>1 DEF CallsDelete
<1>8. ~mixed' => persisting' = <<>>
  <2>1. CASE rest = <<>>
    BY <1>6, <2>1
  <2>2. CASE ~mixed /\ rest # <<>>
    <3>1. Len(persisting) <= 1 /\ Len(persisting) >= 1
      BY <1>2, <2>2 DEF CallsDelete
    <3>. QED  BY <1>2, <1>3, <2>2, <3>1
  <2>. QED  BY <1>7, <2>1, <2>2
<1>9. /\ taps' \in [Rows -> 0..2] /\ tunnelRows' \subseteq Rows /\ armed' \subseteq tunnelRows'
      /\ \A t \in armed' : taps'[t] > 0
  BY <1>1, <1>5 DEF CallsDelete, ArmedIn
<1>10. CallsDelete'
  BY <1>6, <1>7, <1>8, <1>9 DEF CallsDelete, CallType
<1>11. Len(persisting) = 1 => persisting' = <<>>
  BY <1>3, <1>6
<1>. QED  BY <1>1, <1>10, <1>11

LEMMA DeleteOK ==
  ASSUME CallsDelete, ClickDelete
  PROVE  CallsDelete'
<1>1. PICK t \in tunnelRows :
        /\ taps' = [taps EXCEPT ![t] = IF @ = 2 THEN 2 ELSE @ + 1]
        /\ IF t \in armed
           THEN Persist(tunnelRows \ {t}, FALSE) /\ UNCHANGED armed
           ELSE armed' = armed \cup {t} /\ UNCHANGED <<persisting, err, mixed>>
  BY DEF ClickDelete
<1>2. t \in Rows /\ tunnelRows' = tunnelRows
  BY DEF CallsDelete, ClickDelete
<1>3. /\ taps' \in [Rows -> 0..2] /\ taps'[t] > 0 /\ (taps[t] > 0 => taps'[t] = 2)
      /\ \A x \in Rows : (taps[x] > 0 => taps'[x] > 0) /\ (taps[x] = 2 => taps'[x] = 2)
  BY <1>1, <1>2 DEF CallsDelete
<1>4. CASE t \in armed
  <2>1. taps'[t] = 2
    BY <1>3, <1>4 DEF CallsDelete
  <2>2. tunnelRows \ {t} \in SUBSET Rows /\ Persist(tunnelRows \ {t}, FALSE) /\ armed' = armed
    BY <1>1, <1>4 DEF CallsDelete
  <2>3. /\ persisting' \in Seq(CallType) /\ mixed' \in BOOLEAN
        /\ ~mixed' => /\ Len(persisting') = 1 /\ DOMAIN persisting' = {1}
                      /\ persisting'[1].next = tunnelRows \ {t}
    BY <2>2, PersistOK
  <2>4. ASSUME ~mixed'
        PROVE  /\ Len(persisting') <= 1
               /\ \A i \in DOMAIN persisting' : \A x \in tunnelRows \ persisting'[i].next : taps'[x] = 2
    <3>1. /\ Len(persisting') = 1 /\ DOMAIN persisting' = {1}
          /\ persisting'[1].next = tunnelRows \ {t}
      BY <2>3, <2>4
    <3>. QED  BY <2>1, <3>1
  <2>5. \A x \in armed' : taps'[x] > 0
    BY <1>3, <2>2 DEF CallsDelete
  <2>. QED  BY <1>2, <1>3, <2>2, <2>3, <2>4, <2>5 DEF CallsDelete, CallType
<1>5. CASE t \notin armed
  <2>1. armed' = armed \cup {t} /\ UNCHANGED <<persisting, err, mixed>>
    BY <1>1, <1>5
  <2>2. \A x \in armed' : taps'[x] > 0
    BY <1>3, <2>1 DEF CallsDelete
  <2>. QED  BY <1>2, <1>3, <2>1, <2>2 DEF CallsDelete
<1>. QED  BY <1>4, <1>5

LEMMA DisarmOK ==
  ASSUME CallsDelete, Disarm
  PROVE  CallsDelete'
<1>1. PICK t \in armed : armed' = armed \ {t} /\ taps' = [taps EXCEPT ![t] = IF @ = 2 THEN 2 ELSE 0]
  BY DEF Disarm
<1>2. UNCHANGED <<tunnelRows, persisting, mixed>>
  BY DEF Disarm
<1>3. /\ taps' \in [Rows -> 0..2]
      /\ \A x \in Rows : (taps[x] = 2 => taps'[x] = 2) /\ (x # t => taps'[x] = taps[x])
  BY <1>1 DEF CallsDelete
<1>. QED  BY <1>1, <1>2, <1>3 DEF CallsDelete

LEMMA SaveOK ==
  ASSUME CallsDelete, SaveEditor
  PROVE  /\ CallsDelete' /\ err' = FALSE
         /\ persisting = <<>> => Len(persisting') = 1 /\ persisting'[1].own
<1>1. PICK t \in Rows : Persist(tunnelRows \cup {t}, TRUE)
  BY DEF SaveEditor
<1>2. tunnelRows \cup {t} \in SUBSET Rows
  BY DEF CallsDelete
<1>3. /\ persisting' \in Seq(CallType) /\ mixed' \in BOOLEAN /\ err' = FALSE
      /\ ~mixed' => persisting = <<>>
      /\ persisting = <<>> => /\ Len(persisting') = 1 /\ DOMAIN persisting' = {1}
                              /\ persisting'[1].next = tunnelRows \cup {t} /\ persisting'[1].own
  BY <1>1, <1>2, PersistOK
<1>4. UNCHANGED <<tunnelRows, armed, taps>>
  BY DEF SaveEditor
<1>5. ASSUME ~mixed'
      PROVE  /\ Len(persisting') <= 1
             /\ \A i \in DOMAIN persisting' : \A x \in tunnelRows \ persisting'[i].next : taps'[x] = 2
  <2>1. /\ Len(persisting') = 1 /\ DOMAIN persisting' = {1}
        /\ persisting'[1].next = tunnelRows \cup {t}
    BY <1>3, <1>5
  <2>. QED  BY <2>1
<1>. QED  BY <1>3, <1>4, <1>5 DEF CallsDelete, CallType

LEMMA CallsStep ==
  ASSUME CallsDelete, [OverlaysNext]_overlayVars
  PROVE  CallsDelete'
<1>1. CASE UNCHANGED <<tunnelRows, persisting, armed, taps, mixed>>
  BY <1>1 DEF CallsDelete
<1>2. CASE Cancel \/ ExitEnds
  <2>1. persisting \in Seq(CallType)
    BY DEF CallsDelete, CallType
  <2>2. persisting' = Orphans(persisting) /\ UNCHANGED <<tunnelRows, armed, taps, mixed>>
    BY <1>2 DEF Cancel, ExitEnds
  <2>3. /\ persisting' \in Seq(CallType) /\ Len(persisting') = Len(persisting)
        /\ \A i \in DOMAIN persisting : persisting'[i].next = persisting[i].next
    BY <2>1, <2>2, OrphansOK
  <2>4. DOMAIN persisting' = DOMAIN persisting
    BY <2>1, <2>3
  <2>. QED  BY <2>2, <2>3, <2>4 DEF CallsDelete, CallType
<1>3. CASE PressEnter \/ ClickCommand
  <2>1. LeaveScreen \/ UNCHANGED <<tunnelRows, persisting, armed, taps, mixed>>
    BY <1>3 DEF PressEnter, ClickCommand, Run
  <2>. QED  BY <1>1, <2>1, LeaveOK
<1>4. CASE SaveEditor \/ ClickDelete \/ Disarm \/ PersistAnswers
  BY <1>4, SaveOK, DeleteOK, DisarmOK, AnswerOK
<1>5. CASE \/ OpenEditor \/ TypeInEditor \/ ToggleMenu \/ Backdrop \/ CtrlK \/ TypeQuery \/ Arrow
           \/ ClickPalette \/ CloseEnds \/ GatesMove \/ PressEscape \/ UNCHANGED overlayVars
  BY <1>1, <1>5 DEF OpenEditor, TypeInEditor, ToggleMenu, Backdrop, CtrlK, TypeQuery, Arrow, ClickPalette,
                    CloseEnds, GatesMove, PressEscape, overlayVars
<1>. QED  BY <1>2, <1>3, <1>4, <1>5 DEF OverlaysNext

LEMMA OwnStep ==
  ASSUME EditorTold, CallsDelete, CallIsOwn, [OverlaysNext]_overlayVars
  PROVE  CallIsOwn'
<1>1. CASE editor' = Shut
  BY <1>1 DEF CallIsOwn
<1>2. ASSUME editor # Shut, editor'.followed = editor.followed, UNCHANGED <<persisting, err>>
      PROVE  CallIsOwn'
  BY <1>2 DEF CallIsOwn
<1>3. CASE OpenEditor
  <2>1. editor'.followed = (exits > 0 \/ persisting # <<>>) /\ persisting' = persisting
    BY <1>3 DEF OpenEditor
  <2>. QED  BY <2>1 DEF CallIsOwn
<1>4. CASE TypeInEditor \/ ToggleMenu
  <2>1. /\ editor # Shut /\ UNCHANGED <<persisting, err>>
        /\ \/ editor' = [editor EXCEPT !.typed = TRUE, !.menu = FALSE]
           \/ editor' = [editor EXCEPT !.menu = ~@]
    BY <1>4 DEF TypeInEditor, ToggleMenu
  <2>2. editor \in Editor
    BY <2>1 DEF EditorTold
  <2>3. editor'.followed = editor.followed
    BY <2>1, <2>2, EditorOK
  <2>. QED  BY <1>2, <2>1, <2>3
<1>5. CASE Backdrop
  BY <1>2, <1>5, BeginExitOK DEF Backdrop
<1>6. CASE SaveEditor
  <2>1. /\ editor # Shut /\ editor' = [editor EXCEPT !.menu = FALSE]
        /\ \A i \in DOMAIN persisting : ~persisting[i].own
    BY <1>6 DEF SaveEditor, ToSet
  <2>2. editor'.followed = editor.followed
    BY <2>1, EditorOK DEF EditorTold
  <2>3. ~editor.followed => persisting = <<>>
    <3>1. persisting \in Seq(CallType)
      BY DEF CallsDelete, CallType
    <3>2. Len(persisting) = 1 => 1 \in DOMAIN persisting
      BY <3>1
    <3>. QED  BY <2>1, <3>2 DEF CallIsOwn
  <2>. QED  BY <1>6, <2>2, <2>3, SaveOK DEF CallIsOwn
<1>7. CASE PersistAnswers
  <2>1. editor' = Shut \/ editor' = editor
    BY <1>7, AnswerOK
  <2>2. CASE editor' = editor
    <3>1. persisting = <<>> => FALSE
      BY <1>7 DEF PersistAnswers
    <3>2. Len(persisting) = 1 => persisting' = <<>>
      BY <1>7, AnswerOK
    <3>. QED  BY <2>2, <3>1, <3>2 DEF CallIsOwn
  <2>. QED  BY <1>1, <2>1, <2>2
<1>8. CASE Cancel \/ ExitEnds
  BY <1>1, <1>8 DEF Cancel, ExitEnds
<1>9. CASE PressEnter \/ ClickCommand
  <2>1. LeaveScreen \/ UNCHANGED <<editorVars, persisting, err>>
    BY <1>9 DEF PressEnter, ClickCommand, Run
  <2>2. CASE LeaveScreen
    BY <1>1, <2>2, LeaveOK
  <2>3. CASE UNCHANGED <<editorVars, persisting, err>>
    BY <2>3 DEF editorVars, CallIsOwn
  <2>. QED  BY <2>1, <2>2, <2>3
<1>10. CASE ClickDelete
  <2>1. editor = Shut /\ editor' = editor
    BY <1>10 DEF ClickDelete, Uncovered, editorVars
  <2>. QED  BY <1>1, <2>1
<1>11. CASE PressEscape
  <2>1. UNCHANGED <<persisting, err>>
    BY <1>11 DEF PressEscape
  <2>2. CASE editor = Shut
    BY <1>1, <1>11, <2>2 DEF PressEscape, editorVars
  <2>3. CASE editor # Shut /\ editor.menu
    <3>1. editor' = [editor EXCEPT !.menu = FALSE]
      BY <1>11, <2>3 DEF PressEscape
    <3>2. editor'.followed = editor.followed
      BY <2>3, <3>1, EditorOK DEF EditorTold
    <3>. QED  BY <1>2, <2>1, <2>3, <3>2
  <2>4. CASE editor # Shut /\ ~editor.menu
    <3>1. BeginExit
      BY <1>11, <2>4 DEF PressEscape
    <3>. QED  BY <1>2, <2>1, <2>4, <3>1, BeginExitOK
  <2>. QED  BY <2>2, <2>3, <2>4
<1>12. CASE \/ Disarm \/ CtrlK \/ TypeQuery \/ Arrow \/ ClickPalette \/ CloseEnds \/ GatesMove
            \/ UNCHANGED overlayVars
  <2>1. UNCHANGED <<editor, persisting, err>>
    BY <1>12 DEF Disarm, CtrlK, TypeQuery, Arrow, ClickPalette, CloseEnds, GatesMove, editorVars, overlayVars
  <2>. QED  BY <2>1 DEF CallIsOwn
<1>. QED  BY <1>3, <1>4, <1>5, <1>6, <1>7, <1>8, <1>9, <1>10, <1>11, <1>12 DEF OverlaysNext

LEMMA OverlaysInvInit == OverlaysInit => OverlaysInv
<1>. SUFFICES ASSUME OverlaysInit PROVE OverlaysInv
  OBVIOUS
<1>1. PaletteTold /\ EditorTold /\ CallIsOwn
  BY DEF OverlaysInit, PaletteTold, EditorTold, CallIsOwn
<1>2. persisting = <<>> /\ taps \in [Rows -> 0..2] /\ tunnelRows = Rows /\ armed = {} /\ mixed = FALSE
  BY DEF OverlaysInit
<1>3. persisting \in Seq([next : SUBSET Rows, own : BOOLEAN]) /\ Len(persisting) = 0 /\ DOMAIN persisting = {}
  BY <1>2
<1>4. CallsDelete
  <2>1. Len(persisting) <= 1
    BY <1>3
  <2>. QED  BY <1>2, <1>3, <2>1 DEF CallsDelete
<1>. QED  BY <1>1, <1>4 DEF OverlaysInv

LEMMA OverlaysInvStep == OverlaysInv /\ [OverlaysNext]_overlayVars => OverlaysInv'
BY PaletteStep, EditorStep, CallsStep, OwnStep DEF OverlaysInv

-----------------------------------------------------------------------------
\* What no step of the overlays does.

LEMMA EditorCloses ==
  ASSUME OverlaysInv, [OverlaysNext]_overlayVars, editor # Shut, editor' = Shut
  PROVE  \/ editor.told \/ editor.followed \/ Cancel \/ PressEnter \/ ClickCommand
         \/ ~err' /\ \E c \in ToSet(persisting) : c.own /\ tunnelRows' = c.next
<1>. USE DEF OverlaysInv
<1>0. editor \in Editor
  BY DEF EditorTold
<1>1. CASE ExitEnds
  BY <1>1 DEF ExitEnds, EditorTold
<1>2. CASE PersistAnswers
  <2>1. /\ err' = err
        /\ \E i \in DOMAIN persisting : tunnelRows' = persisting[i].next
    BY <1>2, AnswerOK
  <2>2. PICK i \in DOMAIN persisting : tunnelRows' = persisting[i].next
    BY <2>1
  <2>3. persisting \in Seq(CallType)
    BY DEF CallsDelete, CallType
  <2>4. CASE ~editor.followed
    <3>1. persisting # <<>>
      BY <2>2, <2>3
    <3>2. Len(persisting) = 1 /\ persisting[1].own /\ ~err
      BY <2>4, <3>1 DEF CallIsOwn
    <3>3. i = 1
      BY <2>2, <2>3, <3>2
    <3>4. persisting[i] \in ToSet(persisting)
      BY <2>2 DEF ToSet
    <3>. QED  BY <2>1, <2>2, <3>2, <3>3, <3>4
  <2>. QED  BY <2>4
<1>3. CASE TypeInEditor \/ ToggleMenu \/ SaveEditor
  <2>1. \/ editor' = [editor EXCEPT !.typed = TRUE, !.menu = FALSE]
        \/ editor' = [editor EXCEPT !.menu = ~@]
        \/ editor' = [editor EXCEPT !.menu = FALSE]
    BY <1>3 DEF TypeInEditor, ToggleMenu, SaveEditor
  <2>2. editor' \in Editor
    BY <1>0, <2>1, EditorOK
  <2>. QED  BY <2>2, ShutAssumption
<1>4. CASE Backdrop
  <2>1. editor' \in Editor
    BY <1>0, <1>4, EditorOK DEF Backdrop, BeginExit
  <2>. QED  BY <2>1, ShutAssumption
<1>5. CASE PressEscape
  <2>1. editor' \in {[editor EXCEPT !.told = TRUE, !.menu = FALSE], [editor EXCEPT !.menu = FALSE]}
    BY <1>5 DEF PressEscape, BeginExit
  <2>2. editor' \in Editor
    BY <1>0, <2>1, EditorOK
  <2>. QED  BY <2>2, ShutAssumption
<1>6. CASE \/ OpenEditor \/ ClickDelete \/ Disarm \/ CtrlK \/ TypeQuery \/ Arrow \/ ClickPalette \/ CloseEnds
           \/ GatesMove \/ UNCHANGED overlayVars
  BY <1>6 DEF OpenEditor, Uncovered, ClickDelete, Disarm, CtrlK, TypeQuery, Arrow, ClickPalette, CloseEnds,
              GatesMove, editorVars, overlayVars
<1>. QED  BY <1>1, <1>2, <1>3, <1>4, <1>5, <1>6 DEF OverlaysNext

LEMMA DeletesStep ==
  ASSUME OverlaysInv, [OverlaysNext]_overlayVars, NEW t \in tunnelRows \ tunnelRows'
  PROVE  taps[t] = 2 \/ mixed
<1>1. CASE \E i \in DOMAIN persisting : tunnelRows' = persisting[i].next
  BY <1>1 DEF OverlaysInv, CallsDelete
<1>2. CASE PersistAnswers
  <2>1. \/ \E i \in DOMAIN persisting : tunnelRows' = persisting[i].next
        \/ tunnelRows' = tunnelRows
    BY <1>2 DEF PersistAnswers
  <2>. QED  BY <1>1, <2>1
<1>3. CASE PressEnter \/ ClickCommand
  <2>1. \/ tunnelRows' \in {tunnelRows} \cup {c.next : c \in ToSet(persisting)}
        \/ tunnelRows' = tunnelRows
    BY <1>3 DEF PressEnter, ClickCommand, Run, LeaveScreen
  <2>. QED  BY <1>1, <2>1 DEF ToSet
<1>4. CASE \/ OpenEditor \/ TypeInEditor \/ ToggleMenu \/ Backdrop \/ Cancel \/ ExitEnds \/ SaveEditor
           \/ ClickDelete \/ Disarm \/ CtrlK \/ TypeQuery \/ Arrow \/ ClickPalette \/ CloseEnds \/ GatesMove
           \/ PressEscape \/ UNCHANGED overlayVars
  BY <1>4 DEF OpenEditor, TypeInEditor, ToggleMenu, Backdrop, Cancel, ExitEnds, SaveEditor, ClickDelete,
              Disarm, CtrlK, TypeQuery, Arrow, ClickPalette, CloseEnds, GatesMove, PressEscape, overlayVars
<1>. QED  BY <1>2, <1>3, <1>4 DEF OverlaysNext

LEMMA ShieldStep ==
  PressEscape /\ editor # Shut /\ editor.menu => editor' = [editor EXCEPT !.menu = FALSE]
BY DEF PressEscape

-----------------------------------------------------------------------------
(* The tail of events.                                                     *)

\* The loop of eventRing.since has a result, and each round adds to that before it.
LEMMA SinceRounds ==
  ASSUME ring \in Seq(Event), NEW n
  PROVE  \E out :
           /\ Since(n) = out[Len(ring)] /\ out[0] = <<>>
           /\ \A i \in 1..Len(ring) :
                out[i] = IF ring[i].seq > n THEN Append(out[i - 1], ring[i]) ELSE out[i - 1]
<1>. DEFINE N == Len(ring)
            Round(f, i) == IF i = 0 THEN <<>>
                           ELSE IF ring[i].seq > n THEN Append(f[i - 1], ring[i]) ELSE f[i - 1]
            Runs(k) == \E f : f = [i \in 0..k |-> Round(f, i)]
            out == CHOOSE f : f = [i \in 0..N |-> Round(f, i)]
<1>1. N \in Nat
  OBVIOUS
<1>. HIDE DEF N
<1>2. Runs(0)
  <2>. DEFINE f == [i \in 0..0 |-> <<>>]
  <2>1. f = [i \in 0..0 |-> Round(f, i)]
    OBVIOUS
  <2>. QED  BY <2>1
<1>3. ASSUME NEW k \in Nat, Runs(k)  PROVE Runs(k + 1)
  <2>1. PICK f : f = [i \in 0..k |-> Round(f, i)]
    BY <1>3
  <2>. DEFINE g == [i \in 0..(k + 1) |-> IF i = k + 1 THEN Round(f, i) ELSE f[i]]
  <2>2. ASSUME NEW i \in 0..(k + 1)  PROVE g[i] = Round(g, i)
    <3>1. i # 0 => i - 1 \in 0..k /\ i - 1 \in 0..(k + 1) /\ i - 1 # k + 1
      OBVIOUS
    <3>2. i # 0 => g[i - 1] = f[i - 1]
      BY <3>1
    <3>3. Round(g, i) = Round(f, i)
      BY <3>2
    <3>4. CASE i = k + 1
      BY <3>3, <3>4
    <3>5. CASE i # k + 1
      <4>1. i \in 0..k
        BY <3>5
      <4>2. f[i] = Round(f, i)
        BY <2>1, <4>1
      <4>. QED  BY <3>3, <3>5, <4>2
    <3>. QED  BY <3>4, <3>5
  <2>3. g = [i \in 0..(k + 1) |-> g[i]]
    OBVIOUS
  <2>. HIDE DEF g
  <2>4. g = [i \in 0..(k + 1) |-> Round(g, i)]
    BY <2>2, <2>3
  <2>. QED  BY <2>4
<1>4. Runs(N)
  <2>. SUFFICES ASSUME {k \in Nat : ~Runs(k)} # {}  PROVE FALSE
    BY <1>1
  <2>. HIDE DEF Runs
  <2>1. PICK k \in {k \in Nat : ~Runs(k)} : \A j \in {m \in Nat : ~Runs(m)} : k <= j
    BY LeastNat
  <2>2. k # 0
    BY <1>2, <2>1
  <2>3. k - 1 \in Nat /\ Runs(k - 1)
    BY <2>1, <2>2
  <2>. QED  BY <1>3, <2>1, <2>3
<1>5. out = [i \in 0..N |-> Round(out, i)]
  BY <1>4
<1>6. Since(n) = out[Len(ring)]
  BY DEF Since, N
<1>. HIDE DEF out
<1>7. \A i \in 0..N : out[i] = Round(out, i)
  BY <1>5
<1>8. WITNESS out
<1>. QED  BY <1>1, <1>6, <1>7 DEF N

\* A pull gets what the ring has of later events, and nothing else.
LEMMA SinceIs ==
  ASSUME ring \in Seq(Event), NEW n
  PROVE  /\ Since(n) \in Seq(Event)
         /\ ToSet(Since(n)) = {e \in ToSet(ring) : e.seq > n}
<1>1. PICK out :
         /\ Since(n) = out[Len(ring)] /\ out[0] = <<>>
         /\ \A i \in 1..Len(ring) :
              out[i] = IF ring[i].seq > n THEN Append(out[i - 1], ring[i]) ELSE out[i - 1]
  BY SinceRounds
<1>. DEFINE N == Len(ring)
            Done(i) == /\ out[i] \in Seq(Event)
                       /\ ToSet(out[i]) = {ring[j] : j \in {m \in 1..i : ring[m].seq > n}}
<1>2. N \in Nat /\ \A i \in 1..N : ring[i] \in Event
  OBVIOUS
<1>3. Done(0)
  BY <1>1 DEF ToSet
<1>4. ASSUME NEW i \in 1..N, Done(i - 1)  PROVE Done(i)
  <2>. DEFINE old == out[i - 1]
  <2>1. old \in Seq(Event) /\ ring[i] \in Event
    BY <1>2, <1>4
  <2>2. ToSet(Append(old, ring[i])) = ToSet(old) \cup {ring[i]}
    <3>1. /\ Len(Append(old, ring[i])) = Len(old) + 1
          /\ \A j \in 1..Len(old) : Append(old, ring[i])[j] = old[j]
          /\ Append(old, ring[i])[Len(old) + 1] = ring[i]
          /\ DOMAIN Append(old, ring[i]) = 1..(Len(old) + 1) /\ DOMAIN old = 1..Len(old)
      BY <2>1
    <3>2. Len(old) \in Nat
      BY <2>1
    <3>3. 1..(Len(old) + 1) = (1..Len(old)) \cup {Len(old) + 1}
      BY <3>2
    <3>. QED  BY <3>1, <3>3 DEF ToSet
  <2>3. out[i] = IF ring[i].seq > n THEN Append(old, ring[i]) ELSE old
    BY <1>1
  <2>4. 1..i = (1..(i - 1)) \cup {i}
    OBVIOUS
  <2>5. CASE ring[i].seq > n
    <3>1. {m \in 1..i : ring[m].seq > n} = {m \in 1..(i - 1) : ring[m].seq > n} \cup {i}
      BY <2>4, <2>5
    <3>2. out[i] = Append(old, ring[i])
      BY <2>3, <2>5
    <3>3. out[i] \in Seq(Event)
      BY <2>1, <3>2
    <3>. QED  BY <1>4, <2>2, <3>1, <3>2, <3>3
  <2>6. CASE ~(ring[i].seq > n)
    <3>1. {m \in 1..i : ring[m].seq > n} = {m \in 1..(i - 1) : ring[m].seq > n}
      BY <2>4, <2>6
    <3>. QED  BY <1>4, <2>3, <2>6, <3>1
  <2>. QED  BY <2>5, <2>6
<1>5. Done(N)
  <2>. SUFFICES ASSUME ~Done(N)  PROVE FALSE
    OBVIOUS
  <2>. DEFINE Undone == {i \in 0..N : ~Done(i)}
  <2>. HIDE DEF Done, N
  <2>1. Undone \in SUBSET Nat /\ Undone # {}
    BY <1>2
  <2>2. PICK i \in Undone : \A j \in Undone : i <= j
    BY <2>1, LeastNat
  <2>3. i # 0
    BY <1>3, <2>2
  <2>4. i \in 1..N /\ i - 1 \in 0..N /\ ~(i <= i - 1)
    BY <1>2, <2>2, <2>3
  <2>5. Done(i - 1)
    BY <2>2, <2>4
  <2>. QED  BY <1>4, <2>2, <2>4, <2>5
<1>6. {ring[j] : j \in {m \in 1..N : ring[m].seq > n}} = {e \in ToSet(ring) : e.seq > n}
  BY DEF ToSet
<1>. QED  BY <1>1, <1>5, <1>6

\* What the tail or the ring keeps of s.
LEMMA NewestIs ==
  ASSUME NEW S, NEW s \in Seq(S), NEW cap \in Nat \ {0}
  PROVE  /\ Newest(s, cap) \in Seq(S) /\ Len(Newest(s, cap)) <= cap
         /\ ToSet(Newest(s, cap)) \subseteq ToSet(s)
         /\ Len(Newest(s, cap)) < cap => Newest(s, cap) = s
<1>1. /\ Len(s) \in Nat /\ DOMAIN s = 1..Len(s)
      /\ \A i \in 1..Len(s) : s[i] \in S
  OBVIOUS
<1>2. CASE Len(s) > cap
  <2>. DEFINE first == Len(s) - cap + 1
              t == SubSeq(s, first, Len(s))
  <2>1. first \in Int /\ first \in 2..Len(s) /\ Len(s) - first + 1 = cap
    BY <1>1, <1>2
  <2>2. \A i \in first..Len(s) : s[i] \in S
    BY <1>1, <2>1
  <2>. HIDE DEF first
  <2>3. /\ t \in Seq(S) /\ Len(t) = cap
        /\ \A i \in 1..cap : t[i] = s[first + i - 1]
    BY <1>1, <2>1, <2>2, SubSeqProperties
  <2>4. \A i \in 1..cap : first + i - 1 \in 1..Len(s)
    BY <1>1, <2>1
  <2>5. DOMAIN t = 1..cap
    BY <2>3
  <2>. HIDE DEF t
  <2>6. ToSet(t) \subseteq ToSet(s)
    BY <1>1, <2>3, <2>4, <2>5 DEF ToSet
  <2>7. Newest(s, cap) = t
    BY <1>2 DEF Newest, t, first
  <2>. QED  BY <2>3, <2>6, <2>7
<1>3. CASE ~(Len(s) > cap)
  <2>1. SubSeq(s, 1, Len(s)) = s
    BY <1>1
  <2>2. Newest(s, cap) = s
    BY <1>3, <2>1 DEF Newest
  <2>. QED  BY <1>1, <1>3, <2>2
<1>. QED  BY <1>2, <1>3

LEMMA Joined ==
  ASSUME NEW S, NEW s \in Seq(S), NEW t \in Seq(S)
  PROVE  /\ s \o t \in Seq(S) /\ ToSet(s \o t) = ToSet(s) \cup ToSet(t)
         /\ Len(s \o t) = Len(s) + Len(t)
         /\ ToSet(s) \subseteq S
         /\ t # <<>> => Last(t) \in ToSet(t)
<1>1. /\ Len(s \o t) = Len(s) + Len(t) /\ Len(s) \in Nat /\ Len(t) \in Nat
      /\ \A i \in 1..Len(s) : (s \o t)[i] = s[i]
      /\ \A i \in 1..Len(t) : (s \o t)[Len(s) + i] = t[i]
      /\ DOMAIN (s \o t) = 1..(Len(s) + Len(t)) /\ DOMAIN s = 1..Len(s) /\ DOMAIN t = 1..Len(t)
  OBVIOUS
<1>2. \A i \in 1..(Len(s) + Len(t)) : i \in 1..Len(s) \/ (i - Len(s) \in 1..Len(t) /\ i = Len(s) + (i - Len(s)))
  BY <1>1
<1>3. ToSet(s \o t) = ToSet(s) \cup ToSet(t)
  <2>1. ToSet(s \o t) \subseteq ToSet(s) \cup ToSet(t)
    BY <1>1, <1>2 DEF ToSet
  <2>2. ToSet(s) \cup ToSet(t) \subseteq ToSet(s \o t)
    <3>1. \A i \in 1..Len(t) : Len(s) + i \in 1..(Len(s) + Len(t))
      BY <1>1
    <3>2. \A i \in 1..Len(s) : i \in 1..(Len(s) + Len(t))
      BY <1>1
    <3>. QED  BY <1>1, <3>1, <3>2 DEF ToSet
  <2>. QED  BY <2>1, <2>2
<1>4. t # <<>> => Last(t) \in ToSet(t)
  <2>1. t # <<>> => Len(t) \in DOMAIN t
    OBVIOUS
  <2>. QED  BY <2>1 DEF ToSet, Last
<1>5. ToSet(s) \subseteq S
  BY DEF ToSet
<1>6. s \o t \in Seq(S)
  OBVIOUS
<1>. QED  BY <1>1, <1>3, <1>4, <1>5, <1>6

-----------------------------------------------------------------------------
\* Sequence numbers only rise while the gateway runs, and nobody listens to a screen that
\* is closed.
NothingLater ==
  /\ \A e \in ToSet(ring) : e.seq <= nextSeq
  /\ \A p \in pulls : p.alive => open
  /\ (open /\ ~restarted) =>
       /\ \A e \in ToSet(tail) : e.seq <= nextSeq
       /\ \A p \in pulls : p.alive => \A e \in ToSet(p.got) : e.seq <= nextSeq

\* A list that is not full has all that is retained up to its newest event; where the
\* cursor is, and where a pull began, is an event of the list; and a pull got all that
\* is retained between its beginning and its newest event.
NoGap ==
  (open /\ ~restarted /\ Len(tail) < EventsCap) =>
    /\ \A e \in ToSet(ring), g \in ToSet(tail) : e.seq <= g.seq => e \in ToSet(tail)
    /\ cursor = 0 \/ \E g \in ToSet(tail) : g.seq = cursor
    /\ \A p \in pulls : p.alive =>
         /\ p.since = 0 \/ \E g \in ToSet(tail) : g.seq = p.since
         /\ \A e \in ToSet(ring), g \in ToSet(p.got) :
              p.since < e.seq /\ e.seq <= g.seq => e \in ToSet(p.got)

TailInv == TailTypeOK /\ NothingLater /\ NoGap

LEMMA TailInvInit == TailInit => TailInv
<1>1. ToSet(<<>>) = {}
  BY DEF ToSet
<1>2. <<>> \in Seq(Event) /\ Len(<<>>) = 0
  OBVIOUS
<1>. SUFFICES ASSUME TailInit  PROVE TailInv
  OBVIOUS
<1>3. TailTypeOK
  <2>1. 1 \in 1..MaxRuns /\ 0 \in 0..MaxEvents /\ 0 <= RingCap /\ 0 <= EventsCap
    BY TailAssumption
  <2>. QED  BY <1>2, <2>1 DEF TailInit, TailTypeOK
<1>4. NothingLater
  BY <1>1 DEF TailInit, NothingLater
<1>5. NoGap
  BY DEF TailInit, NoGap
<1>. QED  BY <1>3, <1>4, <1>5 DEF TailInv

PullType == [since : 0..MaxEvents, got : Seq(Event), alive : BOOLEAN, read : BOOLEAN]

LEMMA RaiseKeeps == TailInv /\ Raise => TailInv'
<1>. SUFFICES ASSUME TailInv, Raise  PROVE TailInv'
  OBVIOUS
<1>1. PICK c \in Conflicts : ring' = Newest(Append(ring, [seq |-> nextSeq', of |-> c]), RingCap)
  BY DEF Raise
<1>. DEFINE e == [seq |-> nextSeq', of |-> c]
<1>2. nextSeq \in Nat /\ nextSeq' = nextSeq + 1 /\ nextSeq' \in 1..MaxEvents /\ e \in Event /\ e.seq = nextSeq + 1
  BY TailAssumption DEF Raise, TailInv, TailTypeOK, Event
<1>3. UNCHANGED <<run, open, tail, cursor, pulls, dismissed, restarted>>
  BY DEF Raise
<1>. HIDE DEF e
<1>4. /\ Append(ring, e) \in Seq(Event)
      /\ ToSet(Append(ring, e)) = ToSet(ring) \cup {e}
  <2>. DEFINE one == <<e>>
  <2>1. Append(ring, e) = ring \o one /\ one \in Seq(Event) /\ ring \in Seq(Event)
    BY <1>2 DEF TailInv, TailTypeOK
  <2>2. ToSet(one) = {e}
    BY DEF ToSet
  <2>. HIDE DEF one
  <2>3. ring \o one \in Seq(Event) /\ ToSet(ring \o one) = ToSet(ring) \cup ToSet(one)
    BY <2>1, Joined
  <2>. QED  BY <2>1, <2>2, <2>3
<1>5. /\ ring' \in Seq(Event) /\ Len(ring') <= RingCap
      /\ ToSet(ring') \subseteq ToSet(ring) \cup {e}
  <2>1. ring' = Newest(Append(ring, e), RingCap)
    BY <1>1 DEF e
  <2>. QED  BY <1>4, <2>1, NewestIs, TailAssumption
<1>6. TailTypeOK'
  BY <1>2, <1>3, <1>5 DEF TailInv, TailTypeOK
<1>7. ToSet(ring) \subseteq Event /\ ToSet(tail) \subseteq Event /\ \A p \in pulls : ToSet(p.got) \subseteq Event
  BY Joined DEF TailInv, TailTypeOK
<1>8. \A x \in Event : x.seq \in Nat
  BY DEF Event
<1>9. NothingLater'
  BY <1>2, <1>3, <1>5, <1>7, <1>8 DEF TailInv, NothingLater
<1>10. NoGap'
  <2>. SUFFICES ASSUME open, ~restarted, Len(tail) < EventsCap  PROVE NoGap'
    BY <1>3 DEF NoGap
  <2>1. \A x \in ToSet(ring'), g \in ToSet(tail) : x.seq <= g.seq => x \in ToSet(ring)
    BY <1>2, <1>5, <1>7, <1>8 DEF TailInv, NothingLater
  <2>2. \A p \in pulls : p.alive =>
          \A x \in ToSet(ring'), g \in ToSet(p.got) : x.seq <= g.seq => x \in ToSet(ring)
    BY <1>2, <1>5, <1>7, <1>8 DEF TailInv, NothingLater
  <2>. QED  BY <1>3, <2>1, <2>2 DEF TailInv, NoGap
<1>. QED  BY <1>6, <1>9, <1>10 DEF TailInv

LEMMA RestartKeeps == TailInv /\ RestartGateway => TailInv'
<1>1. ToSet(<<>>) = {} /\ <<>> \in Seq(Event) /\ Len(<<>>) = 0
  BY DEF ToSet
<1>. SUFFICES ASSUME TailInv, RestartGateway  PROVE TailInv'
  OBVIOUS
<1>2. TailTypeOK'
  BY <1>1, TailAssumption DEF TailInv, TailTypeOK, RestartGateway
<1>3. NothingLater'
  BY <1>1 DEF TailInv, NothingLater, RestartGateway
<1>4. NoGap'
  BY DEF NoGap, RestartGateway
<1>. QED  BY <1>2, <1>3, <1>4 DEF TailInv

LEMMA ReadKeeps == TailInv /\ GatewayReads => TailInv'
<1>. SUFFICES ASSUME TailInv, GatewayReads  PROVE TailInv'
  OBVIOUS
<1>1. PICK p \in pulls :
        /\ ~p.read
        /\ pulls' = (pulls \ {p}) \cup {[p EXCEPT !.got = Since(p.since), !.read = TRUE]}
  BY DEF GatewayReads
<1>. DEFINE q == [p EXCEPT !.got = Since(p.since), !.read = TRUE]
<1>2. UNCHANGED <<run, ring, nextSeq, open, tail, cursor, dismissed, restarted>>
  BY DEF GatewayReads
<1>3. Since(p.since) \in Seq(Event) /\ ToSet(Since(p.since)) = {e \in ToSet(ring) : e.seq > p.since}
  BY SinceIs DEF TailInv, TailTypeOK
<1>4. /\ q \in PullType /\ q.alive = p.alive /\ q.since = p.since
      /\ ToSet(q.got) = {e \in ToSet(ring) : e.seq > p.since}
  BY <1>3 DEF TailInv, TailTypeOK, PullType
<1>. HIDE DEF q
<1>5. pulls' \subseteq pulls \cup {q}
  BY <1>1 DEF q
<1>6. TailTypeOK'
  BY <1>2, <1>4, <1>5 DEF TailInv, TailTypeOK, PullType
<1>7. NothingLater'
  BY <1>2, <1>4, <1>5 DEF TailInv, NothingLater
<1>8. NoGap'
  <2>1. ToSet(ring) \subseteq Event /\ p.since \in Nat
    BY Joined DEF TailInv, TailTypeOK
  <2>2. \A e \in ToSet(ring) : p.since < e.seq => e \in ToSet(q.got)
    BY <1>4, <2>1 DEF Event
  <2>. QED  BY <1>2, <1>4, <1>5, <2>2 DEF TailInv, NoGap
<1>. QED  BY <1>6, <1>7, <1>8 DEF TailInv

\* What a pull that begins now knows.
LEMMA PullBegins ==
  ASSUME TailInv, NEW n \in 0..MaxEvents
  PROVE  /\ Pull(n) \in PullType /\ Pull(n).since = n /\ Pull(n).alive /\ ToSet(Pull(n).got) = {}
<1>1. ToSet(<<>>) = {} /\ <<>> \in Seq(Event)
  BY DEF ToSet
<1>. QED  BY <1>1 DEF Pull, PullType

LEMMA OpenKeeps == TailInv /\ OpenAgents => TailInv'
<1>1. ToSet(<<>>) = {} /\ <<>> \in Seq(Event) /\ Len(<<>>) = 0
  BY DEF ToSet
<1>. SUFFICES ASSUME TailInv, OpenAgents  PROVE TailInv'
  OBVIOUS
<1>2. /\ Pull(0) \in PullType /\ Pull(0).since = 0 /\ Pull(0).alive /\ ToSet(Pull(0).got) = {}
  BY PullBegins, TailAssumption
<1>3. \A p \in pulls : ~p.alive
  BY DEF OpenAgents, TailInv, NothingLater
<1>4. TailTypeOK'
  <2>1. 0 \in 0..MaxEvents /\ 0 <= EventsCap
    BY TailAssumption
  <2>2. pulls' \subseteq PullType
    BY <1>2 DEF TailInv, TailTypeOK, OpenAgents, PullType
  <2>. QED  BY <1>1, <2>1, <2>2 DEF TailInv, TailTypeOK, OpenAgents, PullType
<1>5. NothingLater'
  BY <1>1, <1>2, <1>3 DEF TailInv, NothingLater, OpenAgents
<1>6. NoGap'
  BY <1>1, <1>2, <1>3 DEF NoGap, OpenAgents
<1>. QED  BY <1>4, <1>5, <1>6 DEF TailInv

LEMMA CloseKeeps == TailInv /\ CloseAgents => TailInv'
<1>. SUFFICES ASSUME TailInv, CloseAgents  PROVE TailInv'
  OBVIOUS
<1>1. \A p \in pulls : [p EXCEPT !.alive = FALSE] \in PullType /\ ~[p EXCEPT !.alive = FALSE].alive
  BY DEF TailInv, TailTypeOK, PullType
<1>2. pulls' \subseteq PullType /\ \A p \in pulls' : ~p.alive
  BY <1>1 DEF CloseAgents
<1>3. TailTypeOK'
  BY <1>2 DEF TailInv, TailTypeOK, CloseAgents, PullType
<1>4. NothingLater' /\ NoGap'
  BY <1>2 DEF TailInv, NothingLater, NoGap, CloseAgents
<1>. QED  BY <1>3, <1>4 DEF TailInv

LEMMA AgainKeeps == TailInv /\ PullAgain => TailInv'
<1>. SUFFICES ASSUME TailInv, PullAgain  PROVE TailInv'
  OBVIOUS
<1>1. cursor \in 0..MaxEvents
  BY DEF TailInv, TailTypeOK
<1>2. /\ Pull(cursor) \in PullType /\ Pull(cursor).since = cursor
      /\ Pull(cursor).alive /\ ToSet(Pull(cursor).got) = {}
  BY <1>1, PullBegins
<1>3. /\ pulls' = pulls \cup {Pull(cursor)} /\ open
      /\ UNCHANGED <<run, ring, nextSeq, open, tail, cursor, dismissed, restarted>>
  BY DEF PullAgain
<1>4. TailTypeOK'
  BY <1>2, <1>3 DEF TailInv, TailTypeOK, PullType
<1>5. NothingLater'
  BY <1>2, <1>3 DEF TailInv, NothingLater
<1>6. NoGap'
  BY <1>2, <1>3 DEF TailInv, NoGap
<1>. QED  BY <1>4, <1>5, <1>6 DEF TailInv

\* Fewer pulls, and the same list.
LEMMA FewerPulls ==
  ASSUME TailInv, pulls' \subseteq pulls, dismissed' \subseteq 1..MaxEvents,
         UNCHANGED <<run, ring, nextSeq, open, tail, cursor, restarted>>
  PROVE  TailInv'
<1>1. TailTypeOK'
  BY DEF TailInv, TailTypeOK
<1>2. NothingLater'
  BY DEF TailInv, NothingLater
<1>3. NoGap'
  BY DEF TailInv, NoGap
<1>. QED  BY <1>1, <1>2, <1>3 DEF TailInv

LEMMA EndKeeps == TailInv /\ PullEnds => TailInv'
<1>. SUFFICES ASSUME TailInv, PullEnds  PROVE TailInv'
  OBVIOUS
<1>1. PICK p \in pulls :
        /\ pulls' = pulls \ {p}
        /\ IF p.alive THEN Take(p.got) ELSE UNCHANGED <<tail, cursor>>
  BY DEF PullEnds
<1>2. UNCHANGED <<run, ring, nextSeq, open, dismissed, restarted>>
  BY DEF PullEnds
<1>3. CASE ~p.alive \/ p.got = <<>>
  <2>1. UNCHANGED <<tail, cursor>>
    BY <1>1, <1>3 DEF Take
  <2>. QED  BY <1>1, <1>2, <2>1, FewerPulls DEF TailInv, TailTypeOK
<1>4. CASE p.alive /\ p.got # <<>>
  <2>1. cursor' = Last(p.got).seq /\ tail' = Newest(tail \o p.got, EventsCap)
    BY <1>1, <1>4 DEF Take
  <2>2. tail \in Seq(Event) /\ p.got \in Seq(Event) /\ p.since \in Nat /\ Len(tail) \in Nat /\ Len(p.got) \in Nat
    BY DEF TailInv, TailTypeOK
  <2>. DEFINE all == tail \o p.got
  <2>3. /\ all \in Seq(Event) /\ ToSet(all) = ToSet(tail) \cup ToSet(p.got)
        /\ Len(all) = Len(tail) + Len(p.got)
        /\ ToSet(tail) \subseteq Event
    BY <2>2, Joined
  <2>4. ToSet(p.got) \subseteq Event /\ Last(p.got) \in ToSet(p.got)
    BY <1>4, <2>2, Joined
  <2>5. ToSet(ring) \subseteq Event
    BY Joined DEF TailInv, TailTypeOK
  <2>. HIDE DEF all
  <2>6. /\ tail' \in Seq(Event) /\ Len(tail') <= EventsCap
        /\ ToSet(tail') \subseteq ToSet(all)
        /\ Len(tail') < EventsCap => tail' = all
    BY <2>1, <2>3, NewestIs, TailAssumption DEF all
  <2>7. TailTypeOK'
    <3>1. cursor' \in 0..MaxEvents
      BY <2>1, <2>4, TailAssumption DEF Event
    <3>2. pulls' \subseteq pulls
      BY <1>1
    <3>. QED  BY <1>2, <2>6, <3>1, <3>2 DEF TailInv, TailTypeOK
  <2>8. NothingLater'
    BY <1>1, <1>2, <1>4, <2>3, <2>6 DEF TailInv, NothingLater
  <2>9. NoGap'
    <3>. SUFFICES ASSUME open, ~restarted, Len(tail') < EventsCap  PROVE NoGap'
      BY <1>2 DEF NoGap
    <3>1. /\ ToSet(tail') = ToSet(tail) \cup ToSet(p.got)
          /\ Len(tail) < EventsCap
      BY <2>2, <2>3, <2>6, TailAssumption
    <3>2. /\ p.since = 0 \/ \E g \in ToSet(tail) : g.seq = p.since
          /\ \A e \in ToSet(ring), g \in ToSet(p.got) :
               p.since < e.seq /\ e.seq <= g.seq => e \in ToSet(p.got)
          /\ \A e \in ToSet(ring), g \in ToSet(tail) : e.seq <= g.seq => e \in ToSet(tail)
      BY <1>4, <3>1 DEF TailInv, NoGap
    <3>3. ASSUME NEW e \in ToSet(ring), NEW g \in ToSet(tail'), e.seq <= g.seq
          PROVE  e \in ToSet(tail')
      <4>1. e.seq \in Nat \ {0} /\ g.seq \in Nat
        BY <2>3, <2>4, <2>5, <3>1 DEF Event
      <4>2. CASE p.since < e.seq
        BY <3>1, <3>2, <3>3, <4>2
      <4>3. CASE ~(p.since < e.seq)
        <5>1. p.since # 0 /\ e.seq <= p.since
          BY <2>2, <4>1, <4>3
        <5>. QED  BY <3>1, <3>2, <5>1
      <4>. QED  BY <4>2, <4>3
    <3>4. \E g \in ToSet(tail') : g.seq = cursor'
      BY <2>1, <2>4, <3>1
    <3>5. \A x \in pulls' : x.alive =>
           /\ x.since = 0 \/ \E g \in ToSet(tail') : g.seq = x.since
           /\ \A e \in ToSet(ring), g \in ToSet(x.got) :
                x.since < e.seq /\ e.seq <= g.seq => e \in ToSet(x.got)
      BY <1>1, <3>1 DEF TailInv, NoGap
    <3>. QED  BY <1>2, <3>3, <3>4, <3>5 DEF NoGap
  <2>. QED  BY <2>7, <2>8, <2>9 DEF TailInv
<1>. QED  BY <1>3, <1>4

LEMMA TailInvStep == TailInv /\ [TailNext]_tailVars => TailInv'
<1>. SUFFICES ASSUME TailInv, [TailNext]_tailVars  PROVE TailInv'
  OBVIOUS
<1>1. CASE PullFails
  BY <1>1, FewerPulls DEF PullFails, TailInv, TailTypeOK
<1>2. CASE Dismiss
  <2>1. \A e \in ToSet(tail) : e.seq \in 1..MaxEvents
    <3>1. ToSet(tail) \subseteq Event
      BY Joined DEF TailInv, TailTypeOK
    <3>. QED  BY <3>1 DEF Event
  <2>2. dismissed' \subseteq 1..MaxEvents
    BY <1>2, <2>1 DEF Dismiss, Cards, Latest, TailInv, TailTypeOK
  <2>. QED  BY <1>2, <2>2, FewerPulls DEF Dismiss
<1>3. CASE UNCHANGED tailVars
  BY <1>3, FewerPulls DEF tailVars, TailInv, TailTypeOK
<1>. QED  BY <1>1, <1>2, <1>3, RaiseKeeps, RestartKeeps, ReadKeeps, OpenKeeps, CloseKeeps,
             AgainKeeps, EndKeeps DEF TailNext

\* Of each conflict in the list there is a newest event.
LEMMA LatestExists ==
  ASSUME TailTypeOK, NEW e \in ToSet(tail)
  PROVE  \E f \in Latest : f.of = e.of /\ f.seq >= e.seq
<1>1. ToSet(tail) \subseteq Event /\ MaxEvents \in Nat
  BY Joined, TailAssumption DEF TailTypeOK
<1>. DEFINE Behind == {MaxEvents - f.seq : f \in {g \in ToSet(tail) : g.of = e.of}}
<1>2. Behind \in SUBSET Nat /\ Behind # {}
  BY <1>1 DEF Event
<1>. HIDE DEF Behind
<1>3. PICK x \in Behind : \A j \in Behind : x <= j
  BY <1>2, LeastNat
<1>4. PICK f \in ToSet(tail) : f.of = e.of /\ x = MaxEvents - f.seq
  BY <1>3 DEF Behind
<1>5. \A g \in ToSet(tail) : g.of = e.of => MaxEvents - g.seq \in Behind
  BY DEF Behind
<1>6. \A g \in ToSet(tail) : g.of = f.of => g.seq <= f.seq
  BY <1>1, <1>3, <1>4, <1>5 DEF Event
<1>7. f \in Latest
  BY <1>6 DEF Latest
<1>8. f.seq >= e.seq
  BY <1>1, <1>4, <1>6 DEF Event
<1>. QED  BY <1>4, <1>7, <1>8

LEMMA TailPromise == TailInv => TailTypeOK /\ NothingSkipped /\ ConflictResurfaces
<1>. SUFFICES ASSUME TailInv  PROVE TailTypeOK /\ NothingSkipped /\ ConflictResurfaces
  OBVIOUS
<1>1. /\ ToSet(tail) \subseteq Event /\ ToSet(ring) \subseteq Event
      /\ dismissed \subseteq 1..MaxEvents /\ cursor \in Nat
  BY Joined DEF TailInv, TailTypeOK
<1>2. NothingSkipped
  <2>. SUFFICES ASSUME open, ~restarted, Len(tail) < EventsCap,
                       NEW e \in ToSet(ring), e.seq <= cursor
                PROVE  e \in ToSet(tail)
    BY DEF NothingSkipped
  <2>1. cursor # 0
    BY <1>1 DEF Event
  <2>. QED  BY <2>1 DEF TailInv, NoGap
<1>3. ConflictResurfaces
  <2>. SUFFICES ASSUME NEW e \in ToSet(tail), \A d \in dismissed : d < e.seq
                PROVE  \E f \in Cards : f.of = e.of /\ f.seq >= e.seq
    BY DEF ConflictResurfaces
  <2>1. PICK f \in Latest : f.of = e.of /\ f.seq >= e.seq
    BY LatestExists DEF TailInv
  <2>2. f.seq \notin dismissed
    BY <1>1, <2>1 DEF Latest, Event
  <2>. QED  BY <2>1, <2>2 DEF Cards
<1>. QED  BY <1>2, <1>3 DEF TailInv

-----------------------------------------------------------------------------
(* The pill, the pipeline and the backdrop of the status.                  *)

\* A verdict that waits is not the one applied, and has waited as long as it is on screen;
\* when none waits, the one on screen is applied.
VerdictInv ==
  /\ pending = Unread => applied = AmbientOf(shown)
  /\ pending # Unread => pending = AmbientOf(shown) /\ applied # pending /\ waited = steady

\* The pill has looked since the snapshots went quiet, or will soon.
SilenceInv ==
  /\ stale => quiet > StaleAfter
  /\ ~stale => quiet <= StaleAfter + looked

\* A cascade on a live link burns since the link rose.
CascadeInv == overview /\ Flowing(shown) /\ ignite => burning = flown /\ burning # Unread

StatusInv == StatusTypeOK /\ VerdictInv /\ SilenceInv /\ CascadeInv

LEMMA AmbientType == ASSUME NEW s PROVE AmbientOf(s) \in Verdicts
<1>1. HealthScore(s) \in {"good", "warn", "bad"}
  BY DEF HealthScore, Score
<1>. QED  BY <1>1 DEF AmbientOf, Verdicts

LEMMA StatusInvInit == StatusInit => StatusInv
<1>. SUFFICES ASSUME StatusInit  PROVE StatusInv
  OBVIOUS
<1>1. StatusTypeOK
  <2>1. PICK w \in [role : {"agent", "gateway"}, link : [Machines -> {"off"}], fatal : {FALSE}] :
          world = w /\ early = w
    BY DEF StatusInit
  <2>2. w.link \in [Machines -> Links]
    BY DEF Links
  <2>3. w \in World
    BY <2>2 DEF World
  <2>4. /\ 0 \in 0..MaxQuiet /\ 0 \in 0..CheckEvery /\ 0 \in 0..Hold /\ 0 \in 0..(Hold + 1)
        /\ 0 \in 0..(CascadeFor + 1) /\ 0 \in 0..MaxChanges
    BY StatusAssumption DEF MaxQuiet
  <2>. QED  BY <2>1, <2>3, <2>4 DEF StatusInit, StatusTypeOK, Verdicts
<1>2. VerdictInv /\ CascadeInv
  BY DEF StatusInit, VerdictInv, CascadeInv, AmbientOf
<1>3. SilenceInv
  BY StatusAssumption DEF StatusInit, SilenceInv
<1>. QED  BY <1>1, <1>2, <1>3 DEF StatusInv

\* The engine changes, or the first answer does not come: what is shown does not change.
LEMMA ViewKept ==
  ASSUME StatusInv, world' \in World, early' \in World \cup {Unread}, changes' \in 0..MaxChanges,
         UNCHANGED <<shown, quiet, stale, looked, applied, pending, waited, overview, ignite,
                     burning, steady, flown>>
  PROVE  StatusInv'
<1>1. StatusTypeOK'
  BY DEF StatusInv, StatusTypeOK
<1>2. VerdictInv' /\ SilenceInv' /\ CascadeInv'
  BY DEF StatusInv, VerdictInv, SilenceInv, CascadeInv
<1>. QED  BY <1>1, <1>2 DEF StatusInv

LEMMA WorldSteps ==
  ASSUME StatusInv, LinkChanges \/ EngineDies \/ RestartFailed
  PROVE  StatusInv'
<1>1. /\ world \in World /\ changes' \in 0..MaxChanges /\ UNCHANGED viewVars
      /\ early \in World \cup {Unread}
  BY StatusAssumption DEF StatusInv, StatusTypeOK, LinkChanges, EngineDies, RestartFailed, Change
<1>2. world' \in World
  <2>1. CASE LinkChanges
    BY <1>1, <2>1 DEF LinkChanges, World, Links
  <2>2. CASE EngineDies
    BY <1>1, <2>2 DEF EngineDies, World, Links
  <2>3. CASE RestartFailed
    BY <1>1, <2>3 DEF RestartFailed, World
  <2>. QED  BY <2>1, <2>2, <2>3
<1>. QED  BY <1>1, <1>2, ViewKept DEF viewVars

LEMMA SeeKeeps ==
  ASSUME StatusInv, NEW s \in World, See(s), early' \in World \cup {Unread}
  PROVE  StatusInv'
<1>1. /\ shown' = s /\ quiet' = 0 /\ stale' = FALSE
      /\ looked' = IF shown = Unread THEN 0 ELSE looked
      /\ steady' = IF AmbientOf(s) = AmbientOf(shown) THEN steady ELSE 0
      /\ UNCHANGED <<world, overview, changes>>
  BY DEF See
<1>2. AmbientOf(s) \in Verdicts /\ Unread \notin Verdicts
  BY AmbientType, UnreadAssumption
<1>3. /\ applied' = applied
      /\ \/ AmbientOf(s) = applied /\ pending' = Unread /\ waited' = 0
         \/ AmbientOf(s) # applied /\ pending = AmbientOf(s) /\ pending' = pending /\ waited' = waited
         \/ AmbientOf(s) # applied /\ pending # AmbientOf(s) /\ pending' = AmbientOf(s) /\ waited' = 0
  BY DEF See, Debounce
<1>4. \/ UNCHANGED <<ignite, burning, flown>> /\ (~overview \/ Flowing(s) = Flowing(shown))
      \/ flown' = 0 /\ ~Flowing(shown) /\ Flowing(s) /\ ignite' = TRUE /\ burning' = 0
      \/ flown' = 0 /\ ~Flowing(s) /\ ignite' = ignite /\ burning' = Unread
  BY DEF See, Cascade, Flowing
<1>5. 0 \in 0..Hold /\ 0 \in 0..(Hold + 1) /\ 0 \in 0..MaxQuiet /\ 0 \in 0..CheckEvery
      /\ 0 \in 0..CascadeFor /\ 0 \in 0..(CascadeFor + 1) /\ StaleAfter \in Nat /\ 0 # Unread
  BY StatusAssumption, UnreadAssumption DEF MaxQuiet
<1>6. StatusTypeOK'
  <2>1. /\ applied' \in Verdicts /\ pending' \in Verdicts \cup {Unread} /\ waited' \in 0..Hold
        /\ steady' \in 0..(Hold + 1)
    BY <1>1, <1>2, <1>3, <1>5 DEF StatusInv, StatusTypeOK
  <2>2. ignite' \in BOOLEAN /\ burning' \in 0..CascadeFor \cup {Unread} /\ flown' \in 0..(CascadeFor + 1)
    BY <1>4, <1>5 DEF StatusInv, StatusTypeOK
  <2>3. quiet' \in 0..MaxQuiet /\ looked' \in 0..CheckEvery /\ stale' \in BOOLEAN
    BY <1>1, <1>5 DEF StatusInv, StatusTypeOK
  <2>. QED  BY <1>1, <2>1, <2>2, <2>3 DEF StatusInv, StatusTypeOK
<1>7. VerdictInv'
  BY <1>1, <1>2, <1>3 DEF StatusInv, VerdictInv, StatusTypeOK
<1>8. SilenceInv'
  <2>1. looked' \in Nat
    BY <1>6 DEF StatusTypeOK
  <2>. QED  BY <1>1, <1>5, <2>1 DEF SilenceInv
<1>9. CascadeInv'
  <2>1. CASE UNCHANGED <<ignite, burning, flown>> /\ ~overview
    BY <1>1, <2>1 DEF CascadeInv
  <2>2. CASE UNCHANGED <<ignite, burning, flown>> /\ Flowing(s) = Flowing(shown)
    BY <1>1, <2>2 DEF StatusInv, CascadeInv
  <2>3. CASE flown' = 0 /\ burning' = 0
    BY <1>5, <2>3 DEF CascadeInv
  <2>4. CASE ~Flowing(s)
    BY <1>1, <2>4 DEF CascadeInv
  <2>. QED  BY <1>4, <2>1, <2>2, <2>3, <2>4
<1>. QED  BY <1>6, <1>7, <1>8, <1>9 DEF StatusInv

LEMMA ElapseKeeps == ASSUME StatusInv, Elapse  PROVE StatusInv'
<1>1. /\ quiet \in 0..MaxQuiet /\ looked \in 0..CheckEvery /\ waited \in 0..Hold
      /\ steady \in 0..(Hold + 1) /\ flown \in 0..(CascadeFor + 1)
      /\ burning \in 0..CascadeFor \cup {Unread}
      /\ Hold \in Nat /\ CheckEvery \in Nat /\ CascadeFor \in Nat /\ StaleAfter \in Nat
      /\ MaxQuiet = StaleAfter + CheckEvery + 2
  BY StatusAssumption DEF StatusInv, StatusTypeOK, MaxQuiet
<1>2. /\ looked < CheckEvery /\ (pending # Unread => waited < Hold) /\ burning # CascadeFor
      /\ quiet' = AtMost(quiet + 1, MaxQuiet) /\ looked' = looked + 1
      /\ waited' = IF pending = Unread THEN 0 ELSE waited + 1
      /\ burning' = IF burning = Unread THEN Unread ELSE burning + 1
      /\ steady' = AtMost(steady + 1, Hold + 1)
      /\ flown' = IF overview THEN AtMost(flown + 1, CascadeFor + 1) ELSE 0
      /\ UNCHANGED <<world, early, shown, stale, applied, pending, overview, ignite, changes>>
  BY DEF Elapse
<1>3. /\ quiet' \in 0..MaxQuiet /\ looked' \in 0..CheckEvery
      /\ stale => quiet' > StaleAfter \/ quiet <= StaleAfter
      /\ quiet' <= quiet + 1
  BY <1>1, <1>2 DEF AtMost
<1>4. waited' \in 0..Hold /\ steady' \in 0..(Hold + 1) /\ flown' \in 0..(CascadeFor + 1)
  BY <1>1, <1>2 DEF AtMost
<1>5. burning' \in 0..CascadeFor \cup {Unread}
  BY <1>1, <1>2
<1>6. StatusTypeOK'
  BY <1>2, <1>3, <1>4, <1>5 DEF StatusInv, StatusTypeOK
<1>7. VerdictInv'
  <2>1. pending # Unread /\ waited = steady => waited' = steady'
    BY <1>1, <1>2 DEF AtMost
  <2>. QED  BY <1>2, <2>1 DEF StatusInv, VerdictInv
<1>8. SilenceInv'
  BY <1>1, <1>2, <1>3 DEF StatusInv, SilenceInv
<1>9. CascadeInv'
  <2>1. overview /\ burning # Unread /\ burning = flown => burning' = flown' /\ burning' # Unread
    BY <1>1, <1>2, UnreadAssumption DEF AtMost
  <2>. QED  BY <1>2, <2>1 DEF StatusInv, CascadeInv
<1>. QED  BY <1>6, <1>7, <1>8, <1>9 DEF StatusInv

LEMMA TimerSteps == ASSUME StatusInv, Look \/ Apply \/ CascadeEnds  PROVE StatusInv'
<1>1. 0 \in 0..Hold /\ 0 \in 0..CheckEvery /\ StaleAfter \in Nat /\ quiet \in Nat /\ looked \in Nat
  BY StatusAssumption DEF StatusInv, StatusTypeOK, MaxQuiet
<1>2. CASE Look
  <2>1. StatusTypeOK'
    BY <1>1, <1>2 DEF Look, StatusInv, StatusTypeOK
  <2>2. SilenceInv'
    <3>1. looked' = 0 /\ quiet' = quiet /\ (stale' <=> quiet > StaleAfter)
      BY <1>2 DEF Look
    <3>. QED  BY <1>1, <3>1 DEF SilenceInv
  <2>3. VerdictInv' /\ CascadeInv'
    BY <1>2 DEF Look, StatusInv, VerdictInv, CascadeInv
  <2>. QED  BY <2>1, <2>2, <2>3 DEF StatusInv
<1>3. CASE Apply
  <2>1. StatusTypeOK'
    BY <1>1, <1>3 DEF Apply, StatusInv, StatusTypeOK
  <2>2. VerdictInv'
    BY <1>3 DEF Apply, StatusInv, VerdictInv
  <2>3. SilenceInv' /\ CascadeInv'
    BY <1>3 DEF Apply, StatusInv, SilenceInv, CascadeInv
  <2>. QED  BY <2>1, <2>2, <2>3 DEF StatusInv
<1>4. CASE CascadeEnds
  <2>1. StatusTypeOK'
    BY <1>4 DEF CascadeEnds, StatusInv, StatusTypeOK
  <2>2. VerdictInv' /\ SilenceInv' /\ CascadeInv'
    BY <1>4 DEF CascadeEnds, StatusInv, VerdictInv, SilenceInv, CascadeInv
  <2>. QED  BY <2>1, <2>2 DEF StatusInv
<1>. QED  BY <1>2, <1>3, <1>4

LEMMA PageSteps == ASSUME StatusInv, OpenOverview \/ CloseOverview  PROVE StatusInv'
<1>1. 0 \in 0..(CascadeFor + 1) /\ changes' \in 0..MaxChanges
  BY StatusAssumption DEF StatusInv, StatusTypeOK, OpenOverview, CloseOverview, Change
<1>2. StatusTypeOK'
  BY <1>1 DEF OpenOverview, CloseOverview, StatusInv, StatusTypeOK
<1>3. VerdictInv' /\ SilenceInv' /\ CascadeInv'
  BY DEF OpenOverview, CloseOverview, StatusInv, VerdictInv, SilenceInv, CascadeInv
<1>. QED  BY <1>2, <1>3 DEF StatusInv

LEMMA StatusInvStep == StatusInv /\ [StatusNext]_statusVars => StatusInv'
<1>. SUFFICES ASSUME StatusInv, [StatusNext]_statusVars  PROVE StatusInv'
  OBVIOUS
<1>1. /\ world \in World /\ early \in World \cup {Unread} /\ changes \in 0..MaxChanges
  BY DEF StatusInv, StatusTypeOK
<1>2. CASE Snapshot
  BY <1>1, <1>2, SeeKeeps DEF Snapshot
<1>3. CASE FirstAnswer
  BY <1>1, <1>3, SeeKeeps DEF FirstAnswer
<1>4. CASE FirstFails
  BY <1>1, <1>4, ViewKept DEF FirstFails
<1>5. CASE UNCHANGED statusVars
  BY <1>1, <1>5, ViewKept DEF statusVars
<1>. QED  BY <1>2, <1>3, <1>4, <1>5, WorldSteps, ElapseKeeps, TimerSteps, PageSteps DEF StatusNext

\* A gateway with one link has its score.
LEMMA OneLink ==
  ASSUME NEW s \in World, Linked(s), Cardinality(Sessions(s)) <= 1
  PROVE  \E m \in Machines : Sessions(s) = {m} /\ HealthScore(s) = Score(s.link[m])
<1>1. Sessions(s) \in SUBSET Machines /\ Sessions(s) # {} /\ IsFiniteSet(Sessions(s))
  BY FS_Subset, StatusAssumption DEF Linked, Sessions
<1>2. Cardinality(Sessions(s)) = 1
  <2>1. Cardinality(Sessions(s)) \in Nat /\ Cardinality(Sessions(s)) # 0
    BY <1>1, FS_CardinalityType, FS_EmptySet
  <2>. QED  BY <2>1
<1>3. PICK m : Sessions(s) = {m}
  BY <1>1, <1>2, FS_Singleton
<1>4. (CHOOSE x \in Sessions(s) : TRUE) = m
  BY <1>3
<1>. QED  BY <1>1, <1>2, <1>3, <1>4 DEF HealthScore

LEMMA StatusPromise == StatusInv => StatusTells
<1>. SUFFICES ASSUME StatusInv  PROVE StatusTells
  OBVIOUS
<1>1. RoomAgrees
  <2>. SUFFICES ASSUME shown # Unread, steady > Hold
                PROVE  IF shown.fatal THEN applied = "bad"
                       ELSE Cardinality(Sessions(shown)) <= 1 =>
                              applied = (IF Tone(shown) = "good" THEN "ok" ELSE Tone(shown))
    BY DEF RoomAgrees
  <2>1. applied = AmbientOf(shown)
    BY StatusAssumption DEF StatusInv, StatusTypeOK, VerdictInv
  <2>2. shown \in World
    BY DEF StatusInv, StatusTypeOK
  <2>3. CASE shown.fatal
    BY <2>1, <2>3 DEF AmbientOf
  <2>4. CASE ~shown.fatal /\ ~Linked(shown)
    BY <2>1, <2>4 DEF AmbientOf, Tone
  <2>5. CASE ~shown.fatal /\ Linked(shown) /\ Cardinality(Sessions(shown)) <= 1
    <3>1. PICK m \in Machines : Sessions(shown) = {m} /\ HealthScore(shown) = Score(shown.link[m])
      BY <2>2, <2>5, OneLink
    <3>2. {Score(shown.link[x]) : x \in Sessions(shown)} = {HealthScore(shown)}
      BY <3>1
    <3>3. HealthScore(shown) \in {"good", "warn", "bad"}
      BY <3>1 DEF Score
    <3>4. Worst({HealthScore(shown)}) = HealthScore(shown)
      BY <3>3 DEF Worst
    <3>5. Tone(shown) = HealthScore(shown)
      BY <2>5, <3>2, <3>4 DEF Tone
    <3>6. AmbientOf(shown) = IF HealthScore(shown) = "good" THEN "ok" ELSE HealthScore(shown)
      BY <2>5 DEF AmbientOf
    <3>. QED  BY <2>1, <2>5, <3>5, <3>6
  <2>. QED  BY <2>3, <2>4, <2>5
<1>2. PillTellsSilence
  BY StatusAssumption DEF PillTellsSilence, StatusInv, StatusTypeOK, SilenceInv, MaxQuiet
<1>3. CascadeIsOver
  BY StatusAssumption DEF CascadeIsOver, StatusInv, StatusTypeOK, CascadeInv
<1>. QED  BY <1>1, <1>2, <1>3 DEF StatusInv, StatusTells

-----------------------------------------------------------------------------
(* The rubber bands.                                                       *)

\* A band that no timer lets go of is held, is no fling, and is that of the finger.
HoldInv ==
  /\ \A s \in Live : /\ bands[s].auto \/ (bands[s].held /\ ~bands[s].leak)
                     /\ ~bands[s].auto /\ ~lost => touchBand = s /\ finger # Idle
  /\ touchBand \in Scrollers => touchBand \in Live
  /\ gone => lost

BandInv == BandTypeOK /\ HoldInv /\ FramesRun /\ FingerKeeps

LEMMA ClampOK == ASSUME NEW n \in Int  PROVE Clamp(n) \in -MaxRaw..MaxRaw
BY BandAssumption DEF Clamp

\* What pulling makes of a band.
LEMMA PulledOK ==
  ASSUME NEW b \in Band, NEW dir \in Dirs
  PROVE  /\ Pulled(b, dir) \in Band
         /\ Through(b, dir) => Pulled(b, dir).auto
         /\ ~Through(b, dir) => /\ Pulled(b, dir).auto = b.auto /\ Pulled(b, dir).held
                                /\ Pulled(b, dir).leak = b.leak
<1>1. b.raw + dir \in Int /\ 0 \in -MaxRaw..MaxRaw
  BY BandAssumption DEF Band, Dirs
<1>2. Clamp(b.raw + dir) \in -MaxRaw..MaxRaw
  BY <1>1, ClampOK
<1>3. CASE Through(b, dir)
  <2>1. Pulled(b, dir) = [b EXCEPT !.raw = 0, !.held = FALSE, !.auto = TRUE]
    BY <1>3 DEF Pulled
  <2>. QED  BY <1>1, <1>3, <2>1 DEF Band
<1>4. CASE ~Through(b, dir)
  <2>. DEFINE n == Clamp(b.raw + dir)
  <2>. HIDE DEF n
  <2>1. Pulled(b, dir) = [b EXCEPT !.raw = n, !.held = TRUE, !.fresh = TRUE]
    BY <1>4 DEF Pulled, n
  <2>. QED  BY <1>2, <1>4, <2>1 DEF Band, n
<1>. QED  BY <1>3, <1>4

LEMMA ClaimOK ==
  ASSUME NEW b \in Band, NEW dir \in Dirs, NEW auto \in BOOLEAN
  PROVE  /\ Claim(b, dir, auto) \in Band /\ Claim(b, dir, auto).auto = auto
         /\ Claim(b, dir, auto).held /\ ~Claim(b, dir, auto).leak
<1>1. (IF b.side = dir THEN dir ELSE 0) \in -MaxRaw..MaxRaw
  BY BandAssumption DEF Dirs
<1>. QED  BY <1>1 DEF Claim, Band

LEMMA BandOfOK ==
  ASSUME BandTypeOK, NEW s \in Scrollers, NEW dir \in Dirs
  PROVE  BandOf(s, dir) \in Band
<1>1. Fresh(dir) \in Band
  <2>1. 0 \in -MaxRaw..MaxRaw
    BY BandAssumption
  <2>. QED  BY <2>1 DEF Fresh, Band
<1>. QED  BY <1>1 DEF BandOf, BandTypeOK

LEMMA OwnerOK ==
  ASSUME NEW from \in Scrollers, NEW dir
  PROVE  OwnerFor(from, dir) \in Scrollers \cup {Idle}
BY DEF OwnerFor, Scrollers

\* What setting a band changes.
LEMMA SetOK ==
  ASSUME BandTypeOK, NEW s \in Scrollers, NEW b \in Band, Set(s, b)
  PROVE  /\ bands' \in [Scrollers -> Band \cup {Idle}] /\ frame' = TRUE
         /\ Live' = Live \cup {s} /\ bands'[s] = b
         /\ \A x \in Scrollers \ {s} : bands'[x] = bands[x]
<1>1. bands' = [bands EXCEPT ![s] = b] /\ frame' = TRUE
  BY DEF Set
<1>2. /\ bands' \in [Scrollers -> Band \cup {Idle}] /\ bands'[s] = b
      /\ \A x \in Scrollers \ {s} : bands'[x] = bands[x]
  BY <1>1 DEF BandTypeOK
<1>3. b # Idle
  BY IdleAssumption
<1>. QED  BY <1>1, <1>2, <1>3 DEF Live

LEMMA LiveIs ==
  ASSUME BandTypeOK
  PROVE  Live \subseteq Scrollers /\ (\A s \in Live : bands[s] \in Band)
         /\ Idle \notin Scrollers /\ Orphan \notin Scrollers
BY BandAssumption DEF Live, BandTypeOK, Scrollers

LEMMA BandInvInit == BandInit => BandInv
<1>. SUFFICES ASSUME BandInit  PROVE BandInv
  OBVIOUS
<1>1. BandTypeOK
  <2>1. roomTo \in [Scrollers -> [Dirs -> BOOLEAN]]
    BY DEF BandInit
  <2>2. 0 \in 0..MaxInputs
    BY BandAssumption
  <2>. QED  BY <2>1, <2>2 DEF BandInit, BandTypeOK
<1>2. Live = {} /\ Idle \notin Scrollers
  BY <1>1, LiveIs DEF BandInit, Live
<1>. QED  BY <1>1, <1>2 DEF BandInit, BandInv, HoldInv, FramesRun, FingerKeeps

\* Nothing happens to a band.
LEMMA BandsKept ==
  ASSUME BandInv, UNCHANGED <<bands, frame, touchBand, finger, gone, glow, reduced, lost, shared>>,
         wheelBand' \in Scrollers \cup {Idle, Orphan}, guard' \in {-1, 0, 1},
         roomTo' \in [Scrollers -> [Dirs -> BOOLEAN]], inputs' \in 0..MaxInputs
  PROVE  BandInv'
<1>1. BandTypeOK'
  BY DEF BandInv, BandTypeOK
<1>2. Live' = Live
  BY DEF Live
<1>3. HoldInv'
  BY <1>2 DEF BandInv, HoldInv
<1>4. FramesRun' /\ FingerKeeps'
  BY <1>2 DEF BandInv, FramesRun, FingerKeeps
<1>. QED  BY <1>1, <1>3, <1>4 DEF BandInv

LEMMA NativeOK ==
  ASSUME BandTypeOK, NEW from \in Scrollers, NEW dir \in Dirs, Native(from, dir)
  PROVE  roomTo' \in [Scrollers -> [Dirs -> BOOLEAN]] /\ UNCHANGED <<bands, frame>>
<1>. DEFINE s == IF from \in Wells /\ roomTo[from][dir] THEN from ELSE Main
<1>1. s \in Scrollers
  BY DEF Scrollers
<1>2. [d \in Dirs |-> d # dir] \in [Dirs -> BOOLEAN]
  OBVIOUS
<1>3. UNCHANGED roomTo \/ roomTo' = [roomTo EXCEPT ![s] = [d \in Dirs |-> d # dir]]
  BY DEF Native
<1>. HIDE DEF s
<1>4. roomTo' \in [Scrollers -> [Dirs -> BOOLEAN]]
  BY <1>1, <1>2, <1>3 DEF BandTypeOK
<1>. QED  BY <1>4 DEF Native

\* A wheel or a key takes a band.
LEMMA InstrumentKeeps ==
  ASSUME BandInv, NEW s \in Scrollers, NEW b \in Band, Set(s, b), Note(s), ~reduced,
         b.auto \/ (b.held /\ ~b.leak /\ s \in Live /\ ~bands[s].auto),
         UNCHANGED <<touchBand, finger, gone, glow, reduced, lost>>,
         wheelBand' \in Scrollers \cup {Idle, Orphan}, guard' \in {-1, 0, 1},
         roomTo' \in [Scrollers -> [Dirs -> BOOLEAN]], inputs' \in 0..MaxInputs
  PROVE  BandInv'
<1>1. /\ bands' \in [Scrollers -> Band \cup {Idle}] /\ frame' = TRUE
      /\ Live' = Live \cup {s} /\ bands'[s] = b
      /\ \A x \in Scrollers \ {s} : bands'[x] = bands[x]
  BY SetOK DEF BandInv
<1>2. shared' = (shared \/ s = touchBand)
  BY DEF Note
<1>3. Live \subseteq Scrollers
  BY DEF Live
<1>4. BandTypeOK'
  BY <1>1, <1>2 DEF BandInv, BandTypeOK
<1>5. HoldInv'
  BY <1>1, <1>3 DEF BandInv, HoldInv
<1>6. FramesRun'
  BY <1>1 DEF BandInv, FramesRun
<1>7. FingerKeeps'
  BY <1>1, <1>2 DEF BandInv, FingerKeeps
<1>. QED  BY <1>4, <1>5, <1>6, <1>7 DEF BandInv

LEMMA WheelKeeps ==
  ASSUME BandInv, NEW from \in Scrollers, NEW dir \in Dirs, NEW dense \in BOOLEAN, Wheel(from, dir, dense)
  PROVE  BandInv'
<1>. DEFINE latched == wheelBand \in Live /\ bands[wheelBand].fresh
            s == IF latched THEN wheelBand ELSE OwnerFor(from, dir)
            b == IF latched THEN bands[s] ELSE [Claim(BandOf(s, dir), dir, TRUE) EXCEPT !.leak = dense]
<1>1. /\ inputs' \in 0..MaxInputs /\ ~reduced
      /\ UNCHANGED <<touchBand, finger, gone, glow, reduced, lost>>
      /\ BandTypeOK
  BY BandAssumption DEF Wheel, Input, BandInv, BandTypeOK
<1>2. CASE guard = dir /\ dense
  BY <1>1, <1>2, BandsKept DEF Wheel, BandInv, BandTypeOK
<1>3. CASE ~(guard = dir /\ dense) /\ s = Idle
  <2>1. wheelBand' = Idle /\ Native(from, dir) /\ UNCHANGED <<shared, guard>>
    BY <1>3 DEF Wheel
  <2>. QED  BY <1>1, <2>1, NativeOK, BandsKept DEF BandInv, BandTypeOK
<1>4. CASE ~(guard = dir /\ dense) /\ s # Idle
  <2>1. /\ Set(s, Pulled(b, dir)) /\ Note(s)
        /\ wheelBand' = IF Through(b, dir) THEN Idle ELSE s
        /\ UNCHANGED <<roomTo, guard>>
    BY <1>4 DEF Wheel
  <2>2. s \in Scrollers /\ (latched => s \in Live /\ bands[s] \in Band)
    BY <1>1, <1>4, LiveIs, OwnerOK
  <2>3. b \in Band /\ (b.auto \/ (~b.leak /\ s \in Live /\ ~bands[s].auto))
    <3>1. CASE latched
      BY <2>2, <3>1 DEF BandInv, HoldInv
    <3>2. CASE ~latched
      <4>. DEFINE c == Claim(BandOf(s, dir), dir, TRUE)
      <4>1. c \in Band /\ c.auto
        BY <1>1, <2>2, BandOfOK, ClaimOK
      <4>. HIDE DEF c
      <4>2. b = [c EXCEPT !.leak = dense]
        BY <3>2 DEF c
      <4>. QED  BY <4>1, <4>2 DEF Band
    <3>. QED  BY <3>1, <3>2
  <2>. HIDE DEF b, s
  <2>4. /\ Pulled(b, dir) \in Band
        /\ Pulled(b, dir).auto \/ (Pulled(b, dir).held /\ ~Pulled(b, dir).leak /\ s \in Live /\ ~bands[s].auto)
    BY <2>3, PulledOK
  <2>. QED  BY <1>1, <2>1, <2>2, <2>4, InstrumentKeeps DEF BandTypeOK
<1>. QED  BY <1>2, <1>3, <1>4

LEMMA KeyKeeps ==
  ASSUME BandInv, NEW from \in Scrollers, NEW dir \in Dirs, PressKey(from, dir)
  PROVE  BandInv'
<1>. DEFINE s == OwnerFor(from, dir)
            b == [BandOf(s, dir) EXCEPT !.edge = dir, !.held = FALSE, !.auto = TRUE, !.raw = 0, !.fresh = TRUE]
<1>1. /\ inputs' \in 0..MaxInputs /\ ~reduced
      /\ UNCHANGED <<wheelBand, touchBand, finger, gone, guard, glow, reduced, lost>>
      /\ BandTypeOK
  BY BandAssumption DEF PressKey, Input, BandInv, BandTypeOK
<1>2. CASE s = Idle
  <2>1. Native(from, dir) /\ UNCHANGED shared
    BY <1>2 DEF PressKey
  <2>. QED  BY <1>1, <2>1, NativeOK, BandsKept DEF BandTypeOK
<1>3. CASE s # Idle
  <2>1. Set(s, b) /\ Note(s) /\ UNCHANGED roomTo
    BY <1>3 DEF PressKey
  <2>2. s \in Scrollers
    BY <1>3, OwnerOK
  <2>3. b \in Band /\ b.auto
    <3>1. BandOf(s, dir) \in Band /\ 0 \in -MaxRaw..MaxRaw
      BY <1>1, <2>2, BandOfOK, BandAssumption
    <3>. QED  BY <3>1 DEF Band
  <2>. HIDE DEF b, s
  <2>. QED  BY <1>1, <2>1, <2>2, <2>3, InstrumentKeeps DEF BandTypeOK
<1>. QED  BY <1>2, <1>3

LEMMA DownKeeps == ASSUME BandInv, NEW from \in Scrollers, TouchStart(from)  PROVE BandInv'
<1>1. /\ inputs' \in 0..MaxInputs /\ ~reduced
  BY BandAssumption DEF TouchStart, Input, BandInv, BandTypeOK
<1>2. BandTypeOK'
  BY <1>1 DEF TouchStart, BandInv, BandTypeOK
<1>3. Live' = Live /\ Idle \notin Scrollers
  BY LiveIs DEF TouchStart, Live, BandInv
<1>4. HoldInv'
  BY <1>3 DEF TouchStart, BandInv, HoldInv
<1>5. FramesRun' /\ FingerKeeps'
  BY <1>1, <1>3 DEF TouchStart, BandInv, FramesRun, FingerKeeps
<1>. QED  BY <1>2, <1>4, <1>5 DEF BandInv

LEMMA MoveKeeps == ASSUME BandInv, NEW dir \in Dirs, TouchMove(dir)  PROVE BandInv'
<1>. DEFINE s == IF touchBand # Idle THEN touchBand ELSE OwnerFor(finger, dir)
            b == IF touchBand # Idle THEN bands[s] ELSE Claim(BandOf(s, dir), dir, FALSE)
<1>1. /\ inputs' \in 0..MaxInputs /\ ~reduced /\ finger \in Scrollers /\ finger # Idle
      /\ UNCHANGED <<wheelBand, finger, gone, guard, glow, reduced, lost>>
      /\ BandTypeOK
  BY BandAssumption DEF TouchMove, Input, BandInv, BandTypeOK
<1>2. s \in Scrollers \cup {Idle, Orphan}
  BY <1>1, OwnerOK DEF BandTypeOK
<1>3. CASE s = Idle
  <2>1. Native(finger, dir) /\ UNCHANGED <<touchBand, shared>>
    BY <1>3, BandAssumption DEF TouchMove
  <2>. QED  BY <1>1, <2>1, NativeOK, BandsKept DEF BandTypeOK
<1>4. CASE s = Orphan
  <2>1. /\ UNCHANGED <<bands, frame, roomTo, shared>> /\ touchBand' \in {Orphan, Idle}
    BY <1>4, BandAssumption DEF TouchMove, Swallowed
  <2>2. touchBand \notin Scrollers
    BY <1>1, <1>4, OwnerOK, LiveIs, BandAssumption
  <2>3. Live' = Live /\ Live \subseteq Scrollers /\ Idle \notin Scrollers /\ Orphan \notin Scrollers
    BY <1>1, <2>1, LiveIs DEF Live
  <2>4. BandTypeOK'
    BY <1>1, <2>1 DEF BandTypeOK
  <2>5. HoldInv'
    BY <1>1, <2>1, <2>2, <2>3 DEF BandInv, HoldInv
  <2>6. FramesRun' /\ FingerKeeps'
    BY <1>1, <2>1, <2>3 DEF BandInv, FramesRun, FingerKeeps
  <2>. QED  BY <2>4, <2>5, <2>6 DEF BandInv
<1>5. CASE s # Idle /\ s # Orphan
  <2>1. /\ Set(s, Pulled(b, dir))
        /\ touchBand' = IF Through(b, dir) THEN Idle ELSE s
        /\ shared' = (shared /\ touchBand # Idle)
        /\ UNCHANGED roomTo
    BY <1>5 DEF TouchMove
  <2>2. s \in Scrollers /\ (touchBand # Idle => touchBand = s /\ s \in Live /\ bands[s] \in Band)
    BY <1>1, <1>2, <1>5, LiveIs DEF BandInv, HoldInv
  <2>3. /\ b \in Band
        /\ b.auto \/ ~b.leak
        /\ touchBand # Idle => b = bands[s]
        /\ touchBand = Idle => ~b.auto
    <3>1. CASE touchBand # Idle
      BY <2>2, <3>1 DEF BandInv, HoldInv
    <3>2. CASE touchBand = Idle
      BY <1>1, <2>2, <3>2, BandOfOK, ClaimOK
    <3>. QED  BY <3>1, <3>2
  <2>. HIDE DEF b, s
  <2>. DEFINE c == Pulled(b, dir)
  <2>4. /\ c \in Band
        /\ Through(b, dir) => c.auto
        /\ ~Through(b, dir) => c.auto = b.auto /\ c.held /\ c.leak = b.leak
    BY <2>3, PulledOK
  <2>5. Set(s, c)
    BY <2>1
  <2>. HIDE DEF c
  <2>6. /\ bands' \in [Scrollers -> Band \cup {Idle}] /\ frame' = TRUE
        /\ Live' = Live \cup {s} /\ bands'[s] = c
        /\ \A x \in Scrollers \ {s} : bands'[x] = bands[x]
    BY <1>1, <2>2, <2>4, <2>5, SetOK
  <2>7. Live \subseteq Scrollers /\ Idle \notin Scrollers
    BY <1>1, LiveIs
  <2>8. BandTypeOK'
    BY <1>1, <2>1, <2>2, <2>6 DEF BandTypeOK
  <2>9. HoldInv'
    <3>1. \A x \in Live' : bands'[x].auto \/ (bands'[x].held /\ ~bands'[x].leak)
      BY <2>3, <2>4, <2>6, <2>7 DEF BandInv, HoldInv
    <3>2. ASSUME NEW x \in Live', ~bands'[x].auto, ~lost
          PROVE  touchBand' = x
      <4>1. CASE x = s
        BY <2>1, <2>4, <2>6, <3>2, <4>1
      <4>2. CASE x # s
        <5>1. x \in Live /\ bands'[x] = bands[x]
          BY <2>6, <2>7, <4>2
        <5>2. touchBand = x
          BY <3>2, <5>1 DEF BandInv, HoldInv
        <5>. QED  BY <2>2, <2>7, <4>2, <5>1, <5>2
      <4>. QED  BY <4>1, <4>2
    <3>3. touchBand' \in Scrollers => touchBand' \in Live'
      BY <2>1, <2>6, <2>7
    <3>. QED  BY <1>1, <3>1, <3>2, <3>3 DEF BandInv, HoldInv
  <2>10. FramesRun'
    BY <1>1, <2>6 DEF BandInv, FramesRun
  <2>11. FingerKeeps'
    BY <1>1, <2>1, <2>2, <2>3, <2>4, <2>6, <2>7 DEF BandInv, FingerKeeps
  <2>. QED  BY <2>8, <2>9, <2>10, <2>11 DEF BandInv
<1>. QED  BY <1>3, <1>4, <1>5

LEMMA LiftKeeps == ASSUME BandInv, TouchEnd  PROVE BandInv'
<1>1. /\ bands' = Released(bands) /\ frame' = (Live # {}) /\ finger' = Idle /\ touchBand' = Idle
      /\ shared' = FALSE /\ UNCHANGED <<wheelBand, gone, guard, roomTo, glow, reduced, lost, inputs>>
  BY DEF TouchEnd
<1>2. Live \subseteq Scrollers /\ (\A s \in Live : bands[s] \in Band) /\ Idle \notin Scrollers
  BY LiveIs DEF BandInv
<1>3. /\ bands' \in [Scrollers -> Band \cup {Idle}] /\ Live' = Live
      /\ \A s \in Live : s # touchBand => bands'[s] = bands[s]
      /\ touchBand \in Live => bands'[touchBand].auto
  <2>1. CASE touchBand \notin Live
    BY <1>1, <2>1 DEF Released, Live, BandInv, BandTypeOK
  <2>2. CASE touchBand \in Live
    <3>. DEFINE b == [bands[touchBand] EXCEPT !.held = FALSE, !.auto = TRUE]
    <3>1. b \in Band /\ b.auto
      BY <1>2, <2>2 DEF Band
    <3>2. bands' = [bands EXCEPT ![touchBand] = b]
      BY <1>1, <1>2, <2>2 DEF Released, BandInv, BandTypeOK
    <3>. HIDE DEF b
    <3>3. /\ bands' \in [Scrollers -> Band \cup {Idle}] /\ bands'[touchBand] = b
          /\ \A x \in Scrollers \ {touchBand} : bands'[x] = bands[x]
      BY <1>2, <2>2, <3>1, <3>2 DEF BandInv, BandTypeOK
    <3>4. b # Idle
      BY <3>1, IdleAssumption
    <3>. QED  BY <1>2, <2>2, <3>1, <3>3, <3>4 DEF Live
  <2>. QED  BY <2>1, <2>2
<1>4. BandTypeOK'
  BY <1>1, <1>3 DEF BandInv, BandTypeOK
<1>5. HoldInv'
  BY <1>1, <1>2, <1>3 DEF BandInv, HoldInv
<1>6. FramesRun' /\ FingerKeeps'
  BY <1>1, <1>2, <1>3 DEF BandInv, FramesRun, FingerKeeps
<1>. QED  BY <1>4, <1>5, <1>6 DEF BandInv

\* What a frame may make of a band.
LEMMA SteppedOK ==
  ASSUME NEW b \in Band, NEW x \in Stepped(b)
  PROVE  x \in Band /\ x.auto = b.auto /\ (~b.auto /\ b.held /\ ~b.leak => x.held /\ ~x.leak)
<1>. DEFINE c == IF b.held /\ b.auto /\ ~b.fresh THEN [b EXCEPT !.held = FALSE] ELSE b
<1>1. c \in Band /\ c.auto = b.auto /\ c.leak = b.leak /\ (~b.auto => c.held = b.held)
  <2>1. CASE b.held /\ b.auto /\ ~b.fresh
    <3>1. c = [b EXCEPT !.held = FALSE]
      BY <2>1
    <3>. QED  BY <2>1, <3>1 DEF Band
  <2>2. CASE ~(b.held /\ b.auto /\ ~b.fresh)
    BY <2>2
  <2>. QED  BY <2>1, <2>2
<1>2. x \in (IF c.held /\ c.leak THEN {[c EXCEPT !.held = FALSE, !.side = c.edge]} ELSE {})
            \cup {[c EXCEPT !.side = d] : d \in IF c.held THEN {c.side, c.edge} ELSE {c.side, -c.side, 0}}
  BY DEF Stepped
<1>. HIDE DEF c
<1>5. c.edge \in {-1, 0, 1} /\ -c.side \in {-1, 0, 1} /\ c.side \in {-1, 0, 1}
  <2>1. c.edge \in {-1, 1} /\ c.side \in {-1, 0, 1}
    BY <1>1 DEF Band, Dirs
  <2>. QED  BY <2>1
<1>6. \/ c.held /\ c.leak /\ x = [c EXCEPT !.held = FALSE, !.side = c.edge]
      \/ \E d \in {-1, 0, 1} : x = [c EXCEPT !.side = d]
  BY <1>2, <1>5
<1>. HIDE DEF c
<1>3. CASE c.held /\ c.leak /\ x = [c EXCEPT !.held = FALSE, !.side = c.edge]
  BY <1>1, <1>3, <1>5 DEF Band
<1>4. ASSUME NEW d \in {-1, 0, 1}, x = [c EXCEPT !.side = d]
      PROVE  x \in Band /\ x.auto = b.auto /\ (~b.auto /\ b.held /\ ~b.leak => x.held /\ ~x.leak)
  BY <1>1, <1>4 DEF Band
<1>. QED  BY <1>6, <1>3, <1>4

LEMMA FrameKeeps == ASSUME BandInv, Frame  PROVE BandInv'
<1>1. PICK step \in [Live -> UNION {Stepped(bands[s]) : s \in Live}] :
        /\ \A s \in Live : step[s] \in Stepped(bands[s])
        /\ bands' = [s \in Scrollers |->
                       IF s \in Live \ {t \in Live : AtRest(step[t])} THEN step[s] ELSE Idle]
        /\ glow' = (glow \cup Live) \ {t \in Live : AtRest(step[t])}
        /\ wheelBand' = IF wheelBand \in {t \in Live : AtRest(step[t])} THEN Idle ELSE wheelBand
        /\ touchBand' = IF touchBand \in {t \in Live : AtRest(step[t])} THEN Idle ELSE touchBand
        /\ frame' = (Live \ {t \in Live : AtRest(step[t])} # {})
        /\ shared' = (shared /\ touchBand \notin {t \in Live : AtRest(step[t])})
        /\ guard' \in {guard} \cup {step[s].edge : s \in
                  {x \in Live : bands[x].held /\ bands[x].leak /\ ~step[x].held}}
  BY DEF Frame
<1>. DEFINE home == {t \in Live : AtRest(step[t])}
            away == Live \ home
<1>2. Live \subseteq Scrollers /\ (\A s \in Live : bands[s] \in Band) /\ Idle \notin Scrollers
  BY LiveIs DEF BandInv
<1>3. \A s \in Live : /\ step[s] \in Band /\ step[s].auto = bands[s].auto
                      /\ ~bands[s].auto /\ bands[s].held /\ ~bands[s].leak
                            => step[s].held /\ ~step[s].leak
  BY <1>1, <1>2, SteppedOK
<1>4. /\ bands' = [s \in Scrollers |-> IF s \in away THEN step[s] ELSE Idle]
      /\ glow' = (glow \cup Live) \ home
      /\ wheelBand' = (IF wheelBand \in home THEN Idle ELSE wheelBand)
      /\ touchBand' = (IF touchBand \in home THEN Idle ELSE touchBand)
      /\ frame' = (away # {}) /\ shared' = (shared /\ touchBand \notin home)
      /\ UNCHANGED <<finger, gone, roomTo, reduced, lost, inputs>>
  BY <1>1 DEF Frame
<1>5. guard' \in {-1, 0, 1}
  BY <1>1, <1>3 DEF BandInv, BandTypeOK, Band, Dirs
<1>6. home \subseteq Live /\ away \subseteq Live
  OBVIOUS
<1>. HIDE DEF home
<1>7. /\ bands' \in [Scrollers -> Band \cup {Idle}] /\ Live' = away
      /\ \A s \in away : bands'[s] = step[s]
  <2>1. \A s \in away : step[s] # Idle
    BY <1>3, <1>6, IdleAssumption
  <2>. QED  BY <1>2, <1>3, <1>4, <1>6, <2>1 DEF Live
<1>8. BandTypeOK'
  <2>1. glow' \subseteq Scrollers /\ frame' \in BOOLEAN /\ shared' \in BOOLEAN
    BY <1>2, <1>4 DEF BandInv, BandTypeOK
  <2>2. wheelBand' \in Scrollers \cup {Idle, Orphan} /\ touchBand' \in Scrollers \cup {Idle, Orphan}
    BY <1>4 DEF BandInv, BandTypeOK
  <2>. QED  BY <1>4, <1>5, <1>7, <2>1, <2>2 DEF BandInv, BandTypeOK
<1>9. HoldInv'
  <2>1. \A s \in Live' : bands'[s].auto \/ (bands'[s].held /\ ~bands'[s].leak)
    BY <1>3, <1>6, <1>7 DEF BandInv, HoldInv
  <2>2. \A s \in Live' : ~bands'[s].auto /\ ~lost' => touchBand' = s /\ finger' # Idle
    <3>. SUFFICES ASSUME NEW s \in away, ~bands'[s].auto, ~lost  PROVE touchBand' = s /\ finger' # Idle
      BY <1>4, <1>7
    <3>1. touchBand = s /\ finger # Idle
      BY <1>3, <1>6, <1>7 DEF BandInv, HoldInv
    <3>. QED  BY <1>4, <3>1
  <2>3. touchBand' \in Scrollers => touchBand' \in Live'
    BY <1>2, <1>4, <1>7 DEF BandInv, HoldInv
  <2>. QED  BY <1>4, <2>1, <2>2, <2>3 DEF BandInv, HoldInv
<1>10. FramesRun'
  BY <1>2, <1>4, <1>6, <1>7 DEF BandInv, FramesRun
<1>11. FingerKeeps'
  <2>. SUFFICES ASSUME touchBand' \in Scrollers, ~shared', ~lost'
                PROVE  bands'[touchBand'].held /\ ~bands'[touchBand'].auto
    BY DEF FingerKeeps
  <2>1. touchBand' = touchBand /\ touchBand \notin home /\ touchBand \in Live /\ ~shared /\ ~lost
    BY <1>2, <1>4 DEF BandInv, HoldInv
  <2>2. bands[touchBand].held /\ ~bands[touchBand].auto /\ ~bands[touchBand].leak
    BY <1>2, <2>1 DEF BandInv, HoldInv, FingerKeeps
  <2>. QED  BY <1>3, <1>7, <2>1, <2>2
<1>. QED  BY <1>8, <1>9, <1>10, <1>11 DEF BandInv

LEMMA IdleKeeps == ASSUME BandInv, GoesIdle  PROVE BandInv'
<1>1. UNCHANGED <<frame, wheelBand, touchBand, finger, gone, roomTo, glow, reduced, shared, lost, inputs>>
  BY DEF GoesIdle
<1>2. CASE guard # 0 /\ guard' = 0 /\ UNCHANGED bands
  BY <1>1, <1>2, BandsKept DEF BandInv, BandTypeOK
<1>3. ASSUME NEW s \in Live, bands' = [bands EXCEPT ![s].fresh = FALSE], UNCHANGED guard
      PROVE  BandInv'
  <2>. DEFINE b == [bands[s] EXCEPT !.fresh = FALSE]
  <2>1. Live \subseteq Scrollers /\ bands[s] \in Band
    BY LiveIs DEF BandInv
  <2>2. b \in Band /\ b.auto = bands[s].auto /\ b.held = bands[s].held /\ b.leak = bands[s].leak
    BY <2>1 DEF Band
  <2>3. bands' = [bands EXCEPT ![s] = b]
    BY <1>3, <2>1 DEF BandInv, BandTypeOK
  <2>. HIDE DEF b
  <2>4. /\ bands' \in [Scrollers -> Band \cup {Idle}] /\ bands'[s] = b
        /\ \A x \in Scrollers \ {s} : bands'[x] = bands[x]
    BY <2>1, <2>2, <2>3 DEF BandInv, BandTypeOK
  <2>5. Live' = Live
    BY <2>1, <2>2, <2>4, IdleAssumption DEF Live
  <2>6. BandTypeOK'
    BY <1>1, <1>3, <2>4 DEF BandInv, BandTypeOK
  <2>7. HoldInv'
    BY <1>1, <2>1, <2>2, <2>4, <2>5 DEF BandInv, HoldInv
  <2>8. FramesRun' /\ FingerKeeps'
    BY <1>1, <2>1, <2>2, <2>4, <2>5 DEF BandInv, FramesRun, FingerKeeps
  <2>. QED  BY <2>6, <2>7, <2>8 DEF BandInv
<1>. QED  BY <1>2, <1>3 DEF GoesIdle

\* The bands are dropped and the finger is followed no more.
LEMMA ResetKeeps ==
  ASSUME BandInv, Reset, gone' = FALSE, UNCHANGED <<guard, lost>>, reduced' \in BOOLEAN,
         roomTo' \in [Scrollers -> [Dirs -> BOOLEAN]], inputs' \in 0..MaxInputs
  PROVE  BandInv'
<1>1. /\ bands' = [s \in Scrollers |-> Idle] /\ glow' = glow \ Live
      /\ wheelBand' = Idle /\ touchBand' = Idle /\ finger' = Idle /\ frame' = FALSE /\ shared' = FALSE
  BY DEF Reset
<1>2. Live' = {}
  BY <1>1 DEF Live
<1>3. Idle \notin Scrollers
  BY LiveIs DEF BandInv
<1>4. BandTypeOK'
  BY <1>1 DEF BandInv, BandTypeOK
<1>5. HoldInv' /\ FramesRun' /\ FingerKeeps'
  BY <1>1, <1>2, <1>3 DEF BandInv, HoldInv, FramesRun, FingerKeeps
<1>. QED  BY <1>4, <1>5 DEF BandInv

LEMMA PageKeeps == ASSUME BandInv, GoElsewhere \/ Reduce  PROVE BandInv'
<1>1. inputs' \in 0..MaxInputs
  BY BandAssumption DEF GoElsewhere, Reduce, Input, BandInv, BandTypeOK
<1>2. CASE GoElsewhere
  BY <1>1, <1>2, ResetKeeps DEF GoElsewhere, BandInv, BandTypeOK
<1>3. CASE Reduce /\ ~reduced
  BY <1>1, <1>3, ResetKeeps DEF Reduce, BandInv, BandTypeOK
<1>4. CASE Reduce /\ reduced
  <2>1. /\ UNCHANGED <<bands, frame, wheelBand, touchBand, finger, glow, shared, guard, roomTo, lost>>
        /\ reduced' = FALSE /\ gone' = gone
    BY <1>4 DEF Reduce, BandInv, BandTypeOK
  <2>2. Live' = Live
    BY <2>1 DEF Live
  <2>3. BandTypeOK'
    BY <1>1, <2>1 DEF BandInv, BandTypeOK
  <2>. QED  BY <2>1, <2>2, <2>3 DEF BandInv, HoldInv, FramesRun, FingerKeeps
<1>. QED  BY <1>2, <1>3, <1>4

\* A render takes the node under the finger, or the content of a band.
LEMMA RenderKeeps == ASSUME BandInv, NodeGoes \/ ContentGoes  PROVE BandInv'
<1>1. Live \subseteq Scrollers /\ Idle \notin Scrollers /\ Orphan \notin Scrollers
  BY LiveIs DEF BandInv
<1>2. CASE NodeGoes
  <2>1. Live' = Live
    BY <1>2 DEF NodeGoes, Live
  <2>2. BandTypeOK'
    BY <1>2 DEF NodeGoes, BandInv, BandTypeOK
  <2>. QED  BY <1>2, <2>1, <2>2 DEF NodeGoes, BandInv, HoldInv, FramesRun, FingerKeeps
<1>3. CASE ContentGoes
  <2>1. PICK s \in Live :
          /\ bands' = [bands EXCEPT ![s] = Idle] /\ frame' = (Live # {s})
          /\ wheelBand' = (IF wheelBand = s THEN Orphan ELSE wheelBand)
          /\ touchBand' = (IF touchBand = s THEN Orphan ELSE touchBand)
          /\ lost' = (lost \/ s \in glow)
    BY <1>3 DEF ContentGoes
  <2>2. UNCHANGED <<finger, gone, guard, roomTo, glow, reduced, shared, inputs>>
    BY <1>3 DEF ContentGoes
  <2>3. /\ bands' \in [Scrollers -> Band \cup {Idle}] /\ Live' = Live \ {s}
        /\ \A x \in Scrollers \ {s} : bands'[x] = bands[x]
    BY <1>1, <2>1 DEF BandInv, BandTypeOK, Live
  <2>4. BandTypeOK'
    BY <2>1, <2>2, <2>3 DEF BandInv, BandTypeOK
  <2>5. HoldInv'
    <3>1. \A x \in Live' : bands'[x].auto \/ (bands'[x].held /\ ~bands'[x].leak)
      BY <1>1, <2>3 DEF BandInv, HoldInv
    <3>2. \A x \in Live' : ~bands'[x].auto /\ ~lost' => touchBand' = x /\ finger' # Idle
      BY <1>1, <2>1, <2>2, <2>3 DEF BandInv, HoldInv
    <3>3. touchBand' \in Scrollers => touchBand' \in Live'
      BY <1>1, <2>1, <2>3 DEF BandInv, HoldInv
    <3>4. gone' => lost'
      BY <2>1, <2>2 DEF BandInv, HoldInv
    <3>. QED  BY <3>1, <3>2, <3>3, <3>4 DEF HoldInv
  <2>6. FramesRun'
    BY <1>1, <2>1, <2>2, <2>3 DEF BandInv, FramesRun
  <2>7. FingerKeeps'
    BY <1>1, <2>1, <2>2, <2>3 DEF BandInv, HoldInv, FingerKeeps
  <2>. QED  BY <2>4, <2>5, <2>6, <2>7 DEF BandInv
<1>. QED  BY <1>2, <1>3

LEMMA WheelOrphanKeeps == ASSUME BandInv, WheelAtOrphan  PROVE BandInv'
<1>1. inputs' \in 0..MaxInputs
  BY BandAssumption DEF WheelAtOrphan, Input, BandInv, BandTypeOK
<1>. QED  BY <1>1, BandsKept DEF WheelAtOrphan, Swallowed, BandInv, BandTypeOK

LEMMA BandInvStep == BandInv /\ [BandNext]_bandVars => BandInv'
<1>. SUFFICES ASSUME BandInv, [BandNext]_bandVars  PROVE BandInv'
  OBVIOUS
<1>1. CASE UNCHANGED bandVars
  BY <1>1, BandsKept DEF bandVars, BandInv, BandTypeOK
<1>2. CASE BandNext
  BY <1>2, WheelKeeps, KeyKeeps, DownKeeps, MoveKeeps, WheelOrphanKeeps, LiftKeeps, FrameKeeps,
     IdleKeeps, PageKeeps, RenderKeeps DEF BandNext
<1>. QED  BY <1>1, <1>2

LEMMA BandPromise == BandInv => BandSafe
BY DEF BandInv, BandSafe, HoldInv, HeldIsLetGo

-----------------------------------------------------------------------------
(* The small machines.                                                     *)

\* A click that is still to come is one to be dropped.
SegInv == SegTypeOK /\ GestureChooses /\ (seg.click # Unset => seg.suppress)

\* A place on the track is on one of its segments.
LEMMA SeatOf == ASSUME NEW x \in Places  PROVE x \div Seat \in 0..(Segments - 1)
<1>. DEFINE q == x \div Seat
            r == x % Seat
<1>1. Segments \in Nat \ {0} /\ Seat \in Nat \ {0} /\ x \in Nat /\ x < Segments * Seat
  BY WidgetsAssumption DEF Places
<1>2. q \in Int /\ r \in 0..(Seat - 1) /\ x = Seat * q + r
  BY <1>1
<1>. HIDE DEF q, r
<1>3. q >= 0
  <2>1. q <= -1 => Seat * q <= -Seat
    BY <1>1, <1>2
  <2>. QED  BY <1>1, <1>2, <2>1
<1>4. q < Segments
  <2>1. q >= Segments => Seat * q >= Seat * Segments
    BY <1>1, <1>2
  <2>2. Seat * Segments = Segments * Seat /\ Seat * q \in Int /\ Seat * Segments \in Int
    BY <1>1, <1>2
  <2>. QED  BY <1>1, <1>2, <2>1, <2>2
<1>. QED  BY <1>1, <1>2, <1>3, <1>4 DEF q

LEMMA NearestIs == ASSUME NEW px \in Nat  PROVE Nearest(px) \in 0..(Segments - 1)
<1>1. (2 * px + Seat) \div (2 * Seat) \in Int /\ Segments - 1 \in Nat
  BY WidgetsAssumption
<1>. QED  BY <1>1 DEF Nearest, Within

LEMMA SegInvInit == SegInit => SegInv
<1>1. 0 \in 0..(Segments - 1) /\ 0 \in Places
  <2>1. Segments * Seat >= 1
    BY WidgetsAssumption
  <2>. QED  BY <2>1, WidgetsAssumption DEF Places
<1>. QED  BY <1>1 DEF SegInit, SegInv, SegTypeOK, GestureChooses

LEMMA SegInvStep == SegInv /\ [SegNext]_segVars => SegInv'
<1>. SUFFICES ASSUME SegInv, [SegNext]_segVars  PROVE SegInv'
  OBVIOUS
<1>. DEFINE Seats == 0..(Segments - 1)
<1>0. /\ Segments \in Nat \ {0} /\ Seat \in Nat \ {0} /\ seg.value \in 0..(Segments - 1)
      /\ seg.value * Seat \in Nat /\ (Segments - 1) * Seat \in Nat
  <2>1. /\ Segments \in Nat \ {0} /\ Seat \in Nat \ {0} /\ seg.value \in 0..(Segments - 1)
    BY WidgetsAssumption DEF SegInv, SegTypeOK
  <2>2. \A a, b \in Nat : a * b \in Nat
    OBVIOUS
  <2>3. seg.value \in Nat /\ Segments - 1 \in Nat
    BY <2>1
  <2>. QED  BY <2>1, <2>2, <2>3
<1>1. CASE PointerDown
  BY <1>0, <1>1 DEF PointerDown, SegInv, SegTypeOK, GestureChooses
<1>2. CASE PointerMove
  <2>1. PICK x \in Places :
          seg' = [seg EXCEPT !.moved = TRUE,
                             !.px = Within(seg.origin + (x - seg.from), (Segments - 1) * Seat)]
    BY <1>2 DEF PointerMove
  <2>2. Within(seg.origin + (x - seg.from), (Segments - 1) * Seat) \in Nat
    <3>1. seg.origin + (x - seg.from) \in Int
      BY DEF SegInv, SegTypeOK, Places
    <3>. QED  BY <1>0, <3>1 DEF Within
  <2>. QED  BY <1>2, <2>1, <2>2 DEF PointerMove, SegInv, SegTypeOK, GestureChooses
<1>3. CASE RenderThumb
  BY <1>3 DEF RenderThumb, SegInv, SegTypeOK, GestureChooses
<1>4. CASE PointerUp
  <2>. DEFINE place == IF seg.drawn = Unset THEN seg.origin ELSE seg.drawn
  <2>1. PICK x \in Places, click \in 0..(Segments - 1) \cup {Unset} :
          LET seat == IF seg.moved THEN Nearest(place) ELSE x \div Seat
          IN  /\ seg' = [seg EXCEPT !.held = FALSE, !.px = Unset, !.drawn = Unset, !.suppress = TRUE,
                                    !.timer = TRUE, !.value = seat, !.click = click]
              /\ chosen' = seat
    BY <1>4 DEF PointerUp
  <2>2. place \in Nat
    BY DEF SegInv, SegTypeOK
  <2>. DEFINE seat == IF seg.moved THEN Nearest(place) ELSE x \div Seat
  <2>3. seat \in 0..(Segments - 1)
    BY <2>2, SeatOf, NearestIs
  <2>4. /\ seg' = [seg EXCEPT !.held = FALSE, !.px = Unset, !.drawn = Unset, !.suppress = TRUE,
                              !.timer = TRUE, !.value = seat, !.click = click]
        /\ chosen' = seat
    BY <2>1
  <2>. HIDE DEF seat
  <2>. QED  BY <2>3, <2>4 DEF SegInv, SegTypeOK, GestureChooses
<1>5. CASE PointerCancel
  BY <1>5 DEF PointerCancel, SegInv, SegTypeOK, GestureChooses
<1>6. CASE Pick
  BY <1>6 DEF Pick, SegInv, SegTypeOK, GestureChooses
<1>7. CASE PickByKey
  BY <1>7 DEF PickByKey, SegInv, SegTypeOK, GestureChooses
<1>8. CASE SuppressEnds
  BY <1>8 DEF SuppressEnds, SegInv, SegTypeOK, GestureChooses
<1>9. CASE UNCHANGED segVars
  BY <1>9 DEF segVars, SegInv, SegTypeOK, GestureChooses
<1>. QED  BY <1>1, <1>2, <1>3, <1>4, <1>5, <1>6, <1>7, <1>8, <1>9 DEF SegNext

\* The rail.
RailInv == RailTypeOK /\ PinIsReleased

LEMMA RailInvInit == RailInit => RailInv
BY DEF RailInit, RailInv, RailTypeOK, PinIsReleased

LEMMA SpiedOK ==
  ASSUME NEW r \in [active : Sections \cup {Unset}, pinned : BOOLEAN, timer : BOOLEAN, list : SUBSET Sections],
         rail' \in Spied(r)
  PROVE  RailInv'
BY DEF Spied, RailInv, RailTypeOK, PinIsReleased

LEMMA RailInvStep == RailInv /\ [RailNext]_rail => RailInv'
<1>. SUFFICES ASSUME RailInv, [RailNext]_rail  PROVE RailInv'
  OBVIOUS
<1>1. CASE Jump
  BY <1>1 DEF Jump, RailInv, RailTypeOK, PinIsReleased
<1>2. CASE Scroll
  BY <1>2, SpiedOK DEF Scroll, RailInv, RailTypeOK
<1>3. CASE Unpin
  BY <1>3 DEF Unpin, RailInv, RailTypeOK, PinIsReleased
<1>4. CASE SectionsChange
  <2>1. PICK away \in SUBSET Sections : rail' \in Spied([rail EXCEPT !.list = Sections \ away, !.timer = FALSE])
    BY <1>4 DEF SectionsChange
  <2>. DEFINE r == [rail EXCEPT !.list = Sections \ away, !.timer = FALSE]
  <2>2. r \in [active : Sections \cup {Unset}, pinned : BOOLEAN, timer : BOOLEAN, list : SUBSET Sections]
    BY DEF RailInv, RailTypeOK
  <2>. HIDE DEF r
  <2>. QED  BY <2>1, <2>2, SpiedOK DEF r
<1>5. CASE UNCHANGED rail
  BY <1>5 DEF RailInv, RailTypeOK, PinIsReleased
<1>. QED  BY <1>1, <1>2, <1>3, <1>4, <1>5 DEF RailNext

\* What glides.
GlideInv == GlideTypeOK /\ RestIsTrue

LEMMA GlideInvInit == GlideInit => GlideInv
BY DEF GlideInit, GlideInv, GlideTypeOK, RestIsTrue

LEMMA GlideInvStep == GlideInv /\ [GlideNext]_glide => GlideInv'
<1>. SUFFICES ASSUME GlideInv, [GlideNext]_glide  PROVE GlideInv'
  OBVIOUS
<1>1. CASE SetValue
  <2>1. PICK n \in Numbers : glide' = [glide EXCEPT !.value = n, !.moving = ~glide.ticker \/ n # glide.from]
    BY <1>1 DEF SetValue
  <2>2. CASE ~glide.ticker \/ n # glide.from
    BY <2>1, <2>2 DEF GlideInv, GlideTypeOK, RestIsTrue
  <2>3. CASE glide.ticker /\ n = glide.from
    BY <2>1, <2>3 DEF GlideInv, GlideTypeOK, RestIsTrue
  <2>. QED  BY <2>2, <2>3 DEF GlideInv, GlideTypeOK
<1>2. CASE SnapValue
  BY <1>2 DEF SnapValue, GlideInv, GlideTypeOK, RestIsTrue
<1>3. CASE FrameOfGlide
  BY <1>3 DEF FrameOfGlide, GlideInv, GlideTypeOK, RestIsTrue
<1>4. CASE UNCHANGED glide
  BY <1>4 DEF GlideInv, GlideTypeOK, RestIsTrue
<1>. QED  BY <1>1, <1>2, <1>3, <1>4 DEF GlideNext

\* The badges.
SysType == [real : States, badge : States \cup {"unknown"}, ops : 0..2, busy : BOOLEAN,
            reads : SUBSET (({"asked"} \cup States) \X (1..MaxReads)), crossed : BOOLEAN]

\* While nothing landed under a read, what was read is what there is.
SysInv ==
  /\ sys \in SysType /\ BadgeIsTrue
  /\ ~sys.crossed => \A r \in sys.reads : r[1] \in {"asked", sys.real}

LEMMA SysInvInit == SysInit => SysInv
<1>1. {<<"asked", 1>>} \in SUBSET (({"asked"} \cup States) \X (1..MaxReads))
  BY WidgetsAssumption
<1>. QED  BY <1>1 DEF SysInit, SysInv, SysType, BadgeIsTrue

\* A read gets a name that no other read has.
LEMMA NameForRead ==
  ASSUME NEW s \in SysType, Cardinality(s.reads) < MaxReads
  PROVE  (CHOOSE n \in 1..MaxReads : \A r \in s.reads : r[2] # n) \in 1..MaxReads
<1>. DEFINE Names == 1..MaxReads
            used == {r[2] : r \in s.reads}
<1>1. IsFiniteSet(Names) /\ Cardinality(Names) = MaxReads
  BY FS_Interval, WidgetsAssumption
<1>2. IsFiniteSet(s.reads)
  <2>1. IsFiniteSet(({"asked"} \cup States) \X Names)
    <3>. DEFINE Said == ({"asked"} \cup {"present"}) \cup {"missing"}
    <3>1. IsFiniteSet(Said)
      BY FS_Singleton, FS_AddElement, FS_Union
    <3>2. {"asked"} \cup States = Said
      BY DEF States
    <3>. HIDE DEF Said
    <3>. QED  BY <1>1, <3>1, <3>2, FS_Product
  <2>. QED  BY <2>1, FS_Subset DEF SysType
<1>3. IsFiniteSet(used) /\ Cardinality(used) <= Cardinality(s.reads)
  <2>. DEFINE f == [r \in s.reads |-> r[2]]
  <2>1. f \in Surjection(s.reads, used)
    BY DEF Surjection
  <2>. HIDE DEF f, used
  <2>. QED  BY <1>2, <2>1, FS_Surjection
<1>4. \E n \in Names : n \notin used
  <2>. SUFFICES ASSUME Names \subseteq used  PROVE FALSE
    OBVIOUS
  <2>1. Cardinality(Names) <= Cardinality(used)
    BY <1>3, FS_Subset
  <2>2. Cardinality(used) \in Nat /\ Cardinality(s.reads) \in Nat /\ MaxReads \in Nat
    BY <1>2, <1>3, FS_CardinalityType, WidgetsAssumption
  <2>. QED  BY <1>1, <1>3, <2>1, <2>2
<1>. QED  BY <1>4

LEMMA SysInvStep == SysInv /\ [SysNext]_sys => SysInv'
<1>. SUFFICES ASSUME SysInv, [SysNext]_sys  PROVE SysInv'
  OBVIOUS
<1>. DEFINE Reads == ({"asked"} \cup States) \X (1..MaxReads)
<1>0. sys \in SysType
  BY DEF SysInv
<1>1. CASE StartOp
  <2>1. sys.ops \in 0..2 /\ sys.ops < 2
    BY <1>0, <1>1 DEF StartOp, SysType
  <2>2. sys.ops + 1 \in 0..2 /\ sys.ops + 1 # 0
    BY <2>1
  <2>3. sys' = [sys EXCEPT !.ops = sys.ops + 1, !.busy = TRUE]
    BY <1>1 DEF StartOp
  <2>4. sys' \in SysType
    BY <1>0, <2>2, <2>3 DEF SysType
  <2>5. sys'.ops # 0 /\ sys'.reads = sys.reads /\ sys'.crossed = sys.crossed /\ sys'.real = sys.real
    BY <1>0, <2>2, <2>3 DEF SysType
  <2>. QED  BY <2>4, <2>5 DEF SysInv, BadgeIsTrue
<1>2. CASE OtherOp
  BY <1>0, <1>2 DEF OtherOp, SysInv, SysType, BadgeIsTrue
<1>3. CASE OpLands
  <2>1. (CHOOSE s \in States : s # sys.real) \in States
    BY <1>0 DEF SysType, States
  <2>2. sys' = [sys EXCEPT !.real = CHOOSE s \in States : s # sys.real,
                           !.crossed = sys.crossed \/ sys.reads # {}] /\ sys.ops > 0
    BY <1>3 DEF OpLands
  <2>3. sys' \in SysType
    <3>1. (sys.crossed \/ sys.reads # {}) \in BOOLEAN
      OBVIOUS
    <3>. QED  BY <1>0, <2>1, <2>2, <3>1 DEF SysType
  <2>4. /\ sys'.ops # 0 /\ sys'.reads = sys.reads
        /\ sys'.crossed = (sys.crossed \/ sys.reads # {})
    BY <1>0, <2>2 DEF SysType
  <2>. QED  BY <2>3, <2>4 DEF SysInv, BadgeIsTrue
<1>4. CASE EndOp
  <2>. DEFINE s == [sys EXCEPT !.ops = @ - 1, !.busy = FALSE]
              name == CHOOSE n \in 1..MaxReads : \A r \in s.reads : r[2] # n
              read == <<"asked", name>>
  <2>1. s \in SysType /\ s.reads = sys.reads /\ s.crossed = sys.crossed /\ s.real = sys.real
    <3>1. sys.ops \in 0..2 /\ sys.ops > 0
      BY <1>0, <1>4 DEF EndOp, SysType
    <3>2. sys.ops - 1 \in 0..2
      BY <3>1
    <3>. QED  BY <1>0, <3>2 DEF SysType
  <2>2. sys' = WithRead(s) /\ Cardinality(s.reads) < MaxReads
    BY <1>4, <2>1 DEF EndOp
  <2>. HIDE DEF s
  <2>3. name \in 1..MaxReads
    BY <2>1, <2>2, NameForRead
  <2>. HIDE DEF name
  <2>4. read \in Reads /\ read[1] = "asked"
    BY <2>3
  <2>5. sys' = [s EXCEPT !.reads = @ \cup {read}, !.crossed = @ /\ s.reads # {}]
    BY <2>2 DEF WithRead, name
  <2>. HIDE DEF read
  <2>6. sys' = [s EXCEPT !.reads = s.reads \cup {read}, !.crossed = s.crossed /\ s.reads # {}]
    BY <2>5
  <2>7. sys' \in SysType /\ sys'.reads = sys.reads \cup {read} /\ sys'.real = sys.real
    <3>1. CASE s.crossed /\ s.reads # {}
      BY <2>1, <2>4, <2>6, <3>1 DEF SysType
    <3>2. CASE ~(s.crossed /\ s.reads # {})
      BY <2>1, <2>4, <2>6, <3>2 DEF SysType
    <3>. QED  BY <3>1, <3>2
  <2>8. ~sys'.crossed => ~sys.crossed \/ sys.reads = {}
    BY <2>1, <2>6 DEF SysType
  <2>. QED  BY <2>4, <2>7, <2>8 DEF SysInv, BadgeIsTrue
<1>5. CASE LookAtSystem
  <2>1. PICK r \in sys.reads :
          r[1] = "asked" /\ sys' = [sys EXCEPT !.reads = (sys.reads \ {r}) \cup {<<sys.real, r[2]>>}]
    BY <1>5 DEF LookAtSystem
  <2>. DEFINE now == <<sys.real, r[2]>>
  <2>2. now \in Reads /\ now[1] = sys.real
    BY <1>0, <2>1 DEF SysType
  <2>. HIDE DEF now
  <2>3. sys' = [sys EXCEPT !.reads = (sys.reads \ {r}) \cup {now}]
    BY <2>1 DEF now
  <2>. QED  BY <1>0, <2>2, <2>3 DEF SysInv, SysType, BadgeIsTrue
<1>6. CASE Badge
  <2>1. PICK r \in sys.reads :
          \/ r[1] # "asked" /\ sys' = [sys EXCEPT !.reads = sys.reads \ {r}, !.badge = r[1]]
          \/ sys' = [sys EXCEPT !.reads = sys.reads \ {r}, !.badge = "unknown"]
    BY <1>6 DEF Badge
  <2>2. r[1] \in {"asked"} \cup States
    BY <1>0 DEF SysType
  <2>. QED  BY <1>0, <2>1, <2>2, ZenonT(40) DEF SysInv, SysType, BadgeIsTrue
<1>7. CASE UNCHANGED sys
  BY <1>7 DEF SysInv, SysType, BadgeIsTrue
<1>. QED  BY <1>1, <1>2, <1>3, <1>4, <1>5, <1>6, <1>7 DEF SysNext

\* The strip.
StripInv == StripTypeOK /\ (strip.waiting => strip.tries < MaxTries)

LEMMA StripInvInit == StripInit => StripInv
<1>1. 0 \in 0..MaxTries
  BY WidgetsAssumption
<1>. QED  BY <1>1 DEF StripInit, StripInv, StripTypeOK

LEMMA StripInvStep == StripInv /\ [StripNext]_strip => StripInv'
<1>. SUFFICES ASSUME StripInv, [StripNext]_strip  PROVE StripInv'
  OBVIOUS
<1>1. MaxTries \in Nat
  BY WidgetsAssumption
<1>2. CASE StripAnswer
  <2>1. CASE ~strip.here
    BY <1>2, <2>1 DEF StripAnswer, StripInv, StripTypeOK
  <2>2. CASE strip.here /\ strip.ready
    BY <1>2, <2>2 DEF StripAnswer, StripInv, StripTypeOK
  <2>3. CASE strip.here /\ ~strip.ready /\ strip.tries < MaxTries
    BY <1>2, <2>3 DEF StripAnswer, StripInv, StripTypeOK
  <2>4. CASE strip.here /\ ~strip.ready /\ ~(strip.tries < MaxTries)
    BY <1>2, <2>4 DEF StripAnswer, StripInv, StripTypeOK
  <2>. QED  BY <2>1, <2>2, <2>3, <2>4
<1>3. CASE AskAgain
  <2>1. strip.tries + 1 \in 0..MaxTries
    BY <1>1, <1>3 DEF AskAgain, StripInv, StripTypeOK
  <2>. QED  BY <1>3, <2>1 DEF AskAgain, StripInv, StripTypeOK
<1>4. CASE OpenStrip
  <2>1. 0 \in 0..MaxTries
    BY <1>1
  <2>. QED  BY <1>4, <2>1 DEF OpenStrip, StripInv, StripTypeOK
<1>5. CASE EngineStarts
  <2>1. (~strip.ready) \in BOOLEAN
    OBVIOUS
  <2>. QED  BY <1>5, <2>1 DEF EngineStarts, StripInv, StripTypeOK
<1>6. CASE CloseStrip \/ UNCHANGED strip
  BY <1>6 DEF CloseStrip, StripInv, StripTypeOK
<1>. QED  BY <1>2, <1>3, <1>4, <1>5, <1>6 DEF StripNext

WidgetsInv == SegInv /\ RailInv /\ GlideInv /\ SysInv /\ StripInv

LEMMA WidgetsPromise == WidgetsInv => WidgetsSafe
BY DEF WidgetsInv, SegInv, RailInv, GlideInv, SysInv, SysType, SysTypeOK, StripInv, WidgetsSafe

-----------------------------------------------------------------------------
\* Of the commands, those that are kept are no more than all.
LEMMA KeptFits ==
  ASSUME NEW S
  PROVE  Kept(S) \in Seq(STRING) /\ Len(Kept(S)) \in 0..Len(Commands)
<1>. DEFINE N == Len(Commands)
            A == Seq(STRING)
            Round(f, T) == IF T = {} THEN <<>>
                           ELSE IF Commands[Max(T)] \in S
                                THEN Append(f[T \ {Max(T)}], Commands[Max(T)])
                                ELSE f[T \ {Max(T)}]
            step == [p \in A \X (1..N) |->
                       IF Commands[p[2]] \in S THEN Append(p[1], Commands[p[2]]) ELSE p[1]]
            left == CHOOSE f : f = [T \in SUBSET DOMAIN Commands |-> Round(f, T)]
<1>1. N \in Nat /\ DOMAIN Commands = 1..N /\ \A i \in 1..N : Commands[i] \in STRING
  BY OverlaysAssumption
<1>2. \A a \in A, i \in 1..N :
        /\ step[<<a, i>>] = IF Commands[i] \in S THEN Append(a, Commands[i]) ELSE a
        /\ step[<<a, i>>] \in A
  <2>. SUFFICES ASSUME NEW a \in A, NEW i \in 1..N
                PROVE  /\ step[<<a, i>>] = IF Commands[i] \in S THEN Append(a, Commands[i]) ELSE a
                       /\ step[<<a, i>>] \in A
    OBVIOUS
  <2>1. Append(a, Commands[i]) \in A
    BY <1>1
  <2>. HIDE DEF A, N
  <2>2. <<a, i>> \in A \X (1..N) /\ <<a, i>>[1] = a /\ <<a, i>>[2] = i
    OBVIOUS
  <2>3. step[<<a, i>>] = IF Commands[i] \in S THEN Append(a, Commands[i]) ELSE a
    BY <2>2
  <2>. QED  BY <2>1, <2>3
<1>3. <<>> \in A
  OBVIOUS
<1>. HIDE DEF N, A, step
<1>4. PICK f : Folded(f, <<>>, step, N, A)
  <2>1. step \in [A \X (1..N) -> A]
    BY <1>2 DEF step
  <2>. QED  BY <1>1, <1>3, <2>1, FoldRounds
<1>5. \A T \in SUBSET (1..N) : f[T] = Round(f, T)
  BY <1>2, <1>4 DEF Folded
<1>. HIDE DEF Round
<1>6. f = [T \in SUBSET (1..N) |-> Round(f, T)]
  BY <1>4, <1>5 DEF Folded
<1>7. left = [T \in SUBSET (1..N) |-> Round(left, T)]
  BY <1>1, <1>6
<1>8. Kept(S) = left[1..N]
  BY <1>1 DEF Kept, FoldLeft, MapThenFoldSet, Round
<1>. HIDE DEF left
<1>9. \A T \in SUBSET (1..N) : left[T] = Round(left, T)
  BY <1>7
<1>. DEFINE Good == {i \in Nat : i <= N => left[1..i] \in Seq(STRING) /\ Len(left[1..i]) <= i}
<1>10. 0 \in Good
  <2>1. 1..0 = {} /\ {} \in SUBSET (1..N)
    OBVIOUS
  <2>2. left[1..0] = <<>>
    BY <1>9, <2>1 DEF Round
  <2>3. left[1..0] \in Seq(STRING) /\ Len(left[1..0]) <= 0
    BY <2>2
  <2>. QED  BY <2>3
<1>11. ASSUME NEW n \in Nat, n \in Good  PROVE n + 1 \in Good
  <2>. SUFFICES ASSUME n + 1 <= N
                PROVE  left[1..(n + 1)] \in Seq(STRING) /\ Len(left[1..(n + 1)]) <= n + 1
    OBVIOUS
  <2>. DEFINE i == n + 1
  <2>1. i \in 1..N /\ i - 1 = n
    BY <1>1
  <2>. HIDE DEF i
  <2>2. /\ (1..i) \in SUBSET (1..N) /\ 1..i # {}
        /\ Max(1..i) = i /\ (1..i) \ {Max(1..i)} = 1..(i - 1)
    BY <1>1, <2>1, LastIsMax
  <2>3. left[1..i] = Round(left, 1..i)
    BY <1>9, <2>2
  <2>4. left[1..i] = IF Commands[i] \in S THEN Append(left[1..n], Commands[i]) ELSE left[1..n]
    BY <2>1, <2>2, <2>3 DEF Round
  <2>5. left[1..n] \in Seq(STRING) /\ Len(left[1..n]) <= n
    BY <1>1, <1>11
  <2>6. Commands[i] \in STRING
    BY <1>1, <2>1
  <2>7. left[1..i] \in Seq(STRING) /\ Len(left[1..i]) <= i
    <3>1. Append(left[1..n], Commands[i]) \in Seq(STRING)
          /\ Len(Append(left[1..n], Commands[i])) = Len(left[1..n]) + 1
      BY <2>5, <2>6
    <3>2. Len(left[1..n]) \in Nat
      BY <2>5
    <3>3. CASE Commands[i] \in S
      <4>1. left[1..i] = Append(left[1..n], Commands[i])
        BY <2>4, <3>3
      <4>. QED  BY <2>1, <2>5, <3>1, <3>2, <4>1
    <3>4. CASE Commands[i] \notin S
      <4>1. left[1..i] = left[1..n]
        BY <2>4, <3>4
      <4>. QED  BY <2>1, <2>5, <3>2, <4>1
    <3>. QED  BY <3>3, <3>4
  <2>. QED  BY <2>7 DEF i
<1>. HIDE DEF Good
<1>12. N \in Good
  BY <1>1, <1>10, <1>11, ByNumbers
<1>. QED  BY <1>1, <1>8, <1>12 DEF Good, N

\* Timers, calls and gates stay within their bounds; what the palette highlights is there
\* to be run, as long as it was not shifted.
PlaceOf(p) ==
  /\ p.idx \in -1..Len(Commands)
  /\ ~p.shifted /\ Len(Results(p)) > 0 => p.idx \in 0..(Len(Results(p)) - 1)

PlaceInv ==
  /\ exits \in 0..MaxTimers /\ palExits \in 0..MaxTimers /\ err \in BOOLEAN
  /\ offered \subseteq ToSet(Commands) /\ acts \in 0..MaxActs
  /\ pal # Shut => PlaceOf(pal)

LEMMA BoundsStep ==
  ASSUME PlaceInv, [OverlaysNext]_overlayVars
  PROVE  /\ exits' \in 0..MaxTimers /\ palExits' \in 0..MaxTimers /\ err' \in BOOLEAN
         /\ offered' \subseteq ToSet(Commands) /\ acts' \in 0..MaxActs
<1>1. exits' \in 0..MaxTimers
  <2>1. exits' = exits \/ exits' = 0 \/ (exits < MaxTimers /\ exits' = exits + 1) \/ (exits > 0 /\ exits' = exits - 1)
    BY DEF  OverlaysNext, OpenEditor, TypeInEditor, ToggleMenu, Backdrop, BeginExit, Cancel, ExitEnds,
        SaveEditor, ClickDelete, Disarm, PersistAnswers, CtrlK, TypeQuery, Arrow, PressEnter, Run, LeaveScreen,
        ClickCommand, ClickPalette, CloseEnds, GatesMove, PressEscape, editorVars, overlayVars
  <2>. QED  BY <2>1, OverlaysAssumption DEF PlaceInv
<1>2. palExits' \in 0..MaxTimers
  <2>1. palExits' = palExits \/ (palExits < MaxTimers /\ palExits' = palExits + 1) \/ (palExits > 0 /\ palExits' = palExits - 1)
    BY DEF  OverlaysNext, OpenEditor, TypeInEditor, ToggleMenu, Backdrop, Cancel, ExitEnds,
        SaveEditor, ClickDelete, Disarm, PersistAnswers, CtrlK, TypeQuery, Arrow, PressEnter, BeginClose,
        ClickCommand, ClickPalette, CloseEnds, GatesMove, PressEscape, paletteVars, overlayVars
  <2>. QED  BY <2>1, OverlaysAssumption DEF PlaceInv
<1>3. err' \in BOOLEAN
  BY DEF PlaceInv, OverlaysNext, OpenEditor, TypeInEditor, ToggleMenu, Backdrop, Cancel, ExitEnds,
      SaveEditor, Persist, ClickDelete, Disarm, PersistAnswers, CtrlK, TypeQuery, Arrow, PressEnter, Run, LeaveScreen,
      ClickCommand, ClickPalette, CloseEnds, GatesMove, PressEscape, overlayVars
<1>4. offered' \subseteq ToSet(Commands)
  BY DEF PlaceInv, OverlaysNext, OpenEditor, TypeInEditor, ToggleMenu, Backdrop, Cancel, ExitEnds,
      SaveEditor, ClickDelete, Disarm, PersistAnswers, CtrlK, TypeQuery, Arrow, PressEnter,
      ClickCommand, ClickPalette, CloseEnds, GatesMove, PressEscape, overlayVars
<1>5. acts' \in 0..MaxActs
  <2>1. acts' = acts \/ (acts < MaxActs /\ acts' = acts + 1)
    BY DEF Act, OverlaysNext, OpenEditor, TypeInEditor, ToggleMenu, Backdrop, Cancel, ExitEnds,
        SaveEditor, ClickDelete, Disarm, PersistAnswers, CtrlK, TypeQuery, Arrow, PressEnter,
        ClickCommand, ClickPalette, CloseEnds, GatesMove, PressEscape, overlayVars
  <2>. QED  BY <2>1, OverlaysAssumption DEF PlaceInv
<1>. QED  BY <1>1, <1>2, <1>3, <1>4, <1>5

\* A change that leaves what is highlighted and among what.
LEMMA PlaceKept ==
  ASSUME PlaceOf(pal), offered' = offered, pal'.idx = pal.idx, pal'.q = pal.q,
         pal'.shifted = pal.shifted
  PROVE  PlaceOf(pal)'
<1>1. Results(pal)' = Results(pal)
  BY DEF Results
<1>2. PICK r : r = Results(pal)
  OBVIOUS
<1>. QED  BY <1>1, <1>2 DEF PlaceOf

LEMMA PlaceStep ==
  ASSUME PaletteTold, PlaceInv, [OverlaysNext]_overlayVars
  PROVE  pal' # Shut => PlaceOf(pal)'
<1>. SUFFICES ASSUME pal' # Shut  PROVE PlaceOf(pal)'
  OBVIOUS
<1>0. /\ Len(Commands) \in Nat /\ Len(Results(pal)) \in 0..Len(Commands)
      /\ Len(Results(pal)') \in 0..Len(Commands)
  BY KeptFits, OverlaysAssumption DEF Results
<1>1. CASE UNCHANGED <<pal, offered>>
  BY <1>1, PlaceKept DEF PlaceInv
<1>2. ASSUME pal # Shut, offered' = offered,
             \/ \E b \in BOOLEAN : pal' = [pal EXCEPT !.inField = b]
             \/ pal' = [pal EXCEPT !.told = TRUE]
             \/ pal' = [[pal EXCEPT !.inField = FALSE] EXCEPT !.told = TRUE]
      PROVE  PlaceOf(pal)'
  <2>1. pal \in AnyPalette
    BY <1>2 DEF PaletteTold
  <2>2. pal'.idx = pal.idx /\ pal'.q = pal.q /\ pal'.shifted = pal.shifted
    BY <1>2, <2>1 DEF AnyPalette
  <2>. QED  BY <1>2, <2>2, PlaceKept DEF PlaceInv
<1>3. CASE TypeInEditor \/ ToggleMenu \/ Backdrop \/ Cancel \/ SaveEditor
  <2>1. offered' = offered /\ Blur
    BY <1>3 DEF TypeInEditor, ToggleMenu, Backdrop, Cancel, SaveEditor
  <2>. QED  BY <1>2, <2>1 DEF Blur
<1>4. CASE CtrlK
  <2>1. pal' = Opened /\ offered' = offered
    BY <1>4 DEF CtrlK
  <2>2. pal'.idx = 0
    BY <2>1 DEF Opened
  <2>. QED  BY <1>0, <2>2 DEF PlaceOf
<1>5. CASE TypeQuery
  <2>1. PICK q \in DOMAIN Hits : pal' = [pal EXCEPT !.q = q, !.idx = 0, !.shifted = FALSE]
    BY <1>5 DEF TypeQuery, Requery
  <2>2. pal \in AnyPalette
    BY <1>5 DEF TypeQuery, PaletteTold
  <2>3. pal'.idx = 0
    BY <2>1, <2>2 DEF AnyPalette
  <2>. QED  BY <1>0, <2>3 DEF PlaceOf
<1>6. CASE Arrow
  <2>. DEFINE last == Len(Results(pal)) - 1
  <2>1. /\ pal # Shut /\ offered' = offered
        /\ pal' \in {[pal EXCEPT !.idx = IF last < @ + 1 THEN last ELSE @ + 1],
                     [pal EXCEPT !.idx = IF @ - 1 < 0 THEN 0 ELSE @ - 1]}
    BY <1>6 DEF Arrow
  <2>2. pal \in AnyPalette /\ PlaceOf(pal)
    BY <2>1 DEF PaletteTold, PlaceInv
  <2>3. last \in -1..(Len(Commands) - 1)
    BY <1>0
  <2>. HIDE DEF last
  <2>4. /\ pal'.q = pal.q /\ pal'.shifted = pal.shifted
        /\ pal'.idx \in {IF last < pal.idx + 1 THEN last ELSE pal.idx + 1,
                         IF pal.idx - 1 < 0 THEN 0 ELSE pal.idx - 1}
    BY <2>1, <2>2 DEF AnyPalette
  <2>5. Results(pal)' = Results(pal)
    BY <2>1, <2>4 DEF Results
  <2>6. /\ pal.idx \in -1..Len(Commands)
        /\ ~pal.shifted /\ Len(Results(pal)) > 0 => pal.idx \in 0..last
    BY <2>2 DEF PlaceOf, last
  <2>7. /\ pal'.idx \in -1..Len(Commands)
        /\ ~pal'.shifted /\ Len(Results(pal)) > 0 => pal'.idx \in 0..last
    <3>1. Len(Results(pal)) > 0 => last >= 0
      BY <1>0 DEF last
    <3>2. pal'.idx \in -1..Len(Commands)
      BY <1>0, <2>3, <2>4, <2>6
    <3>3. ASSUME ~pal'.shifted, Len(Results(pal)) > 0  PROVE pal'.idx \in 0..last
      <4>1. pal.idx \in 0..last /\ last >= 0 /\ last \in Int
        BY <2>3, <2>4, <2>6, <3>1, <3>3
      <4>. QED  BY <2>4, <4>1
    <3>. QED  BY <3>2, <3>3
  <2>. QED  BY <2>5, <2>7 DEF PlaceOf, last
<1>7. CASE PressEnter
  BY <1>2, <1>7 DEF PressEnter, BeginClose
<1>8. CASE ClickCommand
  <2>1. PICK i \in 1..Len(Results(pal)) :
          pal' = [[pal EXCEPT !.idx = i - 1, !.inField = FALSE] EXCEPT !.told = TRUE]
    BY <1>8 DEF ClickCommand, BeginClose
  <2>2. pal \in AnyPalette /\ offered' = offered
    BY <1>8 DEF ClickCommand, PaletteTold
  <2>3. pal'.q = pal.q /\ pal'.idx = i - 1
    BY <2>1, <2>2 DEF AnyPalette
  <2>4. Results(pal)' = Results(pal)
    BY <2>2, <2>3 DEF Results
  <2>. QED  BY <1>0, <2>3, <2>4 DEF PlaceOf
<1>9. CASE ClickPalette
  BY <1>2, <1>9 DEF ClickPalette, BeginClose
<1>10. CASE GatesMove
  <2>1. pal # Shut /\ pal' = [pal EXCEPT !.shifted = TRUE]
    BY <1>10 DEF GatesMove
  <2>2. pal \in AnyPalette /\ PlaceOf(pal)
    BY <2>1 DEF PaletteTold, PlaceInv
  <2>3. pal'.shifted /\ pal'.idx = pal.idx
    BY <2>1, <2>2 DEF AnyPalette
  <2>. QED  BY <2>2, <2>3 DEF PlaceOf
<1>11. CASE PressEscape
  <2>1. offered' = offered /\ (pal' = pal \/ (pal # Shut /\ pal' = [pal EXCEPT !.told = TRUE]))
    BY <1>11 DEF PressEscape, BeginClose, paletteVars
  <2>. QED  BY <1>1, <1>2, <2>1
<1>12. CASE CloseEnds
  BY <1>12 DEF CloseEnds
<1>13. CASE OpenEditor \/ ExitEnds \/ ClickDelete \/ Disarm \/ PersistAnswers \/ UNCHANGED overlayVars
  BY <1>1, <1>13 DEF OpenEditor, ExitEnds, ClickDelete, Disarm, PersistAnswers, paletteVars, overlayVars
<1>. QED
  BY <1>3, <1>4, <1>5, <1>6, <1>7, <1>8, <1>9, <1>10, <1>11, <1>12, <1>13 DEF OverlaysNext

LEMMA PlaceInvInit == OverlaysInit => PlaceInv
<1>. SUFFICES ASSUME OverlaysInit  PROVE PlaceInv
  OBVIOUS
<1>1. exits = 0 /\ palExits = 0 /\ acts = 0 /\ err = FALSE /\ offered = ToSet(Commands) /\ pal = Shut
  BY DEF OverlaysInit
<1>2. MaxTimers \in Nat /\ MaxActs \in Nat
  BY OverlaysAssumption
<1>3. exits \in 0..MaxTimers /\ palExits \in 0..MaxTimers /\ acts \in 0..MaxActs
  BY <1>1, <1>2
<1>4. err \in BOOLEAN /\ offered \subseteq ToSet(Commands)
  BY <1>1
<1>. QED  BY <1>1, <1>3, <1>4, Zenon DEF PlaceInv

LEMMA PlaceInvStep == OverlaysInv /\ PlaceInv /\ [OverlaysNext]_overlayVars => PlaceInv'
BY BoundsStep, PlaceStep DEF OverlaysInv, PlaceInv

LEMMA OverlaysPromise ==
  ASSUME OverlaysInv, PlaceInv
  PROVE  OverlaysSafe
<1>1. pal # Shut => pal \in Palette
  BY DEF OverlaysInv, PaletteTold, AnyPalette, Palette, PlaceInv, PlaceOf
<1>2. OverlaysTypeOK
  BY <1>1 DEF OverlaysTypeOK, OverlaysInv, PaletteTold, EditorTold, CallsDelete, PlaceInv
<1>3. EnterFindsSomething
  <2>. SUFFICES ASSUME pal # Shut, ~pal.shifted, Results(pal) # <<>>
                PROVE  pal.idx + 1 \in DOMAIN Results(pal)
    BY DEF EnterFindsSomething
  <2>1. Results(pal) \in Seq(STRING) /\ Len(Results(pal)) \in Nat
    BY KeptFits, OverlaysAssumption DEF Results
  <2>2. Len(Results(pal)) > 0
    BY <2>1
  <2>3. pal.idx \in 0..(Len(Results(pal)) - 1)
    BY <2>2 DEF PlaceInv, PlaceOf
  <2>. QED  BY <2>1, <2>3
<1>. QED  BY <1>2, <1>3 DEF OverlaysSafe

-----------------------------------------------------------------------------
(* The window.                                                             *)

\* Each part only takes its own steps.
LEMMA PartSteps ==
  [MCNext]_vars => /\ [PollNext]_pollVars /\ [FormsNext]_formVars /\ [RosterNext]_rosterVars
                   /\ [StatusNext]_statusVars /\ [GeoNext]_geo /\ [OverlaysNext]_overlayVars
                   /\ [TailNext]_tailVars /\ [BandNext]_bandVars /\ [WireNext]_wire
                   /\ [SegNext]_segVars /\ [RailNext]_rail /\ [GlideNext]_glide
                   /\ [SysNext]_sys /\ [StripNext]_strip /\ [TrafficNext]_trafficVars
                   /\ [ChartsNext]_history /\ [BandsNext]_uptime /\ [LossGrows]_loss
                   /\ [PlayNext]_play /\ [PlotRecord]_plot /\ [PanelNext]_panel
<1>. SUFFICES ASSUME [MCNext]_vars
              PROVE  /\ [PollNext]_pollVars /\ [FormsNext]_formVars /\ [RosterNext]_rosterVars
                     /\ [StatusNext]_statusVars /\ [GeoNext]_geo /\ [OverlaysNext]_overlayVars
                     /\ [TailNext]_tailVars /\ [BandNext]_bandVars /\ [WireNext]_wire
                     /\ [SegNext]_segVars /\ [RailNext]_rail /\ [GlideNext]_glide
                     /\ [SysNext]_sys /\ [StripNext]_strip /\ [TrafficNext]_trafficVars
                     /\ [ChartsNext]_history /\ [BandsNext]_uptime /\ [LossGrows]_loss
                     /\ [PlayNext]_play /\ [PlotRecord]_plot /\ [PanelNext]_panel
  OBVIOUS
<1>1. [PollNext]_pollVars
  BY DEF MCNext, Rest, vars
<1>2. [FormsNext]_formVars
  BY DEF MCNext, Rest, vars
<1>3. [RosterNext]_rosterVars
  BY DEF MCNext, Rest, vars
<1>4. [StatusNext]_statusVars
  BY DEF MCNext, Rest, vars
<1>5. [GeoNext]_geo
  BY DEF MCNext, Rest, vars
<1>6. [OverlaysNext]_overlayVars
  BY DEF MCNext, Rest, vars
<1>7. [TailNext]_tailVars
  BY DEF MCNext, Rest, vars
<1>8. [BandNext]_bandVars
  BY DEF MCNext, Rest, vars
<1>9. [WireNext]_wire
  BY DEF MCNext, Rest, vars
<1>10. [SegNext]_segVars
  BY DEF MCNext, Rest, vars
<1>11. [RailNext]_rail
  BY DEF MCNext, Rest, vars
<1>12. [GlideNext]_glide
  BY DEF MCNext, Rest, vars
<1>13. [SysNext]_sys
  BY DEF MCNext, Rest, vars
<1>14. [StripNext]_strip
  BY DEF MCNext, Rest, vars
<1>15. [TrafficNext]_trafficVars
  BY DEF MCNext, Rest, vars
<1>16. [ChartsNext]_history
  BY DEF MCNext, Rest, vars
<1>17. [BandsNext]_uptime
  BY DEF MCNext, Rest, vars
<1>18. [LossGrows]_loss
  BY DEF MCNext, Rest, vars
<1>19. [PlayNext]_play
  BY DEF MCNext, Rest, vars
<1>20. [PlotRecord]_plot
  BY DEF MCNext, Rest, vars
<1>21. [PanelNext]_panel
  BY DEF MCNext, Rest, vars
<1>. QED
  BY <1>1, <1>2, <1>3, <1>4, <1>5, <1>6, <1>7, <1>8, <1>9, <1>10, <1>11, <1>12, <1>13, <1>14,
     <1>15, <1>16, <1>17, <1>18, <1>19, <1>20, <1>21

\* What a polled view shows is the answer to the question it asks now, and paging never asks
\* for a page that its filter does not have, however filters, answers and the store change:
\* the hooks that poll, the pagers and the effect that restarts paging.
THEOREM PollStaysSafe == MCSpec => []PollSafe
<1>1. MCInit => PagesInv
  BY PagesInit DEF MCInit
<1>2. PagesInv /\ [MCNext]_vars => PagesInv'
  BY PartSteps, PagesStep
<1>3. PagesInv => PollSafe
  BY DEF PagesInv, PollInv, PollSafe
<1>. QED  BY <1>1, <1>2, <1>3, PTL DEF MCSpec

\* The tail of events skips nothing that the gateway retains, and a conflict that happens
\* again gets its card again, however pulls overlap, fail and answer: eventRing in
\* conflict.go and useGatewayEvents in Agents.tsx.
THEOREM TailStaysSafe == MCSpec => []TailSafe
<1>1. MCInit => TailInv
  BY TailInvInit DEF MCInit
<1>2. TailInv /\ [MCNext]_vars => TailInv'
  BY PartSteps, TailInvStep
<1>3. TailInv => TailSafe
  BY TailPromise DEF TailSafe
<1>. QED  BY <1>1, <1>2, <1>3, PTL DEF MCSpec

\* What is saved runs or is about to, and a form without its save bar and a list of tunnels
\* show what is saved: Settings.tsx and Tunnels.tsx with any calls and touches in any order.
THEOREM FormsStaySafe == MCSpec => []FormsSafe
<1>. DEFINE Inv == FormsInv /\ RosterInv
<1>1. MCInit => Inv
  BY FormsInvInit, RosterInvInit DEF MCInit
<1>2. Inv /\ [MCNext]_vars => Inv'
  BY PartSteps, FormsInvStep, RosterInvStep
<1>3. Inv => FormsSafe
  BY FormsPromise DEF FormsSafe, RosterInv
<1>. QED  BY <1>1, <1>2, <1>3, PTL DEF MCSpec

\* The controls say what is so: the pill and the backdrop tell what the link does, whatever
\* is stretched is let go of, the windows at the two ends of a wire agree, and the small
\* machines keep what they promise, whatever is clicked, dragged, rendered and answered in
\* which order (App.tsx, backend.ts, rubberband.ts, ui.tsx and Overview.tsx).
THEOREM ControlsStaySafe == MCSpec => []ControlsSafe
<1>. DEFINE Inv == StatusInv /\ BandInv /\ WireInv /\ WidgetsInv
<1>1. MCInit => Inv
  BY StatusInvInit, BandInvInit, WireInvInit, SegInvInit, RailInvInit, GlideInvInit,
     SysInvInit, StripInvInit DEF MCInit, WidgetsInv
<1>2. Inv /\ [MCNext]_vars => Inv'
  BY PartSteps, StatusInvStep, BandInvStep, WireInvStep, SegInvStep, RailInvStep,
     GlideInvStep, SysInvStep, StripInvStep DEF WidgetsInv
<1>3. Inv => ControlsSafe
  BY StatusPromise, BandPromise, WirePromise, WidgetsPromise DEF ControlsSafe
<1>. QED  BY <1>1, <1>2, <1>3, PTL DEF MCSpec

\* The figures say what was: rates and totals are those of the connections that moved them,
\* scales hold what they show and marks are few, the strip of uptime is what was recorded,
\* the cursor reads the slot it is in, candles lose nothing, a line has a stroke for each run
\* of known points, a replay shows the row of its moment, and every dialog leaves, whatever
\* is recorded, asked, clicked and let go of in which order (Traffic.tsx, BandwidthChart.tsx,
\* charts/util.ts, LineChart.tsx, Analytics.tsx, Tunnels.tsx and ui.tsx).
THEOREM FiguresStaySafe == MCSpec => []FiguresSafe
<1>. DEFINE Inv == /\ TrafficInv /\ PlotInv /\ PanelInv /\ OverlaysInv /\ PlaceInv /\ GeoInv
                   /\ BandsInv /\ LossTypeOK /\ PlayInv /\ ChartsInv
<1>1. MCInit => Inv
  BY TrafficStarts, PlotInvInit, PanelInvInit, OverlaysInvInit, PlaceInvInit, GeoInvInit,
     BandsInvInit, LossInvInit, PlayInvInit, ChartsInvInit DEF MCInit
<1>2. Inv /\ [MCNext]_vars => Inv'
  <2>. SUFFICES ASSUME Inv, [MCNext]_vars  PROVE Inv'
    OBVIOUS
  <2>1. /\ [GeoNext]_geo /\ [OverlaysNext]_overlayVars /\ [TrafficNext]_trafficVars
        /\ [ChartsNext]_history /\ [BandsNext]_uptime /\ [LossGrows]_loss
        /\ [PlayNext]_play /\ [PlotRecord]_plot /\ [PanelNext]_panel
    BY PartSteps
  <2>. QED
    BY <2>1, TrafficGoesOn, PlotInvStep, PanelInvStep, OverlaysInvStep, PlaceInvStep, GeoInvStep,
       BandsInvStep, LossInvStep, PlayInvStep, ChartsInvStep
<1>3. Inv => FiguresSafe
  <2>. SUFFICES ASSUME Inv  PROVE FiguresSafe
    OBVIOUS
  <2>1. ChartsTell /\ PlotsSafe /\ TrafficSafe /\ OverlaysSafe
    BY ChartsPromise, PlotsPromise, TrafficPromises, OverlaysPromise
  <2>2. ReplaySafe
    BY BandsPromise, LossPromise, ReplayPromise DEF ReplaySafe, GeoInv
  <2>. QED  BY <2>1, <2>2 DEF FiguresSafe
<1>. QED  BY <1>1, <1>2, <1>3, PTL DEF MCSpec

\* What the steps of the roster, the overlays, the backdrop and the map never do: undo a
\* save with an older answer, wipe an edit, close what was not told to close, delete what
\* was not clicked twice, strobe, flash without growth (Agents.tsx, ui.tsx,
\* CommandPalette.tsx, Tunnels.tsx, App.tsx and Analytics.tsx).
THEOREM StepsAreKept == MCSpec => StepsKeep
<1>. DEFINE Inv == RosterInv /\ OverlaysInv /\ WaitsItsTurn /\ GeoInv
<1>1. MCInit => Inv
  BY RosterInvInit, OverlaysInvInit, WaitsInit, GeoInvInit DEF MCInit
<1>2. Inv /\ [MCNext]_vars => Inv'
  BY PartSteps, RosterInvStep, OverlaysInvStep, WaitsStep, GeoInvStep
<1>3. Inv /\ [MCNext]_vars =>
        [(visible /\ visible' /\ nonce' = nonce /\ roster # Nobody /\ roster.version >= base)
           => roster' # Nobody /\ roster'.version >= base]_rosterVars
  BY PartSteps, NotUndoneStep
<1>4. Inv /\ [MCNext]_vars =>
        [(Detail /\ Detail' /\ fields' # fields /\ edits' = edits)
           => FieldsOf(roster') # FieldsOf(roster)]_rosterVars
  BY PartSteps, EditStep
<1>5. Inv /\ [MCNext]_vars =>
        [(visible /\ visible' /\ roster # Nobody /\ roster' = Nobody)
           => \E w \in writes \ writes' : w.nonce # nonce]_rosterVars
  BY PartSteps, BlankStep
<1>6. Inv /\ [MCNext]_vars =>
        [/\ (editor # Shut /\ editor' = Shut) =>
              \/ editor.told \/ editor.followed \/ Cancel \/ PressEnter \/ ClickCommand
              \/ ~err' /\ \E c \in ToSet(persisting) : c.own /\ tunnelRows' = c.next
         /\ (pal # Shut /\ pal' = Shut) => pal.told \/ pal.followed \/ CtrlK]_overlayVars
  BY PartSteps, EditorCloses, PaletteStep DEF OverlaysInv
<1>7. Inv /\ [MCNext]_vars =>
        [(PressEscape /\ editor # Shut /\ editor.menu) => editor' = [editor EXCEPT !.menu = FALSE]]_overlayVars
  BY ShieldStep
<1>8. Inv /\ [MCNext]_vars => [\A t \in tunnelRows \ tunnelRows' : taps[t] = 2 \/ mixed]_overlayVars
  BY PartSteps, DeletesStep
<1>9. Inv /\ [MCNext]_vars =>
        [applied' # applied => applied' = AmbientOf(shown) /\ steady >= Hold]_statusVars
  BY PartSteps, StrobeStep
<1>10. Inv /\ [MCNext]_vars =>
         [\A c \in Countries :
            c \in geo'.flash \ geo.flash =>
              geo'.range = geo.range /\ geo.snap # Blank /\ geo'.snap[c] > geo.snap[c]]_geo
  BY PartSteps, FlashStep
<1>. QED
  BY <1>1, <1>2, <1>3, <1>4, <1>5, <1>6, <1>7, <1>8, <1>9, <1>10, PTL
  DEF MCSpec, StepsKeep, SavedIsNotUndone, EditSurvives, OnlyOverlapBlanks, OverlaysKeep, ClosesAreMeant,
      MenuShieldsEditor, DeletesAreMeant, NeverStrobes, FlashIsGrowth

=============================================================================
