--------------------------- MODULE ApiProcessProofs ---------------------------
(***************************************************************************)
(* For every set of requests and keys and every size of the pool: the      *)
(* types of ApiProcess, what a key check may answer, last_used_at, and why *)
(* requests and the process come to an end.                                *)
(***************************************************************************)
EXTENDS ApiProcess, FiniteSetTheorems, TLAPS

KeyStep ==
    \/ \E q \in Requests :
         \/ Arrive(q) \/ Select(q) \/ Match(q) \/ NoMatch(q) \/ ValidateFails(q)
         \/ Stamp(q) \/ SendUpdate(q) \/ Update(q) \/ UpdateCut(q) \/ UpdateFails(q)
    \/ \E k \in Keys : CreateKey(k) \/ EndKey(k)
    \/ Forget

\* What a step of the process does to the keys and their checks is one of the steps of
\* the middleware, of its goroutine, or of the table.
LEMMA StepOfKeys == [Next]_apiVars => [KeyStep]_keyVars
  <1> SUFFICES ASSUME [Next]_apiVars PROVE KeyStep \/ UNCHANGED keyVars
    OBVIOUS
  <1>1. ASSUME NEW q \in Requests, Request(q) PROVE KeyStep
    BY <1>1 DEF Request, KeyStep
  <1>2. ASSUME NEW q \in Requests, Ask(q) \/ Compare(q) \/ AskFails(q) PROVE KeyStep
    BY <1>2 DEF Ask, Compare, AskFails, KeyStep
  <1>3. ASSUME NEW q \in Requests,
               \/ Probe(q) \/ Reply(q)
               \/ HandlerAsks(q) \/ HandlerAskFails(q) \/ HandlerHasAnswer(q)
        PROVE UNCHANGED keyVars
    BY <1>3 DEF Probe, Reply, HandlerAsks, HandlerAskFails, HandlerHasAnswer
  <1>4. ASSUME NEW q \in Requests, Note(q) \/ NoteEnds(q) PROVE KeyStep
    BY <1>4 DEF Note, NoteEnds, KeyStep
  <1>5. CASE Start \/ Term \/ Drained
    BY <1>5 DEF Start, Term, Drained
  <1>6. CASE Exit \/ Crash
    BY <1>6 DEF Exit, Crash, Gone, KeyStep
  <1>7. CASE Outside
    BY <1>7 DEF Outside, KeyStep
  <1>8. CASE UNCHANGED apiVars
    BY <1>8 DEF apiVars
  <1> QED
    BY <1>1, <1>2, <1>3, <1>4, <1>5, <1>6, <1>7, <1>8 DEF Next, RequestTurn

-----------------------------------------------------------------------------
(* Types *)

LEMMA KeysTypeStep == KeysTypeOK /\ [KeyStep]_keyVars => KeysTypeOK'
  <1> SUFFICES ASSUME KeysTypeOK, [KeyStep]_keyVars PROVE KeysTypeOK'
    OBVIOUS
  <1> USE DEF KeysTypeOK, Secrets, UpdateStates
  <1>1. ASSUME NEW q \in Requests, Arrive(q) PROVE KeysTypeOK'
    BY <1>1 DEF Arrive
  <1>2. ASSUME NEW q \in Requests, Select(q) PROVE KeysTypeOK'
    BY <1>2 DEF Select
  <1>3. ASSUME NEW q \in Requests, Match(q) PROVE KeysTypeOK'
    BY <1>3 DEF Match, Decide
  <1>4. ASSUME NEW q \in Requests, NoMatch(q) PROVE KeysTypeOK'
    BY <1>4 DEF NoMatch, Decide
  <1>5. ASSUME NEW q \in Requests, ValidateFails(q) PROVE KeysTypeOK'
    BY <1>5 DEF ValidateFails, Decide
  <1>6. ASSUME NEW q \in Requests, Stamp(q) PROVE KeysTypeOK'
    BY <1>6 DEF Stamp
  <1>7. ASSUME NEW q \in Requests, Update(q) PROVE KeysTypeOK'
    BY <1>7 DEF Update, UnderWay
  <1>8. ASSUME NEW q \in Requests, SendUpdate(q) \/ UpdateCut(q) \/ UpdateFails(q)
        PROVE KeysTypeOK'
    BY <1>8 DEF SendUpdate, UpdateCut, UpdateFails
  <1>9. ASSUME NEW k \in Keys, CreateKey(k) PROVE KeysTypeOK'
    BY <1>9 DEF CreateKey
  <1>10. ASSUME NEW k \in Keys, EndKey(k) PROVE KeysTypeOK'
    BY <1>10 DEF EndKey
  <1>11. CASE Forget
    BY <1>11 DEF Forget
  <1>12. CASE UNCHANGED keyVars
    BY <1>12 DEF keyVars
  <1> QED
    BY <1>1, <1>2, <1>3, <1>4, <1>5, <1>6, <1>7, <1>8, <1>9, <1>10, <1>11, <1>12
    DEF KeyStep

LEMMA RequestsTypeStep == RequestsTypeOK /\ [Next]_apiVars => RequestsTypeOK'
  <1> SUFFICES ASSUME RequestsTypeOK, [Next]_apiVars PROVE RequestsTypeOK'
    OBVIOUS
  <1> USE DEF RequestsTypeOK
  <1>1. ASSUME NEW q \in Requests, Request(q) \/ Probe(q) PROVE RequestsTypeOK'
    BY <1>1 DEF Request, Probe, Accept
  <1>2. ASSUME NEW q \in Requests, Reply(q) PROVE RequestsTypeOK'
    BY <1>2 DEF Reply, Write
  <1>3. CASE Exit \/ Crash
    BY <1>3 DEF Exit, Crash, Gone, Lose
  <1>4. CASE UNCHANGED answer
    BY <1>4
  <1>5. ASSUME NEW q \in Requests,
               \/ Ask(q) \/ Compare(q) \/ AskFails(q) \/ Note(q) \/ NoteEnds(q)
               \/ HandlerAsks(q) \/ HandlerAskFails(q) \/ HandlerHasAnswer(q)
        PROVE UNCHANGED answer
    BY <1>5 DEF Ask, Compare, AskFails, Note, NoteEnds, HandlerAsks, HandlerAskFails,
       HandlerHasAnswer
  <1>6. CASE Start \/ Term \/ Drained \/ Outside \/ UNCHANGED apiVars
    BY <1>6, <1>4 DEF Start, Term, Drained, Outside, apiVars
  <1> QED
    BY <1>1, <1>2, <1>3, <1>4, <1>5, <1>6 DEF Next, RequestTurn

\* What the process adds to the keys: its own state, its handlers, its connections.
LEMMA ProcessTypeStep ==
    ASSUME ApiTypeOK, [Next]_apiVars
    PROVE  /\ PoolTypeOK'
           /\ proc' \in {"starting", "up", "draining", "closing", "ended"}
           /\ work' \in [Requests -> {"none", "query", "running", "done"}]
  <1> DEFINE Goal ==
        /\ PoolTypeOK'
        /\ proc' \in {"starting", "up", "draining", "closing", "ended"}
        /\ work' \in [Requests -> {"none", "query", "running", "done"}]
  <1> USE DEF ApiTypeOK, PoolTypeOK, Uses, Take, GiveBack
  <1>1. ASSUME NEW q \in Requests, Request(q) \/ Probe(q) \/ Reply(q) PROVE Goal
    BY <1>1 DEF Request, Probe, Reply, Arrive
  <1>2. ASSUME NEW q \in Requests, Ask(q) \/ AskFails(q) PROVE Goal
    BY <1>2 DEF Ask, AskFails, Select, ValidateFails
  <1>3. ASSUME NEW q \in Requests, Compare(q) PROVE Goal
    BY <1>3 DEF Compare, Match, NoMatch
  <1>4. ASSUME NEW q \in Requests, HandlerAsks(q) \/ HandlerAskFails(q) \/ HandlerHasAnswer(q)
        PROVE Goal
    BY <1>4 DEF HandlerAsks, HandlerAskFails, HandlerHasAnswer
  <1>5. ASSUME NEW q \in Requests, Note(q) \/ NoteEnds(q) PROVE Goal
    BY <1>5 DEF Note, NoteEnds, Stamp, SendUpdate, Update, UpdateCut, UpdateFails
  <1>6. CASE Start \/ Term \/ Drained
    BY <1>6 DEF Start, Term, Drained
  <1>7. CASE Exit \/ Crash
    BY <1>7 DEF Exit, Crash, Gone, Forget
  <1>8. CASE Outside
    BY <1>8 DEF Outside, CreateKey, EndKey
  <1>9. CASE UNCHANGED apiVars
    BY <1>9 DEF apiVars
  <1> QED
    BY <1>1, <1>2, <1>3, <1>4, <1>5, <1>6, <1>7, <1>8, <1>9 DEF Next, RequestTurn

\* Every variable keeps its type; a key is active or ended, and never both.
THEOREM ApiTypeCorrect == Spec => []ApiTypeOK
  <1>1. ApiInit => ApiTypeOK
    BY DEF ApiInit, RequestsInit, PoolInit, KeysInit, ApiTypeOK, RequestsTypeOK, PoolTypeOK,
       KeysTypeOK, Secrets, UpdateStates
  <1>2. ApiTypeOK /\ [Next]_apiVars => ApiTypeOK'
    BY RequestsTypeStep, StepOfKeys, KeysTypeStep, ProcessTypeStep DEF ApiTypeOK
  <1> QED
    BY <1>1, <1>2, PTL DEF Spec

-----------------------------------------------------------------------------
(* The key checks *)

\* While a key is created or ended, what the checks under way know stays between
\* the keys that were active throughout and those that were active at some time.
LEMMA SnapshotStep ==
    KeysTypeOK /\ SnapshotBetween /\ [KeyStep]_keyVars => SnapshotBetween'
  <1> SUFFICES ASSUME KeysTypeOK, SnapshotBetween, [KeyStep]_keyVars PROVE SnapshotBetween'
    OBVIOUS
  <1> USE DEF KeysTypeOK, SnapshotBetween, Checking
  <1>1. ASSUME NEW q \in Requests, Arrive(q) PROVE SnapshotBetween'
    BY <1>1 DEF Arrive
  <1>2. ASSUME NEW q \in Requests, Select(q) PROVE SnapshotBetween'
    BY <1>2 DEF Select
  <1>3. ASSUME NEW q \in Requests, Match(q) \/ NoMatch(q) \/ ValidateFails(q)
        PROVE SnapshotBetween'
    BY <1>3 DEF Match, NoMatch, ValidateFails, Decide
  <1>4. ASSUME NEW q \in Requests,
               \/ Stamp(q) \/ SendUpdate(q) \/ Update(q) \/ UpdateCut(q) \/ UpdateFails(q)
        PROVE SnapshotBetween'
    BY <1>4 DEF Stamp, SendUpdate, Update, UpdateCut, UpdateFails
  <1>5. ASSUME NEW k \in Keys, CreateKey(k) PROVE SnapshotBetween'
    BY <1>5 DEF CreateKey
  <1>6. ASSUME NEW k \in Keys, EndKey(k) PROVE SnapshotBetween'
    BY <1>6 DEF EndKey
  <1>7. CASE Forget
    BY <1>7 DEF Forget
  <1>8. CASE UNCHANGED keyVars
    BY <1>8 DEF keyVars
  <1> QED
    BY <1>1, <1>2, <1>3, <1>4, <1>5, <1>6, <1>7, <1>8 DEF KeyStep

LEMMA UpdateOfPassedStep ==
    KeysTypeOK /\ UpdateOfPassed /\ [KeyStep]_keyVars => UpdateOfPassed'
  <1> SUFFICES ASSUME KeysTypeOK, UpdateOfPassed, [KeyStep]_keyVars PROVE UpdateOfPassed'
    OBVIOUS
  <1> USE DEF KeysTypeOK, UpdateOfPassed, Checking
  <1>1. ASSUME NEW q \in Requests, Arrive(q) PROVE UpdateOfPassed'
    BY <1>1 DEF Arrive
  <1>2. ASSUME NEW q \in Requests, Select(q) PROVE UpdateOfPassed'
    BY <1>2 DEF Select
  <1>3. ASSUME NEW q \in Requests, Match(q) PROVE UpdateOfPassed'
    BY <1>3 DEF Match, Decide
  <1>4. ASSUME NEW q \in Requests, NoMatch(q) \/ ValidateFails(q) PROVE UpdateOfPassed'
    BY <1>4 DEF NoMatch, ValidateFails, Decide
  <1>5. ASSUME NEW q \in Requests, Stamp(q) PROVE UpdateOfPassed'
    BY <1>5 DEF Stamp
  <1>6. ASSUME NEW q \in Requests,
               SendUpdate(q) \/ Update(q) \/ UpdateCut(q) \/ UpdateFails(q)
        PROVE UpdateOfPassed'
    BY <1>6 DEF SendUpdate, Update, UpdateCut, UpdateFails
  <1>7. ASSUME NEW k \in Keys, CreateKey(k) \/ EndKey(k) PROVE UpdateOfPassed'
    BY <1>7 DEF CreateKey, EndKey
  <1>8. CASE Forget
    BY <1>8 DEF Forget
  <1>9. CASE UNCHANGED keyVars
    BY <1>9 DEF keyVars
  <1> QED
    BY <1>1, <1>2, <1>3, <1>4, <1>5, <1>6, <1>7, <1>8, <1>9 DEF KeyStep

\* A step that neither reads the clock nor writes a last use.
Quiet ==
    /\ UNCHANGED <<stamp, lastUsed, underway>>
    /\ UnderWay' \subseteq UnderWay
    /\ \A q \in Requests :
         /\ update'[q] = "done" => update[q] = "done"
         /\ auth[q] = "passed" => auth'[q] = "passed"
         /\ auth[q] # "none" => secret'[q] = secret[q]

LEMMA OtherSteps ==
    KeysTypeOK /\ [KeyStep]_keyVars => Quiet \/ \E q \in Requests : Stamp(q) \/ Update(q)
  <1> SUFFICES ASSUME KeysTypeOK, [KeyStep]_keyVars
               PROVE Quiet \/ \E q \in Requests : Stamp(q) \/ Update(q)
    OBVIOUS
  <1> USE DEF KeysTypeOK, Quiet, Checking, UnderWay
  <1>1. ASSUME NEW p \in Requests, Match(p) \/ NoMatch(p) \/ ValidateFails(p)
        PROVE Quiet
    BY <1>1 DEF Match, NoMatch, ValidateFails, Decide
  <1>2. ASSUME NEW p \in Requests,
               \/ Arrive(p) \/ Select(p)
               \/ SendUpdate(p) \/ UpdateCut(p) \/ UpdateFails(p)
        PROVE Quiet
    BY <1>2 DEF Arrive, Select, SendUpdate, UpdateCut, UpdateFails
  <1>3. ASSUME NEW k \in Keys, CreateKey(k) \/ EndKey(k) PROVE Quiet
    BY <1>3 DEF CreateKey, EndKey
  <1>4. CASE Forget \/ UNCHANGED keyVars
    BY <1>4 DEF Forget, keyVars
  <1> QED
    BY <1>1, <1>2, <1>3, <1>4 DEF KeyStep

LEMMA OvertakingStep ==
    KeysTypeOK /\ UpdateOfPassed /\ Overtaking /\ [KeyStep]_keyVars => Overtaking'
  <1> SUFFICES ASSUME KeysTypeOK, UpdateOfPassed, Overtaking, [KeyStep]_keyVars
               PROVE Overtaking'
    OBVIOUS
  <1> USE DEF KeysTypeOK, Overtaking
  <1>1. ASSUME NEW q \in Requests, Stamp(q) PROVE Overtaking'
    BY <1>1 DEF Stamp, UpdateOfPassed, UnderWay
  <1>2. ASSUME NEW q \in Requests, Update(q) PROVE Overtaking'
    BY <1>2 DEF Update, UnderWay
  <1> QED
    BY <1>1, <1>2, OtherSteps DEF Quiet

LEMMA LastUsedStep ==
    /\ KeysTypeOK /\ UpdateOfPassed /\ Overtaking /\ LastUsedIsRecent
    /\ [KeyStep]_keyVars
    => LastUsedIsRecent'
  <1> SUFFICES ASSUME KeysTypeOK, UpdateOfPassed, Overtaking, LastUsedIsRecent,
                      [KeyStep]_keyVars
               PROVE LastUsedIsRecent'
    OBVIOUS
  <1> USE RequestsAssumption DEF KeysTypeOK, LastUsedIsRecent
  <1>1. ASSUME NEW q \in Requests, Stamp(q) PROVE LastUsedIsRecent'
    BY <1>1 DEF Stamp, UpdateOfPassed
  <1>2. ASSUME NEW q \in Requests, Update(q) PROVE LastUsedIsRecent'
    BY <1>2 DEF Update, UpdateOfPassed, Overtaking, UnderWay
  <1>3. CASE Quiet
    BY <1>3 DEF Quiet, UpdateOfPassed
  <1> QED
    BY <1>1, <1>2, <1>3, OtherSteps

\* The inductive invariant of the key checks.
THEOREM KeysInvariant == Spec => []KeysInv
  <1>1. ApiInit => KeysInv
    BY DEF ApiInit, KeysInit, KeysInv, SnapshotBetween, UpdateOfPassed, Overtaking,
       LastUsedIsRecent, Checking, UnderWay
  <1>2. ApiTypeOK /\ KeysInv /\ [Next]_apiVars => KeysInv'
    BY StepOfKeys, SnapshotStep, UpdateOfPassedStep, OvertakingStep, LastUsedStep
    DEF ApiTypeOK, KeysInv
  <1> QED
    BY <1>1, <1>2, ApiTypeCorrect, PTL DEF Spec

\* last_used_at belongs to a use of the key, and falls behind a finished update only
\* where two were under way at once.
THEOREM LastUseIsKept == Spec => []LastUsedIsRecent
  BY KeysInvariant, PTL DEF KeysInv

\* No request passes with a key that was inactive all the time since it came.
THEOREM PassedWithActiveKey == Spec => ServedWasActive
  <1>1. ApiTypeOK /\ KeysInv /\ [Next]_apiVars =>
          [\A q \in Requests :
             auth[q] # "passed" /\ auth'[q] = "passed" => secret[q] \in since[q]]_keyVars
    <2> SUFFICES ASSUME KeysTypeOK, SnapshotBetween, [KeyStep]_keyVars,
                        NEW q \in Requests, auth[q] # "passed", auth'[q] = "passed"
                 PROVE secret[q] \in since[q]
      BY StepOfKeys DEF ApiTypeOK, KeysInv
    <2> USE DEF KeysTypeOK
    <2>1. ASSUME NEW p \in Requests, Match(p) PROVE secret[q] \in since[q]
      BY <2>1 DEF Match, Decide, SnapshotBetween
    <2>2. ASSUME NEW p \in Requests, NoMatch(p) \/ ValidateFails(p) PROVE FALSE
      BY <2>2 DEF NoMatch, ValidateFails, Decide
    <2>3. ASSUME NEW p \in Requests,
                 \/ Arrive(p) \/ Select(p) \/ Stamp(p)
                 \/ SendUpdate(p) \/ Update(p) \/ UpdateCut(p) \/ UpdateFails(p)
          PROVE FALSE
      BY <2>3 DEF Arrive, Select, Stamp, SendUpdate, Update, UpdateCut, UpdateFails
    <2>4. ASSUME NEW k \in Keys, CreateKey(k) \/ EndKey(k) PROVE FALSE
      BY <2>4 DEF CreateKey, EndKey
    <2>5. CASE Forget \/ UNCHANGED keyVars
      BY <2>5 DEF Forget, keyVars
    <2> QED
      BY <2>1, <2>2, <2>3, <2>4, <2>5 DEF KeyStep
  <1> QED
    BY <1>1, ApiTypeCorrect, KeysInvariant, PTL DEF Spec, ServedWasActive

\* No request is refused whose key was active all the time since it came.
THEOREM RefusedWithInactiveKey == Spec => RefusedForCause
  <1>1. ApiTypeOK /\ KeysInv /\ [Next]_apiVars =>
          [\A q \in Requests :
             auth[q] # "refused" /\ auth'[q] = "refused" => secret[q] \notin steady[q]]_keyVars
    <2> SUFFICES ASSUME KeysTypeOK, SnapshotBetween, [KeyStep]_keyVars,
                        NEW q \in Requests, auth[q] # "refused", auth'[q] = "refused"
                 PROVE secret[q] \notin steady[q]
      BY StepOfKeys DEF ApiTypeOK, KeysInv
    <2> USE DEF KeysTypeOK
    <2>1. ASSUME NEW p \in Requests, NoMatch(p) PROVE secret[q] \notin steady[q]
      BY <2>1 DEF NoMatch, Decide, SnapshotBetween
    <2>2. ASSUME NEW p \in Requests, Arrive(p) PROVE secret[q] \notin steady[q]
      BY <2>2 DEF Arrive, SnapshotBetween, Checking
    <2>3. ASSUME NEW p \in Requests, Match(p) \/ ValidateFails(p) PROVE FALSE
      BY <2>3 DEF Match, ValidateFails, Decide
    <2>4. ASSUME NEW p \in Requests,
                 \/ Select(p) \/ Stamp(p)
                 \/ SendUpdate(p) \/ Update(p) \/ UpdateCut(p) \/ UpdateFails(p)
          PROVE FALSE
      BY <2>4 DEF Select, Stamp, SendUpdate, Update, UpdateCut, UpdateFails
    <2>5. ASSUME NEW k \in Keys, CreateKey(k) \/ EndKey(k) PROVE FALSE
      BY <2>5 DEF CreateKey, EndKey
    <2>6. CASE Forget \/ UNCHANGED keyVars
      BY <2>6 DEF Forget, keyVars
    <2> QED
      BY <2>1, <2>2, <2>3, <2>4, <2>5, <2>6 DEF KeyStep
  <1> QED
    BY <1>1, ApiTypeCorrect, KeysInvariant, PTL DEF Spec, RefusedForCause

-----------------------------------------------------------------------------
(* The connections of the pool *)

\* A connection is taken where there is room for it.
LEMMA OneTaken ==
    ASSUME IsFiniteSet(conns), NEW q, NEW u, Take(q, u)
    PROVE  IsFiniteSet(conns') /\ Cardinality(conns') <= PoolSize
  <1>1. conns' = conns \cup {<<q, u>>} /\ Cardinality(conns) < PoolSize
    BY DEF Take, Room
  <1>2. Cardinality(conns) \in Nat
    BY FS_CardinalityType
  <1>3. IsFiniteSet(conns')
        /\ Cardinality(conns') \in {Cardinality(conns), Cardinality(conns) + 1}
    BY <1>1, FS_AddElement
  <1> QED
    BY <1>1, <1>2, <1>3, PoolAssumption

\* One is given back: what is left is still within the pool.
LEMMA OneBack ==
    ASSUME IsFiniteSet(conns), Cardinality(conns) <= PoolSize, NEW q, NEW u, GiveBack(q, u)
    PROVE  IsFiniteSet(conns') /\ Cardinality(conns') <= PoolSize
  <1>1. conns' = conns \ {<<q, u>>}
    BY DEF GiveBack
  <1>2. Cardinality(conns) \in Nat
    BY FS_CardinalityType
  <1>3. IsFiniteSet(conns')
        /\ Cardinality(conns') \in {Cardinality(conns), Cardinality(conns) - 1}
    BY <1>1, FS_RemoveElement
  <1> QED
    BY <1>2, <1>3, PoolAssumption

\* Taking, giving back and leaving alone: what a step does to the connections, it does to
\* the one use that it begins or ends.
LEMMA ConnectionsFollow ==
    ASSUME ConnectionsInUse, NEW q \in Requests, NEW u \in Uses,
           \A p \in Requests, v \in Uses :
               <<p, v>> # <<q, u>> => (InUse(p, v)' <=> InUse(p, v)),
           \/ Take(q, u) /\ InUse(q, u)'
           \/ GiveBack(q, u) /\ ~ InUse(q, u)'
    PROVE  ConnectionsInUse'
  <1> DEFINE users == {c \in Requests \X Uses : InUse(c[1], c[2])}
  <1>1. conns = users /\ IsFiniteSet(conns) /\ Cardinality(conns) <= PoolSize
    BY DEF ConnectionsInUse
  <1>2. IsFiniteSet(conns') /\ Cardinality(conns') <= PoolSize
    BY <1>1, OneTaken, OneBack
  <1>3. conns' = IF InUse(q, u)' THEN conns \cup {<<q, u>>} ELSE conns \ {<<q, u>>}
    BY DEF Take, GiveBack
  <1>4. \A p \in Requests, v \in Uses : <<p, v>> \in conns' <=> InUse(p, v)'
    BY <1>1, <1>3
  <1>5. conns' \subseteq Requests \X Uses
    BY <1>1, <1>3
  <1>6. conns' = {c \in Requests \X Uses : InUse(c[1], c[2])}'
    BY <1>4, <1>5
  <1> QED
    BY <1>2, <1>6 DEF ConnectionsInUse

LEMMA ConnectionsStep ==
    ASSUME ApiTypeOK, UpdateOfPassed, ApiInv, [Next]_apiVars
    PROVE  ConnectionsInUse'
  <1> USE DEF ApiTypeOK, KeysTypeOK, Uses, InUse
  <1>1. ConnectionsInUse
    BY DEF ApiInv
  <1>2. ASSUME UNCHANGED conns,
               \A p \in Requests, v \in Uses : InUse(p, v)' <=> InUse(p, v)
        PROVE ConnectionsInUse'
    BY <1>1, <1>2 DEF ConnectionsInUse
  <1>3. ASSUME NEW q \in Requests, Request(q) \/ Probe(q) \/ Reply(q)
        PROVE ConnectionsInUse'
    <2>1. CASE Request(q) \/ Probe(q)
      <3>1. auth[q] = "none" /\ work[q] = "none"
        BY <2>1 DEF Request, Probe, Accept, ApiInv, WorkIsForRequests
      <3>2. UNCHANGED conns /\ \A p \in Requests, v \in Uses : InUse(p, v)' <=> InUse(p, v)
        BY <2>1, <3>1 DEF Request, Arrive, Probe, keyVars
      <3> QED
        BY <1>2, <3>2
    <2>2. CASE Reply(q)
      BY <1>2, <2>2 DEF Reply, keyVars
    <2> QED
      BY <1>3, <2>1, <2>2
  <1>4. ASSUME NEW q \in Requests, Ask(q) \/ AskFails(q) \/ Compare(q)
        PROVE ConnectionsInUse'
    <2>1. \A p \in Requests :
             /\ work'[p] = "running" <=> work[p] = "running"
             /\ update'[p] = "sent" <=> update[p] = "sent"
      <3>1. CASE Ask(q) \/ AskFails(q)
        BY <3>1 DEF Ask, AskFails, Select, ValidateFails
      <3>2. CASE Compare(q)
        <4>1. work[q] = "none" /\ update[q] = "none"
          BY <3>2 DEF Compare, Match, NoMatch, ApiInv, WorkIsForRequests, UpdateOfPassed
        <4> QED
          BY <3>2, <4>1 DEF Compare, Match, NoMatch
      <3> QED
        BY <1>4, <3>1, <3>2
    <2>2. \/ Take(q, "check") /\ auth' = [auth EXCEPT ![q] = "compare"]
          \/ /\ GiveBack(q, "check")
             /\ \E d \in {"passed", "refused", "error"} : auth' = [auth EXCEPT ![q] = d]
      BY <1>4 DEF Ask, AskFails, Compare, Select, Match, NoMatch, ValidateFails, Decide
    <2>3. \A p \in Requests, v \in Uses :
             <<p, v>> # <<q, "check">> => (InUse(p, v)' <=> InUse(p, v))
      BY <2>1, <2>2
    <2>4. \/ Take(q, "check") /\ InUse(q, "check")'
          \/ GiveBack(q, "check") /\ ~ InUse(q, "check")'
      BY <2>2
    <2> QED
      BY <1>1, <2>3, <2>4, ConnectionsFollow
  <1>5. ASSUME NEW q \in Requests, HandlerAsks(q) \/ HandlerAskFails(q) \/ HandlerHasAnswer(q)
        PROVE ConnectionsInUse'
    <2>1. UNCHANGED <<auth, update>>
      BY <1>5 DEF HandlerAsks, HandlerAskFails, HandlerHasAnswer, keyVars
    <2>2. CASE HandlerAskFails(q)
      BY <1>2, <2>1, <2>2 DEF HandlerAskFails
    <2>3. CASE HandlerAsks(q) \/ HandlerHasAnswer(q)
      <3>1. \/ Take(q, "handler") /\ work' = [work EXCEPT ![q] = "running"]
            \/ GiveBack(q, "handler") /\ work' = [work EXCEPT ![q] = "done"]
        BY <2>3 DEF HandlerAsks, HandlerHasAnswer
      <3> QED
        BY <1>1, <2>1, <3>1, ConnectionsFollow
    <2> QED
      BY <1>5, <2>2, <2>3
  <1>6. ASSUME NEW q \in Requests, Note(q) \/ NoteEnds(q) PROVE ConnectionsInUse'
    <2>1. UNCHANGED <<auth, work>>
      BY <1>6 DEF Note, NoteEnds, Stamp, SendUpdate, Update, UpdateCut, UpdateFails
    <2>2. CASE Stamp(q)
      BY <1>2, <2>1, <2>2 DEF Stamp
    <2>3. CASE SendUpdate(q) \/ Update(q) \/ UpdateCut(q) \/ UpdateFails(q)
      <3>1. \/ Take(q, "update") /\ update' = [update EXCEPT ![q] = "sent"]
            \/ /\ GiveBack(q, "update")
               /\ \E d \in {"done", "adrift", "lost"} : update' = [update EXCEPT ![q] = d]
        BY <2>3 DEF SendUpdate, Update, UpdateCut, UpdateFails
      <3> QED
        BY <1>1, <2>1, <3>1, ConnectionsFollow
    <2> QED
      BY <1>6, <2>2, <2>3 DEF Note, NoteEnds
  <1>7. CASE Exit \/ Crash
    <2>1. conns' = {} /\ \A p \in Requests, v \in Uses : ~ InUse(p, v)'
      BY <1>7 DEF Exit, Crash, Gone, Forget, Checking
    <2> QED
      BY <2>1, FS_EmptySet, PoolAssumption DEF ConnectionsInUse
  <1>8. CASE Start \/ Term \/ Drained \/ Outside \/ UNCHANGED apiVars
    BY <1>2, <1>8 DEF Start, Term, Drained, Outside, CreateKey, EndKey, keyVars, apiVars
  <1> QED
    BY <1>3, <1>4, <1>5, <1>6, <1>7, <1>8 DEF Next, RequestTurn

LEMMA WorkStep ==
    ASSUME ApiTypeOK, WorkIsForRequests, [Next]_apiVars
    PROVE  WorkIsForRequests'
  <1> USE DEF ApiTypeOK, RequestsTypeOK, KeysTypeOK, WorkIsForRequests, Checking, Waiting
  <1>1. ASSUME NEW q \in Requests, Request(q) \/ Probe(q) PROVE WorkIsForRequests'
    BY <1>1 DEF Request, Probe, Accept, Arrive, keyVars
  <1>2. ASSUME NEW q \in Requests, Ask(q) PROVE WorkIsForRequests'
    BY <1>2 DEF Ask, Select, ValidateFails, Decide
  <1>3. ASSUME NEW q \in Requests, Compare(q) PROVE WorkIsForRequests'
    BY <1>3 DEF Compare, Match, NoMatch, Decide
  <1>4. ASSUME NEW q \in Requests, AskFails(q) PROVE WorkIsForRequests'
    BY <1>4 DEF AskFails, ValidateFails, Decide
  <1>5. ASSUME NEW q \in Requests, HandlerAsks(q) \/ HandlerAskFails(q) \/ HandlerHasAnswer(q)
        PROVE WorkIsForRequests'
    BY <1>5 DEF HandlerAsks, HandlerAskFails, HandlerHasAnswer, keyVars
  <1>6. ASSUME NEW q \in Requests, Reply(q) PROVE WorkIsForRequests'
    BY <1>6 DEF Reply, Write, keyVars
  <1>7. ASSUME NEW q \in Requests, Note(q) PROVE WorkIsForRequests'
    BY <1>7 DEF Note, Stamp, SendUpdate
  <1>8. ASSUME NEW q \in Requests, NoteEnds(q) PROVE WorkIsForRequests'
    BY <1>8 DEF NoteEnds, Update, UpdateCut, UpdateFails
  <1>9. CASE Start \/ Term \/ Drained
    BY <1>9 DEF Start, Term, Drained, keyVars
  <1>10. CASE Exit \/ Crash
    BY <1>10 DEF Exit, Crash, Gone, Lose, Forget
  <1>11. CASE Outside \/ UNCHANGED apiVars
    BY <1>11 DEF Outside, CreateKey, EndKey, apiVars, keyVars
  <1> QED
    BY <1>1, <1>2, <1>3, <1>4, <1>5, <1>6, <1>7, <1>8, <1>9, <1>10, <1>11
    DEF Next, RequestTurn

\* Every connection in use has a statement at work on it, and the pool is never exceeded:
\* checks, handlers and updates give theirs back however their failures, the answer to
\* their request and the end of the process interleave.
THEOREM ConnectionsComeBack == Spec => []ApiInv
  <1>1. ApiInit => ApiInv
    <2> SUFFICES ASSUME ApiInit PROVE ApiInv
      OBVIOUS
    <2>1. \A p \in Requests, v \in Uses : ~ InUse(p, v)
      BY DEF ApiInit, KeysInit, InUse
    <2>2. ConnectionsInUse
      BY <2>1, FS_EmptySet, PoolAssumption DEF ApiInit, PoolInit, ConnectionsInUse
    <2>3. WorkIsForRequests
      BY DEF ApiInit, RequestsInit, KeysInit, WorkIsForRequests, Checking, Waiting
    <2> QED
      BY <2>2, <2>3 DEF ApiInv
  <1>2. ApiTypeOK /\ KeysInv /\ ApiInv /\ [Next]_apiVars => ApiInv'
    BY ConnectionsStep, WorkStep DEF ApiInv, KeysInv
  <1> QED
    BY <1>1, <1>2, ApiTypeCorrect, KeysInvariant, PTL DEF Spec

\* Nobody has one connection of the pool and waits for another, in any part of the
\* process: a full pool and a closing one wait for PostgreSQL, never for themselves.
THEOREM NobodyIsStuck == Spec => []NobodyHoldsAndWaits
  <1>1. ApiInv => NobodyHoldsAndWaits
    <2> SUFFICES ASSUME ApiInv, NEW q \in Requests
                 PROVE  /\ <<q, "check">> \in conns \/ <<q, "handler">> \in conns =>
                             /\ Waiting(q) /\ auth[q] # "query" /\ work[q] # "query"
                             /\ ~ (<<q, "check">> \in conns /\ <<q, "handler">> \in conns)
                        /\ <<q, "update">> \in conns => update[q] = "sent" /\ proc # "ended"
      BY DEF NobodyHoldsAndWaits
    <2>1. \A u \in Uses : <<q, u>> \in conns => InUse(q, u)
      BY DEF ApiInv, ConnectionsInUse
    <2>2. /\ <<q, "check">> \in conns => auth[q] = "compare"
          /\ <<q, "handler">> \in conns => work[q] = "running"
          /\ <<q, "update">> \in conns => update[q] = "sent"
      BY <2>1 DEF Uses, InUse
    <2> QED
      BY <2>2 DEF ApiInv, WorkIsForRequests, Checking
  <1> QED
    BY <1>1, ConnectionsComeBack, PTL

-----------------------------------------------------------------------------
(* The steps of a request *)

\* What a step leaves to a waiting request: where it was, or a later place.
LEMMA OthersStep ==
    ASSUME ApiTypeOK, ApiInv, [Next]_apiVars, NEW q \in Requests,
           Waiting(q), Waiting(q)', ~ RequestTurn(q)
    PROVE  \/ UNCHANGED <<auth[q], work[q]>>
           \/ auth[q] \in {"query", "compare"} /\ auth'[q] = "error" /\ work'[q] = work[q]
           \/ work[q] = "query" /\ work'[q] = "done" /\ auth'[q] = auth[q]
  <1> USE DEF ApiTypeOK, RequestsTypeOK, KeysTypeOK, Checking, Waiting
  <1>1. ASSUME NEW p \in Requests, p # q, Request(p) \/ Probe(p) \/ Ask(p) \/ Compare(p)
        PROVE UNCHANGED <<auth[q], work[q]>>
    BY <1>1 DEF Request, Probe, Arrive, Ask, Select, ValidateFails, Compare, Match, NoMatch,
       Decide, keyVars
  <1>2. ASSUME NEW p \in Requests, p # q,
               \/ HandlerAsks(p) \/ HandlerHasAnswer(p) \/ HandlerAskFails(p)
               \/ AskFails(p) \/ Reply(p)
        PROVE UNCHANGED <<auth[q], work[q]>>
    BY <1>2 DEF HandlerAsks, HandlerHasAnswer, HandlerAskFails, AskFails, ValidateFails, Decide,
       Reply, keyVars
  <1>3. ASSUME Request(q) \/ Probe(q) PROVE FALSE
    BY <1>3 DEF Request, Probe, Accept
  <1>4. ASSUME AskFails(q)
        PROVE auth[q] \in {"query", "compare"} /\ auth'[q] = "error" /\ work'[q] = work[q]
    BY <1>4 DEF AskFails, ValidateFails, Decide
  <1>5. ASSUME HandlerAskFails(q)
        PROVE work[q] = "query" /\ work'[q] = "done" /\ auth'[q] = auth[q]
    BY <1>5 DEF HandlerAskFails, keyVars
  <1>6. ASSUME NEW p \in Requests, Note(p) \/ NoteEnds(p) PROVE UNCHANGED <<auth, work>>
    BY <1>6 DEF Note, NoteEnds, Stamp, SendUpdate, Update, UpdateCut, UpdateFails
  <1>7. CASE Start \/ Term \/ Drained \/ Outside \/ UNCHANGED apiVars
    BY <1>7 DEF Start, Term, Drained, Outside, CreateKey, EndKey, apiVars, keyVars
  <1>8. ASSUME Exit \/ Crash PROVE FALSE
    BY <1>8 DEF Exit, Crash, Gone, Lose
  <1> QED
    BY <1>1, <1>2, <1>3, <1>4, <1>5, <1>6, <1>7, <1>8 DEF Next, RequestTurn

LEMMA StepCounts ==
    ASSUME ApiTypeOK, ApiInv, [Next]_apiVars, NEW q \in Requests
    PROVE  /\ RequestTurn(q) => StepsLeft(q)' < StepsLeft(q)
           /\ Waiting(q) => StepsLeft(q)' <= StepsLeft(q)
  <1> USE DEF ApiTypeOK, RequestsTypeOK, KeysTypeOK, Checking, Waiting, StepsLeft
  <1>1. /\ auth[q] \in {"query", "compare", "refused", "error"} => work[q] = "none"
        /\ Waiting(q) => auth[q] # "none" \/ work[q] # "none"
    BY DEF ApiInv, WorkIsForRequests
  <1>2. CASE RequestTurn(q)
    <2>1. CASE Ask(q)
      <3>1. answer' = answer /\ Waiting(q) /\ auth[q] = "query"
            /\ auth'[q] \in {"compare", "error"} /\ work' = work
        BY <2>1 DEF Ask, Select, ValidateFails, Decide
      <3> QED
        BY <1>1, <3>1
    <2>2. CASE Compare(q)
      <3>1. answer' = answer /\ Waiting(q) /\ auth[q] = "compare"
            /\ auth'[q] \in {"passed", "refused"} /\ work'[q] \in {"query", "done", work[q]}
        BY <2>2 DEF Compare, Match, NoMatch, Decide
      <3> QED
        BY <1>1, <3>1
    <2>3. CASE Reply(q)
      <3>1. Waiting(q) /\ ~ Waiting(q)'
        BY <2>3 DEF Reply, Write
      <3> QED
        BY <3>1
    <2>4. CASE HandlerAsks(q) \/ HandlerHasAnswer(q) \/ HandlerAskFails(q)
      <3>1. /\ Waiting(q) /\ UNCHANGED <<answer, auth>>
            /\ \/ work[q] = "query" /\ work'[q] \in {"running", "done"}
               \/ work[q] = "running" /\ work'[q] = "done"
        BY <2>4 DEF HandlerAsks, HandlerHasAnswer, HandlerAskFails, keyVars
      <3> QED
        BY <1>1, <3>1
    <2> QED
      BY <1>2, <2>1, <2>2, <2>3, <2>4 DEF RequestTurn
  <1>3. ASSUME Waiting(q), ~ RequestTurn(q), Waiting(q)' PROVE StepsLeft(q)' <= StepsLeft(q)
    BY <1>1, <1>3, OthersStep
  <1>4. ASSUME Waiting(q), ~ Waiting(q)' PROVE StepsLeft(q)' <= StepsLeft(q)
    BY <1>4
  <1> QED
    BY <1>2, <1>3, <1>4

\* A request makes at most five steps between its acceptance and its answer, and no
\* other request, key or goroutine adds to them. With NobodyIsStuck and the fairness of
\* FairSpec this is why EveryRequestEnds holds.
THEOREM StepsAreFew == Spec => EachStepCounts
  <1>1. ApiTypeOK /\ ApiInv /\ [Next]_apiVars =>
          [\A q \in Requests :
             /\ RequestTurn(q) => StepsLeft(q)' < StepsLeft(q)
             /\ Waiting(q) => StepsLeft(q)' <= StepsLeft(q)]_apiVars
    BY StepCounts
  <1> QED
    BY <1>1, ApiTypeCorrect, ConnectionsComeBack, PTL DEF Spec, EachStepCounts
=============================================================================
