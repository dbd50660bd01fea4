-------------------------- MODULE HealthCheckProofs --------------------------
(***************************************************************************)
(* What a health check answers, for any number of probes at once.          *)
(***************************************************************************)
EXTENDS HealthCheck, TLAPS

-----------------------------------------------------------------------------
(* The steps by what they do to the probes *)

\* A step of the process, or of something it depends on.
Change == Start \/ Term \/ Drained \/ (\E d \in Dependencies : Shift(d)) \/ Breaks \/ Reconnects

LEMMA ChangeIsWatched == Change => Watch
BY DEF Change, Start, Term, Drained, Shift, Breaks, Reconnects

LEMMA ReachType ==
    ASSUME NEW theProc, NEW theUp \in SUBSET Dependencies, NEW theNc
    PROVE  /\ InReach(theProc, theUp) \subseteq Dependencies
           /\ Missing(theProc, theUp, theNc) \subseteq Dependencies
BY DEF InReach, Missing

-----------------------------------------------------------------------------
(* Types *)

\* Every variable keeps its type.
THEOREM HealthTypeCorrect == HealthSpec => []HealthTypeOK
<1>1. HealthInit => HealthTypeOK
  BY DEF HealthInit, HealthTypeOK, Dependencies
<1>2. HealthTypeOK /\ [Next]_healthVars => HealthTypeOK'
  <2> SUFFICES ASSUME HealthTypeOK, [Next]_healthVars PROVE HealthTypeOK'
    OBVIOUS
  <2>1. CASE Change
    <3>1. /\ proc' \in {"starting", "up", "draining", "closing", "ended"}
          /\ nc' \in {"nil", "connected", "reconnecting", "closed"}
      BY <2>1 DEF Change, Start, Term, Drained, Shift, Breaks, Reconnects, HealthTypeOK
    <3>2. up' \subseteq Dependencies
      BY <2>1 DEF Change, Start, Term, Drained, Shift, Breaks, Reconnects, HealthTypeOK
    <3>3. /\ InReach(proc', up') \subseteq Dependencies
          /\ Missing(proc', up', nc') \subseteq Dependencies
      BY <3>2, ReachType
    <3>4. Watch
      BY <2>1, ChangeIsWatched
    <3>5. noticed' \in [Requests -> BOOLEAN]
      BY <3>4 DEF Watch
    <3>6. /\ within' \in [Requests -> SUBSET Dependencies]
          /\ missing' \in [Requests -> SUBSET Dependencies]
      BY <3>3, <3>4 DEF Watch, HealthTypeOK
    <3> QED BY <3>1, <3>2, <3>4, <3>5, <3>6 DEF Watch, HealthTypeOK
  <2>2. CASE Ended
    BY <2>2 DEF Ended, HealthTypeOK
  <2>3. ASSUME NEW q \in Requests, HealthBegin(q) PROVE HealthTypeOK'
    <3>1. InReach(proc, up) \subseteq Dependencies /\ Missing(proc, up, nc) \subseteq Dependencies
      BY ReachType DEF HealthTypeOK
    <3>2. probe' \in [Requests -> Dependencies \cup {"none", "replied", "over"}]
      BY <2>3 DEF HealthBegin, HealthTypeOK, Dependencies
    <3> QED BY <2>3, <3>1, <3>2 DEF HealthBegin, HealthTypeOK
  <2>4. ASSUME NEW q \in Requests, Expire(q) PROVE HealthTypeOK'
    BY <2>4 DEF Expire, HealthTypeOK
  <2>5. ASSUME NEW q \in Requests, Check(q) PROVE HealthTypeOK'
    <3>1. After(probe[q]) \in {"nats", "embeddings", "replied"}
      BY <2>5 DEF Check, Probing, After, Dependencies
    <3>2. (healthy[q] /\ Ok(q, probe[q])) \in BOOLEAN
      OBVIOUS
    <3>3. probe' \in [Requests -> Dependencies \cup {"none", "replied", "over"}]
      BY <2>5, <3>1 DEF Check, HealthTypeOK, Dependencies
    <3>4. healthy' \in [Requests -> BOOLEAN]
      BY <2>5, <3>2 DEF Check, HealthTypeOK
    <3> QED BY <2>5, <3>3, <3>4 DEF Check, HealthTypeOK
  <2>6. ASSUME NEW q \in Requests, Reply(q) PROVE HealthTypeOK'
    BY <2>6 DEF Reply, HealthTypeOK
  <2>7. CASE UNCHANGED healthVars
    BY <2>7 DEF healthVars, HealthTypeOK
  <2> QED BY <2>1, <2>2, <2>3, <2>4, <2>5, <2>6, <2>7 DEF Next, Change
<1> QED BY <1>1, <1>2, PTL DEF HealthSpec

-----------------------------------------------------------------------------
(* The invariant *)

\* The client is connected after a change only if it was before, or NATS was reached.
LEMMA Reconnected ==
    ASSUME Change, \E q \in Requests : probe[q] \in {"postgres", "nats"}, nc' = "connected"
    PROVE  nc = "connected" \/ "nats" \in InReach(proc', up')
<1>1. nc = "connected" \/ (nc' = "connected" /\ "nats" \in up')
  BY DEF Change, Start, Term, Drained, Shift, Breaks, Reconnects
<1> QED BY <1>1 DEF InReach

\* A change adds to what was in reach and to what was missing, and takes nothing back.
LEMMA ChangeStep ==
    ASSUME HealthTypeOK, HealthInv, Change
    PROVE  HealthInv'
<1>1. Watch
  BY ChangeIsWatched
<1>2. \A q \in Requests : /\ within[q] \subseteq within'[q] /\ missing[q] \subseteq missing'[q]
                          /\ probe'[q] = probe[q] /\ healthy'[q] = healthy[q]
                          /\ late'[q] = late[q]
  BY <1>1 DEF Watch
<1>3. ASSUME NEW q \in Requests, Probing(q)'
      PROVE  InReach(proc', up') \subseteq within'[q] /\ Missing(proc', up', nc') \subseteq missing'[q]
  BY <1>1, <1>3 DEF Watch, Probing
<1>4. ASSUME NEW q \in Requests, probe'[q] \in {"postgres", "nats"}
      PROVE  IF nc' = "connected" THEN noticed'[q] => "nats" \in within'[q] ELSE noticed'[q]
  <2>1. probe[q] \in {"postgres", "nats"} /\ noticed'[q] = (noticed[q] \/ nc' # "connected")
    BY <1>1, <1>4 DEF Watch
  <2>2. CASE nc' # "connected"
    BY <2>1, <2>2
  <2>3. CASE nc' = "connected" /\ nc = "connected"
    BY <1>2, <2>1, <2>3 DEF HealthInv, Watched
  <2>4. CASE nc' = "connected" /\ "nats" \in InReach(proc', up')
    BY <1>2, <1>3, <2>1, <2>4 DEF Probing, Dependencies
  <2> QED BY <2>1, <2>2, <2>3, <2>4, Reconnected
<1>5. Watched'
  BY <1>3, <1>4 DEF Watched
<1>6. \A q \in Requests : Checked(q)' = Checked(q)
  BY <1>2 DEF Checked
<1>7. ASSUME NEW q \in Requests, "nats" \in Checked(q) PROVE noticed'[q] = noticed[q]
  <2>1. probe[q] \notin {"postgres", "nats"}
    BY <1>7 DEF Checked
  <2> QED BY <1>1, <2>1 DEF Watch, HealthTypeOK
<1>8. EachInItsTime'
  BY <1>2, <1>6, <1>7 DEF HealthInv, EachInItsTime
<1>9. Unasked'
  BY <1>2 DEF HealthInv, Unasked
<1> QED BY <1>5, <1>8, <1>9 DEF HealthInv

\* A check finds its dependency as it is, or as the client has it, and what that is
\* worth the request has been watched for.
LEMMA CheckStep ==
    ASSUME HealthTypeOK, HealthInv, NEW q \in Requests, Check(q)
    PROVE  HealthInv'
<1>1. /\ Probing(q) /\ probe[q] \in {"postgres", "nats", "embeddings"}
      /\ UNCHANGED <<proc, up, nc, late, within, missing, noticed>>
      /\ probe'[q] = After(probe[q])
      /\ healthy'[q] = (healthy[q] /\ Ok(q, probe[q]))
      /\ \A p \in Requests \ {q} : probe'[p] = probe[p] /\ healthy'[p] = healthy[p]
  BY DEF Check, Probing, Dependencies, HealthTypeOK
<1>2. InReach(proc, up) \subseteq within[q] /\ Missing(proc, up, nc) \subseteq missing[q]
  BY <1>1 DEF HealthInv, Watched
<1>3. Watched'
  <2>1. ASSUME NEW p \in Requests, Probing(p)' PROVE Probing(p)
    BY <1>1, <2>1 DEF Probing
  <2>2. ASSUME NEW p \in Requests, probe'[p] \in {"postgres", "nats"}
        PROVE probe[p] \in {"postgres", "nats"}
    BY <1>1, <2>2 DEF After
  <2> QED BY <1>1, <2>1, <2>2 DEF HealthInv, Watched
<1>4. ASSUME Ok(q, probe[q])
      PROVE  probe[q] \in within[q] \/ (probe[q] = "nats" /\ ~ noticed[q])
  <2>1. CASE probe[q] = "nats"
    BY <1>4, <2>1 DEF Ok, HealthInv, Watched
  <2>2. CASE probe[q] # "nats"
    BY <1>2, <1>4, <2>2 DEF Ok
  <2> QED BY <2>1, <2>2
<1>5. ASSUME ~ Ok(q, probe[q]) PROVE late[q] \/ missing[q] # {}
  <2>1. late[q] \/ probe[q] \in Missing(proc, up, nc)
    BY <1>1, <1>5 DEF Ok, Missing, Probing
  <2> QED BY <1>2, <2>1
<1>6. Checked(q)' = Checked(q) \cup {probe[q]}
  BY <1>1 DEF Checked, After, Dependencies
<1>7. IF healthy'[q]
      THEN \A d \in Checked(q)' : d \in within'[q] \/ (d = "nats" /\ ~ noticed'[q])
      ELSE late'[q] \/ missing'[q] # {}
  BY <1>1, <1>4, <1>5, <1>6 DEF HealthInv, EachInItsTime
<1>8. \A p \in Requests \ {q} : Checked(p)' = Checked(p)
  BY <1>1 DEF Checked
<1>9. EachInItsTime'
  BY <1>1, <1>7, <1>8 DEF HealthInv, EachInItsTime
<1>10. Unasked'
  BY <1>1 DEF HealthInv, Unasked, After
<1> QED BY <1>3, <1>9, <1>10 DEF HealthInv

\* The inductive invariant of the probes.
THEOREM HealthInvariant == HealthSpec => []HealthInv
<1>1. HealthInit => HealthInv
  BY DEF HealthInit, HealthInv, Watched, EachInItsTime, Unasked, Probing, Checked, Dependencies
<1>2. HealthTypeOK /\ HealthInv /\ [Next]_healthVars => HealthInv'
  <2> SUFFICES ASSUME HealthTypeOK, HealthInv, [Next]_healthVars PROVE HealthInv'
    OBVIOUS
  <2>1. CASE Change
    BY <2>1, ChangeStep
  <2>2. CASE Ended
    <3>1. \A q \in Requests : probe'[q] \in {"none", "over"} /\ Checked(q)' = {}
      BY <2>2 DEF Ended, Checked
    <3> QED BY <2>2, <3>1 DEF Ended, HealthInv, Watched, EachInItsTime, Unasked, Probing, Dependencies
  <2>3. ASSUME NEW q \in Requests, HealthBegin(q) PROVE HealthInv'
    <3>1. /\ UNCHANGED <<proc, up, nc, healthy, late>>
          /\ probe[q] = "none" /\ probe'[q] = "postgres"
          /\ within'[q] = InReach(proc, up)
          /\ missing'[q] = Missing(proc, up, nc)
          /\ noticed'[q] = (nc # "connected")
          /\ \A p \in Requests \ {q} :
               /\ probe'[p] = probe[p] /\ within'[p] = within[p]
               /\ missing'[p] = missing[p] /\ noticed'[p] = noticed[p]
      BY <2>3 DEF HealthBegin, HealthTypeOK
    <3>2. Checked(q)' = {} /\ \A p \in Requests \ {q} : Checked(p)' = Checked(p)
      BY <3>1 DEF Checked
    <3>3. Watched'
      BY <3>1 DEF HealthInv, Watched, Probing
    <3>4. healthy'[q]
      BY <3>1 DEF HealthInv, Unasked
    <3>5. EachInItsTime' /\ Unasked'
      BY <3>1, <3>2, <3>4 DEF HealthInv, EachInItsTime, Unasked
    <3> QED BY <3>3, <3>5 DEF HealthInv
  <2>4. ASSUME NEW q \in Requests, Expire(q) PROVE HealthInv'
    <3>1. \A p \in Requests : (late[p] => late'[p]) /\ Checked(p)' = Checked(p)
      BY <2>4 DEF Expire, HealthTypeOK, Checked
    <3> QED BY <2>4, <3>1 DEF Expire, HealthInv, Watched, EachInItsTime, Unasked, Probing
  <2>5. ASSUME NEW q \in Requests, Check(q) PROVE HealthInv'
    BY <2>5, CheckStep
  <2>6. ASSUME NEW q \in Requests, Reply(q) PROVE HealthInv'
    <3>1. /\ Checked(q)' = {} /\ \A p \in Requests \ {q} : Checked(p)' = Checked(p)
          /\ \A p \in Requests : Probing(p)' => Probing(p)
      BY <2>6 DEF Reply, HealthTypeOK, Checked, Probing, Dependencies
    <3> QED BY <2>6, <3>1 DEF Reply, HealthInv, HealthTypeOK, Watched, EachInItsTime, Unasked
  <2>7. CASE UNCHANGED healthVars
    BY <2>7 DEF healthVars, HealthInv, Watched, EachInItsTime, Unasked, Probing, Checked
  <2> QED BY <2>1, <2>2, <2>3, <2>4, <2>5, <2>6, <2>7 DEF Next, Change
<1> QED BY <1>1, <1>2, HealthTypeCorrect, PTL DEF HealthSpec

-----------------------------------------------------------------------------
(* What the answer says *)

\* 200 only where PostgreSQL and the embedding model were in reach at some moment of the
\* checks, and NATS as well unless the client had not noticed its loss.
THEOREM OkForCause == HealthSpec => []OkWasTrue
<1>1. HealthTypeOK /\ HealthInv => OkWasTrue
  <2> SUFFICES ASSUME HealthInv, NEW q \in Requests, probe[q] = "replied", healthy[q]
               PROVE  /\ {"postgres", "embeddings"} \subseteq within[q]
                      /\ noticed[q] => "nats" \in within[q]
    BY DEF OkWasTrue
  <2>1. \A d \in Dependencies : d \in within[q] \/ (d = "nats" /\ ~ noticed[q])
    BY DEF HealthInv, EachInItsTime, Checked
  <2> QED BY <2>1 DEF Dependencies
<1> QED BY <1>1, HealthTypeCorrect, HealthInvariant, PTL

\* 503 only where something could not be used at some moment of them, or their time was
\* over.
THEOREM NotOkForCause == HealthSpec => []DegradedForCause
<1>1. HealthInv => DegradedForCause
  BY DEF HealthInv, EachInItsTime, DegradedForCause
<1> QED BY <1>1, HealthInvariant, PTL
=============================================================================
