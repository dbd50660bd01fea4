------------------------ MODULE EmbeddingAttemptProofs ------------------------
(***************************************************************************)
(* Theorems about EmbeddingAttempt, for every record, every batch size and *)
(* every number of attempts: the vectors of an attempt that succeeds are   *)
(* those of the chunks, and batches and pauses implement the steps that    *)
(* IndexWorker makes of them.                                              *)
(***************************************************************************)
EXTENDS EmbeddingAttempt, SequenceTheorems, TLAPS

\* The vectors that attempt a makes of the first n texts.
Vectors(n, a) == [i \in 1 .. n |-> [text |-> i - 1, attempt |-> a]]

\* A record has at least one chunk.
LEMMA CountPositive ==
    ASSUME rec \in Records
    PROVE  Count \in Nat \ {0}
  BY ChunkAssumption DEF Count

\* End lies after start and not after the last text.
LEMMA EndInRange ==
    ASSUME Count \in Nat \ {0}, start \in 0 .. Count, start < Count
    PROVE  End \in start + 1 .. Count
  BY BatchAssumption DEF End

\* Vectors(n, a) is a sequence of vectors.
LEMMA VectorsType ==
    ASSUME NEW n \in Nat, NEW a \in Nat
    PROVE  Vectors(n, a) \in Seq(Vector) /\ Len(Vectors(n, a)) = n
  <1>1. \A i \in 1 .. n : [text |-> i - 1, attempt |-> a] \in Vector
    BY DEF Vector
  <1>2. QED
    BY <1>1 DEF Vectors

\* A batch continues the vectors of the batches before it.
LEMMA BatchExtends ==
    ASSUME NEW s \in Nat, NEW e \in Nat, s <= e, NEW a \in Nat
    PROVE  Vectors(s, a) \o [i \in 1 .. e - s |-> [text |-> s + i - 1, attempt |-> a]]
             = Vectors(e, a)
  <1> DEFINE b == [i \in 1 .. e - s |-> [text |-> s + i - 1, attempt |-> a]]
             c == Vectors(s, a) \o b
  <1>1. Vectors(s, a) \in Seq(Vector) /\ Len(Vectors(s, a)) = s
    BY VectorsType
  <1>2. \A i \in 1 .. e - s : [text |-> s + i - 1, attempt |-> a] \in Vector
    BY DEF Vector
  <1>3. b \in Seq(Vector) /\ Len(b) = e - s
    BY <1>2
  <1> HIDE DEF b
  <1>4. c \in Seq(Vector) /\ Len(c) = e
    BY <1>1, <1>3
  <1>5. ASSUME NEW i \in 1 .. e
        PROVE  c[i] = [text |-> i - 1, attempt |-> a]
    <2>1. CASE i <= s
      <3>1. c[i] = Vectors(s, a)[i]
        BY <1>1, <1>3, <2>1, ConcatProperties
      <3>2. QED
        BY <3>1, <2>1 DEF Vectors
    <2>2. CASE ~(i <= s)
      <3>1. c[i] = b[i - s]
        BY <1>1, <1>3, <2>2, ConcatProperties
      <3>2. i - s \in 1 .. e - s /\ s + (i - s) - 1 = i - 1
        BY <2>2
      <3>3. QED
        BY <3>1, <3>2 DEF b
    <2>3. QED
      BY <2>1, <2>2
  <1>6. Vectors(e, a) \in Seq(Vector) /\ Len(Vectors(e, a)) = e
    BY VectorsType
  <1>7. \A i \in 1 .. e : c[i] = Vectors(e, a)[i]
    BY <1>5 DEF Vectors
  <1> HIDE DEF c
  <1>8. c = Vectors(e, a)
    BY <1>4, <1>6, <1>7, SeqEqual
  <1>9. QED
    BY <1>8 DEF c, b

-----------------------------------------------------------------------------

AttemptIInv == AttemptTypeOK /\ AttemptInv

\* A batch keeps the vectors in order, and the last one completes them.
LEMMA BatchOkStep ==
    ASSUME AttemptIInv, BatchOk
    PROVE  AttemptIInv'
  <1> USE DEF AttemptIInv
  <1>1. Count \in Nat \ {0}
    BY CountPositive DEF AttemptTypeOK
  <1>2. start \in Nat /\ start < Count /\ End \in start + 1 .. Count /\ attempt \in Nat
    BY <1>1, EndInRange, AttemptsAssumption
    DEF AttemptTypeOK, AttemptInv, BatchesInOrder, BatchOk
  <1>3. result = Vectors(start, attempt)
    BY DEF AttemptInv, BatchesInOrder, BatchOk, Vectors
  <1>4. result' = Vectors(End, attempt)
    <2>1. End \in Nat /\ start <= End
      BY <1>1, <1>2
    <2>2. result' = Vectors(start, attempt) \o Batch
      BY <1>3 DEF BatchOk
    <2>3. QED
      BY <2>1, <2>2, <1>2, BatchExtends DEF Batch
  <1>5. result' \in Seq(Vector)
    <2>1. End \in Nat
      BY <1>1, <1>2
    <2>2. QED
      BY <2>1, <1>2, <1>4, VectorsType
  <1>6. rec' = rec /\ Count' = Count /\ attempt' = attempt /\ start' = End
    BY DEF BatchOk, Count
  <1>7. AttemptTypeOK'
    <2>1. start' \in 0 .. Count'
      BY <1>1, <1>2, <1>6
    <2>2. embeddings' \in Seq(Vector) /\ state' \in {"call", "pause", "done", "nak"}
      BY <1>5 DEF BatchOk, AttemptTypeOK
    <2>3. QED
      BY <1>5, <1>6, <2>1, <2>2 DEF BatchOk, AttemptTypeOK
  <1>8. CASE End = Count
    <2>1. state' = "done" /\ embeddings' = Vectors(Count, attempt)
      BY <1>4, <1>8 DEF BatchOk
    <2>2. QED
      BY <1>6, <1>7, <2>1
      DEF AttemptInv, BatchesInOrder, PauseAfterFailure, WholeAttempt,
        Vectors
  <1>9. CASE End # Count
    <2>1. state' = "call"
      BY <1>9 DEF BatchOk
    <2>2. End < Count
      BY <1>1, <1>2, <1>9
    <2>3. QED
      BY <1>4, <1>6, <1>7, <2>1, <2>2
      DEF AttemptInv, BatchesInOrder, PauseAfterFailure, WholeAttempt,
        Vectors
  <1>10. QED
    BY <1>8, <1>9

\* Failures, pauses and a cancelled ctx keep the invariant too.
LEMMA AttemptStep == AttemptIInv /\ [Next]_vars => AttemptIInv'
  <1> SUFFICES ASSUME AttemptIInv, [Next]_vars PROVE AttemptIInv'
    OBVIOUS
  <1> USE DEF AttemptIInv, AttemptTypeOK, AttemptInv, BatchesInOrder, PauseAfterFailure,
          WholeAttempt, Count
  <1>1. CASE BatchOk
    BY <1>1, BatchOkStep
  <1>2. CASE BatchFails
    BY <1>2, AttemptsAssumption DEF BatchFails
  <1>3. CASE PauseEnds
    <2>1. ChunkCount[rec] \in Nat \ {0}
      BY CountPositive
    <2>2. <<>> = [i \in 1 .. 0 |-> [text |-> i - 1, attempt |-> attempt]]
      OBVIOUS
    <2>3. QED
      BY <1>3, <2>1, <2>2 DEF PauseEnds
  <1>4. CASE PauseAborted
    BY <1>4 DEF PauseAborted
  <1>5. CASE Cancel
    BY <1>5 DEF Cancel
  <1>6. CASE UNCHANGED vars
    BY <1>6 DEF vars
  <1>7. QED
    BY <1>1, <1>2, <1>3, <1>4, <1>5, <1>6 DEF Next, Turn

LEMMA AttemptStart == Init => AttemptIInv
  <1> SUFFICES ASSUME Init PROVE AttemptIInv
    OBVIOUS
  <1>1. Count \in Nat \ {0}
    BY CountPositive DEF Init
  <1>2. <<>> = [i \in 1 .. 0 |-> [text |-> i - 1, attempt |-> attempt]]
    OBVIOUS
  <1>3. QED
    BY <1>1, <1>2, AttemptsAssumption
    DEF Init, AttemptIInv, AttemptTypeOK, AttemptInv, BatchesInOrder,
        PauseAfterFailure, WholeAttempt

LEMMA AttemptInvariant == Spec => []AttemptIInv
  <1>1. QED
    BY AttemptStart, AttemptStep, PTL DEF Spec

\* Type correctness of the retried embedding: the counters stay in their ranges, also
\* at the last, shorter batch (Pipeline.Process, withRetry).
THEOREM AttemptTypeCorrect == Spec => []AttemptTypeOK
  <1>1. AttemptIInv => AttemptTypeOK
    BY DEF AttemptIInv
  <1>2. QED
    BY <1>1, AttemptInvariant, PTL

\* UpsertChunks gets the vectors of one whole attempt, the i-th for the i-th chunk
\* (embedFn of Pipeline.Process).
THEOREM VectorsOfOneAttempt == Spec => []WholeAttempt
  <1>1. AttemptIInv => WholeAttempt
    BY DEF AttemptIInv, AttemptInv
  <1>2. QED
    BY <1>1, AttemptInvariant, PTL

-----------------------------------------------------------------------------
(* The refinement *)

WorkerMove ==
    \/ Worker!EmbedOk(Self) \/ Worker!EmbedFails(Self)
    \/ Worker!PauseAborted(Self) \/ Worker!Cancel(Self)

\* Each step is a step of the worker in IndexWorker, or changes nothing it has.
LEMMA StepIsWorkers ==
    ASSUME AttemptIInv, [Next]_vars
    PROVE  [WorkerMove]_(Worker!workerVars)
  <1> USE DEF WorkerMove
  <1>1. CASE BatchOk
    <2>1. CASE End = Count
      BY <1>1, <2>1 DEF BatchOk, Worker!EmbedOk
    <2>2. CASE End # Count
      BY <1>1, <2>2 DEF BatchOk, Worker!workerVars
    <2>3. QED
      BY <2>1, <2>2
  <1>2. CASE BatchFails
    BY <1>2 DEF BatchFails, Worker!EmbedFails, Worker!Retry
  <1>3. CASE PauseEnds
    BY <1>3 DEF PauseEnds, Worker!workerVars
  <1>4. CASE PauseAborted
    BY <1>4 DEF PauseAborted, Worker!PauseAborted, AttemptIInv, AttemptInv,
                PauseAfterFailure, AttemptTypeOK
  <1>5. CASE Cancel
    <2>1. /\ ~cancelled /\ cancelled' = TRUE
          /\ UNCHANGED <<rec, state, attempt>>
      BY <1>5 DEF Cancel
    <2>2. (CASE state = "done" -> "upsert" [] state = "nak" -> "nak" [] OTHER -> "embed")
            # "down"
      OBVIOUS
    <2>3. Worker!Cancel(Self)
      BY <2>1, <2>2 DEF Worker!Cancel
    <2>4. QED
      BY <2>3
  <1>6. CASE UNCHANGED vars
    BY <1>6 DEF vars, Worker!workerVars
  <1>7. QED
    BY <1>1, <1>2, <1>3, <1>4, <1>5, <1>6 DEF Next, Turn

\* The batch-wise attempt implements the one-step attempt that the model of the worker
\* uses (EmbedOk, EmbedFails, PauseAborted of IndexWorker).
THEOREM BatchesImplementAttempts == Spec => ImplementsWorker
  <1>1. AttemptIInv /\ [Next]_vars => [WorkerMove]_(Worker!workerVars)
    BY StepIsWorkers
  <1>2. Spec => [][WorkerMove]_(Worker!workerVars)
    BY <1>1, AttemptInvariant, PTL DEF Spec
  <1>3. QED
    BY <1>2 DEF ImplementsWorker, WorkerMove

-----------------------------------------------------------------------------
(* The embedding returns: a bound on its turns, which each turn lowers *)

\* What one attempt less takes away.
LEMMA OneAttemptLess ==
    ASSUME NEW a \in Int, NEW n \in Int
    PROVE  (MaxRetry - 1 - (a + 1)) * n = (MaxRetry - 1 - a) * n - n
  <1>1. MaxRetry \in Int
    BY AttemptsAssumption
  <1>2. QED
    BY <1>1

\* The turns of the later attempts, counted.
LEMMA LaterTurns ==
    ASSUME NEW a \in 0 .. MaxRetry - 1, NEW n \in Nat
    PROVE  (MaxRetry - 1 - a) * n \in 0 .. (MaxRetry - 1) * n
  <1>1. MaxRetry \in Nat
    BY AttemptsAssumption
  <1>2. MaxRetry - 1 - a \in Nat /\ a * n \in Nat
    BY <1>1
  <1>3. (MaxRetry - 1 - a) * n \in Nat
    BY <1>2
  <1>4. (MaxRetry - 1 - a) * n = (MaxRetry - 1) * n - a * n
    BY <1>1
  <1>5. QED
    BY <1>1, <1>2, <1>3, <1>4

LEMMA TurnsInRange ==
    ASSUME AttemptIInv
    PROVE  TurnsBounded
  <1> DEFINE later == (MaxRetry - 1 - attempt) * (Count + 1)
  <1>1. Count \in Nat \ {0} /\ attempt \in 0 .. MaxRetry - 1 /\ start \in 0 .. Count
    BY CountPositive DEF AttemptIInv, AttemptTypeOK
  <1>2. later \in 0 .. (MaxRetry - 1) * (Count + 1)
    BY <1>1, LaterTurns
  <1>3. (MaxRetry - 1) * (Count + 1) = MaxRetry * (Count + 1) - (Count + 1)
    BY <1>1, AttemptsAssumption
  <1>4. MaxRetry * (Count + 1) \in Int
    BY <1>1, AttemptsAssumption
  <1> HIDE DEF later
  <1>5. CASE state = "call"
    <2>1. TurnsLeft = later + Count - start /\ start < Count
      BY <1>5 DEF TurnsLeft, later, AttemptIInv, AttemptInv, BatchesInOrder
    <2>2. QED
      BY <1>1, <1>2, <1>3, <1>4, <1>5, <2>1 DEF TurnsBounded
  <1>6. CASE state = "pause"
    <2>1. TurnsLeft = later + Count + 1
      BY <1>6 DEF TurnsLeft, later
    <2>2. QED
      BY <1>1, <1>2, <1>3, <1>4, <1>6, <2>1 DEF TurnsBounded
  <1>7. CASE state \in {"done", "nak"}
    <2>1. TurnsLeft = 0
      BY <1>7 DEF TurnsLeft
    <2>2. QED
      BY <1>1, <1>2, <1>3, <1>4, <1>7, <2>1 DEF TurnsBounded
  <1>8. QED
    BY <1>5, <1>6, <1>7 DEF AttemptIInv, AttemptTypeOK

LEMMA TurnLowers ==
    ASSUME AttemptIInv, Turn
    PROVE  TurnsLeft' < TurnsLeft
  <1> DEFINE later == (MaxRetry - 1 - attempt) * (Count + 1)
  <1>1. Count \in Nat \ {0} /\ attempt \in 0 .. MaxRetry - 1 /\ start \in 0 .. Count
        /\ Count' = Count
    BY CountPositive
    DEF AttemptIInv, AttemptTypeOK, Turn, BatchOk, BatchFails, PauseEnds, PauseAborted, Count
  <1>2. later \in Nat
    BY <1>1, LaterTurns
  <1>3. state = "call" => TurnsLeft = later + Count - start /\ start < Count
    BY DEF TurnsLeft, AttemptIInv, AttemptInv, BatchesInOrder
  <1>4. state = "pause" => TurnsLeft = later + Count + 1
    BY DEF TurnsLeft
  <1>5. state' \in {"done", "nak"} => TurnsLeft' = 0
    BY DEF TurnsLeft
  <1>6. attempt' = attempt /\ state' = "call" => TurnsLeft' = later + Count - start'
    BY <1>1 DEF TurnsLeft
  <1> HIDE DEF later
  <1>7. CASE BatchOk
    <2>1. state = "call" /\ attempt' = attempt /\ start' = End /\ state' \in {"call", "done"}
      BY <1>7 DEF BatchOk
    <2>2. End \in start + 1 .. Count
      BY <1>1, <1>3, <2>1, EndInRange
    <2>3. QED
      BY <1>1, <1>2, <1>3, <1>5, <1>6, <2>1, <2>2
  <1>8. CASE BatchFails
    <2>1. CASE state' = "nak"
      BY <1>1, <1>2, <1>3, <1>5, <1>8, <2>1 DEF BatchFails
    <2>2. CASE state' # "nak"
      <3>1. state = "call" /\ state' = "pause" /\ attempt' = attempt + 1
        BY <1>8, <2>2 DEF BatchFails
      <3>2. TurnsLeft' = (MaxRetry - 1 - (attempt + 1)) * (Count + 1) + Count + 1
        BY <1>1, <3>1 DEF TurnsLeft
      <3>3. TurnsLeft' = later - (Count + 1) + Count + 1
        <4>1. (MaxRetry - 1 - (attempt + 1)) * (Count + 1) = later - (Count + 1)
          BY <1>1, OneAttemptLess DEF later
        <4>2. QED
          BY <3>2, <4>1
      <3>4. QED
        BY <1>1, <1>2, <1>3, <3>1, <3>3
    <2>3. QED
      BY <2>1, <2>2
  <1>9. CASE PauseEnds
    BY <1>1, <1>2, <1>4, <1>6, <1>9 DEF PauseEnds
  <1>10. CASE PauseAborted
    BY <1>1, <1>2, <1>4, <1>5, <1>10 DEF PauseAborted
  <1>11. QED
    BY <1>7, <1>8, <1>9, <1>10 DEF Turn

\* withRetry and embedFn make a bounded number of calls and pauses, whatever fails: the
\* bound falls with each, and is used up exactly when the embedding returns. With the
\* fairness of FairSpec this is why AttemptReturns holds.
THEOREM TurnsAreBounded == Spec => []TurnsBounded /\ EachTurnCounts
  <1>1. AttemptIInv => TurnsBounded
    BY TurnsInRange
  <1>2. AttemptIInv /\ [Next]_vars =>
          [(Turn => TurnsLeft' < TurnsLeft) /\ TurnsLeft' <= TurnsLeft]_vars
    <2> SUFFICES ASSUME AttemptIInv, [Next]_vars
                 PROVE  (Turn => TurnsLeft' < TurnsLeft) /\ TurnsLeft' <= TurnsLeft
      OBVIOUS
    <2>1. TurnsLeft \in Int /\ TurnsLeft' \in Int
      <3>1. AttemptIInv'
        BY AttemptStep
      <3>2. Count \in Int /\ Count' \in Int
        BY <3>1, CountPositive, ChunkAssumption DEF AttemptIInv, AttemptTypeOK, Count
      <3>3. TurnsBounded /\ TurnsBounded'
        BY <3>1, TurnsInRange, PTL
      <3>4. QED
        BY <3>2, <3>3 DEF TurnsBounded
    <2>2. CASE Turn
      BY <2>1, <2>2, TurnLowers
    <2>3. CASE Cancel \/ UNCHANGED vars
      <3>1. UNCHANGED <<rec, state, attempt, start>>
        BY <2>3 DEF Cancel, vars
      <3>2. TurnsLeft' = TurnsLeft
        BY <3>1 DEF TurnsLeft, Count
      <3>3. QED
        BY <2>1, <3>2, TurnLowers
    <2>4. QED
      BY <2>2, <2>3 DEF Next
  <1>3. QED
    BY <1>1, <1>2, AttemptInvariant, PTL DEF Spec, EachTurnCounts
=============================================================================
