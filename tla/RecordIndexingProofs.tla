------------------------ MODULE RecordIndexingProofs ------------------------
(***************************************************************************)
(* Proofs about RecordIndexing for any sets of records and workers and any *)
(* numbers of chunks, deliveries and attempts: its types, its inductive    *)
(* invariant and what follows from it, that nothing stored or searchable   *)
(* is ever lost, and that it implements SearchableRecords.                 *)
(***************************************************************************)
EXTENDS RecordIndexing, FiniteSetTheorems, TLAPS

-----------------------------------------------------------------------------
(* Types, component by component *)

\* The API's variables keep their types.
LEMMA IngestType ==
    ASSUME IngestTypeOK,
           \/ ApiStart \/ ApiDrain \/ ApiStop
           \/ \E r \in Records :
                \/ Refuse(r) \/ BeginAppend(r) \/ CommitAppend(r)
                \/ UndoAppend(r) \/ AppendError(r) \/ Return(r)
                \/ PublishReturns(r, "sent") \/ PublishReturns(r, "failed")
    PROVE  IngestTypeOK'
<1> USE DEF IngestTypeOK, ReqStates, EventStates
<1>1. CASE ApiStart \/ ApiDrain
  BY <1>1 DEF ApiStart, ApiDrain
<1>2. CASE ApiStop
  BY <1>2 DEF ApiStop
<1>3. ASSUME NEW r \in Records,
             \/ Refuse(r) \/ BeginAppend(r) \/ CommitAppend(r) \/ UndoAppend(r)
             \/ AppendError(r) \/ Return(r) \/ PublishReturns(r, "sent") \/ PublishReturns(r, "failed")
      PROVE  IngestTypeOK'
  BY <1>3 DEF Refuse, BeginAppend, CommitAppend, UndoAppend, AppendError, Return, PublishReturns
<1> QED BY <1>1, <1>2, <1>3

\* The stream's variables keep their types; no message is delivered once too often.
LEMMA StreamType ==
    ASSUME StreamTypeOK, NEW r \in Records,
           \/ StreamStore(r) \/ StreamDeliver(r) \/ StreamAck(r) \/ StreamNak(r)
           \/ AckWaitExpires(r) \/ MessageExpires(r)
    PROVE  StreamTypeOK'
<1> USE DEF StreamTypeOK, MsgStates, streamVars
<1>1. CASE StreamDeliver(r)
  BY <1>1, DeliverAssumption DEF StreamDeliver
<1>2. CASE StreamStore(r) \/ StreamAck(r) \/ MessageExpires(r)
  BY <1>2 DEF StreamStore, StreamAck, MessageExpires
<1>3. CASE StreamNak(r) \/ AckWaitExpires(r)
  BY <1>3 DEF StreamNak, AckWaitExpires, Requeue
<1> QED BY <1>1, <1>2, <1>3

\* The workers' variables keep their types; the attempt counter stays in range.
LEMMA WorkerType ==
    ASSUME WorkerTypeOK, NEW w \in Workers,
           \/ WorkerStart(w) \/ WorkerExit(w) \/ Cancel(w) \/ WorkerCrash(w)
           \/ \E r \in Records : Receive(w, r)
           \/ SettleAck(w) \/ SettleNak(w) \/ SettleDiscard(w)
           \/ FetchOk(w, records) \/ FetchFails(w)
           \/ EmbedOk(w) \/ EmbedFails(w) \/ PauseAborted(w)
           \/ BeginTx(w) \/ BeginFails(w) \/ ExecOk(w) \/ TxFails(w)
           \/ CommitOk(w) \/ CommitUnknown(w)
    PROVE  WorkerTypeOK'
<1> USE RetryAssumption DEF WorkerTypeOK, Locations
<1>1. CASE WorkerStart(w) \/ WorkerExit(w) \/ WorkerCrash(w) \/ Cancel(w)
  BY <1>1 DEF WorkerStart, WorkerExit, WorkerCrash, WorkerGone, Cancel, Complete
<1>2. ASSUME NEW r \in Records, Receive(w, r) PROVE WorkerTypeOK'
  BY <1>2, NoRecordAssumption DEF Receive, WorkerGone
<1>3. CASE SettleAck(w) \/ SettleNak(w)
  BY <1>3 DEF SettleAck, SettleNak, Settle
<1>4. CASE SettleDiscard(w)
  BY <1>4 DEF SettleDiscard, Settle
<1>5. CASE FetchOk(w, records) \/ FetchFails(w) \/ PauseAborted(w) \/ BeginTx(w)
  BY <1>5 DEF FetchOk, FetchFails, PauseAborted, BeginTx
<1>6. CASE EmbedOk(w)
  BY <1>6 DEF EmbedOk
<1>7. CASE EmbedFails(w) \/ BeginFails(w) \/ TxFails(w)
  BY <1>7 DEF EmbedFails, BeginFails, TxFails, Retry
<1>8. CASE ExecOk(w)
  BY <1>8, ChunkAssumption DEF ExecOk, NextChunks, Chunks
<1>9. CASE CommitOk(w)
  BY <1>9 DEF CommitOk, Complete
<1>10. CASE CommitUnknown(w)
  BY <1>10 DEF CommitUnknown, Complete, Retry
<1> QED BY <1>1, <1>2, <1>3, <1>4, <1>5, <1>6, <1>7, <1>8, <1>9, <1>10

\* So does what becomes of a COMMIT that no worker waits for.
LEMMA OrphanType ==
    ASSUME WorkerTypeOK, NEW r \in Records, OrphanCommits(r) \/ OrphanEnds(r)
    PROVE  WorkerTypeOK'
<1>1. Chunks(r) \subseteq Nat
  BY ChunkAssumption DEF Chunks
<1> QED BY <1>1 DEF WorkerTypeOK, OrphanCommits, OrphanEnds

\* Every variable of the path keeps its type, in every step of every process.
THEOREM TypeCorrect == Spec => []TypeOK
<1>1. Init => TypeOK
  <2>1. IngestInit => IngestTypeOK
    BY DEF IngestInit, IngestTypeOK, ReqStates, EventStates
  <2>2. StreamInit => StreamTypeOK
    BY DeliverAssumption DEF StreamInit, StreamTypeOK, MsgStates
  <2>3. WorkerInit => WorkerTypeOK
    BY RetryAssumption DEF WorkerInit, WorkerTypeOK, Locations
  <2> QED BY <2>1, <2>2, <2>3 DEF Init, TypeOK
<1>2. TypeOK /\ [Next]_vars => TypeOK'
  <2> SUFFICES ASSUME TypeOK, [Next]_vars PROVE TypeOK'
    OBVIOUS
  <2> USE DEF TypeOK
  <2>1. UNCHANGED ingestVars => IngestTypeOK'
    BY DEF ingestVars, IngestTypeOK
  <2>2. UNCHANGED streamVars => StreamTypeOK'
    BY DEF streamVars, StreamTypeOK
  <2>3. UNCHANGED workerVars => WorkerTypeOK'
    BY DEF workerVars, WorkerTypeOK
  <2>4. CASE ApiStep
    BY <2>2, <2>3, <2>4, IngestType DEF ApiStep, streamVars, workerVars
  <2>5. ASSUME NEW r \in Records, PublishArrives(r) \/ PublishEnds(r) \/ StreamTimer(r)
        PROVE  TypeOK'
    BY <2>1, <2>2, <2>3, <2>5, IngestType, StreamType
    DEF PublishArrives, PublishEnds, StreamTimer, ingestVars, streamVars, workerVars
  <2>6. ASSUME NEW w \in Workers, WorkerStep(w) PROVE TypeOK'
    <3>1. CASE WorkerRestart(w) \/ WorkerTurn(w) \/ WorkerFault(w)
      BY <2>1, <2>2, <3>1, WorkerType
      DEF WorkerRestart, WorkerTurn, WorkerFault, ingestVars, streamVars
    <3>2. CASE Ack(w) \/ Discard(w) \/ Nak(w)
      <4>1. cur[w] \in Records
        BY <3>2 DEF Ack, Discard, Nak, SettleAck, SettleDiscard, SettleNak, WorkerTypeOK
      <4> QED BY <2>1, <2>2, <3>2, <4>1, StreamType, WorkerType DEF Ack, Discard, Nak
    <3>3. ASSUME NEW r \in Records, Deliver(w, r) PROVE TypeOK'
      BY <2>1, <3>3, StreamType, WorkerType DEF Deliver
    <3> QED BY <2>6, <3>1, <3>2, <3>3 DEF WorkerStep
  <2>7. ASSUME NEW r \in Records, OrphanStep(r) PROVE TypeOK'
    BY <2>1, <2>2, <2>7, OrphanType DEF OrphanStep, ingestVars, streamVars
  <2>8. CASE UNCHANGED vars
    BY <2>1, <2>2, <2>3, <2>8 DEF vars
  <2> QED BY <2>4, <2>5, <2>6, <2>7, <2>8 DEF Next
<1> QED BY <1>1, <1>2, PTL DEF Spec

-----------------------------------------------------------------------------
(* The inductive invariant, conjunct by conjunct *)

\* The row comes first: a step that speaks of a record it did not speak of before
\* either has the row already or has just written it.
LEMMA StoredFirstStep ==
    ASSUME TypeOK, Inv, Next
    PROVE  StoredFirst' /\ OneInsert'
<1> DEFINE Goal == StoredFirst' /\ OneInsert'
<1> USE DEF TypeOK, Inv, StoredFirst, OneInsert, ingestVars, streamVars, workerVars
<1>1. CASE ApiStep
  <2>1. CASE ApiStart \/ ApiDrain \/ ApiStop
    BY <1>1, <2>1 DEF ApiStep, ApiStart, ApiDrain, ApiStop, IngestTypeOK
  <2>2. ASSUME NEW r \in Records,
               \/ Refuse(r) \/ BeginAppend(r) \/ CommitAppend(r) \/ UndoAppend(r)
               \/ AppendError(r) \/ Return(r)
        PROVE  Goal
    BY <1>1, <2>2 DEF ApiStep, Refuse, BeginAppend, CommitAppend, UndoAppend,
                      AppendError, Return, IngestTypeOK
  <2> QED BY <1>1, <2>1, <2>2 DEF ApiStep
<1>2. ASSUME NEW r \in Records, PublishArrives(r) \/ PublishEnds(r) \/ StreamTimer(r)
      PROVE  Goal
  BY <1>2 DEF PublishArrives, PublishEnds, StreamTimer, StreamStore, PublishReturns,
              AckWaitExpires, MessageExpires, Requeue, IngestTypeOK, StreamTypeOK
<1>3. ASSUME NEW w \in Workers, WorkerStep(w) PROVE Goal
  <2>1. CASE WorkerRestart(w)
    BY <2>1 DEF WorkerRestart, WorkerStart
  <2>2. ASSUME NEW r \in Records, Deliver(w, r) PROVE Goal
    BY <2>2 DEF Deliver, StreamDeliver, Receive, WorkerGone, StreamTypeOK, WorkerTypeOK
  <2>3. CASE Ack(w) \/ Discard(w) \/ Nak(w)
    BY <2>3 DEF Ack, Discard, Nak, SettleAck, SettleDiscard, SettleNak, Settle, StreamAck,
                StreamNak, Requeue, StreamTypeOK, WorkerTypeOK
  <2>4. CASE WorkerTurn(w)
    <3>1. CASE WorkerExit(w)
      BY <2>4, <3>1 DEF WorkerTurn, WorkerExit, WorkerGone, WorkerTypeOK
    <3>2. CASE FetchOk(w, records) \/ FetchFails(w) \/ EmbedOk(w) \/ PauseAborted(w)
               \/ BeginTx(w) \/ ExecOk(w)
      BY <2>4, <3>2 DEF WorkerTurn, FetchOk, FetchFails, EmbedOk, PauseAborted, BeginTx, ExecOk
    <3>3. CASE EmbedFails(w) \/ BeginFails(w) \/ TxFails(w)
      BY <2>4, <3>3 DEF WorkerTurn, EmbedFails, BeginFails, TxFails, Retry
    <3>4. CASE CommitOk(w)
      BY <2>4, <3>4 DEF WorkerTurn, CommitOk, Complete, WorkerTypeOK
    <3> QED BY <2>4, <3>1, <3>2, <3>3, <3>4 DEF WorkerTurn
  <2>5. CASE WorkerFault(w)
    <3>1. CASE Cancel(w) \/ WorkerCrash(w)
      BY <2>5, <3>1 DEF WorkerFault, Cancel, WorkerCrash, WorkerGone, Complete, WorkerTypeOK
    <3>2. CASE TxFails(w)
      BY <2>5, <3>2 DEF WorkerFault, TxFails, Retry
    <3>3. CASE CommitUnknown(w)
      BY <2>5, <3>3 DEF WorkerFault, CommitUnknown, Complete, Retry, WorkerTypeOK
    <3> QED BY <2>5, <3>1, <3>2, <3>3 DEF WorkerFault
  <2> QED BY <1>3, <2>1, <2>2, <2>3, <2>4, <2>5 DEF WorkerStep
<1>4. ASSUME NEW r \in Records, OrphanStep(r) PROVE Goal
  BY <1>4 DEF OrphanStep, OrphanCommits, OrphanEnds, WorkerTypeOK
<1> QED BY <1>1, <1>2, <1>3, <1>4 DEF Next

\* Row locks: a transaction that writes the first row of a record waits for any
\* other that has, so no two transactions on one record both hold rows.
LEMMA LocksStep ==
    ASSUME TypeOK, Inv, Next
    PROVE  LocksArePrefix' /\ OneWriterPerRecord' /\ OrphanExcludes'
<1> DEFINE Goal == LocksArePrefix' /\ OneWriterPerRecord' /\ OrphanExcludes'
<1> USE DEF TypeOK, Inv, LocksArePrefix, OneWriterPerRecord, OrphanExcludes, ingestVars, streamVars, workerVars
<1>1. CASE UNCHANGED workerVars
  BY <1>1
<1>2. ASSUME NEW w \in Workers, WorkerStep(w) PROVE Goal
  <2>1. CASE WorkerRestart(w)
    BY <2>1 DEF WorkerRestart, WorkerStart, WorkerTypeOK
  <2>2. ASSUME NEW r \in Records, Deliver(w, r)
        PROVE  Goal
    BY <2>2 DEF Deliver, Receive, WorkerGone, WorkerTypeOK
  <2>3. CASE Ack(w) \/ Discard(w) \/ Nak(w)
    BY <2>3 DEF Ack, Discard, Nak, SettleAck, SettleDiscard, SettleNak, Settle, WorkerTypeOK
  <2>4. CASE WorkerTurn(w) \/ WorkerFault(w)
    <3>1. CASE WorkerExit(w) \/ WorkerCrash(w)
      <4>1. /\ WorkerGone(w)
            /\ \/ orphaned' = orphaned
               \/ Complete(w) /\ orphaned' = orphaned \cup {cur[w]}
        BY <3>1 DEF WorkerExit, WorkerCrash
      <4>2. /\ held'[w] = {}
            /\ \A v \in Workers : v # w => UNCHANGED <<pc[v], cur[v], held[v]>>
        BY <4>1 DEF WorkerGone, WorkerTypeOK
      <4>3. LocksArePrefix' /\ OneWriterPerRecord'
        BY <4>2
      <4>4. ASSUME Complete(w) PROVE held[w] # {}
        <5>1. cur[w] \in Records /\ held[w] = Chunks(cur[w])
          BY <4>4 DEF Complete, WorkerTypeOK
        <5> QED BY <5>1, ChunkAssumption DEF Chunks
      <4>5. ASSUME NEW v \in Workers, v # w, cur[v] \in orphaned' PROVE held[v] = {}
        BY <4>1, <4>4, <4>5
      <4>6. OrphanExcludes'
        BY <4>2, <4>5
      <4> QED BY <4>3, <4>6
    <3>2. CASE \/ FetchOk(w, records) \/ FetchFails(w) \/ EmbedOk(w) \/ PauseAborted(w)
               \/ BeginTx(w) \/ Cancel(w)
      BY <3>2 DEF FetchOk, FetchFails, EmbedOk, PauseAborted, BeginTx, Cancel, WorkerTypeOK
    <3>3. CASE EmbedFails(w) \/ BeginFails(w) \/ TxFails(w)
      BY <3>3 DEF EmbedFails, BeginFails, TxFails, Retry, WorkerTypeOK
    <3>4. CASE CommitUnknown(w)
      <4>1. held[w] # {}
        BY <3>4, ChunkAssumption DEF CommitUnknown, Complete, Chunks, WorkerTypeOK
      <4> QED BY <3>4, <4>1 DEF CommitUnknown, Complete, Retry, WorkerTypeOK
    <3>5. CASE CommitOk(w)
      BY <3>5 DEF CommitOk, WorkerTypeOK
    <3>6. CASE ExecOk(w)
      <4>1. PICK i \in NextChunks(w) :
              ~LockedFor(w, i) /\ held' = [held EXCEPT ![w] = @ \cup {i}]
        BY <3>6 DEF ExecOk
      <4>2. UNCHANGED <<pc, cur, index, orphaned>> /\ pc[w] = "exec" /\ cur[w] \in Records
        BY <3>6 DEF ExecOk, WorkerTypeOK
      <4>3. i \in Chunks(cur[w]) /\ \A j \in Chunks(cur[w]) : j < i => j \in held[w]
        BY DEF NextChunks
      <4>4. 0 \in Chunks(cur[w]) /\ Chunks(cur[w]) \subseteq Nat
        BY <4>2, ChunkAssumption DEF Chunks
      <4>5. LocksArePrefix'
        BY <4>1, <4>2, <4>3, <4>4 DEF WorkerTypeOK, Chunks
      <4>6. ASSUME NEW v \in Workers, v # w, cur[v] = cur[w] PROVE held[v] = {}
        <5>1. CASE held[w] # {}
          BY <4>6, <5>1
        <5>2. CASE held[w] = {}
          <6>1. i = 0
            BY <4>3, <4>4, <5>2
          <6>2. 0 \notin held[v]
            BY <4>1, <4>6, <6>1 DEF LockedFor
          <6> QED BY <4>4, <4>6, <6>2
        <5> QED BY <5>1, <5>2
      <4>7. OneWriterPerRecord'
        BY <4>1, <4>2, <4>6 DEF WorkerTypeOK
      <4>8. OrphanExcludes'
        BY <4>1, <4>2 DEF LockedFor, WorkerTypeOK
      <4> QED BY <4>5, <4>7, <4>8
    <3> QED BY <2>4, <3>1, <3>2, <3>3, <3>4, <3>5, <3>6 DEF WorkerTurn, WorkerFault
  <2> QED BY <1>2, <2>1, <2>2, <2>3, <2>4 DEF WorkerStep
<1>3. ASSUME NEW r \in Records, OrphanStep(r) PROVE Goal
  BY <1>3 DEF OrphanStep, OrphanCommits, OrphanEnds
<1> QED
  BY <1>1, <1>2, <1>3 DEF Next, ApiStep, PublishArrives, PublishEnds, StreamTimer

\* The index: it changes only when a transaction with all chunks of the record
\* commits, and a message is acked only past that point or when discarded.
LEMMA IndexStep ==
    ASSUME TypeOK, Inv, Next
    PROVE  CompleteOrAbsent' /\ AckWhenIndexed' /\ AckedIsIndexed'
<1> DEFINE Goal == CompleteOrAbsent' /\ AckWhenIndexed' /\ AckedIsIndexed'
<1> USE DEF TypeOK, Inv, CompleteOrAbsent, AckWhenIndexed, AckedIsIndexed, Indexed,
            ingestVars, streamVars, workerVars
<1>1. CASE ApiStep
  BY <1>1 DEF ApiStep
<1>2. ASSUME NEW r \in Records, PublishArrives(r) \/ PublishEnds(r) \/ StreamTimer(r)
      PROVE  Goal
  BY <1>2 DEF PublishArrives, PublishEnds, StreamTimer, StreamStore, AckWaitExpires,
              MessageExpires, Requeue, StreamTypeOK
<1>3. ASSUME NEW w \in Workers, WorkerStep(w) PROVE Goal
  <2>1. CASE WorkerRestart(w)
    BY <2>1 DEF WorkerRestart, WorkerStart, WorkerTypeOK
  <2>2. ASSUME NEW r \in Records, Deliver(w, r) PROVE Goal
    BY <2>2 DEF Deliver, StreamDeliver, Receive, WorkerGone, StreamTypeOK, WorkerTypeOK
  <2>3. CASE Ack(w) \/ Discard(w) \/ Nak(w)
    <3>1. cur[w] \in Records
      BY <2>3 DEF Ack, Discard, Nak, SettleAck, SettleDiscard, SettleNak, WorkerTypeOK
    <3>2. CASE Ack(w)
      BY <3>1, <3>2 DEF Ack, SettleAck, Settle, StreamAck, StreamTypeOK, WorkerTypeOK
    <3>3. CASE Discard(w)
      BY <3>1, <3>3 DEF Discard, SettleDiscard, Settle, StreamAck, StreamTypeOK, WorkerTypeOK
    <3>4. CASE Nak(w)
      BY <3>1, <3>4 DEF Nak, SettleNak, Settle, StreamNak, Requeue, StreamTypeOK, WorkerTypeOK
    <3> QED BY <2>3, <3>2, <3>3, <3>4
  <2>4. CASE WorkerTurn(w) \/ WorkerFault(w)
    <3> USE DEF WorkerTypeOK
    <3>1. UNCHANGED msg
      BY <2>4 DEF WorkerTurn, WorkerFault
    <3>2. CASE WorkerExit(w) \/ WorkerCrash(w)
      BY <3>1, <3>2 DEF WorkerExit, WorkerCrash, WorkerGone
    <3>3. CASE \/ FetchOk(w, records) \/ FetchFails(w) \/ EmbedOk(w) \/ PauseAborted(w)
               \/ BeginTx(w) \/ Cancel(w) \/ ExecOk(w)
      BY <3>1, <3>3 DEF FetchOk, FetchFails, EmbedOk, PauseAborted, BeginTx, Cancel, ExecOk
    <3>4. CASE EmbedFails(w) \/ BeginFails(w) \/ TxFails(w) \/ CommitUnknown(w)
      BY <3>1, <3>4 DEF EmbedFails, BeginFails, TxFails, CommitUnknown, Retry
    <3>5. CASE CommitOk(w)
      <4>1. cur[w] \in Records
        BY <3>5 DEF CommitOk, Complete
      <4>2. index' = [index EXCEPT ![cur[w]] = Chunks(cur[w])]
        BY <3>5, <4>1 DEF CommitOk, Complete
      <4> QED BY <3>1, <3>5, <4>1, <4>2 DEF CommitOk
    <3> QED BY <2>4, <3>2, <3>3, <3>4, <3>5 DEF WorkerTurn, WorkerFault
  <2> QED BY <1>3, <2>1, <2>2, <2>3, <2>4 DEF WorkerStep
<1>4. ASSUME NEW r \in Records, OrphanStep(r) PROVE Goal
  <2>1. UNCHANGED <<msg, pc, cur, discarded>>
    BY <1>4 DEF OrphanStep, OrphanCommits, OrphanEnds
  <2>2. index' = index \/ index' = [index EXCEPT ![r] = index[r] \cup Chunks(r)]
    BY <1>4 DEF OrphanStep, OrphanCommits, OrphanEnds
  <2>3. index[r] \cup Chunks(r) = Chunks(r)
    OBVIOUS
  <2> QED BY <2>1, <2>2, <2>3 DEF StreamTypeOK, WorkerTypeOK
<1> QED BY <1>1, <1>2, <1>3, <1>4 DEF Next

\* The inductive invariant holds in every reachable state.
THEOREM Invariant == Spec => []Inv
<1>1. Init => Inv
  BY DEF Init, IngestInit, StreamInit, WorkerInit, Inv, StoredFirst, LocksArePrefix,
         AckWhenIndexed, CompleteOrAbsent, AckedIsIndexed, OneWriterPerRecord,
         OneInsert, OrphanExcludes
<1>2. TypeOK /\ Inv /\ [Next]_vars => Inv'
  <2>1. ASSUME TypeOK, Inv, Next PROVE Inv'
    BY <2>1, StoredFirstStep, LocksStep, IndexStep DEF Inv
  <2>2. ASSUME Inv, UNCHANGED vars PROVE Inv'
    BY <2>2 DEF vars, ingestVars, streamVars, workerVars, Inv, StoredFirst, LocksArePrefix,
                AckWhenIndexed, CompleteOrAbsent, AckedIsIndexed, OneWriterPerRecord, Indexed,
                OneInsert, OrphanExcludes
  <2> QED BY <2>1, <2>2
<1> QED BY <1>1, <1>2, TypeCorrect, PTL DEF Spec

-----------------------------------------------------------------------------
(* What follows *)

\* A search never sees a part of a record (CompleteOrAbsent).
THEOREM SearchIsAtomic == Spec => []CompleteOrAbsent
BY Invariant, PTL DEF Inv

\* Redelivery stops only for a searchable or a discarded record (AckedIsIndexed).
THEOREM AckIsEarned == Spec => []AckedIsIndexed
BY Invariant, PTL DEF Inv

\* Two workers on one record never both hold row locks of it (OneWriterPerRecord).
THEOREM NoLockCycle == Spec => []OneWriterPerRecord
BY Invariant, PTL DEF Inv

\* No worker ever looks for a record that is not stored (EventAfterRecord).
THEOREM NeverNotFound == Spec => []EventAfterRecord
<1>1. Inv => EventAfterRecord
  BY NoRecordAssumption DEF Inv, StoredFirst, EventAfterRecord
<1> QED BY <1>1, Invariant, PTL

\* Rows of records and complete embeddings are never taken back (NothingIsLost).
THEOREM AppendOnly == Spec => NothingIsLost
<1> DEFINE Kept == /\ records \subseteq records'
                   /\ \A r \in Records : index[r] \subseteq index'[r]
<1>1. ASSUME TypeOK, Next PROVE Kept
  <2> USE DEF TypeOK, ingestVars, streamVars, workerVars
  <2>1. CASE ApiStep
    BY <1>1, <2>1 DEF ApiStep, ApiStart, ApiDrain, ApiStop, Refuse, BeginAppend, CommitAppend,
                 UndoAppend, AppendError, Return
  <2>2. ASSUME NEW r \in Records, PublishArrives(r) \/ PublishEnds(r) \/ StreamTimer(r)
        PROVE  Kept
    BY <2>2 DEF PublishArrives, PublishEnds, PublishReturns, StreamTimer
  <2>3. ASSUME NEW w \in Workers, WorkerStep(w) PROVE Kept
    <3>1. records' = records
      BY <2>3 DEF WorkerStep, WorkerRestart, WorkerTurn, WorkerFault, Ack, Discard, Nak, Deliver
    <3>2. CASE WorkerRestart(w) \/ (\E r \in Records : Deliver(w, r))
      BY <3>1, <3>2 DEF WorkerRestart, WorkerStart, Deliver, Receive, WorkerGone
    <3>3. CASE Ack(w) \/ Discard(w) \/ Nak(w)
      BY <3>1, <3>3 DEF Ack, Discard, Nak, SettleAck, SettleDiscard, SettleNak, Settle
    <3>4. CASE WorkerTurn(w) \/ WorkerFault(w)
      <4>1. UNCHANGED index \/ CommitOk(w)
        BY <3>4 DEF WorkerTurn, WorkerFault, WorkerExit, WorkerCrash, WorkerGone, Cancel, FetchOk,
          FetchFails, EmbedOk, EmbedFails, PauseAborted, BeginTx, BeginFails, ExecOk, TxFails,
          CommitUnknown
      <4>2. CASE CommitOk(w)
        BY <1>1, <3>1, <4>2 DEF CommitOk, WorkerTypeOK
      <4> QED BY <3>1, <4>1, <4>2
    <3> QED BY <2>3, <3>2, <3>3, <3>4 DEF WorkerStep
  <2>4. ASSUME NEW r \in Records, OrphanStep(r) PROVE Kept
    BY <1>1, <2>4 DEF OrphanStep, OrphanCommits, OrphanEnds, WorkerTypeOK
  <2> QED BY <1>1, <2>1, <2>2, <2>3, <2>4 DEF Next
<1>2. TypeOK /\ [Next]_vars => [Kept]_vars
  BY <1>1
<1> QED BY <1>2, TypeCorrect, PTL DEF Spec, NothingIsLost

-----------------------------------------------------------------------------
(* A worker comes to the end of a message *)

\* Who holds the lock of a row that another worker waits for does not itself wait
\* (HolderDoesNotWait): chains of waiting workers have length one.
THEOREM WaitingIsShort == Spec => []HolderDoesNotWait
<1>1. TypeOK /\ Inv => HolderDoesNotWait
  <2> SUFFICES ASSUME Inv, NEW u \in Workers, NEW v \in Workers, NEW w \in Workers,
                      WaitsFor(w, v), WaitsFor(v, u)
               PROVE  FALSE
    BY DEF HolderDoesNotWait
  <2>1. held[v] # {} /\ held[u] # {} /\ u # v /\ cur[u] = cur[v]
    BY DEF WaitsFor
  <2> QED BY <2>1 DEF Inv, OneWriterPerRecord
<1> QED BY <1>1, TypeCorrect, Invariant, PTL

\* The calls of the later attempts, counted: a number, which one attempt less lowers.
LEMMA LaterAttempts ==
    ASSUME NEW a \in 0 .. MaxRetry - 1, NEW n \in Nat
    PROVE  /\ (MaxRetry - 1 - a) * n \in Nat
           /\ (MaxRetry - 1 - (a + 1)) * n = (MaxRetry - 1 - a) * n - n
           /\ MaxRetry * n = (MaxRetry - 1 - 0) * n + n
<1>1. MaxRetry \in Nat /\ MaxRetry - 1 - a \in Nat
  BY RetryAssumption
<1> QED BY <1>1

\* What HandlingLeft is made of is numbers.
LEMMA MessageInHand ==
    ASSUME TypeOK, Inv, NEW w \in Workers, pc[w] \notin {"down", "next"}
    PROVE  /\ ChunkCount[cur[w]] \in Nat \ {0}
           /\ IsFiniteSet(held[w])
           /\ Cardinality(held[w]) \in 0 .. ChunkCount[cur[w]]
           /\ attempt[w] \in 0 .. MaxRetry - 1
<1>1. cur[w] \in Records /\ attempt[w] \in 0 .. MaxRetry - 1
  BY DEF TypeOK, WorkerTypeOK
<1>2. ChunkCount[cur[w]] \in Nat \ {0}
  BY <1>1, ChunkAssumption
<1>3. IsFiniteSet(Chunks(cur[w])) /\ Cardinality(Chunks(cur[w])) = ChunkCount[cur[w]]
  <2> DEFINE last == ChunkCount[cur[w]] - 1
  <2>1. last \in Nat /\ last + 1 = ChunkCount[cur[w]] /\ Chunks(cur[w]) = 0 .. last
    BY <1>2 DEF Chunks
  <2> HIDE DEF last
  <2>2. IsFiniteSet(0 .. last) /\ Cardinality(0 .. last) = last + 1
    BY <2>1, FS_Interval
  <2> QED BY <2>1, <2>2
<1>4. held[w] \subseteq Chunks(cur[w])
  BY DEF Inv, LocksArePrefix
<1>5. IsFiniteSet(held[w]) /\ Cardinality(held[w]) <= ChunkCount[cur[w]]
  BY <1>3, <1>4, FS_Subset
<1> QED BY <1>1, <1>2, <1>5, FS_CardinalityType

\* The bound is a number, and zero only when the message is settled (HandlingBounded).
LEMMA LeftInRange ==
    ASSUME TypeOK, Inv, NEW w \in Workers
    PROVE  /\ HandlingLeft(w) \in Nat
           /\ HandlingLeft(w) = 0 <=> pc[w] \in {"down", "next"}
<1> DEFINE n == ChunkCount[cur[w]] + 2
           later == (MaxRetry - 1 - attempt[w]) * n
           upserts == MaxRetry * n
<1>1. pc[w] \in Locations
  BY DEF TypeOK, WorkerTypeOK
<1>2. CASE pc[w] \in {"down", "next"}
  BY <1>2 DEF HandlingLeft
<1>3. CASE pc[w] \notin {"down", "next"}
  <2>1. /\ ChunkCount[cur[w]] \in Nat \ {0} /\ Cardinality(held[w]) \in 0 .. ChunkCount[cur[w]]
        /\ attempt[w] \in 0 .. MaxRetry - 1
    BY <1>3, MessageInHand
  <2>2. later \in Nat /\ upserts \in Nat
    BY <2>1, LaterAttempts, RetryAssumption
  <2>3. /\ pc[w] = "fetch" => HandlingLeft(w) = upserts + MaxRetry + 2
        /\ pc[w] = "embed" => HandlingLeft(w) = upserts + MaxRetry + 1 - attempt[w]
        /\ pc[w] = "upsert" => HandlingLeft(w) = later + ChunkCount[cur[w]] + 3
        /\ pc[w] = "exec" =>
             HandlingLeft(w) = later + ChunkCount[cur[w]] + 2 - Cardinality(held[w])
        /\ pc[w] \in {"ack", "nak", "discard"} => HandlingLeft(w) = 1
    BY DEF HandlingLeft
  <2> HIDE DEF later, upserts
  <2> QED BY <1>1, <1>3, <2>1, <2>2, <2>3, RetryAssumption DEF Locations
<1> QED BY <1>2, <1>3

\* A worker's own step, with a message in hand: nearer to its end, unless it is the
\* arrival of SIGTERM, which changes nothing yet.
LEMMA OwnStepCounts ==
    ASSUME TypeOK, TypeOK', Inv, Inv', NEW w \in Workers, WorkerStep(w),
           pc[w] \notin {"down", "next"}
    PROVE  \/ HandlingLeft(w)' < HandlingLeft(w)
           \/ UNCHANGED <<pc[w], cur[w], attempt[w], held[w]>>
<1> DEFINE c == ChunkCount[cur[w]]
           k == Cardinality(held[w])
           n == c + 2
           later == (MaxRetry - 1 - attempt[w]) * n
           upserts == MaxRetry * n
<1>1. /\ c \in Nat \ {0} /\ IsFiniteSet(held[w]) /\ k \in 0 .. c
      /\ attempt[w] \in 0 .. MaxRetry - 1
  BY MessageInHand
<1>2. /\ later \in Nat /\ upserts \in Nat
      /\ attempt[w] = 0 => upserts = later + n
      /\ (MaxRetry - 1 - (attempt[w] + 1)) * n = later - n
      /\ (MaxRetry - 1 - 0) * n = upserts - n
  <2>1. n \in Nat
    BY <1>1
  <2> HIDE DEF n
  <2>2. /\ later \in Nat
        /\ (MaxRetry - 1 - (attempt[w] + 1)) * n = later - n
        /\ upserts = (MaxRetry - 1 - 0) * n + n
    BY <1>1, <2>1, LaterAttempts
  <2> DEFINE first == (MaxRetry - 1 - 0) * n
  <2>3. upserts \in Nat /\ first \in Int
    BY <2>1, RetryAssumption
  <2>4. attempt[w] = 0 => later = first
    OBVIOUS
  <2>5. upserts = first + n
    BY <2>2
  <2> HIDE DEF later, upserts, first
  <2>6. (attempt[w] = 0 => upserts = later + n) /\ first = upserts - n
    BY <2>1, <2>3, <2>4, <2>5
  <2> QED BY <2>2, <2>3, <2>6 DEF first
<1>3. HandlingLeft(w) \in Nat \ {0}
  BY LeftInRange
<1>4. /\ pc[w] = "fetch" => HandlingLeft(w) = upserts + MaxRetry + 2
      /\ pc[w] = "embed" => HandlingLeft(w) = upserts + MaxRetry + 1 - attempt[w]
      /\ pc[w] = "upsert" => HandlingLeft(w) = later + c + 3
      /\ pc[w] = "exec" => HandlingLeft(w) = later + c + 2 - k
  BY DEF HandlingLeft
<1>5. /\ pc'[w] \in {"down", "next"} => HandlingLeft(w)' = 0
      /\ pc'[w] \in {"ack", "nak", "discard"} => HandlingLeft(w)' = 1
  BY DEF HandlingLeft
<1>6. ASSUME cur'[w] = cur[w]
      PROVE  /\ pc'[w] = "embed" => HandlingLeft(w)' = upserts + MaxRetry + 1 - attempt'[w]
             /\ pc'[w] = "upsert" =>
                  HandlingLeft(w)' = (MaxRetry - 1 - attempt'[w]) * n + c + 3
             /\ pc'[w] = "exec" =>
                  HandlingLeft(w)' =
                    (MaxRetry - 1 - attempt'[w]) * n + c + 2 - Cardinality(held'[w])
  BY <1>6 DEF HandlingLeft
<1> USE DEF TypeOK, WorkerTypeOK
<1>7. CASE Cancel(w)
  BY <1>7 DEF Cancel
<1>8. CASE \/ WorkerExit(w) \/ WorkerCrash(w) \/ Ack(w) \/ Discard(w) \/ Nak(w)
  <2>1. pc'[w] \in {"down", "next"}
    BY <1>8 DEF WorkerExit, WorkerCrash, WorkerGone, Ack, Discard, Nak, SettleAck, SettleDiscard,
                SettleNak, Settle
  <2> QED BY <1>3, <1>5, <2>1
<1>9. CASE FetchFails(w) \/ PauseAborted(w) \/ CommitOk(w)
  <2>1. pc'[w] \in {"ack", "nak", "discard"} /\ pc[w] \in {"fetch", "embed", "upsert", "exec"}
    BY <1>9 DEF FetchFails, PauseAborted, CommitOk, Complete
  <2> HIDE DEF later, upserts
  <2>2. HandlingLeft(w) > 1
    BY <1>1, <1>2, <1>4, <2>1, RetryAssumption
  <2> QED BY <1>5, <2>1, <2>2
<1>10. CASE FetchOk(w, records)
  <2>1. /\ pc[w] = "fetch" /\ pc'[w] = "embed" /\ cur'[w] = cur[w] /\ attempt'[w] = attempt[w]
    BY <1>10 DEF FetchOk
  <2> HIDE DEF later, upserts, c, k, n
  <2> QED BY <1>1, <1>2, <1>4, <1>6, <2>1, RetryAssumption
<1>11. CASE EmbedOk(w)
  <2>1. pc[w] = "embed" /\ pc'[w] = "upsert" /\ cur'[w] = cur[w] /\ attempt'[w] = 0
    BY <1>11 DEF EmbedOk
  <2>2. HandlingLeft(w)' = upserts - n + c + 3
    BY <1>2, <1>6, <2>1
  <2> HIDE DEF upserts, later
  <2> QED BY <1>1, <1>2, <1>4, <2>1, <2>2, RetryAssumption
<1>12. CASE BeginTx(w)
  <2>1. /\ pc[w] = "upsert" /\ pc'[w] = "exec" /\ cur'[w] = cur[w]
        /\ attempt'[w] = attempt[w] /\ held'[w] = held[w]
    BY <1>12 DEF BeginTx
  <2>2. HandlingLeft(w)' = later + c + 2 - k
    BY <1>6, <2>1
  <2> HIDE DEF upserts, later
  <2> QED BY <1>1, <1>2, <1>4, <2>1, <2>2
<1>13. CASE ExecOk(w)
  <2>1. /\ pc[w] = "exec" /\ pc'[w] = "exec" /\ cur'[w] = cur[w] /\ attempt'[w] = attempt[w]
        /\ \E i \in NextChunks(w) : held'[w] = held[w] \cup {i}
    BY <1>13 DEF ExecOk
  <2>2. PICK i : i \notin held[w] /\ held'[w] = held[w] \cup {i}
    BY <2>1 DEF NextChunks
  <2>3. Cardinality(held'[w]) = k + 1
    BY <1>1, <2>2, FS_AddElement
  <2>4. HandlingLeft(w)' = later + c + 2 - (k + 1)
    BY <1>6, <2>1, <2>3
  <2> HIDE DEF upserts, later, k
  <2> QED BY <1>1, <1>2, <1>4, <2>1, <2>4
<1>14. CASE EmbedFails(w)
  <2>1. /\ pc[w] = "embed" /\ cur'[w] = cur[w]
        /\ \/ pc'[w] = "nak"
           \/ pc'[w] = "embed" /\ attempt'[w] = attempt[w] + 1
    BY <1>14 DEF EmbedFails, Retry
  <2> HIDE DEF upserts, later, n
  <2> QED BY <1>1, <1>2, <1>4, <1>5, <1>6, <2>1, RetryAssumption
<1>15. CASE BeginFails(w) \/ TxFails(w) \/ CommitUnknown(w)
  <2>1. /\ pc[w] \in {"upsert", "exec"} /\ cur'[w] = cur[w]
        /\ \/ pc'[w] = "nak"
           \/ pc'[w] = "upsert" /\ attempt'[w] = attempt[w] + 1
    BY <1>15 DEF BeginFails, TxFails, CommitUnknown, Complete, Retry
  <2>2. pc'[w] = "upsert" => HandlingLeft(w)' = later - n + c + 3
    BY <1>2, <1>6, <2>1
  <2> HIDE DEF upserts, later
  <2> QED BY <1>1, <1>2, <1>4, <1>5, <2>1, <2>2
<1> QED
  <2>1. ~WorkerRestart(w) /\ \A r \in Records : ~Deliver(w, r)
    BY DEF WorkerRestart, WorkerStart, Deliver, Receive
  <2> QED
    BY <1>7, <1>8, <1>9, <1>10, <1>11, <1>12, <1>13, <1>14, <1>15, <2>1
    DEF WorkerStep, WorkerTurn, WorkerFault

\* The calls left until a message is settled are a number (HandlingBounded) that each
\* call of its worker lowers and nobody raises (EachCallCounts): with at most
\* HandlingLeft calls a worker is back at the consumer, or gone.
THEOREM HandlingEnds == Spec => []HandlingBounded /\ EachCallCounts
<1> DEFINE Counts == \A w \in Workers :
             pc[w] \notin {"down", "next"} =>
                \/ HandlingLeft(w)' < HandlingLeft(w)
                \/ UNCHANGED <<pc[w], cur[w], attempt[w], held[w]>>
<1>1. TypeOK /\ Inv => HandlingBounded
  BY LeftInRange DEF HandlingBounded
<1>2. TypeOK /\ TypeOK' /\ Inv /\ Inv' /\ [Next]_vars => [Counts]_vars
  <2> SUFFICES ASSUME TypeOK, TypeOK', Inv, Inv', Next,
                      NEW w \in Workers, pc[w] \notin {"down", "next"}
               PROVE  \/ HandlingLeft(w)' < HandlingLeft(w)
                      \/ UNCHANGED <<pc[w], cur[w], attempt[w], held[w]>>
    OBVIOUS
  <2>1. CASE WorkerStep(w)
    BY <2>1, OwnStepCounts
  <2>2. ASSUME NEW v \in Workers, v # w, WorkerStep(v)
        PROVE  UNCHANGED <<pc[w], cur[w], attempt[w], held[w]>>
    <3> USE DEF TypeOK, WorkerTypeOK
    <3>1. CASE WorkerRestart(v) \/ (\E r \in Records : Deliver(v, r))
      BY <2>2, <3>1 DEF WorkerRestart, WorkerStart, Deliver, Receive, WorkerGone
    <3>2. CASE Ack(v) \/ Discard(v) \/ Nak(v)
      BY <2>2, <3>2 DEF Ack, Discard, Nak, SettleAck, SettleDiscard, SettleNak, Settle
    <3>3. CASE WorkerTurn(v) \/ WorkerFault(v)
      BY <2>2, <3>3 DEF WorkerTurn, WorkerFault, WorkerExit, WorkerCrash, WorkerGone, Cancel,
        FetchOk, FetchFails, EmbedOk, EmbedFails, PauseAborted, BeginTx, BeginFails, ExecOk,
        TxFails, CommitOk, CommitUnknown, Retry
    <3> QED BY <2>2, <3>1, <3>2, <3>3 DEF WorkerStep
  <2>3. CASE ApiStep \/ \E r \in Records : PublishArrives(r) \/ PublishEnds(r) \/ StreamTimer(r)
    BY <2>3 DEF ApiStep, PublishArrives, PublishEnds, StreamTimer, workerVars
  <2>4. ASSUME NEW r \in Records, OrphanStep(r)
        PROVE  UNCHANGED <<pc[w], cur[w], attempt[w], held[w]>>
    BY <2>4 DEF OrphanStep, OrphanCommits, OrphanEnds
  <2> QED BY <2>1, <2>2, <2>3, <2>4 DEF Next
<1> QED
  BY <1>1, <1>2, TypeCorrect, Invariant, PTL DEF Spec, EachCallCounts

-----------------------------------------------------------------------------
(* The path implements SearchableRecords *)

\* Every step of the path is a step of the promise or changes nothing it speaks of.
LEMMA StepImplementsPromise ==
    ASSUME TypeOK, TypeOK', Inv, Next
    PROVE  [Promise!ANext]_(Promise!avars)
<1> DEFINE told == [r \in Records |-> IF req[r] \in {"idle", "append"} THEN "none" ELSE req[r]]
<1> USE DEF TypeOK, ingestVars, streamVars, workerVars
<1>1. CASE ApiStep
  <2>1. CASE ApiStart \/ ApiDrain
    BY <1>1, <2>1 DEF ApiStep, ApiStart, ApiDrain, Promise!avars
  <2>2. CASE ApiStop
    <3> DEFINE S == {r \in Records : req[r] = "append"}
    <3>1. told' = [r \in Records |-> IF r \in S THEN "cut" ELSE told[r]]
      BY <2>2 DEF ApiStop, IngestTypeOK, ReqStates
    <3>2. UNCHANGED <<records, index>>
      BY <1>1, <2>2 DEF ApiStep, ApiStop
    <3>3. Promise!Answer(S, "cut")
      BY <3>1, <3>2 DEF Promise!Answer
    <3> QED BY <3>3 DEF Promise!ANext, Promise!Answers
  <2>3. ASSUME NEW r \in Records,
               \/ Refuse(r) \/ BeginAppend(r) \/ CommitAppend(r)
               \/ UndoAppend(r) \/ AppendError(r) \/ Return(r)
        PROVE  [Promise!ANext]_(Promise!avars)
    <3>1. UNCHANGED index
      BY <1>1 DEF ApiStep
    <3>2. CASE BeginAppend(r) \/ UndoAppend(r)
      <4>1. told' = told
        BY <3>2 DEF BeginAppend, UndoAppend, IngestTypeOK
      <4> QED BY <3>1, <3>2, <4>1 DEF BeginAppend, UndoAppend, Promise!avars
    <3>3. CASE CommitAppend(r)
      <4>1. told' = told /\ told[r] \in {"none", "failed", "cut"}
        BY <3>3 DEF CommitAppend, IngestTypeOK, Inv, OneInsert
      <4>2. Promise!Store(r)
        BY <3>1, <3>3, <4>1 DEF CommitAppend, Promise!Store
      <4> QED BY <4>2 DEF Promise!ANext
    <3>4. CASE Refuse(r) \/ AppendError(r) \/ Return(r)
      <4>1. PICK a \in {"rejected", "failed", "created"} :
              /\ req' = [req EXCEPT ![r] = a]
              /\ a = "created" => r \in records
              /\ a = "rejected" => req[r] = "idle"
        BY <3>4 DEF Refuse, AppendError, Return
      <4>2. req[r] \in {"idle", "append"} /\ UNCHANGED records
        BY <3>4 DEF Refuse, AppendError, Return
      <4>3. told[r] = "none" /\ told' = [q \in Records |-> IF q \in {r} THEN a ELSE told[q]]
        BY <4>1, <4>2 DEF IngestTypeOK
      <4>4. a = "rejected" => {r} \cap records = {}
        BY <4>1 DEF Inv, OneInsert
      <4>5. Promise!Answer({r}, a)
        BY <3>1, <4>1, <4>2, <4>3, <4>4 DEF Promise!Answer
      <4> QED BY <4>5 DEF Promise!ANext, Promise!Answers
    <3> QED BY <2>3, <3>2, <3>3, <3>4
  <2> QED BY <1>1, <2>1, <2>2, <2>3 DEF ApiStep
<1>2. ASSUME UNCHANGED <<records, req, index>> PROVE UNCHANGED Promise!avars
  BY <1>2 DEF Promise!avars
<1>3. ASSUME NEW r \in Records, PublishArrives(r) \/ PublishEnds(r) \/ StreamTimer(r)
      PROVE  UNCHANGED Promise!avars
  BY <1>2, <1>3 DEF PublishArrives, PublishEnds, PublishReturns, StreamTimer
<1>4. ASSUME NEW r \in Records, r \in records, UNCHANGED <<records, req>>,
             index' = [index EXCEPT ![r] = @ \cup Chunks(r)]
      PROVE  [Promise!ANext]_(Promise!avars)
  <2>1. CASE index[r] = {}
    <3>1. index' = [index EXCEPT ![r] = Chunks(r)]
      BY <1>4, <2>1
    <3>2. Promise!Reveal(r)
      BY <1>4, <2>1, <3>1 DEF Promise!Reveal, Promise!Chunks, Chunks
    <3> QED BY <3>2 DEF Promise!ANext
  <2>2. CASE Indexed(r)
    <3>1. index' = index
      BY <1>4, <2>2 DEF Indexed, WorkerTypeOK
    <3> QED BY <1>2, <1>4, <3>1
  <2> QED BY <2>1, <2>2 DEF Inv, CompleteOrAbsent
<1>5. ASSUME NEW w \in Workers, WorkerStep(w) PROVE [Promise!ANext]_(Promise!avars)
  <2>1. UNCHANGED <<records, req>>
    BY <1>5 DEF WorkerStep, WorkerRestart, WorkerTurn, WorkerFault, Ack, Discard, Nak, Deliver
  <2>2. UNCHANGED index \/ CommitOk(w)
    <3>1. CASE WorkerRestart(w) \/ (\E r \in Records : Deliver(w, r))
      BY <3>1 DEF WorkerRestart, WorkerStart, Deliver, Receive, WorkerGone
    <3>2. CASE Ack(w) \/ Discard(w) \/ Nak(w)
      BY <3>2 DEF Ack, Discard, Nak, SettleAck, SettleDiscard, SettleNak, Settle
    <3>3. CASE WorkerTurn(w) \/ WorkerFault(w)
      BY <3>3 DEF WorkerTurn, WorkerFault, WorkerExit, WorkerCrash, WorkerGone, Cancel, FetchOk,
        FetchFails, EmbedOk, EmbedFails, PauseAborted, BeginTx, BeginFails, ExecOk, TxFails,
        CommitUnknown
    <3> QED BY <1>5, <3>1, <3>2, <3>3 DEF WorkerStep
  <2>3. CASE CommitOk(w)
    <3>1. cur[w] \in Records /\ cur[w] \in records
      BY <2>3 DEF CommitOk, Complete, WorkerTypeOK, Inv, StoredFirst
    <3>2. index' = [index EXCEPT ![cur[w]] = @ \cup Chunks(cur[w])]
      BY <2>3 DEF CommitOk, Complete
    <3> QED BY <1>4, <2>1, <3>1, <3>2
  <2> QED BY <1>2, <2>1, <2>2, <2>3
<1>6. ASSUME NEW r \in Records, OrphanStep(r) PROVE [Promise!ANext]_(Promise!avars)
  <2>1. UNCHANGED <<records, req>>
    BY <1>6 DEF OrphanStep
  <2>2. CASE OrphanEnds(r)
    BY <1>2, <2>1, <2>2 DEF OrphanEnds
  <2>3. CASE OrphanCommits(r)
    <3>1. r \in records /\ index' = [index EXCEPT ![r] = @ \cup Chunks(r)]
      BY <2>3 DEF OrphanCommits, Inv, StoredFirst
    <3> QED BY <1>4, <2>1, <3>1
  <2> QED BY <1>6, <2>2, <2>3 DEF OrphanStep
<1> QED BY <1>1, <1>3, <1>5, <1>6 DEF Next

\* Whatever crashes, is lost or is retried, an observer of the API and of the
\* searches sees a behaviour of SearchableRecords (ImplementsPromise).
THEOREM PromiseKept == Spec => ImplementsPromise
<1>1. Init => Promise!AInit
  BY DEF Init, IngestInit, WorkerInit, Promise!AInit
<1>2. TypeOK /\ TypeOK' /\ Inv /\ [Next]_vars => [Promise!ANext]_(Promise!avars)
  <2>1. CASE Next
    BY <2>1, StepImplementsPromise
  <2>2. CASE UNCHANGED vars
    BY <2>2 DEF vars, ingestVars, workerVars, Promise!avars
  <2> QED BY <2>1, <2>2
<1> QED BY <1>1, <1>2, TypeCorrect, Invariant, PTL DEF Spec, ImplementsPromise, Promise!ASpec
=============================================================================
