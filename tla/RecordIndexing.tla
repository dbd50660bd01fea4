--------------------------- MODULE RecordIndexing ---------------------------
(***************************************************************************)
(* The path of a record from POST /api/v1/records to a search: the API     *)
(* (IngestService), the stream and its consumer (RecordStream) and any     *)
(* number of workers (IndexWorker), which share PostgreSQL and NATS.       *)
(*                                                                         *)
(* Every process may crash, be told to stop and be started again at any    *)
(* point; a publish, an ack or a nak may be lost; any call to PostgreSQL   *)
(* or Ollama may fail, and a statement or a COMMIT that was given up may   *)
(* take effect all the same, before or later.                              *)
(***************************************************************************)
EXTENDS IngestService, RecordStream, IndexWorker, FiniteSets

vars == <<ingestVars, streamVars, workerVars>>

TypeOK == IngestTypeOK /\ StreamTypeOK /\ WorkerTypeOK

Init == IngestInit /\ StreamInit /\ WorkerInit

-----------------------------------------------------------------------------
(* The API process *)

ApiStep ==
    /\ \/ ApiStart \/ ApiDrain \/ ApiStop
       \/ \E r \in Records :
            \/ Refuse(r) \/ BeginAppend(r) \/ AppendError(r) \/ Return(r)
            \/ CommitAppend(r) \/ UndoAppend(r)
    /\ UNCHANGED <<streamVars, workerVars>>

\* The goroutine's message reaches the server, which stores it: perhaps only after
\* Publish gave up waiting for the answer, or after the process died.
PublishArrives(r) ==
    /\ event[r] \in {"publishing", "failed", "killed"}
    /\ StreamStore(r)
    /\ UNCHANGED <<ingestVars, workerVars>>

\* js.Publish hears the PubAck, or gives up: before the message arrived or after.
PublishEnds(r) ==
    /\ \/ msg[r] # "none" /\ PublishReturns(r, "sent")
       \/ PublishReturns(r, "failed")
    /\ UNCHANGED <<streamVars, workerVars>>

-----------------------------------------------------------------------------
(* A worker and the stream *)

Deliver(w, r) ==
    /\ StreamDeliver(r)
    /\ Receive(w, r)
    /\ UNCHANGED ingestVars

\* msg.Ack and msg.Nak are sent without waiting for the server: they may be lost.
Ack(w) ==
    /\ SettleAck(w)
    /\ StreamAck(cur[w]) \/ UNCHANGED streamVars
    /\ UNCHANGED ingestVars

Discard(w) ==
    /\ SettleDiscard(w)
    /\ StreamAck(cur[w]) \/ UNCHANGED streamVars
    /\ UNCHANGED ingestVars

\* A slip: the transient error is acked like the permanent one.
NakAcks(w) ==
    /\ SettleNak(w)
    /\ StreamAck(cur[w]) \/ UNCHANGED streamVars
    /\ UNCHANGED ingestVars

Nak(w) ==
    /\ SettleNak(w)
    /\ StreamNak(cur[w]) \/ UNCHANGED streamVars
    /\ UNCHANGED ingestVars

StreamTimer(r) ==
    /\ AckWaitExpires(r) \/ MessageExpires(r)
    /\ UNCHANGED <<ingestVars, workerVars>>

-----------------------------------------------------------------------------
(* A worker on its own *)

\* What a worker does next when nothing kills it: each call it makes returns,
\* with success or with an error. A statement that waits for a row lock is not
\* made to fail: it ends when the lock's holder does, or when ctx is cancelled.
WorkerTurn(w) ==
    /\ \/ WorkerExit(w)
       \/ FetchOk(w, records) \/ FetchFails(w)
       \/ EmbedOk(w) \/ EmbedFails(w) \/ PauseAborted(w)
       \/ BeginTx(w) \/ BeginFails(w)
       \/ ExecOk(w) \/ CommitOk(w) \/ (w \in cancelled /\ TxFails(w))
    /\ UNCHANGED <<ingestVars, streamVars>>

WorkerFault(w) ==
    /\ Cancel(w) \/ WorkerCrash(w) \/ TxFails(w) \/ CommitUnknown(w)
    /\ UNCHANGED <<ingestVars, streamVars>>

OrphanStep(r) ==
    /\ OrphanCommits(r) \/ OrphanEnds(r)
    /\ UNCHANGED <<ingestVars, streamVars>>

WorkerRestart(w) ==
    /\ WorkerStart(w)
    /\ UNCHANGED <<ingestVars, streamVars>>

WorkerStep(w) ==
    \/ WorkerRestart(w) \/ WorkerTurn(w) \/ WorkerFault(w)
    \/ Ack(w) \/ Discard(w) \/ Nak(w)
    \/ \E r \in Records : Deliver(w, r)

Next ==
    \/ ApiStep
    \/ \E r \in Records :
         PublishArrives(r) \/ PublishEnds(r) \/ StreamTimer(r) \/ OrphanStep(r)
    \/ \E w \in Workers : WorkerStep(w)

Spec == Init /\ [][Next]_vars

(***************************************************************************)
(* Fairness. A goroutine that publishes is scheduled, and js.Publish has a *)
(* deadline of its own. The compose file restarts a worker that ended, and *)
(* each call it makes returns. PostgreSQL ends a COMMIT that it was given. *)
(* The server's AckWait timer fires. A ready message goes to a pull        *)
(* request as soon as there is one, so a message that infinitely often     *)
(* finds a worker in Next is delivered: strong fairness, because workers   *)
(* may keep crashing. Nothing is assumed of the API process, of clients,   *)
(* or of any call succeeding.                                              *)
(***************************************************************************)
Fairness ==
    /\ \A r \in Records :
         /\ WF_vars(PublishEnds(r))
         /\ WF_vars(AckWaitExpires(r) /\ UNCHANGED <<ingestVars, workerVars>>)
         /\ WF_vars(OrphanStep(r))
         /\ SF_vars(\E w \in Workers : Deliver(w, r))
    /\ \A w \in Workers :
         WF_vars(WorkerRestart(w) \/ WorkerTurn(w) \/ Ack(w) \/ Discard(w) \/ Nak(w))

FairSpec == Spec /\ Fairness

-----------------------------------------------------------------------------
(* What makes the path correct *)

Indexed(r) == index[r] = Chunks(r)

\* A search never sees part of a record: UpsertChunks leaves all of a record's
\* chunks or none, whatever fails and however many workers write the record.
CompleteOrAbsent == \A r \in Records : index[r] = {} \/ Indexed(r)

\* A worker never looks up a record that is not stored: the event is published
\* after Append returned, so "not found" does not happen to a worker.
EventAfterRecord ==
    \A r \in Records :
        (\/ msg[r] # "none"
         \/ \E w \in Workers : cur[w] = r) => r \in records

\* A message is acked only when its record is searchable, or after the worker
\* logged that it discards it: redelivery stops for no other reason.
AckedIsIndexed ==
    \A r \in Records : msg[r] = "acked" => Indexed(r) \/ r \in discarded

\* Two workers that index one record (a redelivery while the first is still busy)
\* never hold row locks of it at the same time, so neither waits for a lock the
\* other holds while holding one the other waits for.
OneWriterPerRecord ==
    \A v, w \in Workers :
        v # w /\ cur[v] = cur[w] => held[v] = {} \/ held[w] = {}

\* A stored record stays stored and a searchable one searchable, also when its
\* message is processed again.
NothingIsLost ==
    [][/\ records \subseteq records'
       /\ \A r \in Records : index[r] \subseteq index'[r]]_vars

\* The path implements the promise of SearchableRecords.
Promise == INSTANCE SearchableRecords WITH
    stored <- records,
    visible <- index,
    answer <- [r \in Records |->
                 IF req[r] \in {"idle", "append"} THEN "none" ELSE req[r]]

ImplementsPromise == Promise!ASpec

-----------------------------------------------------------------------------
(* Why it holds: the inductive invariant *)

\* Whatever speaks of a record was caused by its row: a 201, an event, a message,
\* a worker's message in hand, an embedding.
StoredFirst ==
    /\ \A r \in Records :
         (\/ req[r] = "created"
          \/ event[r] \notin {"none", "disabled"}
          \/ msg[r] # "none"
          \/ index[r] # {}
          \/ r \in orphaned) => r \in records
    /\ \A w \in Workers : cur[w] # NoRecord => cur[w] \in records

\* The INSERT of a record is given to PostgreSQL once, and only for a request that
\* was not rejected.
OneInsert ==
    \A r \in Records :
        /\ r \in inserts => r \notin records /\ req[r] \in {"append", "failed", "cut"}
        /\ r \in records => req[r] \notin {"idle", "rejected"}

\* Only an open transaction holds rows, and they are the first rows of the
\* worker's own record.
LocksArePrefix ==
    \A w \in Workers :
        /\ held[w] # {} => pc[w] = "exec" /\ held[w] \subseteq Chunks(cur[w])
        /\ \A i \in held[w] : \A j \in Chunks(cur[w]) : j < i => j \in held[w]

\* A transaction whose worker is gone keeps the others off its record's rows.
OrphanExcludes == \A w \in Workers : cur[w] \in orphaned => held[w] = {}

\* A worker about to ack has indexed its record.
AckWhenIndexed == \A w \in Workers : pc[w] = "ack" => Indexed(cur[w])

Inv ==
    /\ StoredFirst
    /\ OneInsert
    /\ LocksArePrefix
    /\ AckWhenIndexed
    /\ CompleteOrAbsent
    /\ AckedIsIndexed
    /\ OneWriterPerRecord
    /\ OrphanExcludes

-----------------------------------------------------------------------------
(* Why a worker comes to the end of a message *)

\* A transaction that waits for a row, and whose.
WaitsFor(w, v) ==
    /\ v # w
    /\ pc[w] = "exec"
    /\ cur[v] = cur[w]
    /\ NextChunks(w) \cap held[v] # {}

\* Who is waited for does not wait: the lock goes with its holder's next calls.
HolderDoesNotWait ==
    \A u, v, w \in Workers : WaitsFor(w, v) => ~WaitsFor(v, u)

\* A bound on the calls that are left until the handler of w's message has returned
\* and its answer is sent. An attempt of the second withRetry is a BEGIN, an INSERT for
\* each chunk and a COMMIT.
HandlingLeft(w) ==
    LET chunks  == ChunkCount[cur[w]]
        later   == (MaxRetry - 1 - attempt[w]) * (chunks + 2)
        upserts == MaxRetry * (chunks + 2)
    IN  CASE pc[w] = "fetch"  -> upserts + MaxRetry + 2
          [] pc[w] = "embed"  -> upserts + MaxRetry + 1 - attempt[w]
          [] pc[w] = "upsert" -> later + chunks + 3
          [] pc[w] = "exec"   -> later + chunks + 2 - Cardinality(held[w])
          [] pc[w] \in {"ack", "nak", "discard"} -> 1
          [] OTHER -> 0

\* Nothing is left exactly when no message is in hand.
HandlingBounded ==
    \A w \in Workers :
        /\ HandlingLeft(w) \in Nat
        /\ HandlingLeft(w) = 0 <=> pc[w] \in {"down", "next"}

\* A worker that has a message in hand comes nearer to its end with whatever it does,
\* and nobody else's step, not SIGTERM either, sends it back.
EachCallCounts ==
    [][\A w \in Workers :
         pc[w] \notin {"down", "next"} =>
            \/ HandlingLeft(w)' < HandlingLeft(w)
            \/ UNCHANGED <<pc[w], cur[w], attempt[w], held[w]>>]_vars

-----------------------------------------------------------------------------
(* What must eventually happen *)

\* The recorded reasons for which a stored record is never indexed: no event
\* reached the stream, or a worker or the stream gave its message up.
GivenUp(r) ==
    \/ msg[r] = "none" /\ event[r] \in {"disabled", "failed", "killed"}
    \/ r \in discarded
    \/ msg[r] \in {"exhausted", "expired"}

\* A record whose request was answered 201 is in the end searchable, or given up
\* for one of those reasons: no crash or lost ack strands it silently.
CreatedIsResolved ==
    \A r \in Records : req[r] = "created" ~> Indexed(r) \/ GivenUp(r)

\* A worker that got SIGTERM stops, in the middle of whatever it was doing.
CancelledStops ==
    \A w \in Workers : w \in cancelled ~> pc[w] = "down"

-----------------------------------------------------------------------------
(* What a document says and the code does not do *)

\* docs/whitepaper.md:244: JetStream keeps the message for redelivery when the
\* pipeline fails for a transient database error. So what a worker discards is
\* never a record that is stored.
OnlyMissingDiscarded == discarded \cap records = {}
=============================================================================
