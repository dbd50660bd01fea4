---------------------------- MODULE IndexWorker ----------------------------
(***************************************************************************)
(* The worker processes: the consumer loop (nats.StartConsumer), one run   *)
(* of Pipeline.Process per delivered message, and the transaction of       *)
(* UpsertChunks on table record_embeddings.                                *)
(*                                                                         *)
(* pc[w] is where worker w is in that loop:                                *)
(*                                                                         *)
(*   down --> next --> fetch --> embed --> upsert --> exec --> ack --.     *)
(*             ^         |         `---------+---------'             |     *)
(*             |         v                   v                       |     *)
(*             |      discard               nak                      |     *)
(*             `---------+-------------------+-----------------------'     *)
(*                                                                         *)
(* embed and upsert stand for the pause before an attempt and the attempt. *)
(* exec is an open transaction; held[w] is the set of chunks its           *)
(* statements have written, which are also the row locks it holds.         *)
(***************************************************************************)
EXTENDS TrackedRecords

CONSTANTS
    Workers,
    NoRecord,     \* "no message in hand"
    MaxRetry      \* Pipeline.maxRetry (5 in the code)

ASSUME NoRecordAssumption == NoRecord \notin Records
ASSUME RetryAssumption == MaxRetry \in Nat \ {0}

VARIABLES
    pc,
    cur,          \* the record of the message in hand
    attempt,      \* withRetry's attempt counter
    cancelled,    \* the workers whose ctx is cancelled: SIGTERM reached them
    held,
    index,        \* index[r]: the committed rows of record_embeddings
    orphaned,     \* records whose COMMIT PostgreSQL still has, with no worker waiting for it
    discarded     \* records whose message was acked as a permanent error

workerVars == <<pc, cur, attempt, cancelled, held, index, orphaned, discarded>>

Locations ==
    {"down", "next", "fetch", "embed", "upsert", "exec", "ack", "nak", "discard"}

WorkerTypeOK ==
    /\ pc \in [Workers -> Locations]
    /\ cur \in [Workers -> Records \cup {NoRecord}]
    /\ attempt \in [Workers -> 0 .. MaxRetry - 1]
    /\ cancelled \subseteq Workers
    /\ held \in [Workers -> SUBSET Nat]
    /\ index \in [Records -> SUBSET Nat]
    /\ orphaned \subseteq Records
    /\ discarded \subseteq Records
    /\ \A w \in Workers : pc[w] \notin {"down", "next"} => cur[w] # NoRecord

WorkerInit ==
    /\ pc = [w \in Workers |-> "down"]
    /\ cur = [w \in Workers |-> NoRecord]
    /\ attempt = [w \in Workers |-> 0]
    /\ cancelled = {}
    /\ held = [w \in Workers |-> {}]
    /\ index = [r \in Records |-> {}]
    /\ orphaned = {}
    /\ discarded = {}

-----------------------------------------------------------------------------
(* The process *)

\* main() has connected to PostgreSQL and NATS and ensured the stream.
WorkerStart(w) ==
    /\ pc[w] = "down"
    /\ pc' = [pc EXCEPT ![w] = "next"]
    /\ UNCHANGED <<cur, attempt, cancelled, held, index, orphaned, discarded>>

\* The process is gone, and what it had in memory with it.
WorkerGone(w) ==
    /\ pc' = [pc EXCEPT ![w] = "down"]
    /\ cur' = [cur EXCEPT ![w] = NoRecord]
    /\ attempt' = [attempt EXCEPT ![w] = 0]
    /\ cancelled' = cancelled \ {w}
    /\ held' = [held EXCEPT ![w] = {}]
    /\ UNCHANGED <<index, discarded>>

\* PostgreSQL has w's whole transaction, and perhaps its COMMIT.
Complete(w) == pc[w] = "exec" /\ held[w] = Chunks(cur[w])

\* PostgreSQL rolls the worker's transaction back, unless it has its COMMIT already.
WorkerCrash(w) ==
    /\ pc[w] # "down"
    /\ WorkerGone(w)
    /\ \/ UNCHANGED orphaned
       \/ Complete(w) /\ orphaned' = orphaned \cup {cur[w]}

\* SIGTERM cancels the context that the loop, the pipeline and every database
\* and HTTP call share.
Cancel(w) ==
    /\ pc[w] # "down"
    /\ w \notin cancelled
    /\ cancelled' = cancelled \cup {w}
    /\ UNCHANGED <<pc, cur, attempt, held, index, orphaned, discarded>>

-----------------------------------------------------------------------------
(* The consumer loop *)

\* A slip: the error of Next is looked at before ctx, so that a cancelled loop
\* ends only when a message comes.
WorkerNeverExits(w) ==
    /\ pc[w] = "next"
    /\ w \in cancelled
    /\ UNCHANGED workerVars

\* Next timed out and ctx is cancelled: StartConsumer returns, main ends.
WorkerExit(w) ==
    /\ pc[w] = "next"
    /\ w \in cancelled
    /\ WorkerGone(w)
    /\ UNCHANGED orphaned

\* Next returns the message of r. A cancelled loop ends with it in hand, neither
\* acked nor naked.
Receive(w, r) ==
    /\ pc[w] = "next"
    /\ IF w \in cancelled
       THEN WorkerGone(w) /\ UNCHANGED orphaned
       ELSE /\ pc' = [pc EXCEPT ![w] = "fetch"]
            /\ cur' = [cur EXCEPT ![w] = r]
            /\ UNCHANGED <<attempt, cancelled, held, index, orphaned, discarded>>

\* The handler has returned, and the ack or nak is sent: back to Next.
Settle(w) ==
    /\ pc' = [pc EXCEPT ![w] = "next"]
    /\ cur' = [cur EXCEPT ![w] = NoRecord]
    /\ attempt' = [attempt EXCEPT ![w] = 0]
    /\ UNCHANGED <<cancelled, held, index, orphaned>>

SettleAck(w) ==
    /\ pc[w] = "ack"
    /\ Settle(w)
    /\ UNCHANGED discarded

SettleNak(w) ==
    /\ pc[w] = "nak"
    /\ Settle(w)
    /\ UNCHANGED discarded

\* ErrPermanent: logged as "acking to discard", then acked.
SettleDiscard(w) ==
    /\ pc[w] = "discard"
    /\ Settle(w)
    /\ discarded' = discarded \cup {cur[w]}

-----------------------------------------------------------------------------
(* Pipeline.Process *)

\* GetByID finds the record; its text is cut into Chunks(r).
FetchOk(w, records) ==
    /\ pc[w] = "fetch"
    /\ w \notin cancelled
    /\ cur[w] \in records
    /\ pc' = [pc EXCEPT ![w] = "embed"]
    /\ UNCHANGED <<cur, attempt, cancelled, held, index, orphaned, discarded>>

\* GetByID fails: ErrNotFound, but also any other error (a database that is away,
\* a cancelled ctx) is wrapped in ErrPermanent.
FetchFails(w) ==
    /\ pc[w] = "fetch"
    /\ pc' = [pc EXCEPT ![w] = "discard"]
    /\ UNCHANGED <<cur, attempt, cancelled, held, index, orphaned, discarded>>

\* A slip: one attempt too many, numbered MaxRetry.
RetryOnceMore(w, loop) ==
    /\ IF attempt[w] < MaxRetry
       THEN /\ attempt' = [attempt EXCEPT ![w] = @ + 1]
            /\ pc' = [pc EXCEPT ![w] = loop]
       ELSE /\ pc' = [pc EXCEPT ![w] = "nak"]
            /\ UNCHANGED attempt
    /\ held' = [held EXCEPT ![w] = {}]
    /\ UNCHANGED <<cur, cancelled, discarded>>

\* A slip: when the attempts run out, the last error is logged and nil returned.
RetrySwallowsError(w, loop) ==
    /\ IF attempt[w] + 1 < MaxRetry
       THEN /\ attempt' = [attempt EXCEPT ![w] = @ + 1]
            /\ pc' = [pc EXCEPT ![w] = loop]
       ELSE /\ pc' = [pc EXCEPT ![w] = "ack"]
            /\ UNCHANGED attempt
    /\ held' = [held EXCEPT ![w] = {}]
    /\ UNCHANGED <<cur, cancelled, discarded>>

\* withRetry after a failed attempt: the next one, or ErrTransient.
Retry(w, loop) ==
    /\ IF attempt[w] + 1 < MaxRetry
       THEN /\ attempt' = [attempt EXCEPT ![w] = @ + 1]
            /\ pc' = [pc EXCEPT ![w] = loop]
       ELSE /\ pc' = [pc EXCEPT ![w] = "nak"]
            /\ UNCHANGED attempt
    /\ held' = [held EXCEPT ![w] = {}]
    /\ UNCHANGED <<cur, cancelled, discarded>>

\* A pause before a second or later attempt sees ctx cancelled: ErrTransient.
PauseAborted(w) ==
    /\ pc[w] \in {"embed", "upsert"}
    /\ attempt[w] > 0
    /\ w \in cancelled
    /\ pc' = [pc EXCEPT ![w] = "nak"]
    /\ UNCHANGED <<cur, attempt, cancelled, held, index, orphaned, discarded>>

\* All batches are embedded; the second withRetry starts.
EmbedOk(w) ==
    /\ pc[w] = "embed"
    /\ w \notin cancelled
    /\ pc' = [pc EXCEPT ![w] = "upsert"]
    /\ attempt' = [attempt EXCEPT ![w] = 0]
    /\ UNCHANGED <<cur, cancelled, held, index, orphaned, discarded>>

EmbedFails(w) ==
    /\ pc[w] = "embed"
    /\ Retry(w, "embed")
    /\ UNCHANGED <<index, orphaned>>

-----------------------------------------------------------------------------
(* UpsertChunks *)

\* A slip: the record's old rows are deleted before the transaction begins.
BeginTxDeleting(w) ==
    /\ pc[w] = "upsert"
    /\ w \notin cancelled
    /\ pc' = [pc EXCEPT ![w] = "exec"]
    /\ index' = [index EXCEPT ![cur[w]] = {}]
    /\ UNCHANGED <<cur, attempt, cancelled, held, orphaned, discarded>>

BeginTx(w) ==
    /\ pc[w] = "upsert"
    /\ w \notin cancelled
    /\ pc' = [pc EXCEPT ![w] = "exec"]
    /\ UNCHANGED <<cur, attempt, cancelled, held, index, orphaned, discarded>>

BeginFails(w) ==
    /\ pc[w] = "upsert"
    /\ Retry(w, "upsert")
    /\ UNCHANGED <<index, orphaned>>

\* A slip: the chunks are kept in a map, and range takes them in any order.
NextChunksUnordered(w) == Chunks(cur[w]) \ held[w]

\* The loop over chunks writes them by increasing index.
NextChunks(w) ==
    {i \in Chunks(cur[w]) \ held[w] : \A j \in Chunks(cur[w]) : j < i => j \in held[w]}

\* Another open transaction has written the row (cur[w], i) and not yet ended:
\* INSERT ... ON CONFLICT waits for it. An orphaned one has written every row.
LockedFor(w, i) ==
    \/ cur[w] \in orphaned
    \/ \E v \in Workers \ {w} : cur[v] = cur[w] /\ i \in held[v]

ExecOk(w) ==
    /\ pc[w] = "exec"
    /\ w \notin cancelled
    /\ \E i \in NextChunks(w) :
         /\ ~LockedFor(w, i)
         /\ held' = [held EXCEPT ![w] = @ \cup {i}]
    /\ UNCHANGED <<pc, cur, attempt, cancelled, index, orphaned, discarded>>

\* A slip: no transaction, so an error finds the first statements committed.
TxFailsHalfWritten(w) ==
    /\ pc[w] = "exec"
    /\ Retry(w, "upsert")
    /\ index' = [index EXCEPT ![cur[w]] = @ \cup held[w]]
    /\ UNCHANGED orphaned

\* A statement or the COMMIT fails: the deferred Rollback ends the transaction, or
\* its connection is closed and PostgreSQL does.
TxFails(w) ==
    /\ pc[w] = "exec"
    /\ Retry(w, "upsert")
    /\ UNCHANGED <<index, orphaned>>

\* Every chunk is written, and PostgreSQL commits.
CommitOk(w) ==
    /\ w \notin cancelled
    /\ Complete(w)
    /\ index' = [index EXCEPT ![cur[w]] = @ \cup held[w]]
    /\ held' = [held EXCEPT ![w] = {}]
    /\ pc' = [pc EXCEPT ![w] = "ack"]
    /\ UNCHANGED <<cur, attempt, cancelled, orphaned, discarded>>

\* The COMMIT is sent, and ctx is cancelled or the connection breaks before the answer:
\* the pipeline takes it for a failure, and PostgreSQL has it still.
CommitUnknown(w) ==
    /\ Complete(w)
    /\ orphaned' = orphaned \cup {cur[w]}
    /\ Retry(w, "upsert")
    /\ UNCHANGED index

\* What becomes of it: PostgreSQL commits, or rolls back, and its locks are free.
OrphanCommits(r) ==
    /\ r \in orphaned
    /\ index' = [index EXCEPT ![r] = @ \cup Chunks(r)]
    /\ orphaned' = orphaned \ {r}
    /\ UNCHANGED <<pc, cur, attempt, cancelled, held, discarded>>

OrphanEnds(r) ==
    /\ r \in orphaned
    /\ orphaned' = orphaned \ {r}
    /\ UNCHANGED <<pc, cur, attempt, cancelled, held, index, discarded>>
=============================================================================
