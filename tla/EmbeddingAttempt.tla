--------------------------- MODULE EmbeddingAttempt ---------------------------
(***************************************************************************)
(* How one run of Pipeline.Process gets the vectors of a record's chunks:  *)
(* embedFn, which sends the texts in batches, under withRetry. IndexWorker *)
(* makes one step of each attempt; here an attempt is as many steps as it  *)
(* has batches, and this module implements that one (ImplementsWorker).    *)
(*                                                                         *)
(* All of it is local to one call of Process, so a crash only ends it.     *)
(***************************************************************************)
EXTENDS TrackedRecords, Sequences

CONSTANTS
    Self,         \* the worker
    NoRecord,
    BatchSize,    \* batchSize (32 in the code)
    MaxRetry      \* Pipeline.maxRetry (5 in the code)

ASSUME BatchAssumption == BatchSize \in Nat \ {0}
ASSUME AttemptsAssumption == MaxRetry \in Nat \ {0}

VARIABLES
    rec,          \* the record of the message in hand
    state,        \* "call", "pause", or what Process goes on with: "done", "nak"
    attempt,      \* withRetry's attempt counter
    start,        \* embedFn's loop variable
    result,       \* the vectors of the batches of this attempt
    embeddings,   \* the variable that all attempts share
    cancelled     \* SIGTERM cancelled ctx

vars == <<rec, state, attempt, start, result, embeddings, cancelled>>

\* A vector is known by the text it belongs to and the attempt that asked for it.
Vector == [text : Nat, attempt : Nat]

Count == ChunkCount[rec]

AttemptTypeOK ==
    /\ rec \in Records
    /\ state \in {"call", "pause", "done", "nak"}
    /\ attempt \in 0 .. MaxRetry - 1
    /\ start \in 0 .. Count
    /\ result \in Seq(Vector) /\ embeddings \in Seq(Vector)
    /\ cancelled \in BOOLEAN

\* The first withRetry begins; ctx may be cancelled since the message was fetched.
Init ==
    /\ rec \in Records
    /\ state = "call"
    /\ attempt = 0
    /\ start = 0
    /\ result = <<>>
    /\ embeddings = <<>>
    /\ cancelled \in BOOLEAN

\* A slip: the last batch is cut off where the others are.
EndUnclipped == start + BatchSize

End == IF start + BatchSize > Count THEN Count ELSE start + BatchSize

\* Embed answers with one vector for each text, in their order: any other number
\* of vectors is an error.
Batch == [i \in 1 .. End - start |-> [text |-> start + i - 1, attempt |-> attempt]]

\* A batch is embedded. After the last one embedFn keeps the vectors and returns nil.
BatchOk ==
    /\ state = "call"
    /\ ~cancelled
    /\ result' = result \o Batch
    /\ start' = End
    /\ IF End = Count
       THEN state' = "done" /\ embeddings' = result'
       ELSE UNCHANGED <<state, embeddings>>
    /\ UNCHANGED <<rec, attempt, cancelled>>

\* A slip: only an attempt that is followed by a pause counts.
BatchFailsUncounted ==
    /\ state = "call"
    /\ state' = "pause"
    /\ UNCHANGED <<rec, attempt, start, result, embeddings, cancelled>>

\* A slip: the attempts are compared with maxRetry before they are counted.
BatchFailsOnceMore ==
    /\ state = "call"
    /\ IF attempt < MaxRetry
       THEN state' = "pause" /\ attempt' = attempt + 1
       ELSE state' = "nak" /\ UNCHANGED attempt
    /\ UNCHANGED <<rec, start, result, embeddings, cancelled>>

\* Embed fails: embedFn returns at once, and what this attempt embedded is dropped.
BatchFails ==
    /\ state = "call"
    /\ IF attempt + 1 < MaxRetry
       THEN state' = "pause" /\ attempt' = attempt + 1
       ELSE state' = "nak" /\ UNCHANGED attempt
    /\ UNCHANGED <<rec, start, result, embeddings, cancelled>>

\* A slip: result is declared beside embeddings, outside embedFn.
PauseEndsKeepingResult ==
    /\ state = "pause"
    /\ state' = "call"
    /\ start' = 0
    /\ UNCHANGED <<rec, attempt, result, embeddings, cancelled>>

\* The delay is over (also when ctx is done: select may take either branch), and
\* embedFn starts from nothing.
PauseEnds ==
    /\ state = "pause"
    /\ state' = "call"
    /\ start' = 0
    /\ result' = <<>>
    /\ UNCHANGED <<rec, attempt, embeddings, cancelled>>

PauseAborted ==
    /\ state = "pause"
    /\ cancelled
    /\ state' = "nak"
    /\ UNCHANGED <<rec, attempt, start, result, embeddings, cancelled>>

Cancel ==
    /\ ~cancelled
    /\ cancelled' = TRUE
    /\ UNCHANGED <<rec, state, attempt, start, result, embeddings>>

Turn == BatchOk \/ BatchFails \/ PauseEnds \/ PauseAborted

Next == Turn \/ Cancel

Spec == Init /\ [][Next]_vars

\* Every call of Embed returns (the client has a timeout) and every delay ends.
FairSpec == Spec /\ WF_vars(Turn)

-----------------------------------------------------------------------------
(* What the retries may not do *)

\* The vectors that go to UpsertChunks are one for each chunk, in the order of the
\* chunks, and all from the attempt that succeeded: what a failed attempt had
\* embedded neither shifts them nor is mixed with them.
WholeAttempt ==
    state = "done" =>
        embeddings = [i \in 1 .. Count |-> [text |-> i - 1, attempt |-> attempt]]

\* Seen from the worker, where only the end of an attempt is a step.
Worker == INSTANCE IndexWorker WITH
    Workers <- {Self},
    pc <- [w \in {Self} |->
             CASE state = "done" -> "upsert" [] state = "nak" -> "nak" [] OTHER -> "embed"],
    cur <- [w \in {Self} |-> rec],
    attempt <- [w \in {Self} |-> IF state = "done" THEN 0 ELSE attempt],
    cancelled <- IF cancelled THEN {Self} ELSE {},
    held <- [w \in {Self} |-> {}],
    index <- [r \in Records |-> {}],
    orphaned <- {},
    discarded <- {}

\* Batches and pauses implement the worker's steps: an attempt succeeds, fails, or
\* is given up in the pause before it, and only that many times.
ImplementsWorker ==
    [][\/ Worker!EmbedOk(Self) \/ Worker!EmbedFails(Self)
       \/ Worker!PauseAborted(Self) \/ Worker!Cancel(Self)]_(Worker!workerVars)

\* Process does not stay in the embedding: whatever fails, the worker gets its
\* vectors or naks the message.
AttemptReturns == <>(state \in {"done", "nak"})

-----------------------------------------------------------------------------
(* Why it holds: the inductive invariant *)

\* While an attempt is under way, result holds its first start vectors.
BatchesInOrder ==
    state = "call" =>
        /\ result = [i \in 1 .. start |-> [text |-> i - 1, attempt |-> attempt]]
        /\ start < Count

\* A pause comes before a second or later attempt, never before the first.
PauseAfterFailure == state = "pause" => attempt > 0

AttemptInv == BatchesInOrder /\ PauseAfterFailure /\ WholeAttempt

-----------------------------------------------------------------------------
(* Why it returns *)

\* A bound on the turns that are left: of every later attempt, its pause and at most
\* one call for each chunk; of this one, the calls that are still to come.
TurnsLeft ==
    LET later == (MaxRetry - 1 - attempt) * (Count + 1) IN
    CASE state = "call" -> later + Count - start
      [] state = "pause" -> later + Count + 1
      [] OTHER -> 0

\* Nothing is left exactly when the embedding has returned.
TurnsBounded ==
    /\ TurnsLeft \in 0 .. MaxRetry * (Count + 1)
    /\ TurnsLeft = 0 <=> state \in {"done", "nak"}

\* Whatever fails and whenever SIGTERM comes, each turn leaves fewer, and nothing else
\* leaves more.
EachTurnCounts ==
    [][/\ Turn => TurnsLeft' < TurnsLeft
       /\ TurnsLeft' <= TurnsLeft]_vars
=============================================================================
