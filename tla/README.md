# Toi Motor: specifications

Toi Motor ingests operational records over HTTP into an append-only PostgreSQL
table, announces each on a NATS JetStream stream, and lets worker processes turn
records into embeddings that a semantic search and a RAG query read. This
directory holds TLA+ modules of that program, the TLC configurations that check
them on small instances, and proofs that TLAPS checks for every instance.
`PROJECT.json` lists components, runs, mutants, the source lines each definition
stands for, findings, hazards and theorems.

## 1. The system

| Component | State it keeps | Operations | Talks to |
|---|---|---|---|
| API process (`cmd/api/main.go`) | the publisher, decided once at start | start, SIGTERM, Shutdown (10s), crash | everything below |
| Ingestion (`internal/record/service.go`) | table `records` (only grows) | validate, checksum, Append, `go publishEvent` | PostgreSQL, stream |
| Stream and consumer (`internal/platform/nats`) | messages, acks, delivery counts | publish, deliver, ack, nak, AckWait 60s, MaxDeliver 10, MaxAge 7d | API, workers |
| Worker (`cmd/worker`, `consumer.go`) | the message in hand, the shared ctx | Next, handler, ack/nak, exit on SIGTERM | stream |
| Pipeline (`internal/indexing/pipeline.go`) | attempt counter, embeddings | fetch, text, chunk, embed, upsert, `withRetry` (5 attempts) | PostgreSQL, Ollama |
| Text (`internal/indexing/text.go`) | none | `GenerateText`, `flattenMap` | pipeline |
| Chunker (`internal/indexing/chunk.go`) | none | no split, paragraphs, sliding window | pipeline |
| Index (`embedding_repo.go`) | table `record_embeddings`, row locks | `UpsertChunks` (one transaction), `SearchSimilar` | pipeline, retriever |
| Listing (`record_repo.go`, `record_handler.go`) | none; the client keeps a cursor | keyset pages | PostgreSQL |
| Query and search (`internal/query`, `query_handler.go`, `search_handler.go`) | none | hints, retrieve, assemble context, LLM | index, Ollama, Anthropic |
| Connection pool (`postgres/db.go`, pgxpool) | the connections in use | every query of the API takes one; `pool.Close` waits for all | PostgreSQL |
| API keys (`auth_middleware.go`, `apikey_repo.go`, `scripts/create-apikey.go`) | table `api_keys` | Validate, UpdateLastUsed (a goroutine), create a key | PostgreSQL |
| Health (`health_handler.go`) | none; looks at the NATS connection of the process | three checks in five seconds | PostgreSQL, NATS client, Ollama |
| Checksum (`checksum.go`) | column `checksum` | ComputeChecksum | ingestion |
| Validation, router, migrations | none of their own | | |

What is hard here: the two writes of a record (row, then event) are not atomic
and the event is sent by a goroutine nobody waits for; delivery is at least once
and AckWait is shorter than a slow attempt, so several workers process one record
at a time; every call can fail, also after it took effect, and a statement that was given
up can take effect later, when its process has answered an error or is gone; every process
can be killed at any line; a listing runs while records are appended, some of them
backdated; keys are created and end while requests are checked against them, and a
process that is told to stop waits for every connection that is in use, also by goroutines
and handlers that nobody waits for any more.

What makes each part correct:

* ingestion: 201 only for a stored record; an event only for a stored record;
* stream and workers: an ack only for a record that is searchable or was
  knowingly discarded; a record never stranded without a recorded reason; a
  worker that is told to stop stops;
* index: a record is searchable with all of its chunks or not at all, for ever
  once it is; two workers on one record do not deadlock;
* listing: every record that is owed, once, and an end;
* chunker: no byte of a text is lost between two windows, no chunk is longer than
  the window (where the header leaves room for text), it ends; a note's paragraphs come once
  and in order, merged as far as they fit; chunk indexes have no gap;
* embedding attempt: the vectors of a record come from one whole attempt, in order;
* text generation: one record, one text;
* query: the language model is shown the best of what was retrieved, each record
  once, as much as fits, and is not asked when nothing was retrieved;
* keys: a request passes, or is refused, for what was true of its key while it was
  checked; `last_used_at` is a use of that key, and nearly the last; every request and
  every shutdown ends, with few connections too;
* health: 200 and 503 have their cause in the time of the request, but for a loss of NATS
  that its client has not noticed yet;
* checksum: an altered row does not match its checksum (it does not hold, section 6).

## 2. Modules

| Module | Models | Its variables in the code |
|---|---|---|
| `TrackedRecords` | the records under study and their chunk indexes | |
| `SearchableRecords` | *abstract*: what a client may rely on | `stored`, `answer`, `visible` |
| `IngestService` | `RecordService.Ingest`, `publishEvent`, API start/stop | `records` the table; `inserts` the INSERTs that PostgreSQL has not ended; `req` where a request is; `event` its goroutine; `publisher` nil or not; `api` the process |
| `RecordStream` | stream RECORDS and consumer indexing-worker (external) | `msg` the message of a record, `delivered` its delivery count |
| `IndexWorker` | `StartConsumer`, `Pipeline.Process`, `withRetry`, `UpsertChunks` | `pc`, `cur` (message in hand), `attempt`, `cancelled` (ctx), `held` (rows written in the open transaction, and their locks), `index` the table; `orphaned` the COMMITs that PostgreSQL has and no worker waits for |
| `RecordIndexing` | the three composed; properties, invariant, fairness | |
| `RecordIndexingProofs` | theorems about `RecordIndexing` | |
| `RecordList`, `RecordListProofs` | `GET /records` page by page, with appends in between | `rows`, `cursor`, `page`, `seen` (earlier pages), `owed` |
| `EmbeddingAttempt`, `EmbeddingAttemptProofs` | `embedFn` and its `withRetry`: the batches, the pauses, the vectors; refines the steps `EmbedOk`, `EmbedFails`, `PauseAborted` of `IndexWorker` | `start`, `result`, `embeddings`, `attempt`; `state` where Process is |
| `ChunkText` | a text with its header, and pieces of it | `len` (`len(text)`), `head` (`len(header)`) |
| `SlidingWindow` | `splitSlidingWindow` | `pos`, `chunks` (`result`) |
| `ParagraphSplit` | `splitParagraph` | `breaks` (where `\n\n` is), `next` (the range), `current`, `parts` (`result`) |
| `DefaultChunker`, `DefaultChunkerProofs` (which is about the two above as well) | `Chunk`: one of the strategies, then the numbering | `strategy`; `inside`, the offsets inside a character |
| `PayloadText`, `PayloadTextProofs` | `flattenMap` and the key order of `GenerateText` | `left` (keys the range still has), `flat` (`result`), `texts` |
| `RecordQuery`, `RecordQueryProofs` | one `/query` or `/search` from the parsed request to the reply | `retrieved` (`chunks`), `turn` of the loop over them, `best`, `unique`, `blocks` and `used` (`sb`, `sb.Len()`) |
| `ApiRequests` | the HTTP requests of the API process | `answer` |
| `ConnPool` | pgxpool (external) and who has a connection of it: a check, a handler's query, an UPDATE | `conns` |
| `ApiKeys` | `APIKeyMiddleware`, `Validate`, `UpdateLastUsed`, the script | `active`, `ended` the table; `auth` where a check is; `rows` what its SELECT found; `update`, `stamp` the goroutine; `lastUsed` the column |
| `ApiProcess`, `ApiProcessProofs` | requests, pool and keys composed with the handlers' queries, start, SIGTERM, `Shutdown`, `pool.Close` and crash | `proc`; `work` where a handler is with its query |
| `HealthCheck`, `HealthCheckProofs` | one `GET /health` and the process it asks | `up` (what answers), `nc` (what the NATS client believes), `probe` (the next check), `healthy`, `late` (the context) |
| `RecordChecksum` | `ComputeChecksum`, the stored row, an alteration | `row`, `checksum` |
| `MC*` | constants for TLC | |

A request and the record it makes share one name, because `uuid.New` gives every
request a fresh one. A message is named by its record, because `publishEvent`
runs at most once per record. `pc` of a worker: `next` (in `consumer.Next`),
`fetch` (`GetByID`), `embed` and `upsert` (before an attempt of the first and the
second `withRetry`), `exec` (open transaction), then `ack`, `nak` or `discard`
(what `StartConsumer` does with the handler's result).

`EmbeddingAttempt` and `IndexWorker` share `attempt`; the refinement maps a state in
which embedding is under way to `embed`, one that has its vectors to `upsert`. A vector
is known by the text it belongs to and the attempt that asked for it, so that a mixture
of two attempts shows.

A statement that PostgreSQL was given is not the caller's to call back: pgx closes the
connection when a context ends, and the server may carry the statement out all the same.
So an INSERT (`inserts`) is committed or undone at any time, while `Append` waits for it,
after the handler answered 500, and after the process died (`CommitAppend`, `UndoAppend`); a COMMIT of
`UpsertChunks` whose answer is lost is `orphaned`, keeps its rows locked, and takes effect
or not while `withRetry` is at its next attempt (`OrphanCommits`, `OrphanEnds`); an UPDATE
of `last_used_at` whose connection broke is `adrift` and may be committed after one that
was sent later. A transaction whose COMMIT was not sent, or whose rollback is under way, keeps
nothing but locks for a moment; it is rolled back with the step that gives it up.

In `ApiKeys`, `since`, `steady` and `underway` are history: what was active at some or
at every moment of a check, and which updates had read the clock when another one
committed. `ApiProcess` is one life of the process: it keeps nothing in memory that the
next one would find. What a handler's query is for is in `IngestService`,
`RecordList`, `RecordQuery` and `HealthCheck`; `ApiProcess` has the connection that it
takes: one for one query, or none (a refused request, a lookup that was not made), and
for `GET /health`, which needs no key, one for the ping.

In `HealthCheck` what NATS is and what its client believes are two variables: `up` changes
by itself, `nc` leaves `connected` at any later time (`Breaks`: pings, a read error), or, wrongly,
while NATS answers, and comes back only when NATS is reached. `within`, `missing` and
`noticed` are history.

Actions that stand for the environment: `ApiStop` and `WorkerCrash` (a kill at any
point), `Cancel` (SIGTERM), `AppendError`, `CommitUnknown` and `UpdateCut` (an error, with
the statement still in PostgreSQL), `CommitAppend`, `UndoAppend`, `OrphanCommits`, `OrphanEnds`,
`Update` and `UpdateFails` (what becomes of it there), the second disjuncts of `Ack`, `Nak` and `Discard` (a lost
message to the server), `AckWaitExpires` (at any moment: time is not measured, and
an attempt can outlast AckWait), `MessageExpires`, `EndKey` (revocation and expiry, which
nothing in `src/` does), `AskFails` and `HandlerAskFails` (no connection, or an error of the database), `Shift`,
`Breaks` and `Reconnects` (what the health checks look at).

Definitions marked "A slip" are not part of any specification: each is a plausible
mistake in the definition after it, and shows that the property it is paired with
in `PROJECT.json` can fail.

## 3. Runs

| Run | Instance | Question |
|---|---|---|
| `indexing_one_record` | 1 record of 2 chunks, 2 workers, 2 deliveries, 2 attempts, fairness | Do two workers racing for a record, with crashes, lost acks, and INSERTs and COMMITs that take effect after they were given up, keep search atomic, avoid lock cycles, ack only what is indexed, and implement the abstract promise? Is every created record resolved? Does a cancelled worker stop? |
| `embedding_attempt` | records of 1 to 5 chunks, batches of 2, 3 attempts, fairness | Are the vectors those of one whole attempt? Do the batches implement the worker's steps? Does the embedding return? |
| `listing` | 4 records, 2 instants, 2 kinds, page limits 0 (default 2) and 1 | Does a listing return what it owes, once, and end, whatever is appended meanwhile? |
| `chunker` | chunks of 10 bytes, headers of 1 to 11, overlaps 1 and 2, texts to 32, separators at any of five places | Do windows lose nothing, fit, overlap, and are they few enough for the loop to end? Do paragraphs come once, merged up to the limit and no further? Are chunk indexes without a gap? |
| `payload_text` | every part of a payload of five leaves, two of one flattened name; 2 generations | Is the text independent of map order where names do not collide? |
| `query` | 3 records, 4 chunks, 3 scores, limits below, inside and above the range, every result the index may give | Is the context the best of what was retrieved, once per record, the longest that fits, and is an answer made from records? |
| `api_process` | 2 requests, 2 keys, 1 connection, fairness | Is a key check right while keys come and go? Is `last_used_at` right when updates overlap? Does every request end, and every shutdown, when checks, handlers and updates share the connection? |
| `health` | 1 probe | Does each answer have its cause in the time of the probe, as far as the NATS client knows? |
| `doc_transient_kept`, `doc_text_deterministic`, `doc_border_characters`, `doc_alteration_detectable` | the instances above, or smaller | Four sentences of the documents and comments that the code contradicts (section 6). |

Why the bounds are enough for what they are used for: two chunks are the fewest
with a half-written record and with two lock orders; two workers are the fewest
that race, with one delivery each; two attempts have a first, a last and a pause between
them. Several records at once, and more deliveries, are left to the proofs, which hold the
invariant and the promise for any number of them. Five chunks in batches of two have a full batch, a next one and a
short last one, and a failure after each; three attempts have a pause after a failure
that followed a success of some batches. Four rows with two
instants have ties inside a page, across a boundary, and a page of `limit + 1`.
The windows are the code's at about 1/200 (2048 bytes, overlaps of 200 and 400, headers
to some 2300) and reach every branch: header shorter than, equal to and longer than
the window, and the step of one byte. The blocks of `query` meet the limit of the
context exactly, exceed it by one byte, and exceed it alone; two of its four chunks
share a record, so that deduplication, ties and the cut meet. Two requests, two keys and one connection are the fewest in which a check, a handler or an update
waits for another's connection, two updates of one key overlap, and a wrong key can be taken for
the right one; every key is created once and ended once, so this needs no other bound.
One probe is enough for `health`: probes share nothing that they change. No run uses
symmetry. Deadlock checking is off where the modelled activity ends: a listing
that is done with no record left to append, a chunker or a text generator that
returned, a request that was answered, a process that ended. `MaxDeliver` (10 in the code) and `MaxRetry` (5) are shrunk for TLC and
arbitrary in the proofs.

## 4. Fairness

`FairSpec` of `RecordIndexing` assumes, and no more:

* `PublishEnds`: the goroutine is scheduled, and `jetstream.Publish` has a deadline
  of its own when the context has none;
* `AckWaitExpires`: the server's timer;
* delivery, strongly: the server hands a ready message to a pull request whenever
  there is one; strong because workers may come and go for ever;
* `OrphanStep`: PostgreSQL ends a COMMIT that it was given, with or without effect;
* each worker: `docker-compose.yml` restarts it (`restart: unless-stopped`) and
  every call it makes returns, with success or an error (the Ollama client has a
  timeout, database calls end with the connection). A statement that waits for a
  row lock is not assumed to fail: that it ends is a consequence of
  `OneWriterPerRecord`.

Nothing is assumed of the API process, of clients, or of any call's success; a
crash is never forced and never excluded. `RecordList` assumes that the client
asks for the next page. `EmbeddingAttempt` assumes that a call of the embedder returns
(the client has a timeout) and that a delay ends. `ApiProcess` assumes, weakly, that a
request takes its next step while it can (a query is answered or fails, a handler returns,
since every client it calls has a timeout), that an UPDATE which PostgreSQL was given is
answered or its connection found dead, that `Shutdown` returns (ten seconds), and that
main goes on to its end once no connection is in use, whoever used it; no client, operator or key is obliged
to anything, nor a goroutine to send its UPDATE. (pgxpool serves those who wait in order; with each use asking once, weak
fairness says no more.) The second of these is an assumption about PostgreSQL and the network and not about the
code: the goroutine's context has no deadline, so if another session kept a row of `api_keys`
locked for ever, or a connection died without a reset and without keep-alive, `pool.Close`
would wait for ever, and the supervisor's kill (`Crash`) would end the process. What the code decides, that
nobody keeps a connection it is done with or waits for one while it has one, is proved. The other modules have no
liveness property: that the loop of `SlidingWindow` ends is a bound on the number of
windows (`FewWindows`).

## 5. What is proved

Proved by TLAPS for every value of the constants that satisfies the named
assumptions (`ChunkAssumption`: every record has at least one chunk;
`DeliverAssumption`, `RetryAssumption`: positive limits; `NoRecordAssumption`; in
`RecordList`, ids and instants are integers, limits positive; in the modules of the
chunker, a positive window, natural header lengths, overlaps shorter than the window; in
`EmbeddingAttempt`, positive batches; in `ApiKeys`, a positive pool; in
`PayloadText`, a number for every leaf; in `RecordQuery`, finitely many rows, positive
lengths and limits).

`RecordIndexingProofs`. Type correctness is proved per component (`IngestType`,
`StreamType`, `WorkerType`) and then composed (`TypeCorrect`). The safety
properties are not inductive alone. `CompleteOrAbsent` needs to know that what a
commit adds is the whole record (`held = Chunks(cur)` at the commit) and that
`held` never holds rows of another record: `LocksArePrefix`. `OneWriterPerRecord`
needs that `held` is always a prefix of the chunk indexes: of two non-empty
prefixes both contain index 0, and the row lock on it has one owner.
`AckedIsIndexed` needs `AckWhenIndexed`: whoever is about to ack has committed, and
rows never go away. `EventAfterRecord` needs `StoredFirst`, the causal chain from
row to event to message to worker. Transactions that outlive their worker need
`OrphanExcludes`: while PostgreSQL has the COMMIT of one, nobody else holds a row of its record,
so what it adds later is again the whole record; and the promise needs `OneInsert`: an INSERT under way belongs
to a request that was not rejected, and to no row yet. `Inv` is their conjunction; the lemmas
that preserve its parts go by these names. In the promise a request that was answered 500, or
lost with its process, leaves open whether its fact is stored now, later or never; 201 and a refusal do not.
`StepImplementsPromise` maps each step to a step of `SearchableRecords` or a
stutter, and gives `PromiseKept`.

Of what lies under `CancelledStops`, the part that is safety is proved. `WaitingIsShort`:
a worker whose row lock another waits for does not itself wait, so a chain of waiting
workers has length one however many there are. `HandlingEnds`: `HandlingLeft` counts the
calls that may still come before a message is settled (of the second `withRetry`, for each
later attempt a BEGIN, the INSERTs and a COMMIT; of this one, the rows not yet written); each
call of the worker lowers it, a failed one too, and nobody else's step raises it. It is a
number because `LocksArePrefix` bounds `held` by the record's chunks.

`RecordListProofs`. `CursorSeparates` is the inductive core: what was returned lies
at or before the cursor, what is still owed lies strictly after it. The lemmas
`Order` (the key order is a strict total order) and `PageSplits` (a page takes a
top segment of what lies beyond the cursor) carry it over a page. `CursorAdvances`: each
page moves the cursor into what was ahead of it, and no append moves it back; of finitely
many ids fewer are left each time, which is why a listing ends.

`DefaultChunkerProofs`. For the sliding window, the invariant `WindowInv` ties `pos` to the end of the last
window and to the number of windows (`BetweenTurns`); from it come gaplessness, the
overlap, the size bound and the bound on the number of windows. `TurnStep` is the
arithmetic of one turn of the loop, `CutStep` carries the invariant over it.
For paragraphs, `ParaInv` relates `current` and `parts` to the separators passed:
`Gathered` (they end where the range stands, and tile the text) and `NoEmptyPiece`. From it
follow that paragraphs come once, that a chunk longer than the limit is one single paragraph
with the header before it (the paragraph itself may be within the limit: the flush at
`chunk.go:136` does not compare header, separator and paragraph together with it), that two neighbours would not fit together, and, with the windows' invariant, that
no segment is empty, so that the `continue` of `Chunk` never leaves a gap in the indexes.

`EmbeddingAttemptProofs`. `AttemptInv`: while an attempt is under way, `result` holds exactly
its first `start` vectors. `WholeAttempt` follows, and `BatchesImplementAttempts` maps every
step to one of `IndexWorker` or a stutter; it needs that a pause comes only after a failure.
`TurnsAreBounded`: `TurnsLeft`, the calls and pauses still to come, is zero exactly when the
embedding has returned, and each turn lowers it, whatever fails and whenever SIGTERM comes.

`ApiProcessProofs`. `StepOfKeys`: a step of the process is a step of `ApiKeys` or leaves it
alone. `KeysInv` has four parts: `SnapshotBetween` (what a check knows lies between the keys
that stayed active and those that were active at some time; `ServedWasActive` and
`RefusedForCause` follow), `UpdateOfPassed`, `Overtaking` (beside a finished update, one under
way was so already, or has a later time), and `LastUsedIsRecent`, which is not inductive
without `Overtaking`; an UPDATE that is `adrift` counts as under way until PostgreSQL ends it. `LastUsedIsRecent`
compares the times that the goroutines read, and takes the clock of the process not to step back.
`ConnectionsComeBack`: the connections in use are exactly those of a check that reads
its rows, a handler whose query runs and an UPDATE that PostgreSQL has, and never more than
the pool's. `NobodyIsStuck`: who has one does not wait for another (a request gives its first
back before its handler asks, an UPDATE needs one), so the requests and `pool.Close` wait
for PostgreSQL and not in a circle. `StepsAreFew`: each step of a request, of five at most, leaves fewer.

`HealthCheckProofs`. `EachInItsTime` says of every prefix of the three checks what the answer
says of all: passed so far means within reach at some time (NATS: or that the client had not found its
connection broken), failed means unusable at some time or late. It needs `Watched` (what is in reach
now is among what was, what cannot be used now among what could not; a client that is connected before its check
has been so all the while, or has reached NATS again meanwhile)
and `Unasked` (a request that no check was made for is not yet degraded), without which a
request could begin with a 503 that nothing caused.

`PayloadTextProofs`. `FlatIsPayload`: where names do not collide, `result` holds
exactly the leaves taken so far, whatever their order, so every text is the one that
the payload determines.

`RecordQueryProofs`. `Core` has one part per loop: `BestSoFar` (`best` holds the best
chunk of each record met so far; `KeepBestStep`), `Ranked` (`unique` lists `best` by
falling score; `RankStep`) and what the writing loop has counted. `BestIsKept` follows:
a chunk that outscores a block that was written has a better block before it. Scores
are numbers here; a NaN, which a zero vector would give, is left out.
`ContextIsLongest` compares what the loop counted (`used`, one addition a block) with the
length of the blocks joined, which is a recursive function of their number. That such a
function has a table cannot be shown by an induction over numbers here; instead `Counted`
carries the table along the behaviour: it says that one exists for the blocks written so
far, that it is the only one, and that its last entry is `used`; each turn of the loop
extends it by one entry (`TotalOfOneMore`).

Every invariant and every action property that a passing run checks is stated by a theorem,
the two refinements included.

Only model-checked are the six liveness properties (`CreatedIsResolved`, `CancelledStops`,
`ListingEnds`, `AttemptReturns`, `EveryRequestEnds`, `TermEnds`): liveness under fairness and
ENABLED are not in the prover's reach. The bounds above (`HandlingLeft`, `TurnsLeft`, `StepsLeft`,
`CursorMovesOn`) are what such a proof would rest on, `CreatedIsResolved` aside, which also
depends on the stream's counting of deliveries. The invariants and bounds that only the theorems state (`Inv`
of `RecordIndexing`, `HandlingBounded`, `EachCallCounts`, `HealthInv`, `TurnsBounded` and so on) hold on the instances of section 3
too; they can be added to those configurations as they are.

## 6. Findings

1. `docs/whitepaper.md:244` says a transient database error keeps the message for
   redelivery. `Process` calls every error of `GetByID` permanent, so the message
   is acked and the record never indexed (`doc_transient_kept`).
2. `internal/indexing/text.go:12` and `docs/whitepaper.md:173` say the text is
   deterministic. A nested key and a dotted key with one flattened name overwrite
   each other in map order (`doc_text_deterministic`). The indexing path assumes
   records without such a collision (`ChunkCount` is a function of the record).
3. `docs/whitepaper.md:186` says the overlap keeps what is at the borders of fragments
   from being lost. Windows are cut at byte offsets; when one falls inside a UTF-8
   character, PostgreSQL refuses the chunk, every attempt and every delivery fails, and
   the record is never searchable (`doc_border_characters`).
4. `docs/paper-motor-vs-adapters.md:178` says the checksum covers `entity_ref` and
   `actor_ref` and makes every later alteration detectable. `ComputeChecksum` leaves these
   out, and joins the others with a separator that they may contain
   (`doc_alteration_detectable`).

Seen while modelling, without a run: a record and its embeddings are two transactions in two
processes (`docs/whitepaper.md:472` says one); the first window of a text whose header is longer
than the window holds only the beginning of that header (`chunk.go:48` says every chunk holds
it), and a header a little shorter leaves windows that advance by one byte (`FewWindows` counts
them); the limit of a search counts chunks before the deduplication, so one long document can
take every place (`docs/whitepaper.md:336`); `/health/ready` is said to answer 200 "only when all
dependencies are reachable" (`health_handler.go:71`), but asks the NATS client, which calls a
connection good until its pings fail (`OkWasTrue` says what is left); a request that was answered 500 may
be stored all the same, even later, and then has no event (`SearchableRecords`), so a client that tries again makes a second record.

## 7. Not modelled, and the plan

Done, in the order of the plan: the path from ingestion to the index and its promise; the
listing; text and chunker; the query; the embedding attempt; keys, pool, shutdown, health and
checksum; proofs of each but the checksum; and the bounds under the liveness properties.

What may come next: which alterations of a row the checksum does detect, as a theorem; an abstract
specification of the keys; the wiring of the API process by environment variables (which routes answer
503), the upper date bound of a search, the fixed header lines of a text, migrations of two
processes that start together, and durations (the pauses against AckWait, WriteTimeout against
the timeouts of the models), which no module measures.

Left out for good: JSON and cursor encoding, the regular expressions of entity
hints, prompt wording, the limits of validation field by field, logging, and the landing
page: no state of their own, or data without control. The rows that the HNSW index finds, and
what the language models return, are left open: every outcome is allowed.
