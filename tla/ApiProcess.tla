----------------------------- MODULE ApiProcess -----------------------------
(***************************************************************************)
(* The API process and its requests: start, SIGTERM, the end of main, and  *)
(* crashes, while requests are checked for their key and handlers query    *)
(* PostgreSQL. What a query is for is in IngestService, RecordList,        *)
(* RecordQuery and HealthCheck; here a handler makes one or none, for a    *)
(* connection of the pool that all share. One life of the process: it      *)
(* keeps nothing that the next one would find, but the tables.             *)
(***************************************************************************)
EXTENDS ApiKeys

VARIABLES
    proc,    \* "starting", "up", "draining" (Shutdown), "closing" (deferred calls), "ended"
    work     \* a handler: "none" (not called), "query" (asks for a connection), "running"
             \* (has it), "done" (with its query, or makes none)

apiVars == <<answer, keyVars, conns, proc, work>>

ApiTypeOK ==
    /\ RequestsTypeOK /\ PoolTypeOK /\ KeysTypeOK
    /\ proc \in {"starting", "up", "draining", "closing", "ended"}
    /\ work \in [Requests -> {"none", "query", "running", "done"}]

ApiInit ==
    /\ RequestsInit /\ PoolInit /\ KeysInit
    /\ proc = "starting"
    /\ work = [q \in Requests |-> "none"]

-----------------------------------------------------------------------------
(* A request *)

Request(q) ==
    /\ proc = "up"
    /\ Accept(q)
    /\ Arrive(q)
    /\ UNCHANGED <<proc, work>>

\* GET /health needs no key; its handler pings PostgreSQL.
Probe(q) ==
    /\ proc = "up"
    /\ Accept(q)
    /\ auth[q] = "none"
    /\ work' = [work EXCEPT ![q] = "query"]
    /\ UNCHANGED <<keyVars, conns, proc>>

\* The pool is closed to new queries once main returns, and a query that waited for
\* a connection is an error.
Ask(q) ==
    /\ Waiting(q)
    /\ \/ proc # "closing" /\ Select(q)
       \/ proc = "closing" /\ auth[q] = "query" /\ ValidateFails(q)
    /\ UNCHANGED <<answer, proc, work>>

\* Behind a key that matches the handler is called: it will query, or has not to.
Compare(q) ==
    /\ Waiting(q)
    /\ \/ Match(q) /\ \E w \in {"query", "done"} : work' = [work EXCEPT ![q] = w]
       \/ NoMatch(q) /\ UNCHANGED work
    /\ UNCHANGED <<answer, proc>>

\* PostgreSQL or the connection is away, or the client goes and its context ends.
AskFails(q) ==
    /\ Waiting(q)
    /\ ValidateFails(q)
    /\ UNCHANGED <<answer, proc, work>>

HandlerAsks(q) ==
    /\ Waiting(q)
    /\ work[q] = "query" /\ proc # "closing"
    /\ Take(q, "handler")
    /\ work' = [work EXCEPT ![q] = "running"]
    /\ UNCHANGED <<answer, keyVars, proc>>

\* No connection came: the pool is closed, PostgreSQL is away, or the context ended.
HandlerAskFails(q) ==
    /\ Waiting(q)
    /\ work[q] = "query"
    /\ work' = [work EXCEPT ![q] = "done"]
    /\ UNCHANGED <<answer, keyVars, conns, proc>>

\* A slip: rows.Close is missing, and an early return leaves the rows open.
HandlerLeavesRowsOpen(q) ==
    /\ Waiting(q)
    /\ work[q] = "running"
    /\ work' = [work EXCEPT ![q] = "done"]
    /\ UNCHANGED <<answer, keyVars, conns, proc>>

\* The query is answered or fails, and its connection goes back.
HandlerHasAnswer(q) ==
    /\ Waiting(q)
    /\ work[q] = "running"
    /\ GiveBack(q, "handler")
    /\ work' = [work EXCEPT ![q] = "done"]
    /\ UNCHANGED <<answer, keyVars, proc>>

Reply(q) ==
    /\ auth[q] \in {"refused", "error"} \/ work[q] = "done"
    /\ Write(q)
    /\ UNCHANGED <<keyVars, conns, proc, work>>

-----------------------------------------------------------------------------
(* The goroutine that notes the use of a key: it goes on after the answer *)

Note(q) ==
    /\ Stamp(q) \/ (proc # "closing" /\ SendUpdate(q))
    /\ UNCHANGED <<answer, proc, work>>

\* A wait for PostgreSQL is over. An UPDATE that is adrift may still end after main did.
NoteEnds(q) ==
    /\ Update(q) \/ UpdateCut(q) \/ UpdateFails(q)
    /\ UNCHANGED <<answer, proc, work>>

-----------------------------------------------------------------------------
(* The process *)

Start == proc = "starting" /\ proc' = "up" /\ UNCHANGED <<keyVars, conns, answer, work>>

Term == proc = "up" /\ proc' = "draining" /\ UNCHANGED <<keyVars, conns, answer, work>>

\* Shutdown returns when no request is left, or after ten seconds.
Drained == proc = "draining" /\ proc' = "closing" /\ UNCHANGED <<keyVars, conns, answer, work>>

\* What was under way ends with the process.
Gone ==
    /\ proc' = "ended"
    /\ Lose
    /\ Forget
    /\ work' = [q \in Requests |-> IF work[q] = "none" THEN "none" ELSE "done"]

\* pool.Close waits for every connection that is in use, whoever uses it; main returns
\* after it.
Exit == proc = "closing" /\ conns = {} /\ Gone

Crash == proc \notin {"starting", "ended"} /\ Gone

\* The table of keys changes while it runs; what changes later concerns the next.
Outside ==
    /\ proc # "ended"
    /\ \E k \in Keys : CreateKey(k) \/ EndKey(k)
    /\ UNCHANGED <<answer, proc, work>>

RequestTurn(q) ==
    \/ Ask(q) \/ Compare(q) \/ Reply(q)
    \/ HandlerAsks(q) \/ HandlerHasAnswer(q)
    \/ proc = "closing" /\ HandlerAskFails(q)

Next ==
    \/ \E q \in Requests :
         \/ Request(q) \/ Probe(q) \/ RequestTurn(q)
         \/ AskFails(q) \/ HandlerAskFails(q)
         \/ Note(q) \/ NoteEnds(q)
    \/ Start \/ Term \/ Drained \/ Exit \/ Crash
    \/ Outside

Spec == ApiInit /\ [][Next]_apiVars

(***************************************************************************)
(* Fairness. PostgreSQL answers a statement at last, or its connection is  *)
(* found dead (keep-alive): nothing in the code bounds the time, and       *)
(* UpdateLastUsed has not even a context that ends. That no session from   *)
(* outside keeps a row of api_keys locked for ever is part of this. Beyond *)
(* its query a handler returns (every client it calls has a timeout),      *)
(* Shutdown has its ten seconds, and main goes on. Nothing obliges a       *)
(* client or an operator, nor a goroutine to send its UPDATE.              *)
(***************************************************************************)
FairSpec ==
    /\ Spec
    /\ \A q \in Requests :
         WF_apiVars(RequestTurn(q)) /\ WF_apiVars(update[q] = "sent" /\ NoteEnds(q))
    /\ WF_apiVars(Drained)
    /\ WF_apiVars(Exit)

-----------------------------------------------------------------------------
(* What must come to an end *)

\* A request that was accepted is answered, or lost with its process: it does not
\* wait for ever for a connection of the pool.
EveryRequestEnds == \A q \in Requests : answer[q] = "waiting" ~> answer[q] \in {"sent", "lost"}

\* A process that got SIGTERM ends: pool.Close gets back every connection, those of
\* handlers that Shutdown gave up on and of updates that nobody waits for included.
TermEnds == proc = "draining" ~> proc = "ended"

-----------------------------------------------------------------------------
(* Why they come to an end *)

\* Who uses a connection: a check that reads its rows, a handler whose query runs, an
\* UPDATE that PostgreSQL has.
InUse(q, u) ==
    \/ u = "check" /\ auth[q] = "compare"
    \/ u = "handler" /\ work[q] = "running"
    \/ u = "update" /\ update[q] = "sent"

\* No connection is left behind by one that is done with it, or has ended, and the pool
\* is never exceeded.
ConnectionsInUse ==
    /\ conns = {c \in Requests \X Uses : InUse(c[1], c[2])}
    /\ IsFiniteSet(conns) /\ Cardinality(conns) <= PoolSize

\* A key is checked, and a handler called, only for a request that is waiting; one that
\* was accepted has come to one of the two; no process, no request.
WorkIsForRequests ==
    /\ \A q \in Requests :
         /\ Checking(q) \/ work[q] \in {"query", "running"} => Waiting(q)
         /\ auth[q] = "passed" => work[q] # "none"
         /\ work[q] # "none" => auth[q] \in {"none", "passed"}
         /\ answer[q] = "none" <=> auth[q] = "none" /\ work[q] = "none"
    /\ proc = "ended" =>
         \A q \in Requests : ~ Waiting(q) /\ update[q] \notin {"ready", "stamped", "sent"}

ApiInv == ConnectionsInUse /\ WorkIsForRequests

\* Nobody who has a connection waits for another: a request gives its first back
\* before its handler asks for one, and an UPDATE needs no more than its own. So those
\* that exhaust the pool, and those that keep pool.Close waiting, wait for PostgreSQL
\* alone, and not for each other.
NobodyHoldsAndWaits ==
    \A q \in Requests :
        /\ <<q, "check">> \in conns \/ <<q, "handler">> \in conns =>
             /\ Waiting(q) /\ auth[q] # "query" /\ work[q] # "query"
             /\ ~ (<<q, "check">> \in conns /\ <<q, "handler">> \in conns)
        /\ <<q, "update">> \in conns => update[q] = "sent" /\ proc # "ended"

\* The steps that a waiting request still makes: SELECT, comparison, the handler's
\* query and its answer, the reply.
StepsLeft(q) ==
    CASE ~ Waiting(q) -> 0
      [] Waiting(q) /\ auth[q] = "query" -> 5
      [] Waiting(q) /\ auth[q] = "compare" -> 4
      [] Waiting(q) /\ work[q] = "query" -> 3
      [] Waiting(q) /\ work[q] = "running" -> 2
      [] OTHER -> 1

\* Each step of a waiting request leaves it fewer, and nobody else's gives it more.
EachStepCounts ==
    [][\A q \in Requests :
         /\ RequestTurn(q) => StepsLeft(q)' < StepsLeft(q)
         /\ Waiting(q) => StepsLeft(q)' <= StepsLeft(q)]_apiVars
=============================================================================
