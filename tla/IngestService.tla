--------------------------- MODULE IngestService ---------------------------
(***************************************************************************)
(* The API process: RecordService.Ingest, the goroutine that publishes its *)
(* event, and the start and stop of the process around them (cmd/api).     *)
(*                                                                         *)
(* Every request gets a fresh record_id (uuid.New), so a request and its   *)
(* record have one name here; a client's retry is another record.          *)
(*                                                                         *)
(* req[r]      idle -> append -> created, or rejected, failed, cut         *)
(* event[r]    what became of the goroutine  go s.publishEvent(r)          *)
(*                                                                         *)
(* An INSERT that PostgreSQL was given is its own affair: it may commit    *)
(* while Append waits for it, after Append gave up (the request's context  *)
(* ended, the connection broke), and after the process died.               *)
(***************************************************************************)
EXTENDS TrackedRecords

VARIABLES
    api,          \* the process: down, up, or draining (srv.Shutdown)
    publisher,    \* the service was built with a publisher (not nil)
    records,      \* rows of table records, by record_id
    inserts,      \* record_ids whose INSERT PostgreSQL has neither committed nor undone
    req,
    event

ingestVars == <<api, publisher, records, inserts, req, event>>

ReqStates == {"idle", "append", "created", "failed", "rejected", "cut"}
EventStates == {"none", "disabled", "publishing", "sent", "failed", "killed"}

IngestTypeOK ==
    /\ api \in {"down", "up", "draining"}
    /\ publisher \in BOOLEAN
    /\ records \subseteq Records
    /\ inserts \subseteq Records
    /\ req \in [Records -> ReqStates]
    /\ event \in [Records -> EventStates]

IngestInit ==
    /\ api = "down"
    /\ publisher = FALSE
    /\ records = {}
    /\ inserts = {}
    /\ req = [r \in Records |-> "idle"]
    /\ event = [r \in Records |-> "none"]

\* main() wires the publisher once. When NATS_URL is unset, or the connection,
\* JetStream or EnsureStream fails, the process runs with a nil publisher.
ApiStart ==
    /\ api = "down"
    /\ api' = "up"
    /\ publisher' \in BOOLEAN
    /\ UNCHANGED <<records, inserts, req, event>>

\* SIGTERM: srv.Shutdown closes the listener and lets handlers finish.
ApiDrain ==
    /\ api = "up"
    /\ api' = "draining"
    /\ UNCHANGED <<publisher, records, inserts, req, event>>

\* The process ends: a crash, or the end of main after Shutdown. Shutdown waits
\* (10s at most) for handlers and for no other goroutine: what is still in Append
\* is cut, what is still publishing dies unsaid.
ApiStop ==
    /\ api # "down"
    /\ api' = "down"
    /\ req' = [r \in Records |->
                 IF req[r] = "append" THEN "cut" ELSE req[r]]
    /\ event' = [r \in Records |->
                   IF event[r] = "publishing" THEN "killed" ELSE event[r]]
    /\ UNCHANGED <<publisher, records, inserts>>

\* ValidateIngestRequest rejects the request, or ComputeChecksum fails: no Append.
Refuse(r) ==
    /\ api = "up"
    /\ req[r] = "idle"
    /\ \E a \in {"rejected", "failed"} : req' = [req EXCEPT ![r] = a]
    /\ UNCHANGED <<api, publisher, records, inserts, event>>

\* A slip: the event is fired before the row is written.
BeginAppendAndPublish(r) ==
    /\ api = "up"
    /\ req[r] = "idle"
    /\ req' = [req EXCEPT ![r] = "append"]
    /\ inserts' = inserts \cup {r}
    /\ event' = [event EXCEPT ![r] = IF publisher THEN "publishing" ELSE "disabled"]
    /\ UNCHANGED <<api, publisher, records>>

\* Ingest reaches store.Append, which gives PostgreSQL the INSERT.
BeginAppend(r) ==
    /\ api = "up"
    /\ req[r] = "idle"
    /\ req' = [req EXCEPT ![r] = "append"]
    /\ inserts' = inserts \cup {r}
    /\ UNCHANGED <<api, publisher, records, event>>

\* PostgreSQL commits the INSERT, whoever still waits to hear of it.
CommitAppend(r) ==
    /\ r \in inserts
    /\ records' = records \cup {r}
    /\ inserts' = inserts \ {r}
    /\ UNCHANGED <<api, publisher, req, event>>

\* It undoes the INSERT, or was never reached by it.
UndoAppend(r) ==
    /\ r \in inserts
    /\ inserts' = inserts \ {r}
    /\ UNCHANGED <<api, publisher, records, req, event>>

\* Append returns an error: the INSERT failed, or its answer was lost or not waited
\* for, and then the row is there, or may still come. Ingest returns without
\* starting the goroutine.
AppendError(r) ==
    /\ api # "down"
    /\ req[r] = "append"
    /\ req' = [req EXCEPT ![r] = "failed"]
    /\ UNCHANGED <<api, publisher, records, inserts, event>>

\* A slip: the handler answers while Append still runs.
ReturnEarly(r) ==
    /\ api # "down"
    /\ req[r] = "append"
    /\ req' = [req EXCEPT ![r] = "created"]
    /\ event' = [event EXCEPT ![r] = IF publisher THEN "publishing" ELSE "disabled"]
    /\ UNCHANGED <<api, publisher, records, inserts>>

\* Append returned nil, the row is there: the goroutine starts, and the handler
\* answers 201.
Return(r) ==
    /\ api # "down"
    /\ req[r] = "append"
    /\ r \in records
    /\ req' = [req EXCEPT ![r] = "created"]
    /\ event' = [event EXCEPT ![r] = IF publisher THEN "publishing" ELSE "disabled"]
    /\ UNCHANGED <<api, publisher, records, inserts>>

\* js.Publish returns. An error is logged and the event is given up.
PublishReturns(r, result) ==
    /\ api # "down"
    /\ event[r] = "publishing"
    /\ event' = [event EXCEPT ![r] = result]
    /\ UNCHANGED <<api, publisher, records, inserts, req>>
=============================================================================
