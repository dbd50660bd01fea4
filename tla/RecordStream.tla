---------------------------- MODULE RecordStream ----------------------------
(***************************************************************************)
(* The JetStream stream RECORDS (subject record.ingested) and its durable  *)
(* consumer "indexing-worker", as internal/platform/nats configures them:  *)
(* explicit acks, a redelivery when AckWait passes or on a nak, at most    *)
(* MaxDeliver deliveries, and the removal of a message older than MaxAge.  *)
(* The server is external; this is its behaviour as that code relies on it.*)
(*                                                                         *)
(* A record has at most one message: publishEvent runs once for it. The    *)
(* message is identified by its record.                                    *)
(***************************************************************************)
EXTENDS TrackedRecords

CONSTANT
    MaxDeliver    \* ConsumerConfig.MaxDeliver (10 in the code)

ASSUME DeliverAssumption == MaxDeliver \in Nat \ {0}

VARIABLES
    msg,          \* msg[r]: where the durable consumer has r's message
    delivered     \* delivered[r]: times it was handed to a worker

streamVars == <<msg, delivered>>

MsgStates == {"none", "ready", "pending", "acked", "exhausted", "expired"}

StreamTypeOK ==
    /\ msg \in [Records -> MsgStates]
    /\ delivered \in [Records -> 0 .. MaxDeliver]
    /\ \A r \in Records : msg[r] \in {"none", "ready"} => delivered[r] < MaxDeliver

StreamInit ==
    /\ msg = [r \in Records |-> "none"]
    /\ delivered = [r \in Records |-> 0]

\* The server persists a published message.
StreamStore(r) ==
    /\ msg[r] = "none"
    /\ msg' = [msg EXCEPT ![r] = "ready"]
    /\ UNCHANGED delivered

\* A waiting pull request gets a message that is ready; its AckWait starts.
StreamDeliver(r) ==
    /\ msg[r] = "ready"
    /\ msg' = [msg EXCEPT ![r] = "pending"]
    /\ delivered' = [delivered EXCEPT ![r] = @ + 1]

\* A message that was delivered and not acked is redelivered, unless it has
\* used up its deliveries.
Requeue(r) ==
    /\ msg' = [msg EXCEPT ![r] =
                 IF delivered[r] < MaxDeliver THEN "ready" ELSE "exhausted"]
    /\ UNCHANGED delivered

\* An ack, also a late one of an earlier delivery, settles the message.
StreamAck(r) ==
    /\ msg' = [msg EXCEPT ![r] = IF @ \in {"ready", "pending"} THEN "acked" ELSE @]
    /\ UNCHANGED delivered

\* A nak asks for redelivery at once; the server ignores it for a message that
\* is no longer waiting for an ack.
StreamNak(r) ==
    IF msg[r] = "pending" THEN Requeue(r) ELSE UNCHANGED streamVars

\* AckWait passes. The 60s are not measured: a worker may still be busy with the
\* message (five embedding calls of 30s each and the pauses take longer).
AckWaitExpires(r) ==
    /\ msg[r] = "pending"
    /\ Requeue(r)

\* The message reaches MaxAge (7 days) before anyone acked it.
MessageExpires(r) ==
    /\ msg[r] \in {"ready", "pending"}
    /\ msg' = [msg EXCEPT ![r] = "expired"]
    /\ UNCHANGED delivered
=============================================================================
