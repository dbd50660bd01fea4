----------------------------- MODULE HealthCheck -----------------------------
(***************************************************************************)
(* GET /health and /health/ready: three checks, one after the other, while *)
(* what they check comes and goes. PostgreSQL and the embedding model are  *)
(* asked, in five seconds for both. NATS is not asked: the handler looks   *)
(* at what the client believes of its connection, which notices a loss     *)
(* later (by its pings), and which the client gives up when it has tried   *)
(* to reconnect often enough (nats.Connect, no options).                   *)
(***************************************************************************)
CONSTANT Requests

VARIABLES
    proc,     \* "starting", "up", "draining", "closing" or "ended"
    up,       \* what answers: PostgreSQL, NATS, the embedding model at OLLAMA_HOST
    nc,       \* the client's belief: "nil", "connected", "reconnecting" or "closed"
    probe,    \* of a request: "none", the check that comes next, "replied" or "over"
    healthy,  \* whether every check of a request so far came out "ok"
    late,     \* whether its five seconds are over, or its client gone
    \* and, to say what the answer promises:
    within,   \* what was in reach at some moment of the checks
    missing,  \* what the process could not use at some moment of them
    noticed   \* whether the client had no connection at some moment up to its check

healthVars == <<proc, up, nc, probe, healthy, late, within, missing, noticed>>

Dependencies == {"postgres", "nats", "embeddings"}

Probing(q) == probe[q] \in Dependencies

HealthTypeOK ==
    /\ proc \in {"starting", "up", "draining", "closing", "ended"}
    /\ up \subseteq Dependencies
    /\ nc \in {"nil", "connected", "reconnecting", "closed"}
    /\ probe \in [Requests -> Dependencies \cup {"none", "replied", "over"}]
    /\ healthy \in [Requests -> BOOLEAN] /\ late \in [Requests -> BOOLEAN]
    /\ within \in [Requests -> SUBSET Dependencies]
    /\ missing \in [Requests -> SUBSET Dependencies]
    /\ noticed \in [Requests -> BOOLEAN]

\* In reach of this process: once main closes it, the pool reaches nothing.
InReach(theProc, theUp) ==
    IF theProc = "closing" THEN theUp \ {"postgres"} ELSE theUp

\* What it cannot use: NATS when its client says so, rightly or late.
Missing(theProc, theUp, theNc) ==
    {d \in Dependencies :
        IF d = "nats" THEN theNc # "connected" ELSE d \notin InReach(theProc, theUp)}

HealthInit ==
    /\ proc = "starting"
    /\ up \in SUBSET Dependencies
    /\ nc = "nil"
    /\ probe = [q \in Requests |-> "none"]
    /\ healthy = [q \in Requests |-> TRUE]
    /\ late = [q \in Requests |-> FALSE]
    /\ within = [q \in Requests |-> {}]
    /\ missing = [q \in Requests |-> {}]
    /\ noticed = [q \in Requests |-> FALSE]

-----------------------------------------------------------------------------
(* The process and what it depends on *)

\* Every request that is being checked lives through the change.
Watch ==
    /\ within' = [q \in Requests |->
                    within[q] \cup (IF Probing(q) THEN InReach(proc', up') ELSE {})]
    /\ missing' = [q \in Requests |->
                     missing[q] \cup (IF Probing(q) THEN Missing(proc', up', nc') ELSE {})]
    /\ noticed' = [q \in Requests |->
                     noticed[q] \/ (probe[q] \in {"postgres", "nats"} /\ nc' # "connected")]
    /\ UNCHANGED <<probe, healthy, late>>

\* Without PostgreSQL main ends; without NATS (or NATS_URL) it goes on with a nil
\* connection.
Start ==
    /\ proc = "starting" /\ "postgres" \in up
    /\ proc' = "up" /\ nc' \in {"nil", "connected"}
    /\ nc' = "connected" => "nats" \in up
    /\ UNCHANGED up /\ Watch

Term == proc = "up" /\ proc' = "draining" /\ UNCHANGED <<up, nc>> /\ Watch

\* Shutdown has waited for its requests, or ten seconds: nc.Close, then pool.Close.
Drained ==
    /\ proc = "draining" /\ proc' = "closing"
    /\ nc' = IF nc = "nil" THEN "nil" ELSE "closed"
    /\ UNCHANGED up /\ Watch

\* main returns, or the process crashes: its requests are lost with it.
Ended ==
    /\ proc \in {"up", "draining", "closing"} /\ proc' = "ended"
    /\ nc' = "nil"
    /\ probe' = [q \in Requests |-> IF probe[q] = "none" THEN "none" ELSE "over"]
    /\ UNCHANGED <<up, healthy, late, within, missing, noticed>>

Shift(d) ==
    /\ up' = IF d \in up THEN up \ {d} ELSE up \cup {d}
    /\ UNCHANGED <<proc, nc>> /\ Watch

\* The client finds its connection broken: when the server says so, or when its pings
\* have failed; NATS may have been out of reach since long, or be back already.
Breaks ==
    /\ nc = "connected" /\ nc' = "reconnecting"
    /\ UNCHANGED <<proc, up>> /\ Watch

\* It connects again, or gives up for good.
Reconnects ==
    /\ nc = "reconnecting" /\ nc' \in {"connected", "closed"}
    /\ nc' = "connected" => "nats" \in up
    /\ UNCHANGED <<proc, up>> /\ Watch

-----------------------------------------------------------------------------
(* A request *)

HealthBegin(q) ==
    /\ proc = "up"
    /\ probe[q] = "none"
    /\ probe' = [probe EXCEPT ![q] = "postgres"]
    /\ within' = [within EXCEPT ![q] = InReach(proc, up)]
    /\ missing' = [missing EXCEPT ![q] = Missing(proc, up, nc)]
    /\ noticed' = [noticed EXCEPT ![q] = nc # "connected"]
    /\ UNCHANGED <<proc, up, nc, healthy, late>>

Expire(q) ==
    /\ Probing(q)
    /\ late' = [late EXCEPT ![q] = TRUE]
    /\ UNCHANGED <<proc, up, nc, probe, healthy, within, missing, noticed>>

After(d) == CASE d = "postgres" -> "nats" [] d = "nats" -> "embeddings"
              [] d = "embeddings" -> "replied"

\* A slip: the connection counts as long as it has not been closed.
OkUnlessClosed(q, d) ==
    IF d = "nats" THEN nc \notin {"nil", "closed"} ELSE d \in InReach(proc, up) /\ ~ late[q]

\* A slip: the checks run with the context that SIGTERM ends.
OkUntilTerm(q, d) ==
    IF d = "nats" THEN nc = "connected"
    ELSE d \in InReach(proc, up) /\ ~ late[q] /\ proc = "up"

\* Whether a check returns "ok": IsConnected says what the client believes, whatever
\* the time.
Ok(q, d) ==
    IF d = "nats" THEN nc = "connected" ELSE d \in InReach(proc, up) /\ ~ late[q]

Check(q) ==
    /\ Probing(q)
    /\ healthy' = [healthy EXCEPT ![q] = @ /\ Ok(q, probe[q])]
    /\ probe' = [probe EXCEPT ![q] = After(@)]
    /\ UNCHANGED <<proc, up, nc, late, within, missing, noticed>>

Reply(q) ==
    /\ probe[q] = "replied"
    /\ probe' = [probe EXCEPT ![q] = "over"]
    /\ UNCHANGED <<proc, up, nc, healthy, late, within, missing, noticed>>

Next ==
    \/ \E q \in Requests : HealthBegin(q) \/ Expire(q) \/ Check(q) \/ Reply(q)
    \/ Start \/ Term \/ Drained \/ Ended
    \/ (\E d \in Dependencies : Shift(d)) \/ Breaks \/ Reconnects

HealthSpec == HealthInit /\ [][Next]_healthVars

-----------------------------------------------------------------------------
(* What the answer says *)

\* 200 is the answer only of a process that has reached PostgreSQL and the embedding model
\* at some moment while it answered: none counts for what it was before, or for not being
\* set up. NATS may count for what it was before, but only as long as the client has not
\* found out: once it has, and until the check, nothing but reaching NATS again makes it
\* "ok". (Nor is it said that the three were reached together, or that JetStream answers.)
OkWasTrue ==
    \A q \in Requests :
        probe[q] = "replied" /\ healthy[q] =>
            /\ {"postgres", "embeddings"} \subseteq within[q]
            /\ noticed[q] => "nats" \in within[q]

\* 503 has a cause in the time of the request: one of the three could not be used, or
\* its five seconds were over. A probe that removes the process from a load balancer
\* does so for nothing else, and not for a loss of NATS that the client has not found.
DegradedForCause ==
    \A q \in Requests : probe[q] = "replied" /\ ~ healthy[q] => late[q] \/ missing[q] # {}

-----------------------------------------------------------------------------
(* Why it holds: the inductive invariant *)

\* A request that is being checked has what is in reach now among what was in reach
\* while it was checked, and what cannot be used among what could not. Before its check
\* of NATS the client is connected only if it has been all the while, or has reached
\* NATS again meanwhile.
Watched ==
    \A q \in Requests :
        /\ Probing(q) => /\ InReach(proc, up) \subseteq within[q]
                         /\ Missing(proc, up, nc) \subseteq missing[q]
        /\ probe[q] \in {"postgres", "nats"} =>
             IF nc = "connected" THEN noticed[q] => "nats" \in within[q] ELSE noticed[q]

\* The checks that a request has behind it.
Checked(q) ==
    CASE probe[q] = "nats" -> {"postgres"}
      [] probe[q] = "embeddings" -> {"postgres", "nats"}
      [] probe[q] = "replied" -> Dependencies
      [] OTHER -> {}

\* As long as every check came out "ok", each of them was right when it was made, that
\* of NATS as far as the client knew; when one did not, it had a cause.
EachInItsTime ==
    \A q \in Requests :
        IF healthy[q]
        THEN \A d \in Checked(q) : d \in within[q] \/ (d = "nats" /\ ~ noticed[q])
        ELSE late[q] \/ missing[q] # {}

\* Nothing has come out otherwise before the first check.
Unasked == \A q \in Requests : probe[q] = "none" => healthy[q]

HealthInv == Watched /\ EachInItsTime /\ Unasked
=============================================================================
