----------------------------- MODULE ApiRequests -----------------------------
(***************************************************************************)
(* The HTTP requests of the API process, and how far each has come.        *)
(***************************************************************************)
CONSTANTS Requests, NoRequest

ASSUME RequestsAssumption == NoRequest \notin Requests

VARIABLE answer    \* "none", "waiting", "sent" or "lost"

RequestsTypeOK ==
    answer \in [Requests -> {"none", "waiting", "sent", "lost"}]

RequestsInit == answer = [q \in Requests |-> "none"]

Waiting(q) == answer[q] = "waiting"

Accept(q) ==
    /\ answer[q] = "none"
    /\ answer' = [answer EXCEPT ![q] = "waiting"]

\* The handler returns. What it writes may reach nobody: the client is gone, or
\* WriteTimeout has passed, of which neither the handler nor its context is told.
Write(q) ==
    /\ Waiting(q)
    /\ answer' = [answer EXCEPT ![q] = "sent"]

\* The process ends.
Lose == answer' = [q \in Requests |-> IF Waiting(q) THEN "lost" ELSE answer[q]]
=============================================================================
