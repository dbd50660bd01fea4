------------------------------- MODULE ApiKeys -------------------------------
(***************************************************************************)
(* API keys: the table, the middleware that asks it whether a request may  *)
(* pass, and the goroutine that notes the key's use. Keys are created by   *)
(* the script and ended (revoked or expired) from outside the program,     *)
(* while requests are being checked.                                       *)
(***************************************************************************)
EXTENDS ConnPool

CONSTANTS
    Keys,
    Malformed    \* no Authorization header that extractBearerToken accepts

ASSUME SecretsAssumption == Malformed \notin Keys

VARIABLES
    active,     \* rows of api_keys that are neither revoked nor expired
    ended,      \* the other rows
    secret,     \* what a request carries
    auth,       \* "none", "query", "compare", "passed", "refused", "error"
    rows,       \* the keys that Validate's SELECT found
    update,     \* UpdateLastUsed: "none", then as UpdateStates says
    clock,      \* time.Now(), which moves when someone reads it
    stamp,      \* what the goroutine of a request read
    lastUsed,   \* last_used_at of a key, as the request that wrote it
    \* and, to say what the middleware promises:
    since,      \* of a request that is checked, the keys active at some moment of that
    steady,     \* and the keys active at every moment of it
    underway    \* for a finished update, those that were under way then

keyVars == <<active, ended, secret, auth, rows, update, clock, stamp, lastUsed,
             since, steady, underway>>

\* An UPDATE has read the clock (stamped), waits in PostgreSQL (sent), also after its
\* connection broke (adrift), and is committed (done) or comes to nothing (lost).
UpdateStates == {"none", "ready", "stamped", "sent", "adrift", "done", "lost"}

Secrets == Keys \cup {Malformed}

KeysTypeOK ==
    /\ active \subseteq Keys /\ ended \subseteq Keys /\ active \cap ended = {}
    /\ secret \in [Requests -> Secrets]
    /\ auth \in [Requests -> {"none", "query", "compare", "passed", "refused", "error"}]
    /\ rows \in [Requests -> SUBSET Keys]
    /\ update \in [Requests -> UpdateStates]
    /\ clock \in Nat /\ stamp \in [Requests -> Nat]
    /\ lastUsed \in [Keys -> Requests \cup {NoRequest}]
    /\ since \in [Requests -> SUBSET Keys] /\ steady \in [Requests -> SUBSET Keys]
    /\ underway \in [Requests -> SUBSET Requests]

KeysInit ==
    /\ active = {}
    /\ ended = {}
    /\ secret = [q \in Requests |-> Malformed]
    /\ auth = [q \in Requests |-> "none"]
    /\ rows = [q \in Requests |-> {}]
    /\ update = [q \in Requests |-> "none"]
    /\ clock = 0
    /\ stamp = [q \in Requests |-> 0]
    /\ lastUsed = [k \in Keys |-> NoRequest]
    /\ since = [q \in Requests |-> {}]
    /\ steady = [q \in Requests |-> {}]
    /\ underway = [q \in Requests |-> {}]

-----------------------------------------------------------------------------
(* The table *)

Checking(q) == auth[q] \in {"query", "compare"}

\* A slip: the key is made from its name, and not at random.
CreateKeyAgain(k) ==
    /\ k \notin active
    /\ active' = active \cup {k}
    /\ since' = [q \in Requests |-> IF Checking(q) THEN since[q] \cup {k} ELSE since[q]]
    /\ UNCHANGED <<ended, secret, auth, conns, rows, update, clock, stamp, lastUsed,
                   steady, underway>>

\* scripts/create-apikey.go inserts a new random key.
CreateKey(k) ==
    /\ k \notin active \cup ended
    /\ active' = active \cup {k}
    /\ since' = [q \in Requests |-> IF Checking(q) THEN since[q] \cup {k} ELSE since[q]]
    /\ UNCHANGED <<ended, secret, auth, conns, rows, update, clock, stamp, lastUsed,
                   steady, underway>>

\* Someone sets revoked_at, or expires_at passes.
EndKey(k) ==
    /\ k \in active
    /\ active' = active \ {k}
    /\ ended' = ended \cup {k}
    /\ steady' = [q \in Requests |-> IF Checking(q) THEN steady[q] \ {k} ELSE steady[q]]
    /\ UNCHANGED <<secret, auth, conns, rows, update, clock, stamp, lastUsed,
                   since, underway>>

-----------------------------------------------------------------------------
(* The middleware: one request *)

\* A request without a bearer token is refused before the table is asked.
Arrive(q) ==
    /\ auth[q] = "none"
    /\ \E s \in Secrets :
         /\ secret' = [secret EXCEPT ![q] = s]
         /\ auth' = [auth EXCEPT ![q] = IF s = Malformed THEN "refused" ELSE "query"]
    /\ since' = [since EXCEPT ![q] = IF auth'[q] = "query" THEN active ELSE {}]
    /\ steady' = [steady EXCEPT ![q] = since'[q]]
    /\ UNCHANGED <<active, ended, conns, rows, update, clock, stamp, lastUsed, underway>>

\* A slip: the query does not ask for revoked_at and expires_at.
SelectAll(q) ==
    /\ auth[q] = "query"
    /\ Take(q, "check")
    /\ rows' = [rows EXCEPT ![q] = active \cup ended]
    /\ auth' = [auth EXCEPT ![q] = "compare"]
    /\ UNCHANGED <<active, ended, secret, update, clock, stamp, lastUsed,
                   since, steady, underway>>

\* Validate's SELECT waits for a connection, and keeps it while the rows are read;
\* it sees the table as it is when the statement starts.
Select(q) ==
    /\ auth[q] = "query"
    /\ Take(q, "check")
    /\ rows' = [rows EXCEPT ![q] = active]
    /\ auth' = [auth EXCEPT ![q] = "compare"]
    /\ UNCHANGED <<active, ended, secret, update, clock, stamp, lastUsed,
                   since, steady, underway>>

\* The answer of Validate: the rows are closed, and the connection goes back.
Decide(q, d) ==
    /\ auth' = [auth EXCEPT ![q] = d]
    /\ rows' = [rows EXCEPT ![q] = {}]
    /\ since' = [since EXCEPT ![q] = {}]
    /\ steady' = [steady EXCEPT ![q] = {}]
    /\ UNCHANGED <<active, ended, secret, clock, stamp, lastUsed, underway>>

\* A slip: rows.Close is not deferred, and the early return leaves the rows open.
MatchLeaks(q) ==
    /\ auth[q] = "compare"
    /\ secret[q] \in rows[q]
    /\ Decide(q, "passed")
    /\ update' = [update EXCEPT ![q] = "ready"]
    /\ UNCHANGED conns

\* bcrypt finds the key among the rows: the request passes, and the goroutine starts.
Match(q) ==
    /\ auth[q] = "compare"
    /\ secret[q] \in rows[q]
    /\ Decide(q, "passed")
    /\ update' = [update EXCEPT ![q] = "ready"]
    /\ GiveBack(q, "check")

\* A slip: a row that does not match ends the loop.
NoMatchFirst(q) ==
    /\ auth[q] = "compare"
    /\ rows[q] # {secret[q]}
    /\ Decide(q, "refused")
    /\ GiveBack(q, "check")
    /\ UNCHANGED update

NoMatch(q) ==
    /\ auth[q] = "compare"
    /\ secret[q] \notin rows[q]
    /\ Decide(q, "refused")
    /\ GiveBack(q, "check")
    /\ UNCHANGED update

\* The query, a row, or what comes after the last row is an error: 401 as well.
ValidateFails(q) ==
    /\ Checking(q)
    /\ Decide(q, "error")
    /\ GiveBack(q, "check")
    /\ UNCHANGED update

-----------------------------------------------------------------------------
(* The goroutine: UpdateLastUsed *)

\* A slip: the time is one of the whole process, read once.
StampOnce(q) ==
    /\ update[q] = "ready"
    /\ update' = [update EXCEPT ![q] = "stamped"]
    /\ UNCHANGED <<active, ended, secret, auth, conns, rows, clock, stamp, lastUsed,
                   since, steady, underway>>

\* It reads the clock, and then waits for a connection.
Stamp(q) ==
    /\ update[q] = "ready"
    /\ update' = [update EXCEPT ![q] = "stamped"]
    /\ clock' = clock + 1
    /\ stamp' = [stamp EXCEPT ![q] = clock']
    /\ UNCHANGED <<active, ended, secret, auth, conns, rows, lastUsed,
                   since, steady, underway>>

\* Its context has no deadline: the connection is its own until PostgreSQL answers.
SendUpdate(q) ==
    /\ update[q] = "stamped"
    /\ Take(q, "update")
    /\ update' = [update EXCEPT ![q] = "sent"]
    /\ UNCHANGED <<active, ended, secret, auth, rows, clock, stamp, lastUsed,
                   since, steady, underway>>

UnderWay == {p \in Requests : update[p] \in {"stamped", "sent", "adrift"}}

\* The UPDATE has the row and commits. It does not compare the new time with the old.
Update(q) ==
    /\ update[q] \in {"sent", "adrift"}
    /\ GiveBack(q, "update")
    /\ update' = [update EXCEPT ![q] = "done"]
    /\ lastUsed' = [lastUsed EXCEPT ![secret[q]] = q]
    /\ underway' = [underway EXCEPT ![q] = UnderWay]
    /\ UNCHANGED <<active, ended, secret, auth, rows, clock, stamp, since, steady>>

\* The connection breaks under it: PostgreSQL may commit it yet.
UpdateCut(q) ==
    /\ update[q] = "sent"
    /\ GiveBack(q, "update")
    /\ update' = [update EXCEPT ![q] = "adrift"]
    /\ UNCHANGED <<active, ended, secret, auth, rows, clock, stamp, lastUsed,
                   since, steady, underway>>

\* No connection was to be had, or PostgreSQL undoes the UPDATE. The error is dropped.
UpdateFails(q) ==
    /\ update[q] \in {"stamped", "sent", "adrift"}
    /\ GiveBack(q, "update")
    /\ update' = [update EXCEPT ![q] = "lost"]
    /\ UNCHANGED <<active, ended, secret, auth, rows, clock, stamp, lastUsed,
                   since, steady, underway>>

\* The process ends: what it had under way ends with it, but for a statement that
\* PostgreSQL has.
Forget ==
    /\ auth' = [q \in Requests |-> IF Checking(q) THEN "error" ELSE auth[q]]
    /\ rows' = [q \in Requests |-> {}]
    /\ since' = [q \in Requests |-> {}]
    /\ steady' = [q \in Requests |-> {}]
    /\ conns' = {}
    /\ update' = [q \in Requests |->
                    CASE update[q] \in {"ready", "stamped"} -> "lost"
                      [] update[q] = "sent" -> "adrift"
                      [] OTHER -> update[q]]
    /\ UNCHANGED <<active, ended, secret, clock, stamp, lastUsed, underway>>

-----------------------------------------------------------------------------
(* What the middleware promises *)

\* A request passes only with a key that was active at some moment since it came: a
\* key that ended is let through by requests that were on their way, and by no other.
ServedWasActive ==
    [][\A q \in Requests :
         auth[q] # "passed" /\ auth'[q] = "passed" => secret[q] \in since[q]]_keyVars

\* A request whose key stays active all the while is not refused, unless the database
\* fails (the answer to that is the same 401).
RefusedForCause ==
    [][\A q \in Requests :
         auth[q] # "refused" /\ auth'[q] = "refused" => secret[q] \notin steady[q]]_keyVars

\* last_used_at is a use of that key. Two updates may write in either order, so the
\* later time can be lost, but only to one that was under way at the same time:
\* after an update that begins later, last_used_at is never behind.
LastUsedIsRecent ==
    /\ \A k \in Keys :
         lastUsed[k] # NoRequest => auth[lastUsed[k]] = "passed" /\ secret[lastUsed[k]] = k
    /\ \A q \in Requests :
         update[q] = "done" =>
            \E p \in Requests :
                /\ p = lastUsed[secret[q]]
                /\ p \in underway[q] \/ stamp[q] < stamp[p]

-----------------------------------------------------------------------------
(* Why it holds: the inductive invariant *)

\* What a request knows of the table is neither older than its arrival nor short of
\* a key that has been active all the while.
SnapshotBetween ==
    \A q \in Requests :
        /\ Checking(q) => steady[q] \subseteq active /\ active \subseteq since[q]
        /\ ~ Checking(q) => steady[q] = {}
        /\ auth[q] = "compare" => steady[q] \subseteq rows[q] /\ rows[q] \subseteq since[q]

\* An update belongs to a request that passed, and has read the clock or not.
UpdateOfPassed ==
    \A q \in Requests :
        /\ update[q] # "none" => auth[q] = "passed" /\ secret[q] \in Keys
        /\ update[q] = "none" => auth[q] # "passed"
        /\ stamp[q] <= clock

\* Beside a finished update, one that is under way was so already, or is later.
Overtaking ==
    \A q, p \in Requests :
        update[q] = "done" /\ p \in UnderWay =>
            p \in underway[q] \/ stamp[q] < stamp[p]

KeysInv ==
    SnapshotBetween /\ UpdateOfPassed /\ Overtaking /\ LastUsedIsRecent
=============================================================================
