------------------------------ MODULE ConnPool ------------------------------
(***************************************************************************)
(* The API's pool of connections to PostgreSQL (pgxpool), and who has one. *)
(* Every query of the process goes through it, each for one connection: a  *)
(* statement that is given one keeps it until it is answered or fails.     *)
(***************************************************************************)
EXTENDS ApiRequests, Integers, FiniteSets

CONSTANT PoolSize

ASSUME PoolAssumption == PoolSize \in Nat \ {0}

\* What a request uses connections for: Validate's SELECT in the middleware, the query
\* of the handler behind it, and UpdateLastUsed, in a goroutine that outlives both.
Uses == {"check", "handler", "update"}

VARIABLE conns    \* pairs <<request, use>>: the connections that are in use

PoolTypeOK == conns \subseteq Requests \X Uses

PoolInit == conns = {}

Room == Cardinality(conns) < PoolSize

Take(q, u) == Room /\ conns' = conns \cup {<<q, u>>}

GiveBack(q, u) == conns' = conns \ {<<q, u>>}
=============================================================================
