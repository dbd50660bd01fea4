----------------------------- MODULE RecordList -----------------------------
(***************************************************************************)
(* GET /api/v1/records: a client reads a listing page by page with the     *)
(* cursor of the page before (keyset pagination on occurred_at DESC,       *)
(* record_id DESC), while records keep being appended, some of them with   *)
(* an occurred_at in the past.                                             *)
(*                                                                         *)
(* One page is one SQL statement and so sees one state of the table. The   *)
(* equality filters of the query (entity, actor, type, source, tag) are    *)
(* one attribute here, kind. A nil From or To is the widest bound.         *)
(***************************************************************************)
EXTENDS Integers, FiniteSets

CONSTANTS
    Ids,          \* record_ids, as numbers in their UUID order
    Times,        \* occurred_at, as numbers
    Kinds,
    AnyKind,      \* no equality filter
    NoCursor,
    DefaultLimit, \* 50 in the code
    MaxLimit      \* 200 in the code

ASSUME IdAssumption == Ids \subseteq Int /\ Times \subseteq Int
ASSUME SentinelAssumption == NoCursor \notin Ids /\ AnyKind \notin Kinds
ASSUME LimitAssumption == DefaultLimit \in Nat \ {0} /\ MaxLimit \in Nat \ {0}

VARIABLES
    at,           \* occurred_at of each record, stored or still to come
    kind,
    rows,         \* the table
    filter,
    phase,        \* of the client's listing: idle, more (has_more), done
    cursor,       \* Next of the last page: the key of the record it names
    page,         \* the last page
    seen,         \* the pages before it
    owed          \* the records that this listing has to return

tableVars == <<at, kind, rows>>
clientVars == <<filter, phase, cursor, page, seen, owed>>
vars == <<tableVars, clientVars>>

Filters == [kind : Kinds \cup {AnyKind}, from : Times, to : Times]

ListTypeOK ==
    /\ at \in [Ids -> Times]
    /\ kind \in [Ids -> Kinds]
    /\ rows \subseteq Ids
    /\ filter \in Filters
    /\ phase \in {"idle", "more", "done"}
    /\ cursor \in rows \cup {NoCursor}
    /\ phase = "more" <=> cursor # NoCursor
    /\ page \subseteq rows
    /\ seen \subseteq rows
    /\ owed \subseteq rows

Init ==
    /\ at \in [Ids -> Times]
    /\ kind \in [Ids -> Kinds]
    /\ rows = {}
    /\ filter \in Filters
    /\ phase = "idle"
    /\ cursor = NoCursor
    /\ page = {} /\ seen = {} /\ owed = {}

-----------------------------------------------------------------------------
(* The query *)

\* ORDER BY occurred_at DESC, record_id DESC: i comes before j.
Before(i, j) == at[i] > at[j] \/ (at[i] = at[j] /\ i > j)

Matches(i, f) ==
    /\ f.kind = AnyKind \/ kind[i] = f.kind
    /\ f.from <= at[i] /\ at[i] <= f.to

\* A slip: <= in the row comparison, so the cursor's own record comes again.
BeyondOrAt(f, c) ==
    {i \in rows : Matches(i, f) /\ (c = NoCursor \/ i = c \/ Before(c, i))}

\* A slip: the cursor compares occurred_at only.
BeyondByTime(f, c) ==
    {i \in rows : Matches(i, f) /\ (c = NoCursor \/ at[i] < at[c])}

\* WHERE: the rows that match and follow the cursor, which is nil at first.
Beyond(f, c) == {i \in rows : Matches(i, f) /\ (c = NoCursor \/ Before(c, i))}

\* R is what LIMIT n leaves of S.
IsTop(R, S, n) ==
    \/ R = S /\ Cardinality(S) <= n
    \/ Cardinality(R) = n /\ \A i \in R, j \in S \ R : Before(i, j)

IsLast(i, S) == i \in S /\ \A j \in S \ {i} : Before(j, i)

\* The handler leaves an absent limit at 0, which List replaces.
Effective(limit) == IF limit <= 0 THEN DefaultLimit ELSE limit

\* A slip: a cursor is returned with the last page too.
PageAlwaysNext(f, c, limit) ==
    \E R \in SUBSET Beyond(f, c) :
        /\ IsTop(R, Beyond(f, c), Effective(limit) + 1)
        /\ IF Cardinality(R) > Effective(limit)
           THEN \E extra \in R :
                  /\ IsLast(extra, R)
                  /\ page' = R \ {extra}
                  /\ \E last \in R \ {extra} : IsLast(last, R \ {extra}) /\ cursor' = last
                  /\ phase' = "more"
           ELSE /\ page' = R
                /\ cursor' = IF R = {} THEN NoCursor ELSE CHOOSE i \in R : IsLast(i, R)
                /\ phase' = "done"

\* A slip: a page after the first is returned with the cursor it was asked with.
PageSameCursor(f, c, limit) ==
    \E R \in SUBSET Beyond(f, c) :
        /\ IsTop(R, Beyond(f, c), Effective(limit))
        /\ page' = R
        /\ IF R = Beyond(f, c)
           THEN cursor' = NoCursor /\ phase' = "done"
           ELSE /\ phase' = "more"
                /\ IF c = NoCursor THEN \E i \in R : IsLast(i, R) /\ cursor' = i
                                  ELSE cursor' = c

\* List fetches one row more than it returns, to know whether there are more.
Page(f, c, limit) ==
    \E R \in SUBSET Beyond(f, c) :
        /\ IsTop(R, Beyond(f, c), Effective(limit) + 1)
        /\ IF Cardinality(R) > Effective(limit)
           THEN \E extra \in R :
                  /\ IsLast(extra, R)
                  /\ page' = R \ {extra}
                  /\ \E last \in R \ {extra} : IsLast(last, R \ {extra}) /\ cursor' = last
                  /\ phase' = "more"
           ELSE /\ page' = R
                /\ cursor' = NoCursor
                /\ phase' = "done"

-----------------------------------------------------------------------------
(* The table and the client *)

\* An ingested record is committed. The listing owes it if a page still to come
\* has to show it: it matches and sorts after the cursor.
Append(i) ==
    /\ i \notin rows
    /\ rows' = rows \cup {i}
    /\ owed' = IF phase = "more" /\ Matches(i, filter) /\ Before(cursor, i)
               THEN owed \cup {i} ELSE owed
    /\ UNCHANGED <<at, kind, filter, phase, cursor, page, seen>>

FirstPage(f, limit) ==
    /\ phase = "idle"
    /\ filter' = f
    /\ Page(f, NoCursor, limit)
    /\ seen' = {}
    /\ owed' = Beyond(f, NoCursor)
    /\ UNCHANGED tableVars

NextPage(limit) ==
    /\ phase = "more"
    /\ Page(filter, cursor, limit)
    /\ seen' = seen \cup page
    /\ UNCHANGED <<tableVars, filter, owed>>

Next ==
    \/ \E i \in Ids : Append(i)
    \/ \E limit \in 0 .. MaxLimit :
         \/ \E f \in Filters : FirstPage(f, limit)
         \/ NextPage(limit)

Spec == Init /\ [][Next]_vars

\* The client keeps asking for the next page while there is one.
FairSpec == Spec /\ WF_vars(\E limit \in 0 .. MaxLimit : NextPage(limit))

-----------------------------------------------------------------------------
(* What a listing promises *)

\* No record comes on two pages, whatever is appended between them.
NoRepeats == page \cap seen = {}

\* A listing that ended has returned every matching record that was stored when
\* it began and every one appended since behind its cursor, and nothing else:
\* the page boundary skips nothing, also between records of one occurred_at.
ListedExactly == phase = "done" => seen \cup page = owed

\* A listing ends, although records are appended while it runs.
ListingEnds == phase = "more" ~> phase = "done"

-----------------------------------------------------------------------------
(* Why it holds: the inductive invariant *)

\* The cursor separates what was returned from what is still owed.
CursorSeparates ==
    phase = "more" =>
        /\ \A i \in seen \cup page : i = cursor \/ Before(i, cursor)
        /\ seen \cup page \subseteq owed
        /\ owed \ (seen \cup page) = Beyond(filter, cursor)

Inv == NoRepeats /\ ListedExactly /\ CursorSeparates

-----------------------------------------------------------------------------
(* Why it ends *)

\* What lies beyond the cursor, whether it matches or not, is stored or still to come.
Ahead == {i \in Ids : Before(cursor, i)}

\* A page that is not the last moves the cursor into what was ahead, and an append does
\* not move it back: of finitely many ids, each page leaves fewer ahead.
CursorMovesOn ==
    [][phase = "more" /\ phase' = "more" =>
         /\ Ahead' \subseteq Ahead
         /\ (\E limit \in 0 .. MaxLimit : NextPage(limit)) => cursor' \in Ahead \ Ahead']_vars
=============================================================================
