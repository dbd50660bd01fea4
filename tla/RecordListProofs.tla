-------------------------- MODULE RecordListProofs --------------------------
(***************************************************************************)
(* Proofs about RecordList, for any table, filter, order of requests and   *)
(* limits: a listing repeats nothing and, when it ends, has missed nothing.*)
(***************************************************************************)
EXTENDS RecordList, TLAPS

\* The listing order is a strict total order on the records.
LEMMA Order ==
    ASSUME ListTypeOK, NEW i \in Ids, NEW j \in Ids, NEW k \in Ids
    PROVE  /\ ~Before(i, i)
           /\ i = j \/ Before(i, j) \/ Before(j, i)
           /\ ~(Before(i, j) /\ Before(j, i))
           /\ Before(i, j) /\ Before(j, k) => Before(i, k)
<1>1. at[i] \in Int /\ at[j] \in Int /\ at[k] \in Int /\ i \in Int /\ j \in Int /\ k \in Int
  BY IdAssumption DEF ListTypeOK
<1> QED BY <1>1 DEF Before

\* A page that is not the last one ends at the new cursor: what follows the page
\* in the query's result is what follows that cursor, and the page is the rest.
LEMMA PageSplits ==
    ASSUME ListTypeOK, NEW f \in Filters, NEW c \in rows \cup {NoCursor}, NEW limit \in Int,
           Page(f, c, limit), phase' = "more", UNCHANGED tableVars
    PROVE  /\ cursor' \in page'
           /\ page' \subseteq Beyond(f, c)
           /\ \A i \in page' : i = cursor' \/ Before(i, cursor')
           /\ Beyond(f, c) \ page' = Beyond(f, cursor')
<1> DEFINE B == Beyond(f, c)
           N == Effective(limit)
<1>0. N \in Int
  BY LimitAssumption DEF Effective
<1>1. PICK R \in SUBSET B :
        /\ IsTop(R, B, N + 1)
        /\ IF Cardinality(R) > N
           THEN \E extra \in R :
                  /\ IsLast(extra, R)
                  /\ page' = R \ {extra}
                  /\ \E last \in R \ {extra} : IsLast(last, R \ {extra}) /\ cursor' = last
                  /\ phase' = "more"
           ELSE page' = R /\ cursor' = NoCursor /\ phase' = "done"
  BY DEF Page
<1>2. PICK extra \in R :
        /\ IsLast(extra, R)
        /\ page' = R \ {extra}
        /\ \E last \in R \ {extra} : IsLast(last, R \ {extra}) /\ cursor' = last
  BY <1>1
<1>3. cursor' \in page' /\ \A i \in page' : i = cursor' \/ Before(i, cursor')
  BY <1>2 DEF IsLast
<1>4. B \subseteq Ids /\ R \subseteq B
  BY DEF Beyond, ListTypeOK
<1>5. \A j \in B \ R : Before(cursor', j)
  BY <1>1, <1>2, <1>3 DEF IsTop
<1>6. Before(cursor', extra)
  BY <1>2, <1>3 DEF IsLast
<1>7. B \ page' \subseteq Beyond(f, cursor')
  BY <1>2, <1>5, <1>6 DEF Beyond
<1>8. ASSUME NEW i \in Beyond(f, cursor') PROVE i \in B \ page'
  <2>1. i \in Ids /\ cursor' \in Ids /\ cursor' # NoCursor /\ Before(cursor', i)
    BY <1>3, <1>2, <1>4, <1>8, SentinelAssumption DEF Beyond, ListTypeOK
  <2>2. i \notin page'
    BY <1>3, <2>1, Order
  <2>3. c = NoCursor \/ Before(c, i)
    <3>1. CASE c = NoCursor
      BY <3>1
    <3>2. CASE c # NoCursor
      <4>1. c \in Ids /\ Before(c, cursor')
        BY <1>2, <1>3, <3>2 DEF Beyond, ListTypeOK
      <4> QED BY <2>1, <4>1, Order
    <3> QED BY <3>1, <3>2
  <2> QED BY <1>8, <2>2, <2>3 DEF Beyond
<1> QED BY <1>2, <1>3, <1>4, <1>7, <1>8

\* The last page is all that follows the cursor.
LEMMA LastPage ==
    ASSUME NEW f, NEW c, NEW limit \in Int, Page(f, c, limit), phase' # "more"
    PROVE  page' = Beyond(f, c) /\ cursor' = NoCursor /\ phase' = "done"
<1> DEFINE B == Beyond(f, c)
           N == Effective(limit)
<1>0. N \in Int
  BY LimitAssumption DEF Effective
<1>1. PICK R \in SUBSET B :
        /\ IsTop(R, B, N + 1)
        /\ ~(Cardinality(R) > N)
        /\ page' = R /\ cursor' = NoCursor /\ phase' = "done"
  BY DEF Page
<1>2. Cardinality(R) # N + 1
  BY <1>0, <1>1
<1> QED BY <1>1, <1>2 DEF IsTop

\* A page is taken from the stored rows.
LEMMA PageType ==
    ASSUME NEW f, NEW c, NEW limit, Page(f, c, limit)
    PROVE  /\ page' \subseteq rows
           /\ phase' \in {"more", "done"}
           /\ phase' = "more" => cursor' \in rows
           /\ phase' # "more" => cursor' = NoCursor
BY DEF Page, Beyond

\* The client's and the table's variables keep their types.
THEOREM ListTypeCorrect == Spec => []ListTypeOK
<1>1. Init => ListTypeOK
  BY DEF Init, ListTypeOK
<1>2. ListTypeOK /\ [Next]_vars => ListTypeOK'
  <2> SUFFICES ASSUME ListTypeOK, [Next]_vars PROVE ListTypeOK'
    OBVIOUS
  <2>1. ASSUME NEW i \in Ids, Append(i) PROVE ListTypeOK'
    BY <2>1 DEF Append, ListTypeOK
  <2>2. ASSUME NEW limit \in 0 .. MaxLimit, NEW f \in Filters, FirstPage(f, limit)
        PROVE  ListTypeOK'
    BY <2>2, PageType, SentinelAssumption DEF FirstPage, Beyond, ListTypeOK, tableVars
  <2>3. ASSUME NEW limit \in 0 .. MaxLimit, NextPage(limit) PROVE ListTypeOK'
    BY <2>3, PageType, SentinelAssumption DEF NextPage, ListTypeOK, tableVars
  <2>4. CASE UNCHANGED vars
    BY <2>4 DEF vars, tableVars, clientVars, ListTypeOK
  <2> QED BY <2>1, <2>2, <2>3, <2>4 DEF Next
<1> QED BY <1>1, <1>2, PTL DEF Spec

\* The cursor separates the returned from the owed, at every step.
THEOREM ListInvariant == Spec => []Inv
<1>1. Init => Inv
  BY DEF Init, Inv, NoRepeats, ListedExactly, CursorSeparates
<1>2. ListTypeOK /\ ListTypeOK' /\ Inv /\ [Next]_vars => Inv'
  <2> SUFFICES ASSUME ListTypeOK, ListTypeOK', Inv, [Next]_vars PROVE Inv'
    OBVIOUS
  <2> USE DEF Inv, NoRepeats, ListedExactly, CursorSeparates
  <2>1. ASSUME NEW i \in Ids, Append(i) PROVE Inv'
    <3>1. UNCHANGED <<at, kind, filter, phase, cursor, page, seen>> /\ rows' = rows \cup {i}
      BY <2>1 DEF Append
    <3>2. CASE phase = "more"
      <4>1. i \notin seen \cup page
        BY <2>1 DEF Append, ListTypeOK
      <4>2. Beyond(filter, cursor)' = Beyond(filter, cursor) \cup
              (IF Matches(i, filter) /\ Before(cursor, i) THEN {i} ELSE {})
        BY <3>1, <3>2 DEF Beyond, Matches, Before, ListTypeOK
      <4>3. owed' = owed \cup (IF Matches(i, filter) /\ Before(cursor, i) THEN {i} ELSE {})
        BY <2>1, <3>2 DEF Append
      <4>4. CursorSeparates'
        BY <3>1, <3>2, <4>1, <4>2, <4>3 DEF Before
      <4> QED BY <3>1, <3>2, <4>4
    <3>3. CASE phase # "more"
      BY <2>1, <3>1, <3>3 DEF Append
    <3> QED BY <3>2, <3>3
  <2>2. ASSUME NEW limit \in 0 .. MaxLimit, NEW f \in Filters, FirstPage(f, limit)
        PROVE  Inv'
    <3>1. filter' = f /\ seen' = {} /\ owed' = Beyond(f, NoCursor) /\ Page(f, NoCursor, limit)
          /\ UNCHANGED tableVars
      BY <2>2 DEF FirstPage
    <3>2. CASE phase' = "more"
      <4>1. /\ page' \subseteq Beyond(f, NoCursor)
            /\ \A i \in page' : i = cursor' \/ Before(i, cursor')
            /\ Beyond(f, NoCursor) \ page' = Beyond(f, cursor')
        BY <3>1, <3>2, PageSplits
      <4>2. Beyond(filter, cursor)' = Beyond(f, cursor')
        BY <3>1 DEF Beyond, Matches, Before, tableVars
      <4> QED BY <3>1, <3>2, <4>1, <4>2 DEF Before, tableVars
    <3>3. CASE phase' # "more"
      BY <3>1, <3>3, LastPage
    <3> QED BY <3>2, <3>3
  <2>3. ASSUME NEW limit \in 0 .. MaxLimit, NextPage(limit) PROVE Inv'
    <3>1. /\ phase = "more" /\ Page(filter, cursor, limit) /\ seen' = seen \cup page
          /\ UNCHANGED <<tableVars, filter, owed>>
      BY <2>3 DEF NextPage
    <3>2. /\ filter \in Filters /\ cursor \in rows /\ cursor # NoCursor
          /\ seen \cup page \subseteq Ids
      BY <3>1 DEF ListTypeOK
    <3>3. owed = (seen \cup page) \cup Beyond(filter, cursor)
      BY <3>1
    <3>4. (seen \cup page) \cap Beyond(filter, cursor) = {}
      BY <3>1
    <3>5. CASE phase' = "more"
      <4>1. /\ cursor' \in page'
            /\ page' \subseteq Beyond(filter, cursor)
            /\ \A i \in page' : i = cursor' \/ Before(i, cursor')
            /\ Beyond(filter, cursor) \ page' = Beyond(filter, cursor')
        BY <3>1, <3>2, <3>5, PageSplits
      <4>2. Beyond(filter, cursor)' = Beyond(filter, cursor')
        BY <3>1 DEF Beyond, Matches, Before, tableVars
      <4>3. \A i \in seen \cup page : Before(i, cursor')
        <5>1. Before(cursor, cursor') /\ cursor' \in Ids
          BY <3>2, <4>1 DEF Beyond, ListTypeOK
        <5>2. ASSUME NEW i \in seen \cup page PROVE Before(i, cursor')
          <6>1. i \in Ids /\ cursor \in Ids /\ (i = cursor \/ Before(i, cursor))
            BY <3>1, <3>2, <5>2 DEF ListTypeOK
          <6> QED BY <5>1, <6>1, Order
        <5> QED BY <5>2
      <4>4. \A i \in seen' \cup page' : i = cursor' \/ Before(i, cursor')
        BY <3>1, <4>1, <4>3
      <4>5. (\A i \in seen \cup page : i = cursor \/ Before(i, cursor))'
        BY <3>1, <4>4 DEF Before, tableVars
      <4> QED BY <3>1, <3>3, <3>4, <3>5, <4>1, <4>2, <4>5
    <3>6. CASE phase' # "more"
      BY <3>1, <3>3, <3>4, <3>6, LastPage
    <3> QED BY <3>5, <3>6
  <2>4. CASE UNCHANGED vars
    BY <2>4 DEF vars, tableVars, clientVars, Beyond, Matches, Before
  <2> QED BY <2>1, <2>2, <2>3, <2>4 DEF Next
<1> QED BY <1>1, <1>2, ListTypeCorrect, PTL DEF Spec

\* No record comes on two pages of a listing (NoRepeats).
THEOREM ListingRepeatsNothing == Spec => []NoRepeats
BY ListInvariant, PTL DEF Inv

\* A listing that ended returned all it owed and nothing else (ListedExactly).
THEOREM ListingMissesNothing == Spec => []ListedExactly
BY ListInvariant, PTL DEF Inv

\* Each page but the last brings the cursor further down the listing order, and nothing
\* brings it back (the row comparison of List's query): with finitely many ids and the
\* fairness of FairSpec this is why ListingEnds holds.
THEOREM CursorAdvances == Spec => CursorMovesOn
<1>1. ListTypeOK /\ [Next]_vars =>
        [phase = "more" /\ phase' = "more" =>
           /\ Ahead' \subseteq Ahead
           /\ (\E limit \in 0 .. MaxLimit : NextPage(limit)) => cursor' \in Ahead \ Ahead']_vars
  <2> SUFFICES ASSUME ListTypeOK, [Next]_vars, phase = "more", phase' = "more"
               PROVE  /\ Ahead' \subseteq Ahead
                      /\ (\E limit \in 0 .. MaxLimit : NextPage(limit)) =>
                            cursor' \in Ahead \ Ahead'
    OBVIOUS
  <2>1. ASSUME NEW limit \in 0 .. MaxLimit, NextPage(limit)
        PROVE  Ahead' \subseteq Ahead /\ cursor' \in Ahead \ Ahead'
    <3>1. Page(filter, cursor, limit) /\ UNCHANGED tableVars
      BY <2>1 DEF NextPage
    <3>2. filter \in Filters /\ cursor \in rows /\ cursor # NoCursor /\ cursor \in Ids
      BY DEF ListTypeOK
    <3>3. cursor' \in Beyond(filter, cursor)
      BY <3>1, <3>2, PageSplits
    <3>4. cursor' \in Ids /\ Before(cursor, cursor')
      BY <3>2, <3>3 DEF Beyond, ListTypeOK
    <3>5. Ahead' = {i \in Ids : Before(cursor', i)}
      BY <3>1 DEF Ahead, Before, tableVars
    <3>6. \A i \in Ids : Before(cursor', i) => Before(cursor, i)
      BY <3>2, <3>4, Order
    <3>7. ~ Before(cursor', cursor')
      BY <3>4, Order
    <3> QED BY <3>4, <3>5, <3>6, <3>7 DEF Ahead
  <2>2. ASSUME NEW i \in Ids, Append(i) PROVE Ahead' = Ahead
    BY <2>2 DEF Append, Ahead, Before
  <2>3. ASSUME NEW limit \in 0 .. MaxLimit, NEW f \in Filters, FirstPage(f, limit) PROVE FALSE
    BY <2>3 DEF FirstPage
  <2>4. ASSUME UNCHANGED vars PROVE Ahead' = Ahead
    BY <2>4 DEF vars, tableVars, clientVars, Ahead, Before
  <2>5. Ahead' \subseteq Ahead
    BY <2>1, <2>2, <2>3, <2>4 DEF Next
  <2> QED BY <2>1, <2>5
<1> QED BY <1>1, ListTypeCorrect, PTL DEF Spec, CursorMovesOn
=============================================================================
