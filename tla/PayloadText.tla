----------------------------- MODULE PayloadText -----------------------------
(***************************************************************************)
(* The DETAILS of GenerateText: flattenMap walks a payload into a map from *)
(* dotted names to values, and the names are then written in sorted order. *)
(* Every delivery of a record's event generates its text again.            *)
(*                                                                         *)
(* A leaf is a value of the payload and the path of keys to it; its name   *)
(* is the path joined with dots. range takes the keys of a Go map in any   *)
(* order. A nested map is flattened on its own and then copied, but which  *)
(* leaf of a name is written last is as free as if all leaves were taken   *)
(* in one arbitrary order.                                                 *)
(***************************************************************************)
EXTENDS Integers, Sequences, FiniteSets

CONSTANTS
    Leaves,
    Name,         \* Name[l]: the flattened name, as a number in string order
    Deliveries    \* bound on the generations of the text

ASSUME NameAssumption == Name \in [Leaves -> Int]

VARIABLES
    payload,
    left,         \* the leaves the range has still to take
    flat,         \* result: the value (a leaf) under each name
    generated,
    texts         \* every text generated for the record

vars == <<payload, left, flat, generated, texts>>

Empty == [n \in {} |-> n]

Init ==
    /\ payload \in SUBSET Leaves
    /\ left = payload
    /\ flat = Empty
    /\ generated = 0
    /\ texts = {}

\* result[key] = value: what the name held before is overwritten.
Visit(l) ==
    /\ l \in left
    /\ left' = left \ {l}
    /\ flat' = [n \in DOMAIN flat \cup {Name[l]} |-> IF n = Name[l] THEN l ELSE flat[n]]
    /\ UNCHANGED <<payload, generated, texts>>

\* sort.Strings: the names in increasing order.
Sorted(S) ==
    CHOOSE s \in [1 .. Cardinality(S) -> S] :
        \A i, j \in 1 .. Cardinality(S) : i < j => s[i] < s[j]

Lines(f) == [i \in 1 .. Cardinality(DOMAIN f) |-> f[Sorted(DOMAIN f)[i]]]

\* A slip: the names are not sorted, so the lines come in the order of a range.
EmitUnsorted ==
    /\ left = {}
    /\ generated < Deliveries
    /\ \E s \in [1 .. Cardinality(DOMAIN flat) -> DOMAIN flat] :
         /\ \A i, j \in DOMAIN s : i # j => s[i] # s[j]
         /\ texts' = texts \cup {[i \in DOMAIN s |-> flat[s[i]]]}
    /\ generated' = generated + 1
    /\ left' = payload
    /\ flat' = Empty
    /\ UNCHANGED payload

\* The text is complete; the next delivery starts with an empty result.
Emit ==
    /\ left = {}
    /\ generated < Deliveries
    /\ texts' = texts \cup {Lines(flat)}
    /\ generated' = generated + 1
    /\ left' = payload
    /\ flat' = Empty
    /\ UNCHANGED payload

Next == Emit \/ \E l \in Leaves : Visit(l)

Spec == Init /\ [][Next]_vars

-----------------------------------------------------------------------------

Distinct == \A k, l \in payload : Name[k] = Name[l] => k = l

\* A record has one text, however often and in whatever map order it is generated,
\* when no two of its values flatten to one name. Its embeddings, and the rows that
\* an upsert overwrites, rest on this.
OneText == Distinct => \A s, t \in texts : s = t

\* internal/indexing/text.go:12 says so of every record.
Deterministic == \A s, t \in texts : s = t

-----------------------------------------------------------------------------
(* Why it holds: the inductive invariant *)

LeafOf(n) == CHOOSE l \in payload : Name[l] = n

Flattened(S) == [n \in {Name[l] : l \in S} |-> LeafOf(n)]

FlatIsPayload ==
    /\ payload \subseteq Leaves /\ left \subseteq payload
    /\ Distinct => /\ flat = Flattened(payload \ left)
                   /\ texts \subseteq {Lines(Flattened(payload))}
=============================================================================
