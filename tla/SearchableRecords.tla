------------------------- MODULE SearchableRecords -------------------------
(***************************************************************************)
(* What the motor promises to a client of the API and to a search, with    *)
(* none of the machinery (event, stream, workers, transactions) that       *)
(* delivers it:                                                            *)
(*                                                                         *)
(*   - the store of facts only grows; a request is answered "created" only *)
(*     about a fact that is already stored, "rejected" only about one that *)
(*     is not and never will be; after any other answer, or none, its fact *)
(*     may be stored already, later or not at all;                         *)
(*   - a stored fact may become visible to a search, later and not always, *)
(*     but then with all of its chunks at once and for ever.               *)
(*                                                                         *)
(* RecordIndexing implements this module.                                  *)
(***************************************************************************)
EXTENDS TrackedRecords

VARIABLES
    stored,       \* the facts in the append-only store
    answer,       \* what the client of each request was told
    visible       \* the chunks of each record a search can return

avars == <<stored, answer, visible>>

Answers == {"none", "rejected", "created", "failed", "cut"}

AInit ==
    /\ stored = {}
    /\ answer = [r \in Records |-> "none"]
    /\ visible = [r \in Records |-> {}]

Store(r) ==
    /\ answer[r] \in {"none", "failed", "cut"}
    /\ stored' = stored \cup {r}
    /\ UNCHANGED <<answer, visible>>

\* A crash cuts several requests at once.
Answer(S, a) ==
    /\ \A r \in S : answer[r] = "none"
    /\ a = "created" => S \subseteq stored
    /\ a = "rejected" => S \cap stored = {}
    /\ answer' = [r \in Records |-> IF r \in S THEN a ELSE answer[r]]
    /\ UNCHANGED <<stored, visible>>

Reveal(r) ==
    /\ r \in stored
    /\ visible[r] = {}
    /\ visible' = [visible EXCEPT ![r] = Chunks(r)]
    /\ UNCHANGED <<stored, answer>>

ANext ==
    \/ \E r \in Records : Store(r) \/ Reveal(r)
    \/ \E S \in SUBSET Records, a \in Answers \ {"none"} : Answer(S, a)

ASpec == AInit /\ [][ANext]_avars
=============================================================================
