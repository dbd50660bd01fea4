-------------------------- MODULE PayloadTextProofs --------------------------
(***************************************************************************)
(* A record without colliding names has one text: for every set of leaves, *)
(* every naming and any number of deliveries.                              *)
(***************************************************************************)
EXTENDS PayloadText, TLAPS

\* Taking one more leaf of a payload with distinct names adds its own line.
LEMMA FlattenOneMore ==
    ASSUME payload \subseteq Leaves, Distinct,
           NEW S \in SUBSET payload, NEW l \in payload
    PROVE  Flattened(S \cup {l}) =
             [n \in DOMAIN Flattened(S) \cup {Name[l]} |->
                IF n = Name[l] THEN l ELSE Flattened(S)[n]]
<1>1. LeafOf(Name[l]) = l
  BY DEF LeafOf, Distinct
<1>2. DOMAIN Flattened(S) \cup {Name[l]} = {Name[k] : k \in S \cup {l}}
  BY DEF Flattened
<1>3. ASSUME NEW n \in {Name[k] : k \in S \cup {l}}, n # Name[l]
      PROVE  LeafOf(n) = Flattened(S)[n]
  BY <1>3 DEF Flattened
<1>4. Flattened(S \cup {l}) = [n \in {Name[k] : k \in S \cup {l}} |-> LeafOf(n)]
  BY DEF Flattened
<1> QED BY <1>1, <1>2, <1>3, <1>4

\* FlatIsPayload holds in every state.
THEOREM FlatInvariant == Spec => []FlatIsPayload
<1>1. Init => FlatIsPayload
  <2> SUFFICES ASSUME Init PROVE FlatIsPayload
    OBVIOUS
  <2>1. payload \subseteq Leaves /\ left = payload /\ flat = Empty /\ texts = {}
    BY DEF Init
  <2>2. Empty = Flattened(payload \ left)
    BY <2>1 DEF Empty, Flattened
  <2> QED BY <2>1, <2>2 DEF FlatIsPayload
<1>2. FlatIsPayload /\ [Next]_vars => FlatIsPayload'
  <2> SUFFICES ASSUME FlatIsPayload, [Next]_vars PROVE FlatIsPayload'
    OBVIOUS
  <2>1. payload' = payload
    BY DEF Next, Emit, Visit, vars
  <2>2. /\ Distinct' = Distinct
        /\ \A S : Flattened(S)' = Flattened(S)
    BY <2>1 DEF Distinct, Flattened, LeafOf
  <2>3. CASE Emit
    <3>1. /\ left = {} /\ left' = payload /\ flat' = Empty
          /\ texts' = texts \cup {Lines(flat)}
      BY <2>3 DEF Emit
    <3>2. Empty = Flattened({})
      BY DEF Empty, Flattened
    <3>3. payload \ left = payload /\ payload' \ left' = {}
      BY <3>1, <2>1
    <3> QED BY <2>1, <2>2, <3>1, <3>2, <3>3 DEF FlatIsPayload
  <2>4. ASSUME NEW l \in Leaves, Visit(l) PROVE FlatIsPayload'
    <3>1. /\ l \in left /\ left' = left \ {l} /\ texts' = texts
          /\ flat' = [n \in DOMAIN flat \cup {Name[l]} |->
                        IF n = Name[l] THEN l ELSE flat[n]]
      BY <2>4 DEF Visit
    <3>2. (payload \ left) \cup {l} = payload \ left'
      BY <3>1 DEF FlatIsPayload
    <3>3. Distinct => flat' = Flattened(payload \ left')
      <4> SUFFICES ASSUME Distinct PROVE flat' = Flattened(payload \ left')
        OBVIOUS
      <4> DEFINE S == payload \ left
      <4>1. payload \subseteq Leaves /\ l \in payload /\ flat = Flattened(S)
        BY <3>1 DEF FlatIsPayload
      <4>2. Flattened(S \cup {l}) =
              [n \in DOMAIN Flattened(S) \cup {Name[l]} |->
                 IF n = Name[l] THEN l ELSE Flattened(S)[n]]
        BY <4>1, FlattenOneMore
      <4>3. flat' = Flattened(S \cup {l})
        BY <3>1, <4>1, <4>2
      <4> QED BY <3>2, <4>3
    <3> QED BY <2>1, <2>2, <3>1, <3>3 DEF FlatIsPayload
  <2>5. CASE UNCHANGED vars
    BY <2>1, <2>2, <2>5 DEF vars, FlatIsPayload
  <2> QED BY <2>3, <2>4, <2>5 DEF Next
<1> QED BY <1>1, <1>2, PTL DEF Spec

\* docs/whitepaper.md:173, for records whose values flatten to distinct names: the
\* text does not depend on the order in which maps are walked.
THEOREM TextIsDeterministic == Spec => []OneText
<1>1. FlatIsPayload => OneText
  BY DEF FlatIsPayload, OneText
<1> QED BY <1>1, FlatInvariant, PTL
=============================================================================
