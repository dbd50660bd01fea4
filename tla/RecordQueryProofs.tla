------------------------- MODULE RecordQueryProofs --------------------------
(***************************************************************************)
(* What holds of a query for every index, question, limit and size.        *)
(***************************************************************************)
EXTENDS RecordQuery, FiniteSetTheorems, SequenceTheorems, TLAPS

\* A ranking of a set of rows lists its rows, each once, by falling score.
LEMMA RankingLists ==
    ASSUME NEW S \in SUBSET Rows, NEW s \in Rankings(S)
    PROVE  /\ s \in Seq(Rows)
           /\ \A c \in S : \E i \in 1 .. Len(s) : s[i] = c
           /\ \A i \in 1 .. Len(s) : s[i] \in S
           /\ \A i, j \in 1 .. Len(s) : i < j => s[i] # s[j] /\ score[s[i]] >= score[s[j]]
<1>1. Cardinality(S) \in Nat
  BY FS_Subset, FS_CardinalityType, RowAssumption
<1>2. /\ s \in [1 .. Cardinality(S) -> S]
      /\ \A c \in S : \E i \in DOMAIN s : s[i] = c
      /\ \A i, j \in DOMAIN s : i < j => s[i] # s[j] /\ score[s[i]] >= score[s[j]]
  BY DEF Rankings
<1>3. s \in [1 .. Cardinality(S) -> Rows]
  BY <1>2
<1>4. s \in Seq(Rows)
  BY <1>1, <1>3, SeqDef
<1>5. DOMAIN s = 1 .. Len(s)
  BY <1>4
<1>6. \A i \in DOMAIN s : s[i] \in S
  BY <1>2
<1> QED BY <1>2, <1>4, <1>5, <1>6

\* What a block costs.
LEMMA BlockCosts ==
    ASSUME NEW c \in Rows, NEW i \in Nat
    PROVE  Block(i, c) \in Nat /\ Block(i, c) > 0
BY RowAssumption DEF Block

LEMMA ScoresAreNumbers ==
    ASSUME QueryTypeOK, NEW c \in Rows
    PROVE  score[c] \in Int
BY RowAssumption DEF QueryTypeOK

\* The best chunks of the records met so far are rows.
LEMMA BestAreRows ==
    ASSUME QueryTypeOK
    PROVE  {best[r] : r \in DOMAIN best} \in SUBSET Rows
BY DEF QueryTypeOK

-----------------------------------------------------------------------------
(* Type correctness *)

\* Type correctness of one request; used never exceeds the limit of the context.
THEOREM QueryTypeCorrect == Spec => []QueryTypeOK
<1>1. Init => QueryTypeOK
  <2> SUFFICES ASSUME Init PROVE QueryTypeOK
    OBVIOUS
  <2>1. retrieved \in Seq(Rows) /\ unique \in Seq(Rows) /\ Len(retrieved) = 0 /\ Len(unique) = 0
    BY DEF Init
  <2>2. DOMAIN best = {}
    BY DEF Init
  <2> QED BY <2>1, <2>2, RowAssumption DEF Init, QueryTypeOK, Replies
<1>2. QueryTypeOK /\ [Next]_vars => QueryTypeOK'
  <2> SUFFICES ASSUME QueryTypeOK, [Next]_vars PROVE QueryTypeOK'
    OBVIOUS
  <2>1. ASSUME NEW r \in Replies \ {"none"}, Reply(r) PROVE QueryTypeOK'
    BY <2>1 DEF QueryTypeOK, Reply, asked
  <2>2. CASE Refuse \/ RetrieveFails \/ ReplyResults \/ ReplyNothing
    BY <2>1, <2>2 DEF Refuse, RetrieveFails, ReplyResults, ReplyNothing, Replies
  <2>3. CASE LLMFails \/ LLMUnparsable \/ Answer
    BY <2>1, <2>3 DEF LLMFails, LLMUnparsable, Answer, Replies
  <2>4. CASE Retrieve
    <3>1. PICK S \in SUBSET {c \in Rows : Matches(c)} : retrieved' \in Rankings(S)
      BY <2>4 DEF Retrieve
    <3>2. retrieved' \in Seq(Rows)
      BY <3>1, RankingLists
    <3>3. /\ pc = "asked" /\ pc' = "retrieved"
          /\ UNCHANGED <<ask, score, turn, best, unique, blocks, used, reply>>
      BY <2>4 DEF Retrieve, asked
    <3>4. turn' \in 1 .. Len(retrieved') + 1
      BY <3>2, <3>3 DEF QueryTypeOK
    <3> QED BY <3>2, <3>3, <3>4 DEF QueryTypeOK
  <2>5. CASE KeepBest
    <3>1. /\ turn \in 1 .. Len(retrieved)
          /\ turn' = turn + 1 /\ pc = "retrieved"
          /\ UNCHANGED <<ask, score, pc, retrieved, unique, blocks, used, reply>>
      BY <2>5 DEF KeepBest, asked, QueryTypeOK
    <3>2. retrieved[turn] \in Rows
      BY <3>1 DEF QueryTypeOK
    <3>3. \/ best' = best
          \/ best' = [x \in DOMAIN best \cup {RecordOf[retrieved[turn]]} |->
                        IF x = RecordOf[retrieved[turn]] THEN retrieved[turn] ELSE best[x]]
      BY <2>5 DEF KeepBest
    <3>4. /\ DOMAIN best' \subseteq {RecordOf[c] : c \in Rows}
          /\ \A r \in DOMAIN best' : best'[r] \in Rows
      BY <3>2, <3>3 DEF QueryTypeOK
    <3>5. turn' \in 1 .. Len(retrieved) + 1
      BY <3>1 DEF QueryTypeOK
    <3> QED BY <3>1, <3>4, <3>5 DEF QueryTypeOK
  <2>6. CASE Rank
    <3>1. /\ pc = "retrieved" /\ pc' = "writing"
          /\ unique' \in Rankings({best[r] : r \in DOMAIN best})
          /\ UNCHANGED <<ask, score, retrieved, turn, best, blocks, used, reply>>
      BY <2>6 DEF Rank, asked
    <3>2. unique' \in Seq(Rows)
      BY <3>1, RankingLists, BestAreRows
    <3>3. blocks = 0
      BY <3>1 DEF QueryTypeOK
    <3> QED BY <3>1, <3>2, <3>3 DEF QueryTypeOK
  <2>7. CASE WriteBlock
    <3>1. /\ pc = "writing" /\ blocks < Len(unique) /\ used + Candidate <= MaxContext
          /\ blocks' = blocks + 1 /\ used' = used + Candidate
          /\ UNCHANGED <<ask, score, pc, retrieved, turn, best, unique, reply>>
      BY <2>7 DEF WriteBlock, asked
    <3>2. blocks + 1 \in 1 .. Len(unique)
      BY <3>1 DEF QueryTypeOK
    <3>3. unique[blocks + 1] \in Rows
      BY <3>2 DEF QueryTypeOK
    <3>4. Block(blocks + 1, unique[blocks + 1]) \in Nat
      BY <3>2, <3>3, BlockCosts
    <3>5. Candidate \in Nat
      BY <3>4 DEF Candidate
    <3>6. used' \in 0 .. MaxContext
      BY <3>1, <3>5, RowAssumption DEF QueryTypeOK
    <3> QED BY <3>1, <3>2, <3>6 DEF QueryTypeOK
  <2>8. CASE StopWriting
    BY <2>8 DEF StopWriting, QueryTypeOK, asked
  <2>9. CASE UNCHANGED vars
    BY <2>9 DEF vars, QueryTypeOK
  <2> QED BY <2>2, <2>3, <2>4, <2>5, <2>6, <2>7, <2>8, <2>9 DEF Next
<1> QED BY <1>1, <1>2, PTL DEF Spec

-----------------------------------------------------------------------------
(* The inductive invariant *)

\* The three loops: best, unique and blocks.
Core == QueryTypeOK /\ QueryInv /\ OneBlockPerRecord /\ Grounded

\* A ranking is of something when a chunk was retrieved.
LEMMA SomethingRanked ==
    ASSUME QueryTypeOK, BestSoFar, turn = Len(retrieved) + 1, retrieved # <<>>
    PROVE  {best[r] : r \in DOMAIN best} # {}
<1>1. 1 \in 1 .. turn - 1
  BY DEF QueryTypeOK
<1>2. RecordOf[retrieved[1]] \in DOMAIN best
  BY <1>1 DEF BestSoFar
<1> QED BY <1>2

LEMMA CoreInit == Init => Core
<1> SUFFICES ASSUME Init PROVE Core
  OBVIOUS
<1>1. QueryTypeOK
  <2>1. retrieved \in Seq(Rows) /\ unique \in Seq(Rows) /\ Len(retrieved) = 0 /\ Len(unique) = 0
    BY DEF Init
  <2>2. DOMAIN best = {}
    BY DEF Init
  <2> QED BY <2>1, <2>2, RowAssumption DEF Init, QueryTypeOK, Replies
<1>2. BestSoFar
  <2>1. DOMAIN best = {} /\ 1 .. turn - 1 = {}
    BY DEF Init
  <2> QED BY <2>1 DEF BestSoFar
<1>3. Ranked /\ OneBlockPerRecord /\ Grounded
  BY DEF Init, Ranked, OneBlockPerRecord, Grounded
<1> QED BY <1>1, <1>2, <1>3 DEF Core, QueryInv

\* One turn of the deduplication: best is right for one chunk more.
LEMMA KeepBestStep ==
    ASSUME QueryTypeOK, BestSoFar, KeepBest
    PROVE  BestSoFar'
<1> DEFINE c == retrieved[turn]
           q == RecordOf[c]
<1>1. /\ turn \in 1 .. Len(retrieved) /\ turn' = turn + 1
      /\ score' = score /\ retrieved' = retrieved
  BY DEF KeepBest, asked, QueryTypeOK
<1>2. \A j \in 1 .. Len(retrieved) : retrieved[j] \in Rows
  BY DEF QueryTypeOK
<1>3. 1 .. turn' - 1 = (1 .. turn - 1) \cup {turn}
  BY <1>1
<1>4. /\ DOMAIN best' = DOMAIN best \cup {q}
      /\ \A r \in DOMAIN best \ {q} : best'[r] = best[r]
      /\ \/ best'[q] = c
         \/ q \in DOMAIN best /\ best'[q] = best[q] /\ ~(score[c] > score[best[q]])
      /\ q \in DOMAIN best => best'[q] = best[q] \/ score[c] > score[best[q]]
  BY DEF KeepBest
<1>5. \A r \in DOMAIN best' : RecordOf[best'[r]] = r /\ best'[r] \in Rows
  <2> SUFFICES ASSUME NEW r \in DOMAIN best'
               PROVE  RecordOf[best'[r]] = r /\ best'[r] \in Rows
    OBVIOUS
  <2>1. r \in DOMAIN best => RecordOf[best[r]] = r /\ best[r] \in Rows
    BY DEF BestSoFar, QueryTypeOK
  <2>2. (best'[r] = c /\ r = q) \/ (best'[r] = best[r] /\ r \in DOMAIN best)
    BY <1>4
  <2>3. c \in Rows
    BY <1>1, <1>2
  <2> QED BY <2>1, <2>2, <2>3
<1>6. DOMAIN best' = {RecordOf[retrieved[j]] : j \in 1 .. turn' - 1}
  BY <1>3, <1>4 DEF BestSoFar
<1>7. \A r \in DOMAIN best : score[best'[r]] >= score[best[r]]
  <2> SUFFICES ASSUME NEW r \in DOMAIN best PROVE score[best'[r]] >= score[best[r]]
    OBVIOUS
  <2>1. best[r] \in Rows /\ c \in Rows
    BY <1>1, <1>2 DEF QueryTypeOK
  <2>2. score[best[r]] \in Int /\ score[c] \in Int
    BY <2>1, ScoresAreNumbers
  <2> QED BY <2>2, <1>4
<1>8. \A j \in 1 .. turn' - 1 : score[best'[RecordOf[retrieved[j]]]] >= score[retrieved[j]]
  <2> SUFFICES ASSUME NEW j \in 1 .. turn' - 1
               PROVE  score[best'[RecordOf[retrieved[j]]]] >= score[retrieved[j]]
    OBVIOUS
  <2>1. CASE j = turn
    <3>1. score[c] \in Int /\ score[best'[q]] \in Int
      BY <1>1, <1>2, <1>4, <1>5, ScoresAreNumbers
    <3>2. score[best'[q]] >= score[c]
      BY <1>4, <3>1
    <3> QED BY <2>1, <3>2
  <2>2. CASE j \in 1 .. turn - 1
    <3> DEFINE r == RecordOf[retrieved[j]]
    <3>1. r \in DOMAIN best /\ score[best[r]] >= score[retrieved[j]]
      BY <2>2 DEF BestSoFar
    <3>2. best[r] \in Rows /\ best'[r] \in Rows
      BY <3>1, <1>4, <1>5 DEF QueryTypeOK
    <3>3. retrieved[j] \in Rows
      BY <1>1, <1>2, <2>2
    <3>4. score[best[r]] \in Int /\ score[best'[r]] \in Int /\ score[retrieved[j]] \in Int
      BY <3>2, <3>3, ScoresAreNumbers
    <3>5. score[best'[r]] >= score[best[r]]
      BY <3>1, <1>7
    <3> QED BY <3>1, <3>4, <3>5
  <2> QED BY <1>3, <2>1, <2>2
<1> QED BY <1>1, <1>5, <1>6, <1>8 DEF BestSoFar

LEMMA RankStep ==
    ASSUME QueryTypeOK, QueryInv, Rank
    PROVE  Ranked' /\ OneBlockPerRecord' /\ Grounded'
<1> DEFINE S == {best[r] : r \in DOMAIN best}
<1>1. /\ pc' = "writing" /\ reply' = reply /\ reply = "none"
      /\ retrieved # <<>> /\ turn > Len(retrieved)
      /\ unique' \in Rankings(S)
      /\ UNCHANGED <<score, retrieved, turn, best, blocks, used>>
  BY DEF Rank, asked, QueryTypeOK
<1>2. turn = Len(retrieved) + 1
  BY <1>1 DEF QueryTypeOK
<1>3. Rankings(S)' = Rankings(S)
  BY <1>1 DEF Rankings
<1>4. blocks = 0 /\ used = 0
  BY <1>1 DEF Rank, QueryInv, Ranked, QueryTypeOK
<1>5. Ranked'
  BY <1>1, <1>2, <1>3, <1>4 DEF Ranked
<1>6. \A i, j \in DOMAIN unique' : RecordOf[unique'[i]] = RecordOf[unique'[j]] => i = j
  <2> SUFFICES ASSUME NEW i \in DOMAIN unique', NEW j \in DOMAIN unique',
                      RecordOf[unique'[i]] = RecordOf[unique'[j]]
               PROVE  i = j
    OBVIOUS
  <2>1. /\ unique' \in Seq(Rows)
        /\ \A k \in 1 .. Len(unique') : unique'[k] \in S
        /\ \A k, l \in 1 .. Len(unique') : k < l => unique'[k] # unique'[l]
    <3> HIDE DEF S
    <3>1. S \in SUBSET Rows
      BY BestAreRows DEF S
    <3>2. unique' \in Rankings(S)
      BY <1>1
    <3> QED BY ONLY <3>1, <3>2, RankingLists
  <2>2. i \in 1 .. Len(unique') /\ j \in 1 .. Len(unique')
    BY <2>1
  <2>3. \A c \in S : best[RecordOf[c]] = c
    BY DEF QueryInv, BestSoFar
  <2>4. unique'[i] \in S /\ unique'[j] \in S
    BY <2>1, <2>2
  <2>5. unique'[i] = unique'[j]
    BY <2>3, <2>4
  <2> QED BY <2>1, <2>2, <2>5
<1> QED BY <1>1, <1>5, <1>6 DEF OneBlockPerRecord, Grounded

LEMMA WriteBlockStep ==
    ASSUME QueryTypeOK, QueryInv, WriteBlock
    PROVE  Ranked'
<1>1. /\ pc = "writing" /\ pc' = "writing" /\ blocks < Len(unique)
      /\ blocks' = blocks + 1 /\ used' = used + Candidate
      /\ UNCHANGED <<score, retrieved, turn, best, unique, reply>>
  BY DEF WriteBlock, asked
<1>2. Rankings({best[r] : r \in DOMAIN best})' = Rankings({best[r] : r \in DOMAIN best})
  BY <1>1 DEF Rankings
<1>3. blocks + 1 \in 1 .. Len(unique) /\ used \in Nat
  BY <1>1, RowAssumption DEF QueryTypeOK
<1>4. unique[blocks + 1] \in Rows
  BY <1>3 DEF QueryTypeOK
<1>5. Block(blocks + 1, unique[blocks + 1]) \in Nat /\ Block(blocks + 1, unique[blocks + 1]) > 0
  BY <1>3, <1>4, BlockCosts
<1>6. Candidate \in Nat /\ Candidate > 0
  BY <1>5 DEF Candidate
<1>7. blocks' # 0 /\ used' # 0
  BY <1>1, <1>3, <1>6
<1> QED BY <1>1, <1>2, <1>7 DEF QueryInv, Ranked

LEMMA StopWritingStep ==
    ASSUME QueryTypeOK, QueryInv, StopWriting
    PROVE  Ranked'
<1>1. /\ pc = "writing" /\ pc' = "prompting"
      /\ blocks < Len(unique) => used + Candidate > MaxContext
      /\ UNCHANGED <<score, retrieved, turn, best, unique, blocks, used, reply>>
  BY DEF StopWriting, asked
<1>2. Rankings({best[r] : r \in DOMAIN best})' = Rankings({best[r] : r \in DOMAIN best})
  BY <1>1 DEF Rankings
<1>3. /\ turn = Len(retrieved) + 1 /\ retrieved # <<>>
      /\ unique \in Rankings({best[r] : r \in DOMAIN best})
      /\ blocks = 0 <=> used = 0
  BY <1>1 DEF QueryInv, Ranked
<1>4. Len(unique) > 0
  <2>1. PICK c \in {best[r] : r \in DOMAIN best} : TRUE
    BY <1>3, SomethingRanked DEF QueryInv
  <2>2. \E i \in 1 .. Len(unique) : unique[i] = c
    BY <1>3, <2>1, BestAreRows, RankingLists
  <2> QED BY <2>2 DEF QueryTypeOK
<1>5. blocks = 0 => Block(1, unique[1]) > MaxContext
  <2> SUFFICES ASSUME blocks = 0 PROVE Block(1, unique[1]) > MaxContext
    OBVIOUS
  <2>1. used = 0 /\ used + Candidate > MaxContext /\ 1 \in 1 .. Len(unique)
    BY <1>1, <1>3, <1>4 DEF QueryTypeOK
  <2>2. unique[1] \in Rows
    BY <2>1 DEF QueryTypeOK
  <2>3. Block(1, unique[1]) \in Nat
    BY <2>2, BlockCosts
  <2> QED BY <2>1, <2>3 DEF Candidate
<1>6. (Block(1, unique[1]) > MaxContext)' <=> Block(1, unique[1]) > MaxContext
  BY <1>1 DEF Block
<1> QED BY <1>1, <1>2, <1>3, <1>5, <1>6 DEF Ranked

\* What the reply to a question was made from.
LEMMA AnswerStep ==
    ASSUME QueryTypeOK, QueryInv, Answer
    PROVE  Ranked' /\ Grounded'
<1>1. /\ pc = "prompting" /\ pc' = "replied" /\ reply' = "answered"
      /\ UNCHANGED <<score, retrieved, turn, best, unique, blocks, used>>
  BY DEF Answer, Reply, asked
<1>2. Rankings({best[r] : r \in DOMAIN best})' = Rankings({best[r] : r \in DOMAIN best})
  BY <1>1 DEF Rankings
<1>3. /\ turn = Len(retrieved) + 1 /\ retrieved # <<>>
      /\ unique \in Rankings({best[r] : r \in DOMAIN best})
      /\ blocks = 0 => Block(1, unique[1]) > MaxContext
      /\ blocks = 0 <=> used = 0
  BY <1>1 DEF QueryInv, Ranked
<1>4. unique # <<>>
  <2>1. PICK c \in {best[r] : r \in DOMAIN best} : TRUE
    BY <1>3, SomethingRanked DEF QueryInv
  <2>2. \E i \in 1 .. Len(unique) : unique[i] = c
    BY <1>3, <2>1, BestAreRows, RankingLists
  <2> QED BY <2>2
<1>5. blocks > 0 \/ blocks = 0
  BY DEF QueryTypeOK
<1> QED BY <1>1, <1>2, <1>3, <1>4, <1>5 DEF Ranked, Grounded, Block

LEMMA CoreStep == Core /\ QueryTypeOK' /\ [Next]_vars => Core'
<1> SUFFICES ASSUME Core, QueryTypeOK', [Next]_vars PROVE Core'
  OBVIOUS
<1> USE DEF Core, QueryInv
<1>1. ASSUME NEW r \in Replies \ {"none", "answered"}, Reply(r) PROVE Core'
  <2>1. /\ pc' = "replied" /\ reply' = r
        /\ UNCHANGED <<ask, score, retrieved, turn, best, unique, blocks, used>>
    BY <1>1 DEF Reply, asked
  <2> QED BY <2>1 DEF BestSoFar, Ranked, OneBlockPerRecord, Grounded
<1>2. CASE Refuse \/ RetrieveFails \/ ReplyResults \/ ReplyNothing
  BY <1>1, <1>2 DEF Refuse, RetrieveFails, ReplyResults, ReplyNothing, Replies
<1>3. CASE LLMFails \/ LLMUnparsable
  BY <1>1, <1>3 DEF LLMFails, LLMUnparsable, Replies
<1>4. CASE Answer
  <2>1. UNCHANGED <<score, retrieved, turn, best, unique>>
    BY <1>4 DEF Answer, Reply, asked
  <2> QED BY <1>4, <2>1, AnswerStep DEF BestSoFar, OneBlockPerRecord
<1>5. CASE Retrieve
  <2>1. /\ pc = "asked" /\ pc' = "retrieved" /\ turn = 1
        /\ UNCHANGED <<score, turn, best, unique, blocks, used, reply>>
    BY <1>5 DEF Retrieve, asked, QueryTypeOK
  <2>2. 1 .. turn - 1 = {} /\ 1 .. turn' - 1 = {}
    BY <2>1
  <2>3. BestSoFar'
    BY <2>1, <2>2 DEF BestSoFar
  <2> QED BY <2>1, <2>3 DEF Ranked, OneBlockPerRecord, Grounded, QueryTypeOK
<1>6. CASE KeepBest
  <2>1. /\ pc = "retrieved" /\ UNCHANGED <<score, pc, retrieved, unique, blocks, used, reply>>
    BY <1>6 DEF KeepBest, asked
  <2> QED BY <1>6, <2>1, KeepBestStep DEF Ranked, OneBlockPerRecord, Grounded, QueryTypeOK
<1>7. CASE Rank
  <2>1. UNCHANGED <<score, retrieved, turn, best>>
    BY <1>7 DEF Rank, asked
  <2> QED BY <1>7, <2>1, RankStep DEF BestSoFar
<1>8. CASE WriteBlock
  <2>1. /\ pc = "writing" /\ UNCHANGED <<score, retrieved, turn, best, unique, reply>>
    BY <1>8 DEF WriteBlock, asked
  <2>2. BestSoFar' /\ OneBlockPerRecord'
    BY <2>1 DEF BestSoFar, OneBlockPerRecord
  <2>3. Grounded'
    BY <2>1 DEF QueryTypeOK, Grounded
  <2> QED BY <1>8, <2>2, <2>3, WriteBlockStep
<1>9. CASE StopWriting
  <2>1. /\ pc = "writing" /\ UNCHANGED <<score, retrieved, turn, best, unique, reply>>
    BY <1>9 DEF StopWriting, asked
  <2>2. BestSoFar' /\ OneBlockPerRecord'
    BY <2>1 DEF BestSoFar, OneBlockPerRecord
  <2>3. Grounded'
    BY <2>1 DEF QueryTypeOK, Grounded
  <2> QED BY <1>9, <2>2, <2>3, StopWritingStep
<1>10. CASE UNCHANGED vars
  <2>1. Rankings({best[r] : r \in DOMAIN best})' = Rankings({best[r] : r \in DOMAIN best})
    BY <1>10 DEF vars, Rankings
  <2> QED BY <1>10, <2>1 DEF vars, BestSoFar, Ranked, OneBlockPerRecord, Grounded, Block
<1> QED BY <1>2, <1>3, <1>4, <1>5, <1>6, <1>7, <1>8, <1>9, <1>10 DEF Next

\* The inductive invariant holds in every state.
THEOREM QueryInvariant == Spec => []Core
<1>1. Core => QueryTypeOK
  BY DEF Core
<1> QED BY CoreInit, CoreStep, QueryTypeCorrect, PTL DEF Spec

-----------------------------------------------------------------------------
(* What follows *)

\* No record takes two blocks of the context.
THEOREM RecordsSpeakOnce == Spec => []OneBlockPerRecord
<1>1. Core => OneBlockPerRecord
  BY DEF Core
<1> QED BY <1>1, QueryInvariant, PTL

\* An answer rests on records, or on a best block that is too long.
THEOREM AnswersAreGrounded == Spec => []Grounded
<1>1. Core => Grounded
  BY DEF Core
<1> QED BY <1>1, QueryInvariant, PTL

\* What deduplication and cut leave out is never better than what they keep.
THEOREM BestIsKept == Spec => []NothingBetterDropped
<1>1. Core => NothingBetterDropped
  <2> SUFFICES ASSUME Core, pc = "prompting",
                      NEW i \in 1 .. blocks, NEW j \in DOMAIN retrieved,
                      score[retrieved[j]] > score[unique[i]]
               PROVE  \E k \in 1 .. i - 1 :
                         /\ RecordOf[unique[k]] = RecordOf[retrieved[j]]
                         /\ score[unique[k]] >= score[retrieved[j]]
    BY DEF NothingBetterDropped
  <2> DEFINE r == RecordOf[retrieved[j]]
             S == {best[q] : q \in DOMAIN best}
  <2>1. QueryTypeOK /\ BestSoFar /\ turn = Len(retrieved) + 1 /\ unique \in Rankings(S)
    BY DEF Core, QueryInv, Ranked
  <2>2. j \in 1 .. Len(retrieved) /\ i \in 1 .. Len(unique)
    BY <2>1 DEF QueryTypeOK
  <2>3. j \in 1 .. turn - 1
    BY <2>1, <2>2 DEF QueryTypeOK
  <2>4. r \in DOMAIN best /\ RecordOf[best[r]] = r /\ score[best[r]] >= score[retrieved[j]]
    BY <2>1, <2>3 DEF BestSoFar
  <2>5. /\ \A c \in S : \E k \in 1 .. Len(unique) : unique[k] = c
        /\ \A k, l \in 1 .. Len(unique) : k < l => score[unique[k]] >= score[unique[l]]
    BY <2>1, BestAreRows, RankingLists
  <2>6. PICK k \in 1 .. Len(unique) : unique[k] = best[r]
    BY <2>4, <2>5
  <2>7. /\ best[r] \in Rows /\ retrieved[j] \in Rows /\ unique[i] \in Rows
    BY <2>1, <2>2, <2>4 DEF QueryTypeOK
  <2>8. score[best[r]] \in Int /\ score[retrieved[j]] \in Int /\ score[unique[i]] \in Int
    BY <2>1, <2>7, ScoresAreNumbers
  <2>9. k < i
    <3>1. score[unique[k]] > score[unique[i]]
      BY <2>4, <2>6, <2>8
    <3>2. ~(i < k)
      BY <2>2, <2>5, <2>6, <2>8, <3>1
    <3>3. i # k
      BY <2>6, <2>8, <3>1
    <3> QED BY <2>2, <2>6, <3>2, <3>3
  <2>10. k \in 1 .. i - 1
    BY <2>2, <2>6, <2>9
  <2> QED BY <2>4, <2>6, <2>10
<1> QED BY <1>1, QueryInvariant, PTL

-----------------------------------------------------------------------------
(* The length of the context *)

\* What the k-th block adds to the length.
Cost(k) == Block(k, unique[k]) + IF k > 1 THEN 2 ELSE 0

\* f holds the lengths of the first 0, 1, ... n blocks: the table that Joined(n) is
\* computed by.
Lengths(f, n) ==
    f = [k \in 0 .. n |-> IF k = 0 THEN 0
                          ELSE f[k - 1] + Block(k, unique[k]) + IF k > 1 THEN 2 ELSE 0]

\* There is such a table, and its last entry is u.
Total(n, u) ==
    /\ \E f : Lengths(f, n)
    /\ \A f : Lengths(f, n) => f[n] = u

LEMMA TotalIsJoined ==
    ASSUME NEW n \in Nat, NEW u, Total(n, u)
    PROVE  Joined(n) = u
<1> DEFINE len == CHOOSE f : Lengths(f, n)
<1>1. Lengths(len, n)
  BY DEF Total
<1>2. Joined(n) = len[n]
  BY DEF Joined, Lengths
<1> QED BY <1>1, <1>2 DEF Total

LEMMA TotalOfNone == Total(0, 0)
<1>1. Lengths([k \in 0 .. 0 |-> 0], 0)
  BY DEF Lengths
<1>2. ASSUME NEW f, Lengths(f, 0) PROVE f[0] = 0
  BY <1>2 DEF Lengths
<1> QED BY <1>1, <1>2 DEF Total

LEMMA TotalOfOneMore ==
    ASSUME NEW n \in Nat, NEW u \in Nat, Total(n, u), Block(n + 1, unique[n + 1]) \in Nat
    PROVE  Total(n + 1, u + Cost(n + 1))
<1> DEFINE Entry(f, k) == IF k = 0 THEN 0 ELSE f[k - 1] + Block(k, unique[k]) + IF k > 1 THEN 2 ELSE 0
<1>1. \E f : Lengths(f, n + 1)
  <2>1. PICK g : Lengths(g, n)
    BY DEF Total
  <2> DEFINE f == [k \in 0 .. n + 1 |-> IF k = n + 1 THEN u + Cost(n + 1) ELSE g[k]]
  <2>2. \A k \in 0 .. n : g[k] = Entry(g, k)
    BY <2>1 DEF Lengths
  <2>3. g[n] = u
    BY <2>1 DEF Total
  <2>4. \A k \in 0 .. n : f[k] = g[k]
    OBVIOUS
  <2>5. \A k \in 1 .. n + 1 : f[k - 1] = g[k - 1]
    BY <2>4
  <2>6. \A k \in 0 .. n + 1 : f[k] = Entry(f, k)
    <3>1. \A k \in 0 .. n : f[k] = Entry(f, k)
      BY <2>2, <2>4, <2>5
    <3>2. f[n + 1] = u + Cost(n + 1) /\ f[(n + 1) - 1] = u
      BY <2>3, <2>4
    <3>3. Entry(f, n + 1) = u + Block(n + 1, unique[n + 1]) + IF n + 1 > 1 THEN 2 ELSE 0
      BY <3>2
    <3>4. f[n + 1] = Entry(f, n + 1)
      BY <3>2, <3>3 DEF Cost
    <3> HIDE DEF f, Entry
    <3> QED BY <3>1, <3>4
  <2>7. f = [k \in 0 .. n + 1 |-> Entry(f, k)]
    BY <2>6
  <2> QED BY <2>7 DEF Lengths
<1>2. ASSUME NEW f, Lengths(f, n + 1) PROVE f[n + 1] = u + Cost(n + 1)
  <2> DEFINE g == [k \in 0 .. n |-> f[k]]
  <2>1. \A k \in 0 .. n + 1 : f[k] = Entry(f, k)
    BY <1>2 DEF Lengths
  <2>2. \A k \in 1 .. n : g[k - 1] = f[k - 1]
    OBVIOUS
  <2>3. \A k \in 0 .. n : g[k] = Entry(g, k)
    BY <2>1, <2>2
  <2>4. g = [k \in 0 .. n |-> Entry(g, k)]
    BY <2>3
  <2>5. g[n] = u
    BY <2>4 DEF Total, Lengths
  <2>6. f[n] = u /\ f[(n + 1) - 1] = u
    BY <2>5
  <2>7. f[n + 1] = u + Block(n + 1, unique[n + 1]) + IF n + 1 > 1 THEN 2 ELSE 0
    BY <2>1, <2>6
  <2> QED BY <2>7 DEF Cost
<1> QED BY <1>1, <1>2 DEF Total

\* The count and the table stay together from block to block.
Counted == Total(blocks, used) /\ CutWhenFull

LEMMA TotalUnchanged ==
    ASSUME UNCHANGED <<unique, blocks, used>>, Total(blocks, used)
    PROVE  Total(blocks, used)'
BY DEF Total, Lengths, Block

LEMMA CountedStep ==
    ASSUME Core, Counted, [Next]_vars
    PROVE  Counted'
<1>1. ASSUME NEW r, Reply(r) PROVE Counted'
  BY <1>1, TotalUnchanged DEF Reply, asked, Counted, CutWhenFull
<1>2. CASE Refuse \/ RetrieveFails \/ ReplyResults \/ ReplyNothing
  BY <1>1, <1>2 DEF Refuse, RetrieveFails, ReplyResults, ReplyNothing
<1>3. CASE LLMFails \/ LLMUnparsable \/ Answer
  BY <1>1, <1>3 DEF LLMFails, LLMUnparsable, Answer
<1>4. CASE Retrieve \/ KeepBest
  BY <1>4, TotalUnchanged DEF Retrieve, KeepBest, asked, Counted, CutWhenFull
<1>5. CASE Rank
  <2>1. blocks' = 0 /\ used' = 0 /\ pc' = "writing"
    BY <1>5 DEF Rank, asked, Core, QueryInv, Ranked, QueryTypeOK
  <2>2. Total(0, 0)'
    BY TotalOfNone, PTL
  <2> QED BY <2>1, <2>2 DEF Counted, CutWhenFull, Total, Lengths
<1>6. CASE WriteBlock
  <2>1. /\ pc' = "writing" /\ blocks < Len(unique)
        /\ blocks' = blocks + 1 /\ used' = used + Candidate /\ unique' = unique
        /\ pc = "writing"
    BY <1>6 DEF WriteBlock, asked
  <2>2. blocks + 1 \in 1 .. Len(unique) /\ blocks \in Nat /\ used \in Nat
    BY <2>1, RowAssumption DEF Core, QueryTypeOK
  <2>3. Block(blocks + 1, unique[blocks + 1]) \in Nat
    <3>1. unique[blocks + 1] \in Rows
      BY <2>2 DEF Core, QueryTypeOK
    <3> QED BY <2>2, <3>1, BlockCosts
  <2>4. blocks > 0 <=> used > 0
    BY <2>1, <2>2 DEF Core, QueryInv, Ranked
  <2>5. Candidate = Cost(blocks + 1)
    BY <2>2, <2>4 DEF Candidate, Cost
  <2>6. Total(blocks + 1, used + Candidate)
    BY <2>2, <2>3, <2>5, TotalOfOneMore DEF Counted
  <2>7. Total(blocks', used')
    BY <2>1, <2>6
  <2>8. Total(blocks, used)'
    BY <2>1, <2>7 DEF Total, Lengths, Block
  <2> QED BY <2>1, <2>8 DEF Counted, CutWhenFull
<1>7. CASE StopWriting
  BY <1>7, TotalUnchanged DEF StopWriting, asked, Counted, CutWhenFull, Candidate, Block
<1>8. CASE UNCHANGED vars
  BY <1>8, TotalUnchanged DEF vars, Counted, CutWhenFull, Candidate, Block
<1> QED BY <1>2, <1>3, <1>4, <1>5, <1>6, <1>7, <1>8 DEF Next

THEOREM CountInvariant == Spec => []Counted
<1>1. Init => Counted
  BY TotalOfNone DEF Init, Counted, CutWhenFull
<1> QED BY <1>1, CountedStep, QueryInvariant, PTL DEF Spec

\* The context is the longest sequence of best blocks that fits the limit: the bytes
\* counted on the way are its length, and the block that was cut would exceed it.
THEOREM ContextIsLongest == Spec => []LongestThatFits
<1>1. ASSUME Core, Counted PROVE LongestThatFits
  <2> SUFFICES ASSUME pc = "prompting"
               PROVE  /\ Joined(blocks) <= MaxContext
                      /\ blocks < Len(unique) => Joined(blocks + 1) > MaxContext
    BY DEF LongestThatFits
  <2>1. blocks \in Nat /\ used \in Nat /\ used <= MaxContext
    BY <1>1, RowAssumption DEF Core, QueryTypeOK
  <2>2. Joined(blocks) = used
    BY <1>1, <2>1, TotalIsJoined DEF Counted
  <2>3. CASE blocks < Len(unique)
    <3>1. blocks + 1 \in 1 .. Len(unique)
      BY <1>1, <2>3 DEF Core, QueryTypeOK
    <3>2. Block(blocks + 1, unique[blocks + 1]) \in Nat
      BY <1>1, <3>1, BlockCosts DEF Core, QueryTypeOK
    <3>3. blocks > 0 <=> used > 0
      BY <1>1, <2>1 DEF Core, QueryInv, Ranked
    <3>4. Candidate = Cost(blocks + 1)
      BY <2>1, <3>3 DEF Candidate, Cost
    <3>5. Joined(blocks + 1) = used + Candidate
      <4>1. Total(blocks + 1, used + Candidate)
        BY <1>1, <2>1, <3>2, <3>4, TotalOfOneMore DEF Counted
      <4> QED BY <2>1, <4>1, TotalIsJoined
    <3> QED BY <1>1, <2>2, <2>3, <2>1, <3>5 DEF Counted, CutWhenFull
  <2> QED BY <2>1, <2>2, <2>3
<1> QED BY <1>1, QueryInvariant, CountInvariant, PTL
=============================================================================
