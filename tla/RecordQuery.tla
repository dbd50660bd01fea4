----------------------------- MODULE RecordQuery -----------------------------
(***************************************************************************)
(* One POST /query or /search: QueryService.Query, DefaultRetriever and    *)
(* AssembleContext, from the parsed request to the reply. The search is    *)
(* one SELECT, so it sees one state of record_embeddings: Rows. An order   *)
(* by distance is an order by score, its complement. The upper date bound  *)
(* works like the lower one and is left out, as are the vectors, the       *)
(* wording of the prompt and what the language model says.                 *)
(***************************************************************************)
EXTENDS Integers, Sequences, FiniteSets

CONSTANTS
    Rows,            \* rows of record_embeddings
    RecordOf, EntityOf, TimeOf,    \* record_id, entity_ref and occurred_at of a row
    Text,            \* bytes of a row's block, its number taken as one digit
    Scores,          \* similarities that a question may have to a row
    Asks,            \* the requests
    DefaultLimit, MaxLimit,        \* MaxLimit[e]: 20 for query, 50 for search
    MaxContext,      \* maxContextBytes
    None, Malformed  \* no entity, no date; a date that does not parse

Endpoints == {"query", "search"}

ASSUME RowAssumption ==
    /\ IsFiniteSet(Rows) /\ Text \in [Rows -> Nat \ {0}] /\ Scores \subseteq Int
    /\ MaxContext \in Nat
ASSUME AskAssumption ==
    \A a \in Asks : a.endpoint \in Endpoints /\ a.limit \in Int
ASSUME QueryLimitAssumption ==
    DefaultLimit \in Nat \ {0} /\ MaxLimit \in [Endpoints -> Nat \ {0}]

VARIABLES
    ask, score,      \* the request, and how similar it is to each row
    pc,
    retrieved,       \* chunks
    turn,            \* of the loop over chunks
    best, unique,
    blocks, used,    \* blocks written to sb, and sb.Len()
    reply

asked == <<ask, score>>
vars == <<ask, score, pc, retrieved, turn, best, unique, blocks, used, reply>>

Replies == {"none", "refused", "failed", "results", "nothing",
            "llm_unavailable", "llm_parse_error", "answered"}

QueryTypeOK ==
    /\ ask \in Asks /\ score \in [Rows -> Scores]
    /\ pc \in {"asked", "retrieved", "writing", "prompting", "replied"}
    /\ retrieved \in Seq(Rows)
    /\ turn \in 1 .. Len(retrieved) + 1 /\ (pc = "asked" => turn = 1)
    /\ DOMAIN best \subseteq {RecordOf[c] : c \in Rows}
    /\ \A r \in DOMAIN best : best[r] \in Rows
    /\ unique \in Seq(Rows)
    /\ blocks \in 0 .. Len(unique) /\ (pc \in {"asked", "retrieved"} => blocks = 0)
    /\ used \in 0 .. MaxContext
    /\ reply \in Replies /\ (reply # "none" <=> pc = "replied")

Init ==
    /\ ask \in Asks /\ score \in [Rows -> Scores]
    /\ pc = "asked"
    /\ retrieved = <<>> /\ turn = 1
    /\ best = [r \in {} |-> r] /\ unique = <<>>
    /\ blocks = 0 /\ used = 0
    /\ reply = "none"

Reply(r) ==
    /\ pc' = "replied"
    /\ reply' = r
    /\ UNCHANGED <<asked, retrieved, turn, best, unique, blocks, used>>

\* 503 without a service, 422 for a body or a q that is not valid. A date that does
\* not parse is one: Query gets its dates from readJSON.
Refuse == pc = "asked" /\ Reply("refused")

\* filter.EntityRef: the scope, or the first entity that Query finds in the question.
Wanted ==
    IF ask.scope # None \/ ask.endpoint = "search" THEN ask.scope ELSE ask.hint

Limit ==
    IF ask.limit <= 0 THEN DefaultLimit
    ELSE IF ask.limit > MaxLimit[ask.endpoint] THEN MaxLimit[ask.endpoint] ELSE ask.limit

\* Search parses its dates itself and goes on without one that fails.
Matches(c) ==
    /\ Wanted # None => EntityOf[c] = Wanted
    /\ ask.from \notin {None, Malformed} => TimeOf[c] >= ask.from

\* The orders of a set by score, highest first; ties come in any order.
Rankings(S) ==
    {s \in [1 .. Cardinality(S) -> S] :
        /\ \A c \in S : \E i \in DOMAIN s : s[i] = c
        /\ \A i, j \in DOMAIN s : i < j => s[i] # s[j] /\ score[s[i]] >= score[s[j]]}

\* ORDER BY ... LIMIT over an HNSW index, which may miss rows that match.
Retrieve ==
    /\ pc = "asked"
    /\ ask.endpoint = "query" => ask.from # Malformed
    /\ \E S \in SUBSET {c \in Rows : Matches(c)} :
         /\ Cardinality(S) <= Limit
         /\ retrieved' \in Rankings(S)
    /\ pc' = "retrieved"
    /\ UNCHANGED <<asked, turn, best, unique, blocks, used, reply>>

\* The embedder or the database returns an error.
RetrieveFails ==
    /\ pc = "asked"
    /\ ask.endpoint = "query" => ask.from # Malformed
    /\ Reply("failed")

ReplyResults ==
    /\ pc = "retrieved"
    /\ ask.endpoint = "search"
    /\ Reply("results")

\* No chunks: low confidence, without the language model.
ReplyNothing ==
    /\ pc = "retrieved"
    /\ ask.endpoint = "query"
    /\ retrieved = <<>>
    /\ Reply("nothing")

\* A slip: what was kept for a record is overwritten by every later chunk of it.
KeepLast ==
    /\ pc = "retrieved"
    /\ ask.endpoint = "query"
    /\ turn <= Len(retrieved)
    /\ LET c == retrieved[turn] IN
         best' = [r \in DOMAIN best \cup {RecordOf[c]} |-> IF r = RecordOf[c] THEN c ELSE best[r]]
    /\ turn' = turn + 1
    /\ UNCHANGED <<asked, pc, retrieved, unique, blocks, used, reply>>

\* One turn of the loop over chunks, which keeps the best of each record.
KeepBest ==
    /\ pc = "retrieved"
    /\ ask.endpoint = "query"
    /\ turn <= Len(retrieved)
    /\ LET c == retrieved[turn]
           r == RecordOf[c]
           better == r \in DOMAIN best => score[c] > score[best[r]]
       IN  best' = IF better
                   THEN [x \in DOMAIN best \cup {r} |-> IF x = r THEN c ELSE best[x]]
                   ELSE best
    /\ turn' = turn + 1
    /\ UNCHANGED <<asked, pc, retrieved, unique, blocks, used, reply>>

\* A slip: Query does not look at the number of chunks.
RankEvenNothing ==
    /\ pc = "retrieved"
    /\ ask.endpoint = "query"
    /\ turn > Len(retrieved)
    /\ unique' \in Rankings({best[r] : r \in DOMAIN best})
    /\ pc' = "writing"
    /\ UNCHANGED <<asked, retrieved, turn, best, blocks, used, reply>>

\* A slip: every chunk is ranked, not the best of each record.
RankAll ==
    /\ pc = "retrieved"
    /\ ask.endpoint = "query"
    /\ retrieved # <<>>
    /\ turn > Len(retrieved)
    /\ unique' \in Rankings({retrieved[i] : i \in DOMAIN retrieved})
    /\ pc' = "writing"
    /\ UNCHANGED <<asked, retrieved, turn, best, blocks, used, reply>>

\* The map is read in any order and sort.Slice is not stable: ties fall anyhow.
Rank ==
    /\ pc = "retrieved"
    /\ ask.endpoint = "query"
    /\ retrieved # <<>>
    /\ turn > Len(retrieved)
    /\ unique' \in Rankings({best[r] : r \in DOMAIN best})
    /\ pc' = "writing"
    /\ UNCHANGED <<asked, retrieved, turn, best, blocks, used, reply>>

\* The i-th block, with its number written out: a query retrieves less than 100.
Block(i, c) == Text[c] + IF i > 9 THEN 1 ELSE 0

\* A slip: the newlines between two blocks are not counted.
BlockAlone == Block(blocks + 1, unique[blocks + 1])

\* candidate: the next block, after two newlines unless it is the first.
Candidate == Block(blocks + 1, unique[blocks + 1]) + IF used > 0 THEN 2 ELSE 0

\* A slip: the length is looked at after the block is written.
WriteThenLook ==
    /\ pc = "writing"
    /\ blocks < Len(unique)
    /\ used <= MaxContext
    /\ blocks' = blocks + 1
    /\ used' = used + Candidate
    /\ UNCHANGED <<asked, pc, retrieved, turn, best, unique, reply>>

WriteBlock ==
    /\ pc = "writing"
    /\ blocks < Len(unique)
    /\ used + Candidate <= MaxContext
    /\ blocks' = blocks + 1
    /\ used' = used + Candidate
    /\ UNCHANGED <<asked, pc, retrieved, turn, best, unique, reply>>

\* The loop is over, or breaks at the first block that does not fit.
StopWriting ==
    /\ pc = "writing"
    /\ blocks < Len(unique) => used + Candidate > MaxContext
    /\ pc' = "prompting"
    /\ UNCHANGED <<asked, retrieved, turn, best, unique, blocks, used, reply>>

LLMFails == pc = "prompting" /\ Reply("llm_unavailable")

\* Not JSON, or a confidence that is not high, medium or low.
LLMUnparsable == pc = "prompting" /\ Reply("llm_parse_error")

Answer == pc = "prompting" /\ Reply("answered")

Next ==
    \/ Refuse \/ Retrieve \/ RetrieveFails \/ ReplyResults \/ ReplyNothing
    \/ KeepBest \/ Rank \/ WriteBlock \/ StopWriting
    \/ LLMFails \/ LLMUnparsable \/ Answer

Spec == Init /\ [][Next]_vars

-----------------------------------------------------------------------------
(* What the context is for *)

\* No record takes two blocks.
OneBlockPerRecord ==
    \A i, j \in DOMAIN unique : RecordOf[unique[i]] = RecordOf[unique[j]] => i = j

\* A retrieved chunk that outscores a block of the context speaks through an earlier
\* block: its record has one there, at least as good. So what the deduplication and
\* the cut leave out is never better than what they keep.
NothingBetterDropped ==
    pc = "prompting" =>
        \A i \in 1 .. blocks, j \in DOMAIN retrieved :
            score[retrieved[j]] > score[unique[i]] =>
                \E k \in 1 .. i - 1 :
                    /\ RecordOf[unique[k]] = RecordOf[retrieved[j]]
                    /\ score[unique[k]] >= score[retrieved[j]]

\* The length of the first n blocks joined by two newlines.
Joined(n) ==
    LET len[k \in 0 .. n] ==
          IF k = 0 THEN 0
          ELSE len[k - 1] + Block(k, unique[k]) + IF k > 1 THEN 2 ELSE 0
    IN  len[n]

\* The context is the longest that fits the limit: sb.Len() counts every byte of it,
\* and nothing that would fit exactly is cut.
LongestThatFits ==
    pc = "prompting" =>
        /\ Joined(blocks) <= MaxContext
        /\ blocks < Len(unique) => Joined(blocks + 1) > MaxContext

\* The language model is asked about records only: about none when nothing was
\* retrieved, and with an empty context only when the best block alone is too long.
Grounded ==
    reply = "answered" =>
        /\ retrieved # <<>> /\ unique # <<>>
        /\ blocks > 0 \/ Block(1, unique[1]) > MaxContext

-----------------------------------------------------------------------------
(* Why it holds: the inductive invariant *)

\* best holds the best chunk of every record met so far.
BestSoFar ==
    /\ DOMAIN best = {RecordOf[retrieved[j]] : j \in 1 .. turn - 1}
    /\ \A r \in DOMAIN best : RecordOf[best[r]] = r
    /\ \A j \in 1 .. turn - 1 : score[best[RecordOf[retrieved[j]]]] >= score[retrieved[j]]

Ranked ==
    IF pc \in {"writing", "prompting"} \/ reply = "answered"
    THEN /\ turn = Len(retrieved) + 1 /\ retrieved # <<>>
         /\ unique \in Rankings({best[r] : r \in DOMAIN best})
         /\ pc # "writing" /\ blocks = 0 => Block(1, unique[1]) > MaxContext
         /\ blocks = 0 <=> used = 0
    ELSE pc # "replied" => used = 0 /\ unique = <<>>

QueryInv == BestSoFar /\ Ranked

\* When the loop has stopped before the end, the next block was too long for the rest.
CutWhenFull ==
    pc = "prompting" /\ blocks < Len(unique) => used + Candidate > MaxContext
=============================================================================
