------------------------------ MODULE BatchRows ------------------------------
(***************************************************************************)
(* A batch from documents to rows (src/batch.rs): documents are grouped    *)
(* into chunks and oversized ones are cut into fragments                   *)
(* (build_doc_chunks), every chunk is encoded on its own (encode_chunk),   *)
(* and the rows of fragments are joined again (row_counts).  That chunks   *)
(* are encoded in parallel and delivered in order is ParallelGather's      *)
(* matter; here they are encoded one after another.                        *)
(*                                                                         *)
(* A tokenizer is a record of its scheme, merges, added tokens and         *)
(* settings; one with a WordPiece model has no merges.  A token is its     *)
(* bytes.                                                                  *)
(***************************************************************************)
EXTENDS AddedTokens, BertModel, SuperwordPlan

CONSTANTS
    Tokenizers,       \* the tokenizers, by name
    Batches,          \* the lists of documents each is given
    Target,           \* chunk_target_bytes
    MIN_CHUNK_BYTES   \* floor of a chunk's size

ASSUME BatchAssumption ==
    /\ Target \in Nat \ {0} /\ MIN_CHUNK_BYTES \in Nat \ {0}
    /\ DOMAIN Batches = DOMAIN Tokenizers
    /\ \A name \in DOMAIN Batches : \A batch \in Batches[name] : batch \in Seq(Seq(STRING))

VARIABLES
    tokenizer,  \* its name
    superword,  \* its two-level plan, <<>> or <<the plan>>
    docs,       \* the batch
    lpt,        \* descending chunk sizes, unless the environment says no
    next,       \* documents pushed
    group,      \* documents of the chunk being built
    emitted,    \* bytes in finished chunks
    acc,        \* bytes in the group
    chunks,     \* the chunks so far
    outs,       \* ChunkTokens of the chunks encoded so far
    plain,      \* the tokens of the last of them, by the definitions (not in the code)
    joined,     \* chunks whose rows are counted
    counts,     \* tokens per row
    serial,     \* ids and lens of the serial path
    stage       \* "group", "encode", "join", "done"

given == <<tokenizer, superword, docs, lpt>>
grouping == <<next, group, emitted, acc, chunks>>
rest == <<joined, counts, serial>>
rowsVars == <<given, grouping, outs, plain, rest, stage>>

Tok == Tokenizers[tokenizer]
Bytes(texts) == Len(FlattenSeq(texts))

\* The element of a singleton: {f(x) : x \in {e}} gives f of a value of e that
\* is computed once.
The(singleton) == CHOOSE x \in singleton : TRUE

-----------------------------------------------------------------------------
(* Encoding a document.                                                    *)

Span(scheme, t, p) ==
    IF scheme = "bert" THEN bert_next_span(t, p)
    ELSE <<p, SchemeAdvance(scheme, t, p, Len(t))>>

PretokensOf(scheme, t) ==
    LET from[p \in 0 .. Len(t)] ==
          IF p = Len(t) THEN <<>>
          ELSE The({IF span = <<>> THEN <<>>
                    ELSE <<Slice(t, span[1], span[2])>> \o from[span[2]] :
                      span \in {Span(scheme, t, p)}})
    IN  from[0]

\* enable_superword_two_level
PlanOf(tok) ==
    IF tok.scheme \in {"superword", "superword_bounded"} /\ ~tok.wordpiece.used
    THEN SuperwordPlanOf(tok.merges) ELSE <<>>

\* add_prefix_space
Prefixed(tok, segment) ==
    IF tok.add_prefix_space /\ segment # <<>> /\ Head(segment) # " "
    THEN <<" ">> \o segment ELSE segment

EncodePretoken(tok, two_level, t) ==
    CASE tok.wordpiece.used -> encode_unit(tok.wordpiece, t)
      [] ~tok.wordpiece.used /\ two_level # <<>> ->
           superword_merge(two_level[1], tok.merges, superword_level1(two_level[1], tok.merges, t))
      [] OTHER -> MergeAll(Singles(t), tok.merges)

\* By the definitions: the longest matches, or all merges at once.
ReferencePretoken(tok, t) ==
    IF tok.wordpiece.used THEN LongestMatches(tok.wordpiece, t)
    ELSE MergeAll(Singles(t), tok.merges)

\* Texts are encoded as the code does, or as the definitions say: the
\* normalizer's steps one after another, then ReferencePretoken.

Normalized(tok, way, bytes) ==
    IF way = "code" THEN normalize(tok.normalizer, bytes)
    ELSE NormalizedByStep(tok.normalizer, bytes)

EncodeSegment(tok, two_level, way, bytes) ==
    The({FlattenSeq(encoded) :
           encoded \in {[i \in DOMAIN p |-> IF way = "code" THEN EncodePretoken(tok, two_level, p[i])
                                          ELSE ReferencePretoken(tok, p[i])] :
             p \in {PretokensOf(tok.scheme, t) :
               t \in {Prefixed(tok, n) : n \in {Normalized(tok, way, bytes)}}}}})

\* encode_with_added_tokens_flat
EncodeDocument(tok, two_level, way, doc) ==
    The({FlattenSeq(encoded) :
           encoded \in {[i \in DOMAIN p |-> IF p[i].added THEN <<p[i].bytes>>
                                          ELSE EncodeSegment(tok, two_level, way, p[i].bytes)] :
             p \in {Pieces(doc, tok.added)}}})

-----------------------------------------------------------------------------
(* build_doc_chunks.                                                       *)

\* The bytes that go to the big chunks, the sizes of groups and fragments
\* among them, and the size of both behind them.
Sizes ==
    LET total == Bytes(docs)
    IN  IF lpt THEN [head_bytes |-> total - total \div 5,
                     group_big |-> 2 * Target, frag_big |-> 2 * Target,
                     tail_target |-> Max({Target \div 4, MIN_CHUNK_BYTES})]
        ELSE [head_bytes |-> 0, group_big |-> Target, frag_big |-> Target,
              tail_target |-> Target]

can_fragment(tok) == tok.scheme \notin {"superword", "superword_bounded"}

DocsChunk(texts) == [docs |-> texts, fragment |-> FALSE, first |-> TRUE]
NonEmpty(texts) == IF texts = <<>> THEN <<>> ELSE <<DocsChunk(texts)>>

\* (Mutant of FragmentChunks: the mark is not taken off after the first.)
FragmentChunksAllFirst(parts) ==
    [i \in DOMAIN parts |-> [docs |-> <<parts[i]>>, fragment |-> TRUE, first |-> TRUE]]

FragmentChunks(parts) ==
    [i \in DOMAIN parts |-> [docs |-> <<parts[i]>>, fragment |-> TRUE, first |-> i = 1]]

push_fragment_chunks(doc, head_len) ==
    LET slices(bytes, ranges) ==
          [i \in DOMAIN ranges |-> Slice(bytes, ranges[i][1], ranges[i][2])]
        split(bytes, target) == slices(bytes, safe_split_ranges(bytes, target, Tok.added))
        part(r) ==
          IF r[1] < head_len \/ r[2] - r[1] <= Sizes.tail_target
          THEN <<Slice(doc, r[1], r[2])>>
          ELSE split(Slice(doc, r[1], r[2]), Sizes.tail_target)
        parts(ranges) == FlattenSeq([i \in DOMAIN ranges |-> part(ranges[i])])
    IN  FragmentChunks(parts(safe_split_ranges(doc, Sizes.frag_big, Tok.added)))

ChunkTokens(rows, continues) ==
    [ids |-> FlattenSeq(rows), lens |-> [i \in DOMAIN rows |-> Len(rows[i])],
     continues |-> continues]

RowsInit ==
    /\ tokenizer \in DOMAIN Tokenizers
    /\ superword = PlanOf(Tokenizers[tokenizer])
    /\ docs \in Batches[tokenizer]
    /\ lpt \in BOOLEAN
    /\ next = 0 /\ group = <<>> /\ emitted = 0 /\ acc = 0 /\ chunks = <<>>
    /\ outs = <<>> /\ plain = <<>>
    /\ joined = 0 /\ counts = <<>> /\ serial = ChunkTokens(<<>>, FALSE)
    /\ stage = "group"

Oversized(doc) == can_fragment(Tok) /\ Len(doc) > 2 * Target

PushFragments ==
    LET doc == docs[next + 1]
        before == emitted + acc
        head_len == IF lpt THEN Max({0, Sizes.head_bytes - before}) ELSE Len(doc)
    IN  /\ stage = "group" /\ next < Len(docs)
        /\ Oversized(doc)
        /\ chunks' = chunks \o NonEmpty(group) \o push_fragment_chunks(doc, head_len)
        /\ group' = <<>>
        /\ acc' = 0
        /\ emitted' = before + Len(doc)
        /\ next' = next + 1
        /\ UNCHANGED <<given, outs, plain, rest, stage>>

PushDocument ==
    LET doc == docs[next + 1]
        size == acc + Len(doc)
        target == IF emitted < Sizes.head_bytes THEN Sizes.group_big ELSE Sizes.tail_target
        full == size >= target
    IN  /\ stage = "group" /\ next < Len(docs)
        /\ ~Oversized(doc)
        /\ chunks' = IF full THEN Append(chunks, DocsChunk(Append(group, doc))) ELSE chunks
        /\ group' = IF full THEN <<>> ELSE Append(group, doc)
        /\ emitted' = IF full THEN emitted + size ELSE emitted
        /\ acc' = IF full THEN 0 ELSE size
        /\ next' = next + 1
        /\ UNCHANGED <<given, outs, plain, rest, stage>>

FinishGroups ==
    /\ stage = "group" /\ next = Len(docs)
    /\ chunks' = chunks \o NonEmpty(group)
    /\ stage' = "encode"
    /\ UNCHANGED <<given, next, group, emitted, acc, outs, plain, rest>>

-----------------------------------------------------------------------------
(* encode_chunk and row_counts.                                            *)

\* The parallel path is done: the serial one encodes the whole documents.
Serially == stage = "join" /\ joined = Len(outs)

\* encode_chunk of the next chunk, or encode_docs_ragged_serial of the batch.
EncodeTexts ==
    /\ Serially \/ (stage = "encode" /\ Len(outs) < Len(chunks))
    /\ \E texts \in {IF Serially THEN docs ELSE chunks[Len(outs) + 1].docs} :
         \E rows \in {[way \in IF Serially THEN {"code"} ELSE {"code", "definition"} |->
                       [i \in DOMAIN texts |-> EncodeDocument(Tok, superword, way, texts[i])]]} :
           \/ /\ Serially
              /\ serial' = ChunkTokens(rows["code"], FALSE)
              /\ stage' = "done"
              /\ UNCHANGED <<outs, plain>>
           \/ /\ ~Serially
              /\ LET chunk == chunks[Len(outs) + 1]
                 IN  outs' = Append(outs, ChunkTokens(rows["code"], chunk.fragment /\ ~chunk.first))
              /\ plain' = FlattenSeq(rows["definition"])
              /\ UNCHANGED <<serial, stage>>
    /\ UNCHANGED <<given, grouping, joined, counts>>

FinishEncoding ==
    /\ stage = "encode" /\ Len(outs) = Len(chunks)
    /\ stage' = "join"
    /\ UNCHANGED <<given, grouping, outs, plain, rest>>

JoinRows ==
    LET out == outs[joined + 1]
        last == Len(counts)
    IN  /\ stage = "join" /\ joined < Len(outs)
        /\ counts' = IF out.continues
                     THEN [counts EXCEPT ![last] = @ + Head(out.lens)] \o Tail(out.lens)
                     ELSE counts \o out.lens
        /\ joined' = joined + 1
        /\ UNCHANGED <<given, grouping, outs, plain, serial, stage>>

RowsNext ==
    \/ PushFragments \/ PushDocument \/ FinishGroups
    \/ EncodeTexts \/ FinishEncoding \/ JoinRows

RowsSpec == RowsInit /\ [][RowsNext]_rowsVars

-----------------------------------------------------------------------------
(* What safe_split_ranges promises of the places where it cuts.            *)

\* The ends of a text and the places where it may be cut.
CutPlaces(t, added) ==
    {0, Len(t)} \cup {p \in 1 .. Len(t) - 2 : MayCut(t, p, added)}

\* A cut of a text, or of its beginning up to a later cut, changes no token.
CutsKeepTokens(tok, two_level, t) ==
    LET encoded(lo, hi) == EncodeDocument(tok, two_level, "code", Slice(t, lo, hi))
        places == CutPlaces(t, tok.added)
    IN  \A lo, hi \in places : lo < hi =>
          /\ encoded(lo, hi) \in Seq(Seq(STRING))
          /\ 0 < lo => encoded(0, hi) = encoded(0, lo) \o encoded(lo, hi)

\* Cuts of the documents, and of their fragments, keep the tokens.
CutsAreSafe ==
    \A name \in DOMAIN Tokenizers :
      LET tok == Tokenizers[name] IN
      \A two_level \in {PlanOf(tok)} : \A batch \in Batches[name] : \A i \in DOMAIN batch :
        /\ EncodeDocument(tok, two_level, "code", batch[i]) \in Seq(Seq(STRING))
        /\ can_fragment(tok) =>
             /\ CutsKeepTokens(tok, two_level, batch[i])
             /\ \A lo, hi \in CutPlaces(batch[i], tok.added) : lo < hi =>
                  CutsKeepTokens(tok, two_level, Slice(batch[i], lo, hi))

-----------------------------------------------------------------------------

\* However documents are grouped and cut, the parallel path gives the rows and
\* the tokens of the serial one, which encodes every document whole ("Token-
\* and order-identical to the parallel path").
RowsAreWhole ==
    stage = "done" =>
      /\ FlattenSeq([k \in DOMAIN outs |-> outs[k].ids]) = serial.ids
      /\ counts = serial.lens

\* Two-level encoding "is bit-identical" to merging the whole segment, the
\* normalizer's bulk passes to its steps, and the backoff of WordPiece to the
\* longest match.
SegmentsArePlain == outs # <<>> => plain = Last(outs).ids
=============================================================================
