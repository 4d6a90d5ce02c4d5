------------------------------ MODULE Pretokens ------------------------------
(***************************************************************************)
(* The schemes of src/pretokenize/fast/ that have no masks: DeepSeek V3    *)
(* (three splits in a row), SuperBPE's inference schemes and BERT; and all *)
(* schemes by name (src/pretokenize/options.rs), with the level-1 walks    *)
(* over two of them (level1.rs, Level1Spans).                              *)
(***************************************************************************)
EXTENDS R50kScan, O200kFamily, Level1Units

Cat(t, p) == IF p < Len(t) THEN CharAt(t, p).cat ELSE "end"
After(t, p) == p + CharAt(t, p).len

-----------------------------------------------------------------------------
(* deepseek_v3.rs: a number or a run of the CJK ranges is a piece of its   *)
(* own, and no token of the main regex leaves its piece.                   *)

\* unicode::is_deepseek_cjk and ds_class_of
is_deepseek_cjk(cat) == cat \in {"Han", "CjkP", "CjkC"}
LetterOrMark(cjk) == IF cjk THEN {"Han"} ELSE {"Lu", "Ll", "Lo", "M"}
PunctOrSymbol(cjk) == IF cjk THEN {"CjkP"} ELSE {"P", "HanS"}
Unmatched(cjk) == IF cjk THEN {"CjkC"} ELSE {"C"}
Digits == {"N", "HanN"}

lm_at(t, p, cjk) == Cat(t, p) \in LetterOrMark(cjk)
scan_lm_from(t, p, cjk) == RunEnd(t, p, LetterOrMark(cjk))
scan_ps_from(t, p, cjk) == RunEnd(t, p, PunctOrSymbol(cjk))

\* A whitespace token; the edge of the piece counts as the end of the text.
ds_ws_token_end(t, start) ==
    LET run == WsRun(t, start)
        edge == Cat(t, run.end)
    IN  CASE run.newline # 0 -> run.newline
          [] run.newline = 0 /\ (edge \in Digits \cup {"end"} \/ is_deepseek_cjk(edge)) -> run.end
          [] OTHER -> IF run.last > start THEN run.last ELSE run.end

\* The chars no rule matches, up to one that begins a word.
scan_gap_from(t, p, cjk) ==
    LET end[q \in p .. Len(t)] ==
          IF Cat(t, q) \in Unmatched(cjk) /\ ~lm_at(t, After(t, q), cjk)
          THEN end[After(t, q)] ELSE q
    IN  end[p]

\* Any char but these may begin a word.
word_or_gap(t, p, cjk) ==
    LET q == After(t, p)
    IN  IF lm_at(t, q, cjk) THEN scan_lm_from(t, q, cjk) ELSE scan_gap_from(t, q, cjk)

advance_main(t, p) ==
    LET b == Byte(t, p)
        cat == Cat(t, p)
        q == After(t, p)
        punct(at) == scan_newlines(t, scan_ps_from(t, at, FALSE))
        letters[at \in p .. Len(t)] ==
          IF Get(t, at) \in Lower \cup Upper THEN letters[at + 1] ELSE at
        space == CASE lm_at(t, q, FALSE) -> scan_lm_from(t, q, FALSE)
                   [] Cat(t, q) \in PunctOrSymbol(FALSE) -> punct(q)
                   [] Cat(t, q) = "Z" -> ds_ws_token_end(t, p)
                   [] OTHER -> q
    IN  CASE lm_at(t, p, FALSE) -> scan_lm_from(t, p, FALSE)
          [] b = " " -> space
          [] b \in Newline -> ds_ws_token_end(t, p)
          [] cat = "Z" /\ b \notin Newline \cup {" "} ->
               IF lm_at(t, q, FALSE) THEN scan_lm_from(t, q, FALSE)
               ELSE ds_ws_token_end(t, p)
          [] cat \in PunctOrSymbol(FALSE) ->
               IF ~NonAscii(b) /\ Get(t, q) \in Lower \cup Upper THEN letters[q]
               ELSE punct(p)
          [] OTHER -> word_or_gap(t, p, FALSE)

advance_cjk(t, p) ==
    CASE lm_at(t, p, TRUE) -> scan_lm_from(t, p, TRUE)
      [] Cat(t, p) \in PunctOrSymbol(TRUE) -> scan_ps_from(t, p, TRUE)
      [] OTHER -> word_or_gap(t, p, TRUE)

deepseek_v3_advance(t, p) ==
    CASE is_deepseek_cjk(Cat(t, p)) -> advance_cjk(t, p)
      [] Cat(t, p) \in Digits -> scan_numbers_max3(t, p, 0)
      [] OTHER -> advance_main(t, p)

-----------------------------------------------------------------------------
(* superword.rs: no splits.  superword_bounded.rs:                         *)
(*   \p{N}{1,3}| ?[^\s\p{L}\p{N}]{2,}[\r\n/]*| +(?!\S)                     *)
(* and the gaps between its matches.                                       *)

superword_advance(t, p) == Len(t)

\* The ends are p itself where nothing matches.
punct_run_end(t, p) ==
    LET two == scan_other_from(t, p)
        tail[q \in two .. Len(t)] ==
          IF Get(t, q) \in Newline \cup {"/"} THEN tail[q + 1] ELSE q
    IN  IF two = p \/ two = After(t, p) THEN p ELSE tail[two]

space_run_end(t, p) ==
    LET end == Min({q \in p .. Len(t) : Get(t, q) # " "})
    IN  IF Cat(t, end) \in {"end", "Z"} THEN end ELSE end - 1

match_cp(t, p) ==
    CASE Cat(t, p) \in Digits -> scan_numbers_max3(t, p, 0)
      [] Get(t, p) = " " ->
           IF punct_run_end(t, p + 1) > p + 1 THEN punct_run_end(t, p + 1)
           ELSE space_run_end(t, p)
      [] Cat(t, p) \in OfClass("Other") -> punct_run_end(t, p)
      [] OTHER -> p

superword_bounded_advance(t, p) ==
    LET gap[q \in p .. Len(t)] ==
          IF q < Len(t) /\ match_cp(t, q) = q THEN gap[After(t, q)] ELSE q
    IN  IF match_cp(t, p) > p THEN match_cp(t, p) ELSE gap[p]

-----------------------------------------------------------------------------
(* bert.rs: whitespace is dropped and every punctuation char stands alone. *)

BertPunct == {"P", "CjkP"}
BertWord == Cats \ (BertPunct \cup {"Z"})

\* The next piece at or after p, <<>> when there is none.
bert_next_span(t, p) ==
    LET start == RunEnd(t, p, {"Z"})
    IN  CASE start = Len(t) -> <<>>
          [] start < Len(t) /\ Cat(t, start) \in BertPunct -> <<start, After(t, start)>>
          [] OTHER -> <<start, RunEnd(t, start, BertWord)>>

-----------------------------------------------------------------------------
(* The schemes by name.                                                    *)

\* The schemes of the two families.
Cl100kKin == [gpt4 |-> Cl100k, qwen2 |-> Qwen2, qwen35 |-> Qwen35, olmo3 |-> Olmo3]
O200kKin == [o200k |-> O200k, nemotron |-> Nemotron, kimi |-> Kimi,
             stage1 |-> SuperBPEStage1]

Masked == {"gpt2"} \cup DOMAIN Cl100kKin \cup DOMAIN O200kKin
Scalar == {"deepseek_v3", "superword", "superword_bounded", "bert"}
\* A scheme of level 1: the scheme it walks and its set of glue rules.
Level1 == [l1_gpt2 |-> [of |-> "gpt2", wide |-> FALSE],
           l1_gpt2_wide |-> [of |-> "gpt2", wide |-> TRUE],
           l1_stage1 |-> [of |-> "stage1", wide |-> FALSE],
           l1_stage1_wide |-> [of |-> "stage1", wide |-> TRUE]]
Base(scheme) == IF scheme \in DOMAIN Level1 THEN Level1[scheme].of ELSE scheme

\* The end of the token that starts at p, `none` when no token is left.
SchemeAdvance(scheme, t, p, none) ==
    CASE scheme = "gpt2" -> r50k_advance(t, p)
      [] scheme \in DOMAIN Cl100kKin -> family_advance(Cl100kKin[scheme], t, p)
      [] scheme \in DOMAIN O200kKin -> o200k_advance(O200kKin[scheme], t, p)
      [] scheme = "deepseek_v3" -> deepseek_v3_advance(t, p)
      [] scheme = "superword" -> superword_advance(t, p)
      [] scheme = "superword_bounded" -> superword_bounded_advance(t, p)
      [] scheme = "bert" -> LET span == bert_next_span(t, p)
                            IN  IF span = <<>> THEN none ELSE span[2]

SchemeMasks(scheme, t, scan) ==
    CASE scheme = "gpt2" -> r50k_batch_masks(t, scan)
      [] scheme \in DOMAIN Cl100kKin -> family_batch_masks(Cl100kKin[scheme], t, scan)
      [] scheme \in DOMAIN O200kKin -> o200k_batch_masks(O200kKin[scheme], t, scan)
=============================================================================
