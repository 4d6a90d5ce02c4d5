---------------------------- MODULE SuperwordPlan ----------------------------
(***************************************************************************)
(* The two-level encoding of SuperBPE (src/bpe/superword.rs,               *)
(* superword_encode_segment of src/bpe/tiktoken.rs): level 1 merges inside *)
(* the units of a stage-1 scheme with the merges below a threshold, level  *)
(* 2 merges what comes out of it with all of them, run by run between      *)
(* boundaries that no merge can cross.                                     *)
(*                                                                         *)
(* A symbol is its bytes.  `merges` lists the pairs in the order of the    *)
(* ids of what they make, which is their rank; the id of merges[i] is i,   *)
(* and single bytes have ids below.  Texts are ASCII, so every junction of *)
(* two operands falls between two whole characters (Junction::Determined). *)
(***************************************************************************)
EXTENDS Pretokens, SequencesExt

Singles(t) == [i \in DOMAIN t |-> <<t[i]>>]
Made(merges, i) == merges[i][1] \o merges[i][2]

\* One merge, if there is any: the lowest rank, and the leftmost pair of it.
MergeOne(s, merges) ==
    LET at(i) == {p \in 1 .. Len(s) - 1 : <<s[p], s[p + 1]>> = merges[i]}
        ranks == {i \in DOMAIN merges : at(i) # {}}
        merged(p) == SubSeq(s, 1, p - 1) \o <<s[p] \o s[p + 1]>> \o SubSeq(s, p + 2, Len(s))
    IN  IF ranks = {} THEN s ELSE merged(Min(at(Min(ranks))))

\* The symbols once nothing merges: the lowest rank first, its leftmost pair
\* first.  What the merge loops compute (MergeCores).
MergeAll(symbols, merges) ==
    LET after[k \in 0 .. Len(symbols)] ==
          IF k = 0 THEN symbols
          ELSE MergeOne(after[k - 1], merges)
    IN  after[Len(symbols)]

-----------------------------------------------------------------------------
(* The plan.                                                               *)

\* The schemes a stage 1 may have had (CANDIDATE_SCHEMES).
Stage1Advance(scheme, t, p) ==
    IF scheme = "gpt2" THEN r50k_advance(t, p) ELSE o200k_advance(SuperBPEStage1, t, p)

\* Level1Units: the ends of the units of t.
UnitEnds(t, scheme, wide) ==
    LET kept(lo, hi) == IF hi < Len(t) /\ glues(t, lo, hi, wide) THEN {} ELSE {hi}
        upto(lo, hi, from) == kept(lo, hi) \cup from[hi]
        from[lo \in 0 .. Len(t)] ==
          IF lo = Len(t) THEN {} ELSE upto(lo, Stage1Advance(scheme, t, lo), from)
    IN  from[0]

VERIFY_PAD == {<<>>, <<"a">>, <<" ">>, <<" ", " ">>, <<"n">>, <<"0">>, <<".">>, <<"'">>}

\* Can a unit end between the operands, in some context?
junction_can_split(pair, scheme, wide) ==
    \E left, right \in VERIFY_PAD :
      Len(left) + Len(pair[1]) \in UnitEnds(left \o pair[1] \o pair[2] \o right, scheme, wide)

\* The lowest id whose junction can be split; 0 when no junction can.
derive_threshold(merges, scheme, wide) ==
    LET below[i \in 0 .. Len(merges)] ==
          CASE i = Len(merges) -> 0
            [] i < Len(merges) /\ junction_can_split(merges[i + 1], scheme, wide) -> i + 1
            [] OTHER -> below[i + 1]
    IN  below[0]

Vocab(merges) == {<<b>> : b \in UNION {Range(Made(merges, i)) : i \in DOMAIN merges}}
                   \cup {Made(merges, i) : i \in DOMAIN merges}

\* (Mutant of Cuts: the merge at the threshold is taken for cleared.)
CutsAboveThreshold(merges, threshold) ==
    LET above == {Made(merges, i) : i \in threshold .. Len(merges)}
        level1 == Vocab(merges) \ above
        longest == Max({0} \cup {Len(v) : v \in level1})
        candidates == threshold + 1 .. Len(merges)
        short == {v \in Vocab(merges) : Len(v) <= longest}
    IN  [suffix_left |-> above \cup
           {v \in short : \E i \in candidates : IsSuffix(v, merges[i][1])},
         prefix_right |-> above \cup
           {v \in short : \E i \in candidates : IsPrefix(v, merges[i][2])}]

\* SuperwordCuts::build: the symbols that end the left operand, and those that
\* begin the right operand, of a merge that is not cleared.
Cuts(merges, threshold) ==
    LET above == {Made(merges, i) : i \in threshold .. Len(merges)}
        level1 == Vocab(merges) \ above
        longest == Max({0} \cup {Len(v) : v \in level1})
        candidates == threshold .. Len(merges)
        short == {v \in Vocab(merges) : Len(v) <= longest}
    IN  [suffix_left |-> above \cup
           {v \in short : \E i \in candidates : IsSuffix(v, merges[i][1])},
         prefix_right |-> above \cup
           {v \in short : \E i \in candidates : IsPrefix(v, merges[i][2])}]

\* The order in which max_by_key meets the plans; the last best one wins.
CANDIDATES == <<<<"stage1", TRUE>>, <<"stage1", FALSE>>, <<"gpt2", TRUE>>, <<"gpt2", FALSE>>>>

\* The plan with the largest prefix; <<>> when no junction can be split.
BestPlan(merges, bounds) ==
    LET best == Max(Range(bounds))
        chosen == CANDIDATES[Max({c \in DOMAIN bounds : bounds[c] = best})]
    IN  IF best = 0 THEN <<>>
        ELSE <<[scheme |-> chosen[1], wide |-> chosen[2], threshold |-> best,
                cuts |-> Cuts(merges, best)]>>

\* build_capped, without a cap.
SuperwordPlanOf(merges) ==
    BestPlan(merges, [c \in DOMAIN CANDIDATES |->
                        derive_threshold(merges, CANDIDATES[c][1], CANDIDATES[c][2])])

-----------------------------------------------------------------------------
(* Encoding.                                                               *)

MergeEach(t, ends, merges) ==
    LET start(i) == IF i = 1 THEN 1 ELSE ends[i - 1] + 1
    IN  FlattenSeq([i \in DOMAIN ends |->
                      MergeAll(Singles(SubSeq(t, start(i), ends[i])), merges)])

superword_level1(plan, merges, unit) ==
    MergeEach(unit, InOrder(UnitEnds(unit, plan.scheme, plan.wide)),
              SubSeq(merges, 1, plan.threshold - 1))

\* Can a merge span the boundary between these symbols?
crossable(cuts, left, right) == left \in cuts.suffix_left /\ right \in cuts.prefix_right

\* run_end, over the symbols after `start`.
run_end(cuts, symbols, start) ==
    Min({Len(symbols)} \cup
        {i \in start + 1 .. Len(symbols) - 1 : ~crossable(cuts, symbols[i], symbols[i + 1])})

\* superword_merge: runs are merged from left to right and what is left of
\* each is moved forward in the same array.
superword_merge(plan, merges, symbols) ==
    LET n == Len(symbols)
        stored(s, end, kept) ==
          [symbols |-> [i \in 1 .. n |-> IF i \in s.write + 1 .. s.write + Len(kept)
                                         THEN kept[i - s.write] ELSE s.symbols[i]],
           write |-> s.write + Len(kept),
           start |-> end]
        merged(s, end) == stored(s, end, MergeAll(SubSeq(s.symbols, s.start + 1, end), merges))
        step(s) == IF s.start = n THEN s ELSE merged(s, run_end(plan.cuts, s.symbols, s.start))
        after[k \in 0 .. n] ==
          IF k = 0 THEN [symbols |-> symbols, write |-> 0, start |-> 0] ELSE step(after[k - 1])
        truncated(s) == SubSeq(s.symbols, 1, s.write)
    IN  truncated(after[n])
=============================================================================
