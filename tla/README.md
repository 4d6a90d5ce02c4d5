# Gigatoken in TLA+

A verification development of the tokenizer library in `src/`: a Rust crate
(`src/src`) with a Python package on top (`src/gigatoken`). The models are
written from the Rust code. TLC checks them on small instances; TLAPS proves the
main results for every value of the constants.

1. [The system](#the-system)
2. [The models](#the-models)
3. [The runs](#the-runs)
4. [The proofs](#the-proofs)
5. [Findings and observations](#findings-and-observations)
6. [What is not modelled](#what-is-not-modelled)
7. [Plan](#plan)

Paths of Rust files below are relative to `src/src`.

## The system

A Python call that encodes a batch goes through these parts:

    Python call (bindings: argument conversion, interpreter lock released)
      -> batch.rs cuts documents into chunks
         -> tasks on rayon's threads pull chunks from a counter
            -> each takes a worker, a forked tokenizer, from the WorkerPool
               -> a document is split at added tokens, then into pretokens
                  -> the emit loop looks each pretoken up in a cache
                     -> on a miss a merge loop encodes it, the cache keeps it
         -> the tokens of finished chunks are copied into one flat buffer
      -> rows are cut from the flat buffer

Files take another way in: `input/*` maps or decompresses them and cuts them into
documents, for encoding (the same tasks) and for training, where pretokens are
counted and `bpe_train.rs` learns merges from the counts.

| component | state | operations | what is hard | what makes it correct |
|---|---|---|---|---|
| Parallel gather (`batch.rs`) | atomic next index, one result cell per chunk, commit cursor behind a lock, flat buffer | pull, encode, `Committer::advance`, `finish`, `gather_flat` | tasks interleave; a commit is given up when the lock is held, the drain limit is met, the next chunk is missing or the reservation is full; panics; copies without a lock | the result is the serial concatenation, or the panic of a chunk |
| Worker pool (`batch.rs`) | a mutex per slot, its poison flag, its worker | `with_worker` (scan by `try_lock`), `with_serial_worker` (blocking) | threads outside rayon take slots too; a panic leaves a worker in the middle of a change | a worker has one user; none is used half-changed; every caller gets one |
| Short pretoken cache (`bpe/pretoken_cache.rs`) | open-addressing table of slot pairs | `get_or_slot`, pair probe, `insert_at`, `insert`, `replace`, `grow`, `with_at_least` | a slot offered by a lookup outlives a growth; entries displaced out of their home pair; walks without a bound | it is a map, and its walks end |
| Emit loop and miss path (`bpe/tiktoken.rs`) | output memory, raw cursor, cached pointers, token arena, long cache | `probe_emit_chunk`, the slow path, the misses | stores through raw pointers that a miss may invalidate; four lanes are stored whatever the length; ranges of a growing arena | stores in bounds, pointers fresh, output as without caches |
| Settings and cache seed (`bpe/tiktoken.rs`) | vocabulary and its inverse, added tokens, `ignore_merges`, both caches | construction, `fork_sized`, `set_ignore_merges`, `set_added_tokens`, `add_special_tokens` | three mutators patch one cache, a fork seeds its own | caches answer what the settings say, parent and fork alike |
| Documents and regions (`input/mod.rs`, `input/file_source.rs`) | an iterator per region | `DocumentIter`, `chunk_ranges`, `par_document_chunks` | cuts anywhere: in a separator, in a run of them, at the end | serial and parallel reading give the same documents (as found, where separators do not overlap) |
| JSONL readers (`input/jsonl.rs`, `input/file_source.rs`) | a position, or a line buffer | slice, chunked and streaming iteration | ends of lines, unusable lines | whole lines; serial and parallel agree (as found, while lines are usable) |
| Streaming splitter (`input/file_source.rs`) | a buffer over a reader | `next` | a separator may straddle reads; I/O errors | every separator is seen, nothing is lost |
| Merge loops (`bpe/mod.rs`) | linked list in arrays, heap or ranks | heap loop, scan loop, compaction | stale heap entries; several loops for one result | lowest rank first, leftmost first, until nothing merges |
| BPE trainer (`bpe_train.rs`) | words, queue of pairs, index from pairs to words | `run_merges`, `update_words`, stage 2 | counts are never recomputed; words updated in parallel | each merge is the one a recount would choose |
| Chunk building, safe splits, added tokens (`batch.rs`, `pretokenize/mod.rs`, `bpe/tiktoken.rs`) | none beyond a call | groups of documents, fragments of a document, rows joined again | a cut must fall where every scheme splits anyway and no added token reaches across or absorbs the space | fragments encode as the whole; rows match documents |
| Pretoken scanners (`pretokenize/*`) | a walk: position, masks of a batch, a buffer of boundaries | next span, fill of a chunk, in any order | boundaries by bit algebra on batches, from little context; a walk that overruns a batch; unchecked stores of 16-bit offsets | the tokens of the scheme's regexes, whichever walk finds them |
| SuperBPE plan (`bpe/superword.rs`) | a plan: stage-1 scheme, threshold, cut bits | derive, level 1, runs of level 2 | which merges may be done early, in which units, and which never reach across a boundary | same tokens as the plain merges |
| WordPiece, BERT normalizer (`bpe/wordpiece.rs`, `bpe/bert_normalizer.rs`) | tables | longest match; clean, pad, decompose, fold | passes fused for speed, early exits | same result as one step after another |
| SentencePiece (`bpe/sentencepiece.rs`) | tables, a cache state per thread | normalization, unit scan, merge or Viterbi | its own cut rule and caches | same tokens as the reference |
| Parquet, decompression (`input/*`), loaders, hub cache (`load_tokenizer/*`) | files | adapters, translation, download and rename | concurrent downloads | readers see whole files |
| Bindings, command line, Python package | borrowed buffers | conversion, padding, a serial path in a forked child | a forked child has no rayon threads | arguments and results unchanged |

How the parts touch: the gather owns the chunks of one call and calls the pool
once per chunk; the pool is shared by every call on a tokenizer and holds the
workers between calls; a worker's caches are private to whoever holds its slot,
so all that concurrent calls share is the pool. The seed of a worker's cache is
computed from tables that all workers share and nobody changes once there is a
pool. The readers share nothing between threads but the mapped file.

## The models

State and actions keep the names of the code where they can. Every definition
that stands for code is listed with its lines in `PROJECT.json` ("map").

| module | models | kind |
|---|---|---|
| `OrderedGather` | contract of a batch encode | abstract |
| `ParallelGather` | `encode_chunks_gathered_with_cap`, `Committer`, `gather_flat` | refines `OrderedGather` |
| `WorkerPool` | `WorkerPool` | state machine |
| `PretokenMap` | contract of the short cache | abstract |
| `PretokenTable` | `ShortPretokenCache` | refines `PretokenMap` |
| `PretokenStream` | contract of encoding through caches | abstract |
| `EmitLoop` | `memoized_encode_flat`, `probe_emit_chunk`, `probe_emit_slow`, the misses | instantiates `PretokenMap`, refines `PretokenStream` |
| `TokenizerSeed` | caches against settings and their mutators | state machine |
| `DocumentChunks`, `JsonLines`, `SeparatorReader` | three readers | state machines |
| `SourceFiles` | one file and the reader chosen for it | composes the three |
| `BpeMerge` | contract of merging | abstract |
| `MergeCores` | heap and scan loops, compaction | refines `BpeMerge` |
| `SymbolPairs` | pairs, tie rules, replacement | operators |
| `Recount` | contract of training | abstract |
| `BpeTrainer` | `train_bpe`, `run_merges`, `update_words`, stage 2 | refines `Recount` |
| `PretokenText` | bytes, chars and their classes, the scans all schemes share | operators |
| `MaskBits` | masks of a batch, what every classifier starts from | operators |
| `R50kScan`, `Cl100kFamily`, `O200kFamily` | scalar advance and batch masks of the masked schemes | operators |
| `Pretokens` | the scalar schemes (DeepSeek, Superword, BERT), and all schemes by name | operators |
| `Level1Units` | glue rules of SuperBPE's level 1 | operators |
| `PretokenRegex` | the regexes of the schemes and their matching | reference |
| `MaskWalker` | `MaskState`, `next_span`, `fill_spans_two_phase` | state machine |
| `AddedTokens` | `for_each_piece`, `safe_split_ranges` | operators |
| `BertModel` | BERT normalizer, WordPiece, and a reference of each | operators |
| `SuperwordPlan` | plan and both levels of SuperBPE, plain merging | operators |
| `BatchRows` | a batch from documents to rows, parallel and serial | composes the last six |
| `*Proofs` | theorems of the module named | proofs |
| `MC*`, `*.cfg` | small instances | for TLC |

**ParallelGather.** A token is named by its position in the serial result, and the
buffer is a function on the positions written so far; a gap, an overrun and a
wrong token are three different wrong functions. A task goes through `claim`
(`fetch_add`), `encode`, `lock` (`try_lock`), `drain`/`bump` (the copy and the
move of the cursor are two steps, so that what another task might see in
between is not hidden) and `unlock`. The caller waits for the scope, resumes a
panic, or plans the rest (`PlanCopy` is the loop that assigns offsets) and
copies it with `CopyRest` in any order. The sizes of chunks, the failing chunks and
the reservation are chosen by `Init`: the code learns them at random times but
cannot influence them.

**WorkerPool.** Slots `1 ..` are the scanned ones, slot 0 is `serial`. A worker
is its fork number and whether its caches are consistent, which an encode ends
and a panic does not. The scan, the poison check, the fork and the encode are
steps of their own. `contended` remembers whether a thread outside rayon has
ever entered the scan, because the comment on the yield loop speaks about that.

**PretokenTable.** Slots are `<<pair, side>>`. A miss reports a slot, the caller
computes a value, `insert_at` uses the slot or grows first: two steps, as control
returns to the caller in between. `grow` moves one old entry a step in any order,
which covers the order of the code. `PretokenMap` allows the memory to move at a
`Put` only, which is what the emit loop relies on.

**EmitLoop.** Memory is modelled with its address (`place`), its whole capacity
(`mem`, with `Garbage` where nothing was written) and the length the vector itself
knows, so an unchecked store past the capacity, a stale pointer and a stray lane
are all visible. The cache is the map of `PretokenMap`, with the allocation number
that the cached view must match. Arena offsets are cut to `OffsetWrap` as the
`u32` casts do. What a pretoken encodes to is a constant function: the merge
loops have a module of their own. `PretokenStream` takes a
chunk of pretokens and appends the tokens of each, in turn, before it takes the next chunk; the batch of the loop is
the chunk of the contract, so a pretoken left out, repeated or out of turn is no step of it.

**TokenizerSeed.** A byte string competes with another only for an id, so contents
are model values with a table from ids to contents; the answer to a string is an id or
`Pieces`. Mutators act on the prototype, encodes and forks on any instance.
`add_special_tokens` enters the contents one by one and installs them as added tokens
at the end; `pending` holds those in between, where the method has the tokenizer to itself.

**Readers.** `DocumentChunks` runs the serial iterator and one iterator per region over
the same file, interleaved; cuts follow `chunk_ranges` (a target size) or
`par_document_chunks` (a number). `JsonLines` runs the slice iterator, the chunked
ones and the streaming reader together. `SeparatorReader` gets its input in pieces
of any size and may get an error at any read. `SourceFiles` selects one of them
per file, as format and compression do, with one set of variables. `FailLines` and `FailStream` are errors of a
read, which end the iteration.

**MergeCores.** A sequence goes through the heap or the scan loop; in the code its
length decides, here either may meet any length. The refinement maps a position
to the symbol that has it as its first initial symbol, both before and during the
in-place compaction (`Place`, `Copied`).

**BpeTrainer.** Words of the picked pair are updated one at a time in any order.
`queue` and `index` carry over between merges as in the code; `Recount` counts from
nothing for every merge, so the refinement is the claim that the incremental counts
are right. The queue may hold several pairs with the top count; which of them
is popped first makes no difference and is not modelled. The resume of stage 2 merges each
unit by the lowest id of a pair, as encoding does (`SimpleBpeMerge`); `Recount` replays the
learned merges one after another (`Replayed`).

**Pretokens.** A text is a sequence of bytes, a byte a class of bytes: a lead byte names
the general category of its codepoint and its length in UTF-8. Scalar advances follow
`advance_pos` of each file; batch masks follow the mask algebra with sets of positions for words
of 64 bits, whichever SIMD tier computes them. The records `Cl100k`, `Olmo3`, `Qwen2`, `Qwen35`
and those of the o200k family hold what their files change of the shared scan.
`MaskWalker` is independent of the scheme: it walks over a given `advance` and
given `batch_masks`, one span (`next_span`) or one chunk (`fill`) at a time, in any order
(a glued walk keeps to one of the two, as `Level1Spans` does). What a scheme owes it is `Given`:
an advance that goes forward, and masks that agree with it as far as the walk trusts them
(`MasksAgree`). The scheme meets the walk in `MCPretokens`, which computes both from a text
once, in `Init`, and checks there that every scheme keeps `Given` (`SchemesSound`).
`PretokenRegex` is written from the patterns of `pretokenize/options.rs`, as
backtracking matchers. The walk's batch has `W` bytes for 64, its guard `Guard`,
its chunk `Chunk` spans for 256, its offsets wrap at `U16`.

**BatchRows.** The composition of what happens to the documents of one batch. A tokenizer is a
record of scheme, merges, added tokens, prefix space, normalizer and WordPiece vocabulary; a
token is its bytes. Documents are pushed one at a time into groups or cut into fragments
(`PushDocument`, `PushFragments`), chunks are encoded (`EncodeTexts`), rows joined (`JoinRows`), and
then the same batch is encoded by the serial path. Every chunk is also encoded by the
definitions: the normalizer's steps in turn, all merges on a whole pretoken, longest matches. A
pretoken is a call of the scheme's scalar advance; that the walks agree with it is
`pretokens`, and that the merge loops compute `MergeAll` is `rules`. Chunks are encoded in their order
because `gather` covers every other. Texts for SuperBPE are ASCII, so that each junction of
two operands lies between whole chars. NFC and regions that hold many documents are left out.

## The runs

Sizes are distinct states. Every run ends within the bounds alone; none is cut
by a state constraint.

| run | instance | shows |
|---|---|---|
| `gather` | 3 tasks, 0 to 3 chunks, up to 2 tokens, drain limit 1, up to 1 panic, capacities 0 to 2; 714,000 | the committed prefix is exact (`CommittedPrefix`), copies without a lock are disjoint and in range (`CopiesDisjoint`), the result is serial (`DeliveredIsSerial`), a panic is reported and none invented (`PanicsReported`), the overlapped copy is given up only when the output does not fit (`OverflowIsReal`), the contract is refined (`OrderedSpec`), every call ends (`CallEnds`) |
| `workers` | 2 rayon threads, 1 other, 2 encodes each, up to 2 panics; and a short and a long content, ids 0 to 2, the prototype and 1 worker; 955,000 | one user per worker (`ExclusiveWorker`), no use of a worker left half-changed (`NoBrokenWorker`), rayon threads alone never spin (`RayonNeverSpins`), every use ends (`EveryUseEnds`); short answers are a function of the settings (`ShortAnswers`), a fork agrees with its parent (`ForkAgrees`), answers change with the settings only (`AnswersStable`) |
| `table` | 4 keys under every assignment of 2 hashes, 2 values, 1 to 4 pairs, sized for up to 2 entries, symmetric in keys and values; 37,000 | every stored key is met by its walk, also in the middle of a growth (`NoHoles`), walks end (`WalksEnd`), a seeded table never rehashes (`SeedNeverGrows`), the table is a map (`MapSpec`) |
| `chunks` | 5 kinds of pretokens, chunks of up to 2, a new chunk while the output has at most 3 tokens; and 18 tokenizers, documents of up to 9 bytes cut into ranges of 1 and 2 bytes, batches of up to 4 short ones, texts of 5 bytes for 7 merge tables, texts of 3 chars for 3 normalizers; 1,140,000 | capacity is there before every unchecked store (`SlackLeft`), pointers are those of the vector and the table (`PointersFresh`), ranges in the caches hold the encoding of their key (`EntriesSound`), the output is the encodings of the pretokens of the chunk, each once and in turn (`StreamSpec`); parallel rows and tokens are the serial ones (`RowsAreWhole`), chunks have the tokens of the definitions (`SegmentsArePlain`) |
| `sources` | texts of up to 6 bytes over 3, no separator, `s`, `ss` and `sst`, JSONL files of up to 4 bytes over 4, target sizes 1 to 3, 1, 3 or 4 regions, read errors; 612,000 | no document is torn (`NothingTorn`), serial and parallel reading agree while no two separators overlap and every line is usable (`SameDocuments`), separators across reads are seen and documents are disjoint (`StreamCuts`), iteration ends (`SourceEnds`) |
| `rules` | every table of 3 rules over 2 symbols, ids as ranks and ids against ranks, sequences of up to 6; and 2 words of up to 6 and 4 bytes over 2, counts 1 and 1 or 2, a unit of both words for stage 2, 3 tie rules; 1,497,000 | both loops merge the lowest rank first and the leftmost of it (`MergeSpec`), and stop only when nothing merges (`FullyMerged`); counts and index are exact between merges (`CountsExact`), each merge is a recount's (`RecountSpec`), words as trained are words as encoded (`TrainedAsEncoded`) |
| `pretokens` | 13 schemes and 4 level-1 walks, with and without SIMD; texts of 22 to 28 bytes over up to 18 chars, and short ones, `W` = 8, `Guard` = 6, `Chunk` = 3, `U16` = 20, walk-back 1; 1,524,000 | every span of every walk is the scalar advance's (`SpansAreScalar`), the boundary buffer keeps its bounds (`BufferFits`), every scheme's masks keep the contract that the proofs about the walk assume (`Given`), and its tokens are the regexes' (`TokensAreRegex`): both in `SchemesSound` |
| `stream_drop`, `text_overlap`, `jsonl_unusable` | as `sources`, smaller | counterexamples, see [Findings](#findings-and-observations) |
| `token_spaces`, `superword_slash` | rows of `chunks`; one tokenizer | counterexamples |

`workers`, `chunks` and `rules` hold two components each that share no state (`MCWorkers`, `MCChunks`, `MCMergeRules`). A
variable `part` says which one runs while the other stays at one initial state, so the states are those of
the two instances added, not multiplied.

Why the bounds are enough for the interesting cases:

- `gather`: three tasks let one hold the lock, one find it held, and one finish the
  chunk that both miss. With a drain limit of 1 and three chunks `advance` stops by limit.
  Capacities 0, 1 and 2 against totals 0 to 2 give a refused reservation, one that
  overflows at the first chunk or after a commit, an exact one and a spare one.
- `workers`, pool: two encodes a thread let a slot be broken, met again and rebuilt; two panics
  break two slots, or one twice. An outsider contends for scanned slots and for `serial`.
- `table`: with two hashes, all four keys may share a home pair, so keys are displaced,
  wrap around, are moved by a growth and are replaced where they are displaced.
- `chunks`, emit loop: the kinds are one for each branch of the code; two pretokens per chunk put a
  miss before, after and between hits, and three tokens of output let the second chunk
  start with and without a reallocation.
- `workers`, seed: contents meet only where they compete for ids; three ids give duplicates,
  unused ids, and a special token that takes over an entry.
- `sources`: six bytes hold two separators of three bytes, or runs longer than a region; of the separators one is
  empty, one overlaps itself and one repeats its first byte without doing so.
- `rules`, loops: six symbols hold two merges of the same rank around a third, the case where
  stale heap entries meet a pair with their own rank.
- `rules`, trainer: six symbols hold runs with overlapping pairs and a merge that undoes
  another pair's count; the targets go past the point where no pair is left.
- `pretokens`: what a scheme decides at a batch edge depends on a char or two on each side of it,
  so every pair of chars is laid across the first edge, at two distances, behind and before words; short
  texts that fill no batch take every triple. Runs of 25 equal bytes overflow offsets, chunks and
  batches. Mask algebra looks back a bounded number of chars (`Walkback` where the code loops).
- `chunks`, rows: ranges of one byte put a cut at every place that allows one; the documents have single
  spaces, double spaces, added tokens that hold a space, that absorb it on either side, and that do neither.
  Merge tables have four rules, of which one or two span words, one table for each rule of the glue set;
  five bytes hold two words and what separates them, or an operand on both sides of a run's end.
  Only one added token of a tokenizer holds a space; `token_spaces` has two.

### Fairness

- `gather`: weak fairness of the caller and of each task. rayon runs every spawned task
  and no task waits: `try_lock` gives up. The encode itself is assumed to return or panic.
- `workers`: weak fairness of every thread that has entered a call. The scan repeats
  until a slot is free; its holder goes on, and encodes are bounded in number. A blocked
  thread gets the lock in the end because the other holders are finite in number; std's
  mutex promises no order, and none is assumed.
- `sources`: weak fairness of each reader, as callers iterate until `None`. A read that
  fails is not fair: errors may never come.
- The walk of `pretokens` and the batch of `chunks` are loops over their input, checked for safety only.
- The others are safety only: an encode is a sequential call that its caller waits for.
  That the table's walks end is an invariant (`WalksEnd`: a free slot in every walk).

Liveness is model-checked only, TLAPS proves none of it.

## The proofs

Every theorem is checked by `tlapm` from the modules as they are. Constants are
arbitrary within the assumptions of the module: any number of threads, slots,
chunks, tokens, keys, table sizes, contents, rules and lengths.

| module | theorems | assumption on constants |
|---|---|---|
| `BatchProofs`, gather | `Inductive`, `TypeCorrect`, `CommitsArePrefix`, `ClaimsAreUnique`, `ReturnsSerial`, `NothingLost`, `OverflowsAreReal`, `PanicsAreReported`, `CopiesNeverOverlap`, `ImplementsOrdered` | `GatherAssumption`: naturals, at least one thread |
| `BatchProofs`, pool | `PoolInductive`, `PoolTypeCorrect`, `Exclusive`, `BrokenNeverUsed`, `OneScanIsEnough`, `ReplacedOnlyAfterPanic` | `PoolAssumption`: a finite, non-empty set of rayon threads |
| `BatchProofs`, rows | `RowsStayWhole` | `BatchAssumption`: positive chunk sizes, documents are sequences of bytes; and `CutsAreSafe` |
| `PretokenTableProofs` | `Inductive`, `TypeCorrect`, `EntriesReachable`, `KeysUnique`, `OfferValid`, `WalksAlwaysEnd`, `SeedingNeverGrows`, `ImplementsMap` | `TableAssumption`: new tables have a pair |
| `EmitLoopProofs` | `Inductive`, `TypeCorrect`, `StoresInBounds`, `PointersAreFresh`, `EntriesAreSound`, `SlicesAreEncodings`, `ImplementsStream` | `EmitAssumption`: an inline value has one to four tokens; and `ArenaFits` |
| `TokenizerSeedProofs` | `Inductive`, `TypeCorrect`, `ShortCachePure`, `ParentAndForkAgree`, `AnswersNeverDrift` | a finite vocabulary, as "every set of ids has a last one" |
| `MergeCoresProofs` | `TypeCorrect`, `MergesFully`, `MergesInOrder` | `TablesAssumption`: ranks are naturals |
| `BpeTrainerProofs` | `CountsStayExact`, `TrainingRecounts`, `TrainingIsEncoding` | `TrainerAssumption`: the bytes are `0 .. B - 1`, corpora are sequences of byte words that occur at least once; the last two: `SpecialsApart` |
| `SourceFilesProofs` | `NoDocumentTorn`, `SerialIsParallel`, `OverlapSuffices` | `SourcesAssumption`: texts and separators are sequences of bytes, `object` is not `cr`, targets and counts are positive |
| `MaskWalkerProofs` | `SpansScalar`, `BufferNeverOverflows` | `WalkerAssumption`: positive bounds, and offsets reach past two batches; `Walking` starts from a text with `Given` |

`ClaimedOnce`, `NoChunkLost`, `ReplacedAfterPanic`, `OneSlotPerKey`,
`OfferIsFirstEmpty` and `SlicesMatch` are proved and are not listed in a cfg.

`BatchProofs` extends the three components of `batch.rs`; what they have in common is named apart (`Spec`,
`PoolSpec` and `RowsSpec`, `TypeOK` and `PoolTypeOK`).

Each proof is an inductive invariant `IInv` (`PoolInv` for the pool, `RowsInv` for the rows), one lemma per action, and the property from it.
The invariants, and why the property alone is not enough:

- **Gather.** `TypeOK`, who may run (`Scheduling`), that the stages between `try_lock`
  and unlock belong to the holder (`Locking`), that every index below the counter is
  encoded or in one task's hands (`Claims`), that the buffer is the committed
  prefix (`Commits`), and that written, pending and unplanned chunks make up the
  output (`Plans`). `DeliveredIsSerial` speaks of the end only; the step that returns needs
  `Plans`, the copy needs `Commits` at the join, and that needs `Locking`, because two tasks in
  `drain` would both commit the same chunk.
- **Pool.** `RayonNeverSpins` is a counting argument (`Crowding`): at slot `k` and
  beyond there are at most as many threads as slots. A thread moves on from `k` only if
  another holds it, and that one stays behind. `NoBrokenWorker` needs that a worker neither
  in use nor behind a poison is consistent (`Soundness`).
- **Rows** (`RowsInv`). The finished chunks and the group behind them hold the tokens of the documents
  pushed so far, and joining their rows in order gives the rows of those documents (`ChunksInv`);
  each output is that of its chunk (`OutsInv`). `RowsAreWhole` speaks of the end only, but the marks that the join
  reads are set while documents are cut. A document's fragments encode to what it does by a telescoping argument
  over the places of a cut (`CutsTelescope`), used twice where a fragment is cut again
  (`FragmentsKeepTokens`), and all fragments but the first add their tokens to the row of the first (`JoinsFragments`).

  `CutsAreSafe` says of the documents, and of their fragments, that cutting a text at a place where
  `MayCut` allows it changes no token, which is what `safe_split_ranges` promises ("identical to encoding `bytes` in
  one pass", `pretokenize/mod.rs:577`). It speaks of single texts and places, not of chunks, sizes, groups or rows. It is
  false of the code in one known case, two added tokens that hold a space (`token_spaces`). `MCChunks`
  states it as an `ASSUME`, which TLC evaluates for the constants of `chunks`.
- **Table.** `NoHoles` survives an insert only because the offered slot is still the
  first empty one of the walk (`OfferIsFirstEmpty`), and a growth only because the new
  table is exactly what has been moved of the old one (`Growing`). `WalksEnd` is a separate
  argument on cardinalities (`Load`): at most three quarters of the slots are taken.
- **Emit loop.** `Bounds` (slack and fresh pointers) holds because each way out of the slow
  path reserves a whole chunk and takes the pointers anew. `Ranges` holds because
  the arena only grows, provided that its offsets do not wrap (`ArenaFits`); `Cuts`
  says that each recorded cursor ends the tokens of its pretoken.
- **Seed.** For every instance: `Indexed` (the inverse leads to an id with those bytes,
  so that a walk over the vocabulary reaches all that the flag decides) and `Faithful`
  (inside `add_special_tokens` only contents that are pending and resolve may be stale).
- **Merges.** The list links the live positions in their order (`Linked`), every
  pair that merges has its heap entry or its rank (`LookedUp`), and compaction has
  copied what it passed (`Compacting`). A popped entry whose rank is that of
  the present pair is then a pair no other precedes, whoever pushed the entry.
- **Trainer.** `CountsExact` speaks of the time between merges, the invariant of every step. What a
  pair will have in the queue once the merge is through (`Due`: its queued count and its
  pending change) is its count in the words as they are; the one exception are pairs of old symbols
  that no word has any more, which may have less than nothing (`Counted`). These are pairs merged
  earlier: popped from the queue with their whole count, they are taken away once more for every overlap
  in a run of equal symbols. Such a pair never comes back, since a merge only creates pairs
  that have the new symbol. `Indexed`
  says that every pair of a word is queued or pending, and its word in the index or among the gained ones;
  `Updating` that the words that are done have no picked pair left and the others no new
  symbol yet, which is why the order of the words, or their threads, does not matter. The step of one word
  (`UpdateWordFacts`) goes through the rounds of the loop: `PlacesBefore` and `PlacesAfter` say where a pair stands
  before and after one merge, `StepCount` that for any other pair than the picked one the difference is what the round records, and
  `PairCountChanges` carries it to the sum over all words.
  `TrainingRecounts` is the refinement, step by step. A merge that ends is the step `LearnBest`: the queue's
  maximum is the recount's because of `CountsExact`, and a word that is done is `Replaced` because `update_word`,
  which merges the first occurrence again and again, and the recursion of `Replaced` agree on every
  word (`UpdateWordReplaces`: after any number of rounds, the front is what the recursion makes of it, and
  the rest is untouched). The resume rests on a second invariant, `Trained`. Every word is what the merges so far,
  replayed in order, make of a text of the corpus (`Replays`), the words that the present merge has not reached yet
  are what the merges before it make. Every queued or pending pair spells a piece of a text, and is what the merges make of
  that piece unless it has been merged before (`Queued`). And the bytes of each merge become the symbol of
  the first merge of the same pair (`Settles`, in `Learning`). The last part is about dead merges: a pair whose count fell to zero
  may be merged a second time, and there are then two symbols with the same bytes. Stage 2 looks symbols up by their bytes, and finds
  the one that the words have (`MadeIsFirst`). So its map leads the pairs to their first merges, in the order of learning
  (`MergeMapOrders`), and for such a map merging by the lowest id, leftmost first, comes out where the replay does
  (`SimpleIsReplayed`).
  `TrainingIsEncoding` is the same for the words of both stages.

  `SpecialsApart` says that no special token of two bytes or more stands in the text of a word or a unit. `train_bpe` does not
  enforce it (it is up to the caller whether special tokens are cut out of the corpus first); without it the claim is false, as
  a special that is spelled like a merge takes its place in the map (see the observations). `MCMergeRules` states it as an
  `ASSUME`, which TLC evaluates for the constants of `rules`.
- **Readers.** Three invariants, for the three kinds of file. Text (`TextInv`): the chunks
  tile the file at occurrences of the separator, and each iterator stands at the start of its
  region or behind an occurrence its region owns. No assumption is made about separators, which may be empty
  or overlap themselves. That a serial document is also a parallel
  one needs that the serial iterator stops at every chunk boundary, that is, that the occurrence
  found from the probe is one it finds as well; it does in every file in which no two occurrences
  overlap (`SeparatorsApart`), which is the condition of `SameDocuments`. Without it the claim is
  false (`text_overlap`). That no document of a region is torn needs the condition for `par_document_chunks` only,
  whose regions may begin inside a separator. Lines (`LinesInv`): a
  chunk starts behind a newline, and what the chunked iterators have handed out, chunk by chunk,
  is the usable lines of what they have read. Streaming (`StreamInv`): the buffer is a stretch
  of the input, and no separator starts before the place where the search resumes.
- **Walk** (`WalkInv`). What has been handed out is a chain of spans from 0 (`SpanChain`); a chain
  that is long enough, or at whose end no span is left, is the list of tokens. Between single
  spans (`SegmentInv`), the bits that are ready are exactly the token starts behind `pos` up to a
  limit, and there is no bad byte between `pos` and that limit: this is what makes a bit inside
  a token already handed out harmless, as such a bit has a bad byte before it. Within a
  fill (`HarvestInv`), the buffer is a chain of tokens from its base that leaves out none: no
  token starts between the last boundary and `scan` (`NoneBetween`), and no bad byte
  (`NoneBad`). `BufferFits` needs the last conjuncts for `batch`: at bit `at` of a batch
  the buffer has at most `Needed + at` boundaries, since each of them moves at least one byte.
  A glued fill filters its buffer; what is kept is a chain of units because a unit ends
  at the first token end that nothing glues over (`KeptFacts`).

The library's induction
theorems take an operator and cannot be instantiated here; facts about recursive functions and the
flattening of a sequence of sequences are proved by the least counterexample instead (`LeastNumber`).

Not proved, and left to TLC:

- liveness under fairness (`CallEnds`, `EveryUseEnds`, `SourceEnds`), which TLAPS does not do;
- `SchemesSound`, which compares mask algebra with scans and scans with regexes over the classes
  of chars, a finite but large case distinction. `Given`, its first half, is what the theorems
  about the walk start from: TLC establishes it for the texts of `pretokens`, and the walk is
  proved for every text that has it;
- `SegmentsArePlain`, and the hypothesis `CutsAreSafe` of the theorem about the rows: facts about schemes, merge
  tables and added tokens that are of the same kind, and about recursive definitions.

## Findings and observations

Five disagreements between the code and what its comments say have a run of their own, whose
counterexample is the behaviour described:

- `stream_drop`: the streaming splitter means to keep what follows a separator for the next
  call (`input/file_source.rs:410`), but the next call clears the buffer (`:377`). Compressed
  text loses what was read together with a separator and follows it.
- `text_overlap`: `encode_files_docs_serial` promises the documents of the parallel path, "token- and
  order-identical" (`batch.rs:1006`). A separator that overlaps itself, such as two newlines, breaks
  that: `chunk_ranges` (`input/file_source.rs:192`) takes the first occurrence after its probe, which in
  a run of three may be one the serial iterator does not use. With separator `ss` and a target of 2, `tsss` has
  the documents `t` and `s` serially, and `ts` in regions.
- `jsonl_unusable`: the same promise for JSONL. A line that is no record, or lacks the field, makes the
  slice reader return `None` (`input/jsonl.rs:47`). Serially that ends the file, in regions only its region:
  of a line with nothing but a carriage return and a record behind it, the parallel path encodes the
  record, and the serial path nothing.
- `token_spaces`: `safe_split_ranges` promises ranges that encode as the whole (`pretokenize/mod.rs:574`), and calls its search
  for added tokens across a cut exhaustive (`:622`). The search (`:632`) finds occurrences that do not overlap,
  from the start of a window as wide as the longest token, so one that lies before the cut may hide the one across
  it. With the added tokens `a a` and `s s s`, the document `s a a a a` is cut before its last word, through the
  second `a a` of the serial path. The SentencePiece twin steps one byte at a time and does not.
- `superword_slash`: two-level encoding is documented as bit-identical (`bpe/superword.rs:27`). The threshold
  rests on contexts planted around each junction (`VERIFY_PAD`, `:134`), and none of them is
  punctuation followed by a newline, behind which `superbpe_stage1` takes a slash into the same unit and ends
  it there. With merges `/` `.`, `.` newline and `a` space, the text `.`, newline, `/`, `.` comes out as
  three tokens where plain merging gives two.

Observations that are not runs:

- `run_merges` is documented to stop when no pair remains (`bpe_train.rs:255`). Pairs whose count
  fell to zero stay in the queue and are merged, so symbols are learned that never occur, some with the bytes of
  another. `rules.cfg` with the property `MergesOccur` shows it; `Recount` therefore allows such merges (`LearnNothing`).
- Two regexes are accepted for GPT-4 (`pretokenize/options.rs`); the one that ends in
  `\s++$` is modelled.
- The pool never clears a poison: a slot that saw one panic builds a new
  worker for every later use.
- Arena offsets are 32 bits and the arena has no limit. The theorems about the emit loop
  assume `ArenaFits`; 2^32 tokens in one worker's arena would be needed to break it.
- `set_ignore_merges` leaves the long cache alone: a long pretoken encoded before keeps its
  old answer. Nothing in the package sets the flag after encoding.
- At a JSONL line that holds only a carriage return the slice reader stops, and the streaming
  reader skips it.
- The streaming splitter, when it skips an empty document, goes on without searching the rest
  of its buffer, and so may merge the documents after it. `NoSeparatorMissed` holds up to then.
- A special token spelled like a merge takes that merge's place in the map from
  bytes to symbols that stage 2 of the trainer uses (`SpecialsApart` excludes it).
- `load_tokenizer/hub.rs:273` names its temporary file by process only, and
  `bindings/hub.rs` releases the interpreter lock: two threads that fetch one file share the
  temporary file, and one may rewrite what the other has just renamed into place.
- `encode(&mut self)` of the Python class, called while another thread is in `encode_batch`,
  raises "Already borrowed" instead of waiting (`lib.rs:102`).

## What is not modelled

- **SuperBPE beyond ASCII**: junctions inside a char (`utf8_shape`, `junction_of`, `open_right_can_split`), the kill
  switches and the capped plan. The level-1 walks are modelled for all chars.
- **Tables of codepoints** (`pretokenize/unicode.rs`): which codepoint has which class; classes are given.
  Every text is valid UTF-8; other segments pass the BERT normalizer unchanged (`bpe/bert_normalizer.rs:105`).
  There a category has one role; the codepoints that its table treats unlike the rest of their category
  (`pretokenize/unicode.rs:766`: U+FFFD, unassigned ones, the stale lists) have no class.
- **The seed of a WordPiece model**, which leaves `ignore_merges` aside (`bpe/tiktoken.rs:602`):
  `TokenizerSeed` is the BPE seed.
- **A mutator after the plan of SuperBPE**: `SuperwordPlan` derives the plan of a finished tokenizer and
  `TokenizerSeed` has the mutators without a plan; the two are not composed. Nor is a batch with workers from before
  and after a mutation: no mutator is exposed once there is a pool.
- **Asserts that cannot fail**: the `expect` after the join (`batch.rs:636`), since every chunk is then
  encoded (`DeliveredIsSerial` needs the same fact).
- **The reference pretokenizers** that only tests and benchmarks call.
- **NFC segments, regions inside `encode_chunk`**: `BatchRows` has neither; `SourceFiles` has the regions.
- **SentencePiece**: planned; its merge core and caches are of the kind modelled.
- **Loaders, Parquet, decompression, hub cache**: translation and I/O. The hub cache has
  concurrent writers and is planned.
- **Bindings, command line, Python package**: conversion of arguments. That a forked child must
  not fan out (`_parallel.py`) concerns the process model below these models.
- Inside modelled parts: prefetches, huge pages and page advice, vector code for packing,
  the packed two-level layout of the rank table, freed memory, logging.

## Plan

Done so far, in this order: gather, pool, table, emit loop, seed, readers, merge loops,
trainer, pretokenizers, chunks and rows with added tokens, SuperBPE and BERT; the proofs of the
first seven, of the trainer (counts, refinement, and that training is encoding), of the walk and of the rows.

1. **Hub cache.** Several threads and processes that resolve, download to a temporary file and
   rename, with crashes; the promise that readers never see part of a file.
2. **SentencePiece.** Its per-thread state as a second instance of the cache contracts,
   and `safe_fragment_ranges` beside `safe_split_ranges`; SuperBPE junctions inside a char.
