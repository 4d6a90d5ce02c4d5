------------------------------ MODULE MaskBits ------------------------------
(***************************************************************************)
(* The bit masks of one batch (src/pretokenize/fast/mask.rs): a mask is    *)
(* the set of its bits, a shift moves the set and drops what leaves the    *)
(* batch.  The code's batch has 64 bytes; here W.  The tiers (NEON,        *)
(* AVX-512, AVX2) compute the same masks by different instructions and are *)
(* one definition.                                                         *)
(***************************************************************************)
EXTENDS PretokenText

CONSTANTS
    W,         \* bytes of a batch
    Guard      \* lookahead bytes a batch needs past its end (6 in the code)

ASSUME MaskAssumption == W \in Nat /\ W > 3 /\ Guard \in Nat

Bits == 0 .. W - 1
Up(m, k) == {i + k : i \in m} \cap Bits
Down(m, k) == {i - k : i \in m} \cap Bits
From(k) == k .. W - 1
\* The scan + 70 <= len guard of every scheme's classifier.
Guarded(t, scan) == scan + W + Guard <= Len(t)
\* Every byte of the batch needs the scalar path.
AllBad == [usable |-> {}, bad |-> Bits]

AsciiMasks(t, scan) ==
    LET bits(S) == {i \in Bits : Byte(t, scan + i) \in S}
    IN  [l |-> bits(Lower \cup Upper), d |-> bits({"0"}), s |-> bits({" "}),
         wt |-> bits({"t"}), n |-> bits(Newline), ap |-> bits({"'"}),
         hi |-> {i \in Bits : NonAscii(Byte(t, scan + i))}]

\* Is the char at p something \S matches?
nn_at_full(t, p) == ClassAt(t, p) # "Whitespace"

\* The char that holds byte p - 1: its category, its lead and its end.
char_through(t, p) ==
    LET j == LastStart(t, 0, p)
    IN  [cat |-> CharAt(t, j).cat, lead |-> j, end |-> j + CharAt(t, j).len]

NoUni == [l |-> {}, n |-> {}, o |-> {}, ws |-> {}, w2 |-> {}, w3 |-> {},
          lead2 |-> {}, lead3 |-> {}, lead4 |-> {}, cont |-> {}, resid |-> {}]

\* Every non-ASCII char with its lead in m, classified by `classes`.  Whitespace
\* that straddles the end of the batch, stray continuation bytes and, in a
\* scheme that counts the chars of a number, number chars stay unresolved.
classify_uni_chars(t, scan, m, classes, numbers) ==
    LET leads == {i \in m : Byte(t, scan + i) # "~"}
        len(i) == Leads[Byte(t, scan + i)][2]
        class(i) == classes[CharAt(t, scan + i).cat]
        chm(i) == (i .. i + len(i) - 1) \cap Bits
        bytes(S) == UNION {chm(i) : i \in S}
        of(c) == {i \in leads : class(i) = c}
        straddling == {i \in of("Whitespace") : i + len(i) > W \/ len(i) = 4}
        whole == of("Whitespace") \ straddling
    IN  [l |-> bytes(of("Letter")), n |-> bytes(of("Number")),
         o |-> bytes(of("Other")), ws |-> bytes(of("Whitespace")),
         w2 |-> {i \in whole : len(i) = 2}, w3 |-> {i \in whole : len(i) = 3},
         lead2 |-> {i \in leads : len(i) = 2},
         lead3 |-> {i \in leads : len(i) = 3},
         lead4 |-> {i \in leads : len(i) = 4},
         cont |-> bytes(leads) \ leads,
         resid |-> bytes(straddling) \cup (m \ bytes(leads))
                     \cup IF numbers THEN {} ELSE bytes(of("Number"))]

\* What two sets of class masks say together.
Merge(a, b) == [f \in DOMAIN a |-> a[f] \cup b[f]]

\* The starts inside runs of ASCII digits for \p{N}{1,3}: the start of a run
\* re-arms three bytes on while the run lasts, doubling the hop each time.
digit_run_splits3(d) ==
    LET hops == d \cap Down(d, 1) \cap Down(d, 2) \cap Down(d, 3)
        go[sh \in {3 * 2^k : k \in 0 .. 5}] ==
          LET before == IF sh = 3 THEN [b |-> d \ Up(d, 1), c |-> hops]
                        ELSE go[sh \div 2]
          IN  IF sh >= W THEN before
              ELSE [b |-> before.b \cup Up(before.b \cap before.c, sh),
                    c |-> before.c \cap Down(before.c, sh)]
    IN  go[96].b

\* Smear seed upward through the contiguous bits of within.
smear_up(seed, within) ==
    LET go[k \in 0 .. 6] ==
          IF k = 0 THEN [a |-> seed, m |-> within]
          ELSE LET before == go[k - 1]
                   sh == 2 ^ (k - 1)
               IN  IF sh >= W THEN before
                   ELSE [a |-> before.a \cup (Up(before.a, sh) \cap before.m),
                         m |-> before.m \cap Up(before.m, sh)]
    IN  go[6].a

\* The apostrophes at token starts absorb their suffix: the boundary after
\* the apostrophe moves behind it.  One that could reach past the batch
\* leaves the rest of the batch to the scalar path; one before a non-ASCII
\* byte, in a scheme that folds case, leaves its own three bytes to it.
ContractionFixup(t, scan, boundary, bad, ap, fold) ==
    LET cand == (ap \cap boundary) \ bad
        late == {i \in cand : i >= W - 3}
        first == IF late = {} THEN W ELSE Min(late)
        at(i) == Suffix(t, scan + i, fold)
        odd == {i \in cand : i < first /\ fold /\ NonAscii(Byte(t, scan + i + 1))}
        moved == {i \in cand : i < first /\ at(i) # 0}
        newBad == bad \cup From(first) \cup UNION {i .. i + 2 : i \in odd}
        b == (boundary \ {i + 1 : i \in moved}) \cup {i + at(i) : i \in moved}
    IN  [usable |-> b \ newBad, bad |-> newBad]
=============================================================================
