---------------------------- MODULE BB84RoundProofs ----------------------------
(***************************************************************************)
(* Proofs about BB84Round, for every length, rate and block.               *)
(***************************************************************************)
EXTENDS BB84Round, FiniteSetTheorems, SequenceTheorems, TLAPS

-----------------------------------------------------------------------------
(* Parities, of bits b in the order o over the places P *)

Wrong(b, o, P) == {i \in P : b[o[i]] = "wrong"}
Odd(b, o, P)   == Cardinality(Wrong(b, o, P)) % 2 = 1

LEMMA OddIsParitiesDiffer ==
    ASSUME NEW P PROVE ParitiesDiffer(P) <=> Odd(bits, order, P)
BY DEF ParitiesDiffer, WrongAt, Odd, Wrong

LEMMA NoneWrong == ASSUME NEW b, NEW o PROVE ~Odd(b, o, {})
<1>1. Wrong(b, o, {}) = {}
  BY DEF Wrong
<1>2. Cardinality(Wrong(b, o, {})) = 0
  BY <1>1, FS_EmptySet
<1> QED
  BY <1>2, SMT DEF Odd

\* The parities over two disjoint ranges together differ exactly when they
\* differ over one of them.
LEMMA Split ==
    ASSUME NEW b, NEW o, NEW A, NEW B,
           IsFiniteSet(A), IsFiniteSet(B), A \cap B = {}
    PROVE  Odd(b, o, A \cup B) <=> ~(Odd(b, o, A) <=> Odd(b, o, B))
<1> DEFINE U == Wrong(b, o, A)
           V == Wrong(b, o, B)
<1>1. IsFiniteSet(U) /\ IsFiniteSet(V)
  BY FS_Subset DEF Wrong
<1>2. Wrong(b, o, A \cup B) = U \cup V
  BY DEF Wrong
<1>3. U \cap V = {}
  BY DEF Wrong
<1>4. Cardinality(U) \in Nat /\ Cardinality(V) \in Nat
  BY <1>1, FS_CardinalityType
<1>5. Cardinality(U \cup V) = Cardinality(U) + Cardinality(V)
  <2>1. Cardinality(U \cap V) = 0
    BY <1>3, FS_EmptySet
  <2>2. Cardinality(U \cup V) = Cardinality(U) + Cardinality(V) - Cardinality(U \cap V)
    BY <1>1, FS_Union
  <2> QED
    BY <1>4, <2>1, <2>2, SMT
<1>6. \A c, d \in Nat : (c + d) % 2 = 1 <=> ~(c % 2 = 1 <=> d % 2 = 1)
  BY SMT
<1>7. (Cardinality(U) + Cardinality(V)) % 2 = 1
      <=> ~(Cardinality(U) % 2 = 1 <=> Cardinality(V) % 2 = 1)
  BY <1>4, <1>6
<1> QED
  BY <1>2, <1>5, <1>7 DEF Odd

\* Over a single position they differ when its bit is wrong.
LEMMA Single ==
    ASSUME NEW b, NEW o, NEW i, Odd(b, o, {i})
    PROVE  b[o[i]] = "wrong"
<1>1. ASSUME Wrong(b, o, {i}) = {} PROVE FALSE
  <2>1. Cardinality(Wrong(b, o, {i})) = 0
    BY <1>1, FS_EmptySet
  <2> QED
    BY <2>1, SMT DEF Odd
<1> QED
  BY <1>1 DEF Wrong

\* One less is odd when it is even.
LEMMA OneLess == \A x, y \in Nat : y = x - 1 => (y % 2 = 1 <=> ~(x % 2 = 1))
BY SMT

\* Putting a wrong bit right changes the parity over the places among which its
\* position is, and over no others.
LEMMA Corrected ==
    ASSUME NEW n \in Nat, NEW b \in [1..n -> {"right", "wrong"}],
           NEW o \in [1..n -> 1..n],
           \A i, j \in 1..n : o[i] = o[j] => i = j,
           NEW k \in 1..n, b[o[k]] = "wrong",
           NEW P \in SUBSET (1..n), k \in P
    PROVE  Odd([b EXCEPT ![o[k]] = "right"], o, P) <=> ~Odd(b, o, P)
<1> DEFINE c == [b EXCEPT ![o[k]] = "right"]
           W == Wrong(b, o, P)
<1>1. \A i \in 1..n : (c[o[i]] = "wrong") <=> (b[o[i]] = "wrong" /\ i # k)
  OBVIOUS
<1>2. Wrong(c, o, P) = W \ {k}
  BY <1>1 DEF Wrong
<1>3. k \in W
  BY DEF Wrong
<1>4. IsFiniteSet(W)
  <2>1. IsFiniteSet(1..n)
    BY FS_Interval
  <2> QED
    BY <2>1, FS_Subset DEF Wrong
<1>5. Cardinality(W) \in Nat /\ Cardinality(W \ {k}) \in Nat
  BY <1>4, FS_RemoveElement, FS_CardinalityType
<1>6. Cardinality(W \ {k}) = Cardinality(W) - 1
  BY <1>3, <1>4, FS_RemoveElement
<1>7. \A x, y \in Nat : y = x - 1 => (y % 2 = 1 <=> ~(x % 2 = 1))
  BY OneLess
<1>8. Cardinality(W \ {k}) % 2 = 1 <=> ~(Cardinality(W) % 2 = 1)
  BY <1>5, <1>6, <1>7
<1> QED
  BY <1>2, <1>8 DEF Odd

-----------------------------------------------------------------------------
(* Sizes *)

\* At most everything is sampled.
LEMMA SampleFits == \A n \in Nat : SampleSize(n) \in 0..n
<1> SUFFICES ASSUME NEW n \in Nat PROVE SampleSize(n) \in 0..n
  OBVIOUS
<1>1. n * SamplePercent \in Nat
  BY RatesAssumption, SMT
<1>2. (n * SamplePercent) \div 100 \in Nat
  BY <1>1, SMT
<1> QED
  BY <1>2, SMT DEF SampleSize, Smaller, Larger

\* Blocks are never empty, and never longer than what there is.
LEMMA BlocksNotEmpty ==
    ASSUME sample \in [errors : Nat, size : Nat], sample.errors > 0,
           bits \in Seq({"right", "wrong"}), Len(bits) > 0, pass \in 1..NumPasses
    PROVE  BlockSize \in 1..Len(bits)
<1>1. Len(bits) \in Nat
  BY LenProperties
<1>2. InitialBlockSize \in Nat /\ InitialBlockSize >= 2
  <2>1. 100 * sample.errors \in Nat /\ 100 * sample.errors > 0 /\ 73 * sample.size \in Nat
    BY SMT
  <2>2. (73 * sample.size) \div (100 * sample.errors) \in Int
    BY <2>1, SMT
  <2> QED
    BY <2>2, SMT DEF InitialBlockSize, Larger
<1>3. Doublings[pass] \in {1, 2, 4, 8}
  <2>1. pass \in {1, 2, 3, 4}
    BY SMT DEF NumPasses, Doublings
  <2> QED
    BY <2>1 DEF Doublings
<1>4. InitialBlockSize * Doublings[pass] \in Nat /\ InitialBlockSize * Doublings[pass] >= 1
  BY <1>2, <1>3, SMT
<1> QED
  BY <1>1, <1>4, SMT DEF BlockSize, Smaller

-----------------------------------------------------------------------------
(* The invariant *)

Before == {i \in DOMAIN order : i < start}

\* Cascade runs on some bits, after some error was found.
InCascade ==
    phase \in {"passes", "blocks", "search"} => sample.errors > 0 /\ Len(bits) > 0

InPass ==
    IF phase \in {"blocks", "search"}
    THEN order \in Bijection(1..Len(bits), 1..Len(bits)) /\ pass >= 1 /\ start >= 1
    ELSE order = << >>

\* A search stays in its block, in a range with an odd number of errors.
InSearch ==
    phase = "search" =>
        /\ start <= lo /\ lo <= hi /\ hi <= BlockEnd
        /\ Odd(bits, order, start..BlockEnd)
        /\ Odd(bits, order, lo..hi)

Balanced == ~Odd(bits, order, Before)

\* No key is made at an error rate that is not tolerated.
Tolerated ==
    phase \in {"passes", "blocks", "search", "amplify"} => Below(sample, ThresholdPercent)

\* Cascade and the amplification have the bits of a round that had enough.
EnoughBits ==
    phase \in {"passes", "blocks", "search", "amplify"} => Sifted >= MinSifted

IInv == /\ TypeOK /\ InCascade /\ InPass /\ InSearch /\ Balanced
        /\ Tolerated /\ EnoughBits /\ ResultAllowed

LEMMA InitInv == Init => IInv
<1> SUFFICES ASSUME Init PROVE IInv
  OBVIOUS
<1> USE DEF Init
<1>1. TypeOK
  BY SMT DEF TypeOK, Phases, NumPasses, Doublings, Pending, Failed
<1>2. Balanced
  <2>1. Before = {}
    BY SMT DEF Before
  <2> QED
    BY <2>1, NoneWrong DEF Balanced
<1>3. InCascade /\ InPass /\ InSearch /\ Tolerated /\ EnoughBits /\ ResultAllowed
  BY DEF InCascade, InPass, InSearch, Tolerated, EnoughBits, Sifted, ResultAllowed
<1> QED
  BY <1>1, <1>2, <1>3 DEF IInv

\* The block at hand and what comes before it: two disjoint ranges of positions,
\* which together are what comes before the next block.
LEMMA Geometry ==
    ASSUME IInv, phase \in {"blocks", "search"}, start <= Len(bits)
    PROVE  /\ BlockSize \in 1..Len(bits)
           /\ BlockEnd \in start..Len(bits)
           /\ order \in [1..Len(bits) -> 1..Len(bits)]
           /\ \A i, j \in 1..Len(bits) : order[i] = order[j] => i = j
           /\ Before \cup (start..BlockEnd) \in SUBSET (1..Len(bits))
           /\ IsFiniteSet(Before) /\ IsFiniteSet(start..BlockEnd)
           /\ Before \cap (start..BlockEnd) = {}
           /\ {i \in DOMAIN order : i < start + BlockSize}
              = Before \cup (start..BlockEnd)
<1> DEFINE n == Len(bits)
<1>1. n \in Nat /\ start \in 1..n
  BY LenProperties, SMT DEF IInv, TypeOK, InPass
<1>2. BlockSize \in 1..n
  BY BlocksNotEmpty DEF IInv, TypeOK, InCascade, InPass
<1>3. BlockEnd \in start..n
  BY <1>1, <1>2, SMT DEF BlockEnd, Smaller
<1>4. order \in [1..n -> 1..n] /\ \A i, j \in 1..n : order[i] = order[j] => i = j
  BY DEF IInv, InPass, Bijection, Injection, IsInjective
<1>5. Before = 1..(start - 1)
  <2>1. DOMAIN order = 1..n
    BY <1>4
  <2> QED
    BY <1>1, <2>1, SMT DEF Before
<1>6. {i \in DOMAIN order : i < start + BlockSize} = Before \cup (start..BlockEnd)
  <2>1. DOMAIN order = 1..n
    BY <1>4
  <2>2. ASSUME NEW i \in 1..n
        PROVE  i < start + BlockSize <=> i \in 1..(start - 1) \/ i \in start..BlockEnd
    BY <1>1, <1>2, SMT DEF BlockEnd, Smaller
  <2>3. 1..(start - 1) \subseteq 1..n /\ start..BlockEnd \subseteq 1..n
    BY <1>1, <1>3, SMT
  <2> QED
    BY <1>5, <2>1, <2>2, <2>3
<1>7. Before \cup (start..BlockEnd) \in SUBSET (1..n)
  BY <1>1, <1>3, <1>5, SMT
<1>8. Before \cap (start..BlockEnd) = {}
  BY <1>1, <1>3, <1>5, SMT
<1>9. IsFiniteSet(Before) /\ IsFiniteSet(start..BlockEnd)
  BY <1>1, <1>3, <1>5, FS_Interval, SMT
<1> QED
  BY <1>2, <1>3, <1>4, <1>6, <1>7, <1>8, <1>9

\* What a search puts right was wrong, and with it the block is balanced.
LEMMA CorrectBitBalances ==
    ASSUME IInv, CorrectBit
    PROVE  /\ start <= Len(bits)
           /\ bits \in [1..Len(bits) -> {"right", "wrong"}]
           /\ order[lo] \in 1..Len(bits)
           /\ bits[order[lo]] = "wrong"
           /\ ~Odd(bits', order, Before \cup (start..BlockEnd))
<1> DEFINE n == Len(bits)
           block == start..BlockEnd
<1> USE DEF CorrectBit
<1>1. n \in Nat /\ bits \in [1..n -> {"right", "wrong"}]
  BY LenProperties DEF IInv, TypeOK
<1>2. start \in Nat /\ lo \in Nat /\ start <= lo /\ lo <= BlockEnd
  BY SMT DEF IInv, TypeOK, InSearch
<1>3. start <= n
  <2>1. BlockSize \in 1..n
    BY BlocksNotEmpty DEF IInv, TypeOK, InCascade, InPass
  <2>2. BlockEnd \in Int /\ BlockEnd <= n
    BY <1>1, <1>2, <2>1, SMT DEF BlockEnd, Smaller
  <2> QED
    BY <1>1, <1>2, <2>2, SMT
<1>4. lo \in block /\ block \subseteq 1..n
  <2>1. BlockEnd \in start..n
    BY <1>3, Geometry
  <2>2. start >= 1
    BY DEF IInv, InPass
  <2> QED
    BY <1>1, <1>2, <2>1, <2>2, SMT
<1>5. order \in [1..n -> 1..n] /\ \A i, j \in 1..n : order[i] = order[j] => i = j
  BY <1>3, Geometry
<1>6. bits[order[lo]] = "wrong"
  <2>1. lo..hi = {lo}
    BY <1>2, SMT
  <2>2. Odd(bits, order, {lo})
    BY <2>1 DEF IInv, InSearch
  <2> HIDE DEF CorrectBit
  <2> QED
    BY <2>2, Single
<1>7. Odd(bits, order, Before \cup block)
  BY <1>3, Geometry, Split DEF IInv, Balanced, InSearch
<1>8. lo \in Before \cup block /\ Before \cup block \in SUBSET (1..n)
  BY <1>3, <1>4, Geometry
<1>9. ~Odd([bits EXCEPT ![order[lo]] = "right"], order, Before \cup block)
  BY <1>1, <1>4, <1>5, <1>6, <1>7, <1>8, Corrected
<1> QED
  BY <1>1, <1>3, <1>4, <1>5, <1>6, <1>9

\* The estimate over what was sifted.
LEMMA EstimateTyped ==
    ASSUME TypeOK
    PROVE  Estimate \in [errors : Nat, size : Nat] /\ Estimate.size \in 0..Len(bits)
<1> DEFINE size == SampleSize(Len(bits))
           errors == {i \in 1..size : bits[i] = "wrong"}
<1>1. size \in 0..Len(bits) /\ Len(bits) \in Nat
  BY SampleFits, LenProperties DEF TypeOK
<1>2. IsFiniteSet(errors)
  <2>1. IsFiniteSet(1..size)
    BY <1>1, FS_Interval, SMT
  <2> QED
    BY <2>1, FS_Subset
<1>3. Cardinality(errors) \in Nat
  BY <1>2, FS_CardinalityType
<1>4. size \in Nat
  BY <1>1, SMT
<1> QED
  BY <1>1, <1>3, <1>4 DEF Estimate

\* Outside of a pass there is no order, and so nothing to balance.
LEMMA NoOrder == ASSUME NEW b, NEW s PROVE ~Odd(b, << >>, {i \in DOMAIN << >> : i < s})
<1>1. {i \in DOMAIN << >> : i < s} = {}
  BY SMT
<1> QED
  BY <1>1, NoneWrong

LEMMA SendAndSiftInv == IInv /\ SendAndSift => IInv'
<1> SUFFICES ASSUME IInv, SendAndSift PROVE IInv'
  OBVIOUS
<1> USE DEF IInv, SendAndSift
<1>1. bits' \in Seq({"right", "wrong"})
  <2>1. PICK n \in 0..NumRaw : bits' \in [1..n -> {"right", "wrong"}]
    OBVIOUS
  <2>2. n \in Nat
    BY LengthsAssumption, SMT
  <2> QED
    BY <2>1, <2>2, SeqDef
<1>2. order = << >>
  BY DEF InPass
<1>3. TypeOK'
  BY <1>1, <1>2 DEF TypeOK, Phases, cascade
<1>4. Balanced'
  BY <1>2, NoOrder DEF Balanced, Before, cascade
<1> QED
  BY <1>2, <1>3, <1>4
     DEF InCascade, InPass, InSearch, Tolerated, EnoughBits, Sifted, ResultAllowed, cascade

\* A round that fails before Cascade.
LEMMA AbortInv ==
    ASSUME IInv, TooFewBits \/ TooNoisy PROVE IInv'
<1> USE DEF IInv
<1>1. order = << >> /\ order' = << >>
  BY DEF InPass, TooFewBits, TooNoisy, cascade
<1>2. sample' \in [errors : Nat, size : Nat]
  BY EstimateTyped DEF TypeOK, TooFewBits, TooNoisy
<1>3. phase' = "done" /\ result' = Failed("high")
  BY DEF TooFewBits, TooNoisy, Finish, Band
<1>4. result' \in RoundResults
  BY <1>3 DEF Failed, RoundResults
<1>5. TypeOK'
  BY <1>1, <1>2, <1>3 DEF TypeOK, Phases, TooFewBits, TooNoisy, cascade, Failed
<1>6. Balanced'
  BY <1>1, NoOrder DEF Balanced, Before
<1>7. ResultAllowed'
  BY <1>3, <1>4, Zenon DEF ResultAllowed, Failed
<1> QED
  BY <1>1, <1>3, <1>5, <1>6, <1>7
     DEF InCascade, InPass, InSearch, Tolerated, EnoughBits

LEMMA RemoveSampleInv == IInv /\ RemoveSample => IInv'
<1> SUFFICES ASSUME IInv, RemoveSample PROVE IInv'
  OBVIOUS
<1> USE DEF IInv, RemoveSample
<1>1. order = << >> /\ order' = << >>
  BY DEF InPass, cascade
<1>2. sample' \in [errors : Nat, size : Nat] /\ Estimate.size \in 0..Len(bits)
  BY EstimateTyped
<1>3. bits' \in Seq({"right", "wrong"})
  <2>1. Estimate.size + 1 \in 1..(Len(bits) + 1) /\ Len(bits) \in 0..Len(bits)
    BY <1>2, LenProperties, SMT DEF TypeOK
  <2> QED
    BY <2>1, SubSeqProperties DEF TypeOK
<1>4. TypeOK'
  BY <1>1, <1>2, <1>3 DEF TypeOK, Phases, cascade
<1>5. Balanced'
  BY <1>1, NoOrder DEF Balanced, Before
<1>6. InCascade'
  <2>1. ASSUME phase' = "passes" PROVE sample'.errors > 0 /\ Len(bits') > 0
    <3>1. Estimate.errors # 0 /\ bits' # << >>
      BY <2>1
    <3>2. sample'.errors \in Nat /\ sample'.errors # 0
      BY <1>2, <3>1
    <3>3. Len(bits') \in Nat /\ Len(bits') # 0
      BY <1>3, <3>1, EmptySeq, LenProperties
    <3>4. \A x \in Nat : x # 0 => x > 0
      BY SMT
    <3> QED
      BY <3>2, <3>3, <3>4
  <2> QED
    BY <2>1 DEF InCascade
<1>7. Tolerated'
  BY DEF Tolerated, Below
<1>8. EnoughBits'
  <2>1. Len(bits) \in Nat
    BY LenProperties DEF TypeOK
  <2>2. Len(bits') = Len(bits) - Estimate.size
    <3>1. Estimate.size + 1 \in 1..(Len(bits) + 1) /\ Len(bits) \in 0..Len(bits)
      BY <1>2, <2>1, SMT
    <3>2. Len(bits') = IF Estimate.size + 1 <= Len(bits)
                       THEN Len(bits) - (Estimate.size + 1) + 1 ELSE 0
      BY <3>1, SubSeqProperties DEF TypeOK
    <3> QED
      BY <1>2, <2>1, <3>2, SMT
  <2>3. Sifted' >= MinSifted
    BY <1>2, <2>1, <2>2, LengthsAssumption, SMT DEF Sifted
  <2> QED
    BY <2>3 DEF EnoughBits
<1> QED
  BY <1>1, <1>4, <1>5, <1>6, <1>7, <1>8 DEF InPass, InSearch, ResultAllowed

LEMMA StartPassInv == IInv /\ StartPass => IInv'
<1> SUFFICES ASSUME IInv, StartPass PROVE IInv'
  OBVIOUS
<1> DEFINE n == Len(bits)
<1> USE DEF IInv, StartPass
<1>1. n \in Nat
  BY LenProperties DEF TypeOK
<1>2. order' \in Bijection(1..n, 1..n)
  <2>1. [i \in 1..n |-> i] \in Bijection(1..n, 1..n)
    BY DEF Bijection, Injection, Surjection, IsInjective
  <2> QED
    BY <2>1 DEF Orders
<1>3. pass' \in 0..NumPasses /\ pass' >= 1
  BY SMT DEF TypeOK, NumPasses, Doublings
<1>4. TypeOK'
  BY <1>2, <1>3 DEF TypeOK, Phases
<1>5. Balanced'
  <2>1. DOMAIN order' = 1..n
    BY <1>2 DEF Bijection, Injection
  <2>2. Before' = {}
    BY <1>1, <2>1, SMT DEF Before
  <2> QED
    BY <2>2, NoneWrong DEF Balanced
<1>6. InPass'
  <2>1. start' >= 1
    BY SMT
  <2> QED
    BY <1>2, <1>3, <2>1 DEF InPass
<1> QED
  BY <1>4, <1>5, <1>6 DEF InCascade, InSearch, Tolerated, EnoughBits, Sifted, ResultAllowed

LEMMA SkipBlockInv == IInv /\ SkipBlock => IInv'
<1> SUFFICES ASSUME IInv, SkipBlock PROVE IInv'
  OBVIOUS
<1> USE DEF IInv, SkipBlock
<1>1. start' \in Nat /\ start' >= 1
  <2>1. Len(bits) \in Nat /\ BlockSize \in 1..Len(bits)
    BY Geometry, LenProperties DEF TypeOK
  <2> QED
    BY <2>1, SMT DEF TypeOK, InPass
<1>2. TypeOK'
  BY <1>1 DEF TypeOK
<1>3. Balanced'
  <2>1. Before' = Before \cup (start..BlockEnd)
    BY Geometry DEF Before
  <2>2. ~Odd(bits, order, start..BlockEnd)
    BY OddIsParitiesDiffer
  <2>3. ~Odd(bits, order, Before \cup (start..BlockEnd))
    BY <2>2, Geometry, Split DEF Balanced
  <2> QED
    BY <2>1, <2>3 DEF Balanced
<1> QED
  BY <1>1, <1>2, <1>3 DEF InCascade, InPass, InSearch, Tolerated, EnoughBits, Sifted, ResultAllowed

LEMMA SearchBlockInv == IInv /\ SearchBlock => IInv'
<1> SUFFICES ASSUME IInv, SearchBlock PROVE IInv'
  OBVIOUS
<1> USE DEF IInv, SearchBlock
<1>1. Len(bits) \in Nat /\ start \in Nat /\ BlockEnd \in start..Len(bits)
  BY Geometry, LenProperties DEF TypeOK
<1>2. BlockEnd' = BlockEnd
  BY DEF BlockEnd, BlockSize, InitialBlockSize
<1>3. TypeOK'
  BY <1>1, SMT DEF TypeOK, Phases
<1>4. InSearch'
  <2>1. Odd(bits, order, start..BlockEnd)
    BY OddIsParitiesDiffer
  <2>2. start' <= lo' /\ lo' <= hi' /\ hi' <= BlockEnd'
    BY <1>1, <1>2, SMT
  <2> QED
    BY <1>2, <2>1, <2>2 DEF InSearch
<1>5. Balanced' /\ InPass'
  BY DEF Balanced, Before, InPass
<1> QED
  BY <1>3, <1>4, <1>5 DEF InCascade, Tolerated, EnoughBits, Sifted, ResultAllowed

LEMMA HalveInv == IInv /\ Halve => IInv'
<1> SUFFICES ASSUME IInv, Halve PROVE IInv'
  OBVIOUS
<1> USE DEF IInv, Halve
<1>1. lo \in Nat /\ hi \in Nat /\ lo < hi
  BY DEF TypeOK
<1>2. LastOfLeft \in lo..(hi - 1)
  BY <1>1, SMT DEF LastOfLeft
<1>3. BlockEnd' = BlockEnd
  BY DEF BlockEnd, BlockSize, InitialBlockSize
<1>4. lo' \in Nat /\ hi' \in Nat /\ lo <= lo' /\ lo' <= hi' /\ hi' <= hi
  BY <1>1, <1>2, SMT
<1>5. Odd(bits, order, lo'..hi')
  <2> DEFINE left == lo..LastOfLeft
             right == (LastOfLeft + 1)..hi
  <2>1. lo..hi = left \cup right
    BY <1>1, <1>2, SMT
  <2>2. left \cap right = {}
    BY <1>1, <1>2, SMT
  <2>3. IsFiniteSet(left) /\ IsFiniteSet(right)
    BY <1>1, <1>2, FS_Interval, SMT
  <2>4. Odd(bits, order, left \cup right)
    BY <2>1 DEF InSearch
  <2>5. ~(Odd(bits, order, left) <=> Odd(bits, order, right))
    <3> HIDE DEF left, right
    <3> QED
      BY <2>2, <2>3, <2>4, Split
  <2>6. ParitiesDiffer(left) <=> Odd(bits, order, left)
    BY OddIsParitiesDiffer
  <2> QED
    BY <2>5, <2>6
<1>6. TypeOK'
  BY <1>4 DEF TypeOK
<1>7. InSearch'
  <2>1. start <= lo /\ hi <= BlockEnd /\ start \in Nat
    BY DEF InSearch, TypeOK
  <2>2. BlockEnd \in Int
    <3>1. Len(bits) \in Nat /\ BlockSize \in 1..Len(bits)
      BY BlocksNotEmpty, LenProperties DEF TypeOK, InCascade, InPass
    <3> QED
      BY <2>1, <3>1, SMT DEF BlockEnd, Smaller
  <2>3. start' <= lo' /\ hi' <= BlockEnd'
    BY <1>1, <1>3, <1>4, <2>1, <2>2, SMT
  <2> QED
    BY <1>3, <1>4, <1>5, <2>3 DEF InSearch
<1>8. Balanced' /\ InPass'
  BY DEF Balanced, Before, InPass
<1> QED
  BY <1>6, <1>7, <1>8 DEF InCascade, Tolerated, EnoughBits, Sifted, ResultAllowed

LEMMA CorrectBitInv == IInv /\ CorrectBit => IInv'
<1> SUFFICES ASSUME IInv, CorrectBit PROVE IInv'
  OBVIOUS
<1> DEFINE n == Len(bits)
<1> USE DEF IInv, CorrectBit
<1>1. n \in Nat /\ start <= n /\ bits \in [1..n -> {"right", "wrong"}]
  BY CorrectBitBalances, LenProperties DEF TypeOK
<1>2. bits' \in [1..n -> {"right", "wrong"}]
  BY <1>1
<1>3. bits' \in Seq({"right", "wrong"}) /\ Len(bits') = n
  BY <1>1, <1>2, SeqDef, LenProperties
<1>4. start' \in Nat /\ start' >= 1
  <2>1. BlockSize \in 1..n
    BY <1>1, Geometry
  <2> QED
    BY <1>1, <2>1, SMT DEF TypeOK, InPass
<1>5. TypeOK'
  BY <1>3, <1>4 DEF TypeOK, Phases
<1>6. Balanced'
  <2>1. Before' = Before \cup (start..BlockEnd)
    BY <1>1, Geometry DEF Before
  <2> QED
    BY <2>1, CorrectBitBalances DEF Balanced
<1>7. InPass' /\ InCascade'
  BY <1>3, <1>4 DEF InPass, InCascade
<1>8. EnoughBits'
  BY <1>3 DEF EnoughBits, Sifted
<1> QED
  BY <1>5, <1>6, <1>7, <1>8 DEF InSearch, Tolerated, ResultAllowed

LEMMA EndPassInv == IInv /\ EndPass => IInv'
<1> SUFFICES ASSUME IInv, EndPass PROVE IInv'
  OBVIOUS
<1> USE DEF IInv, EndPass
<1>1. TypeOK'
  BY DEF TypeOK, Phases
<1>2. Balanced'
  BY NoOrder DEF Balanced, Before
<1> QED
  BY <1>1, <1>2 DEF InCascade, InPass, InSearch, Tolerated, EnoughBits, Sifted, ResultAllowed

\* A key needs bits beyond the security parameter, and a full one enough of them.
LEMMA KeyNeedsBits ==
    ASSUME NEW n \in Nat, NEW secure \in 0..n
    PROVE  LET key == KeyOf(Smaller(secure - SecurityParameter, TargetLength))
           IN /\ key # "none" => n > SecurityParameter
              /\ key = "full" => Bytes(n - SecurityParameter) >= Bytes(TargetLength)
<1> DEFINE length == Smaller(secure - SecurityParameter, TargetLength)
           key == KeyOf(length)
<1>1. /\ SecurityParameter \in Nat /\ TargetLength \in Nat \ {0}
      /\ ByteBits \in Nat \ {0}
  BY LengthsAssumption
<1>2. length \in Int /\ length <= n - SecurityParameter
  BY <1>1, SMT DEF Smaller
<1>3. ASSUME key # "none" PROVE length > 0 /\ n > SecurityParameter
  <2>1. ~(length <= 0)
    <3>1. \A l \in Int : l <= 0 => KeyOf(l) = "none"
      BY SMT DEF KeyOf
    <3> QED
      BY <1>2, <1>3, <3>1
  <2> QED
    BY <1>1, <1>2, <2>1, SMT
<1>4. ASSUME key = "full" PROVE Bytes(n - SecurityParameter) >= Bytes(TargetLength)
  <2>1. length > 0
    BY <1>3, <1>4
  <2>2. Bytes(length) >= Bytes(TargetLength)
    <3>1. ~(length <= 0)
      BY <1>2, <2>1, SMT
    <3> HIDE DEF length
    <3> QED
      BY <1>4, <3>1, Zenon DEF KeyOf
  <2>3. Bytes(n - SecurityParameter) >= Bytes(length)
    <3>1. \A x, y \in Int, d \in Nat \ {0} : x <= y => x \div d <= y \div d
      BY SMTT(30)
    <3>2. /\ length + ByteBits - 1 \in Int
          /\ (n - SecurityParameter) + ByteBits - 1 \in Int
          /\ length + ByteBits - 1 <= (n - SecurityParameter) + ByteBits - 1
      BY <1>1, <1>2, SMT
    <3>3. (length + ByteBits - 1) \div ByteBits
          <= ((n - SecurityParameter) + ByteBits - 1) \div ByteBits
      BY <1>1, <3>1, <3>2
    <3>4. /\ (length + ByteBits - 1) \div ByteBits \in Int
          /\ ((n - SecurityParameter) + ByteBits - 1) \div ByteBits \in Int
      BY <1>1, <3>2, SMT
    <3> QED
      BY <3>3, <3>4, SMT DEF Bytes
  <2>4. /\ Bytes(length) \in Int /\ Bytes(TargetLength) \in Int
        /\ Bytes(n - SecurityParameter) \in Int
    BY <1>1, <1>2, SMT DEF Bytes
  <2> QED
    BY <2>2, <2>3, <2>4, SMT
<1> QED
  BY <1>3, <1>4

LEMMA AmplifyInv == IInv /\ Amplify => IInv'
<1> SUFFICES ASSUME IInv, Amplify PROVE IInv'
  OBVIOUS
<1> USE DEF IInv, Amplify
<1>1. order = << >> /\ order' = << >>
  BY DEF InPass, cascade
<1>2. Len(bits) \in Nat
  BY LenProperties DEF TypeOK
<1>3. PICK secure \in SecureBits :
         Finish([qber |-> Band(sample),
                 key |-> KeyOf(Smaller(secure - SecurityParameter, TargetLength))])
  OBVIOUS
<1>4. secure \in 0..Len(bits)
  BY <1>2, SMT DEF SecureBits
<1>5. phase' = "done" /\ result' \in RoundResults
  <2>1. Band(sample) \in {"low", "raised"}
    BY DEF Tolerated, Band
  <2>2. \A l : KeyOf(l) \in {"full", "short", "none"}
    BY DEF KeyOf
  <2> QED
    BY <2>1, <2>2 DEF Finish, RoundResults
<1>6. TypeOK'
  BY <1>1, <1>5 DEF TypeOK, Phases, RoundResults, cascade
<1>7. Balanced'
  BY <1>1, NoOrder DEF Balanced, Before
<1>8. ResultAllowed'
  <2>1. /\ result'.key = KeyOf(Smaller(secure - SecurityParameter, TargetLength))
        /\ UNCHANGED <<bits, sample>>
    BY <1>3 DEF Finish
  <2>2. Sifted >= MinSifted /\ Below(sample, ThresholdPercent)
    BY DEF EnoughBits, Tolerated
  <2>3. Sifted' = Sifted /\ (Below(sample, ThresholdPercent))' = Below(sample, ThresholdPercent)
    BY <2>1 DEF Sifted, Below
  <2>4. /\ result'.key # "none" => Len(bits) > SecurityParameter
        /\ result'.key = "full" =>
              Bytes(Len(bits) - SecurityParameter) >= Bytes(TargetLength)
    BY <1>2, <1>4, <2>1, KeyNeedsBits
  <2> QED
    BY <1>5, <2>1, <2>2, <2>3, <2>4 DEF ResultAllowed
<1> QED
  BY <1>1, <1>5, <1>6, <1>7, <1>8
     DEF InCascade, InPass, InSearch, Tolerated, EnoughBits

LEMMA StutterInv == IInv /\ UNCHANGED vars => IInv'
BY DEF IInv, vars, TypeOK, InCascade, InPass, InSearch, Balanced, Before,
       Tolerated, EnoughBits, Sifted, ResultAllowed, BlockEnd, BlockSize, InitialBlockSize

LEMMA StepInv == IInv /\ [Next]_vars => IInv'
BY SendAndSiftInv, AbortInv, RemoveSampleInv, StartPassInv, SkipBlockInv,
   SearchBlockInv, HalveInv, CorrectBitInv, EndPassInv, AmplifyInv, StutterInv
   DEF Next, Step, Done

LEMMA Invariant == Spec => []IInv
BY InitInv, StepInv, PTL DEF Spec

-----------------------------------------------------------------------------
\* Every round keeps its variables in their types, the order of a pass a
\* permutation of the positions (rng.permutation in _error_correct_cascade).
THEOREM TypeCorrect == Spec => []TypeOK
<1>1. IInv => TypeOK
  BY DEF IInv
<1> QED
  BY Invariant, <1>1, PTL

\* The blocks a pass of Cascade has dealt with hold an even number of errors,
\* whatever the number of bits, the block size and the order.
THEOREM PairsSurvive == Spec => []OnlyPairsSurvive
<1>1. IInv => OnlyPairsSurvive
  BY OddIsParitiesDiffer DEF IInv, Balanced, Before, OnlyPairsSurvive
<1> QED
  BY Invariant, <1>1, PTL

\* run_round's result is borne out by the bits, for all lengths and thresholds:
\* no tolerable rate from fewer bits than the minimum, no key at a rate that is
\* not tolerated or from no more bits than the security parameter takes off, no
\* full key from fewer than it needs.
THEOREM ResultsAllowed == Spec => []ResultAllowed
<1>1. IInv => ResultAllowed
  BY DEF IInv
<1> QED
  BY Invariant, <1>1, PTL

\* Every binary search puts exactly one wrong bit right.
THEOREM SearchesFindOneError == Spec => OneErrorPerSearch
<1> DEFINE OneFound ==
        phase = "search" /\ phase' = "blocks" =>
            \E i \in DOMAIN bits : /\ bits[i] = "wrong"
                                   /\ bits' = [bits EXCEPT ![i] = "right"]
<1>1. IInv /\ [Next]_vars => [OneFound]_vars
  <2> SUFFICES ASSUME IInv, Next, phase = "search", phase' = "blocks"
               PROVE  OneFound
    BY DEF vars
  <2>1. CorrectBit
    BY DEF Next, Step, Done, vars, SendAndSift, TooFewBits, TooNoisy, RemoveSample,
           StartPass, SkipBlock, SearchBlock, Halve, EndPass, Amplify, Finish
  <2>2. order[lo] \in DOMAIN bits /\ bits[order[lo]] = "wrong"
    BY <2>1, CorrectBitBalances
  <2> QED
    BY <2>1, <2>2 DEF CorrectBit
<1> QED
  BY Invariant, <1>1, PTL DEF Spec, OneErrorPerSearch

-----------------------------------------------------------------------------
(* A round makes progress: what is left of it, the most significant first *)

StagesLeft ==
    CASE phase = "send"                            -> 4
      [] phase = "sifted"                          -> 3
      [] phase \in {"passes", "blocks", "search"}  -> 2
      [] phase = "amplify"                         -> 1
      [] phase = "done"                            -> 0

PassesLeft == NumPasses - pass

PlacesLeft == IF phase \in {"blocks", "search"}
              THEN Larger(0, Len(bits) + 1 - start) + 1 ELSE 0

RangeLeft == CASE phase = "blocks" -> Len(bits) + 1
               [] phase = "search" -> hi - lo
               [] OTHER            -> 0

\* One of the four falls, and those before it stay.
Progress ==
    \/ StagesLeft' < StagesLeft
    \/ /\ StagesLeft' = StagesLeft
       /\ \/ PassesLeft' < PassesLeft
          \/ /\ PassesLeft' = PassesLeft
             /\ \/ PlacesLeft' < PlacesLeft
                \/ PlacesLeft' = PlacesLeft /\ RangeLeft' < RangeLeft

LEMMA LeftTyped ==
    ASSUME IInv
    PROVE  /\ StagesLeft \in 0..4 /\ PassesLeft \in Nat
           /\ PlacesLeft \in Nat /\ RangeLeft \in Nat
           /\ Len(bits) \in Nat /\ start \in Nat
<1>1. Len(bits) \in Nat /\ start \in Nat /\ pass \in 0..NumPasses
  BY LenProperties DEF IInv, TypeOK
<1>2. StagesLeft \in 0..4
  <2>1. phase \in Phases
    BY DEF IInv, TypeOK
  <2> QED BY <2>1, SMT DEF StagesLeft, Phases
<1>3. PassesLeft \in Nat
  BY <1>1, SMT DEF PassesLeft, NumPasses, Doublings
<1>4. PlacesLeft \in Nat
  BY <1>1, SMT DEF PlacesLeft, Larger
<1>5. RangeLeft \in Nat
  <2>1. lo \in Nat /\ hi \in Nat /\ (phase = "search" => lo <= hi)
    BY DEF IInv, TypeOK, InSearch
  <2> QED BY <1>1, <2>1, SMT DEF RangeLeft
<1> QED BY <1>1, <1>2, <1>3, <1>4, <1>5

\* A block is done with: the next one starts further on.
LEMMA NextBlock ==
    ASSUME IInv, phase \in {"blocks", "search"}, start <= Len(bits),
           phase' = "blocks", start' = start + BlockSize,
           Len(bits') = Len(bits), UNCHANGED pass
    PROVE  Progress
<1>1. /\ BlockSize \in 1..Len(bits) /\ Len(bits) \in Nat /\ start \in Nat
  BY Geometry, LeftTyped
<1>2. PlacesLeft' < PlacesLeft
  BY <1>1, SMT DEF PlacesLeft, Larger
<1>3. StagesLeft' = StagesLeft /\ PassesLeft' = PassesLeft
  BY DEF StagesLeft, PassesLeft
<1> QED BY <1>2, <1>3 DEF Progress

LEMMA StepProgress == IInv /\ Step => Progress
<1> SUFFICES ASSUME IInv, Step PROVE Progress
  OBVIOUS
<1>0. /\ Len(bits) \in Nat /\ start \in Nat /\ lo \in Nat /\ hi \in Nat
      /\ pass \in 0..NumPasses
  BY LeftTyped DEF IInv, TypeOK
<1>1. CASE SendAndSift \/ TooFewBits \/ TooNoisy \/ RemoveSample \/ Amplify
  <2>1. StagesLeft' < StagesLeft
    BY <1>1 DEF SendAndSift, TooFewBits, TooNoisy, RemoveSample, Amplify, Finish,
                StagesLeft
  <2> QED BY <2>1 DEF Progress
<1>2. CASE StartPass
  <2>1. StagesLeft' = StagesLeft
    BY <1>2 DEF StartPass, StagesLeft
  <2>2. PassesLeft' < PassesLeft
    BY <1>0, <1>2, SMT DEF StartPass, PassesLeft, NumPasses, Doublings
  <2> QED BY <2>1, <2>2 DEF Progress
<1>3. CASE SkipBlock
  BY <1>3, NextBlock DEF SkipBlock
<1>4. CASE SearchBlock
  <2>1. BlockEnd \in start..Len(bits)
    BY <1>4, Geometry DEF SearchBlock
  <2>2. RangeLeft' < RangeLeft
    BY <1>0, <1>4, <2>1, SMT DEF SearchBlock, RangeLeft
  <2>3. /\ StagesLeft' = StagesLeft /\ PassesLeft' = PassesLeft
        /\ PlacesLeft' = PlacesLeft
    BY <1>4 DEF SearchBlock, StagesLeft, PassesLeft, PlacesLeft
  <2> QED BY <2>2, <2>3 DEF Progress
<1>5. CASE Halve
  <2>1. RangeLeft' < RangeLeft
    BY <1>0, <1>5, SMT DEF Halve, RangeLeft, LastOfLeft
  <2>2. /\ StagesLeft' = StagesLeft /\ PassesLeft' = PassesLeft
        /\ PlacesLeft' = PlacesLeft
    BY <1>5 DEF Halve, StagesLeft, PassesLeft, PlacesLeft
  <2> QED BY <2>1, <2>2 DEF Progress
<1>6. CASE CorrectBit
  <2>1. /\ start <= Len(bits)
        /\ bits \in [1..Len(bits) -> {"right", "wrong"}]
    BY <1>6, CorrectBitBalances
  <2>2. bits' \in [1..Len(bits) -> {"right", "wrong"}]
    BY <1>6, <2>1 DEF CorrectBit
  <2>3. Len(bits') = Len(bits)
    BY <1>0, <2>2, SeqDef, LenProperties
  <2> QED BY <1>6, <2>1, <2>3, NextBlock DEF CorrectBit
<1>7. CASE EndPass
  <2>1. CASE pass < NumPasses
    <3>1. StagesLeft' = StagesLeft /\ PassesLeft' = PassesLeft
      BY <1>7, <2>1 DEF EndPass, StagesLeft, PassesLeft
    <3>2. PlacesLeft' < PlacesLeft
      BY <1>0, <1>7, <2>1, SMT DEF EndPass, PlacesLeft, Larger
    <3> QED BY <3>1, <3>2 DEF Progress
  <2>2. CASE ~(pass < NumPasses)
    <3>1. StagesLeft' < StagesLeft
      BY <1>7, <2>2 DEF EndPass, StagesLeft
    <3> QED BY <3>1 DEF Progress
  <2> QED BY <2>1, <2>2
<1> QED BY <1>1, <1>2, <1>3, <1>4, <1>5, <1>6, <1>7 DEF Step

\* Each step of a round gets it nearer to its end, whatever the bits, rates and
\* orders: four natural numbers fall lexicographically, so no pass, block or
\* search goes on for ever (_error_correct_cascade, _binary_search_correct).
THEOREM RoundsProgress ==
    Spec => /\ [][Progress]_vars
            /\ [](<<StagesLeft, PassesLeft, PlacesLeft, RangeLeft>>
                     \in Nat \X Nat \X Nat \X Nat)
<1>1. IInv /\ [Next]_vars => [Progress]_vars
  BY StepProgress DEF Next, Done
<1>2. IInv => <<StagesLeft, PassesLeft, PlacesLeft, RangeLeft>>
                 \in Nat \X Nat \X Nat \X Nat
  BY LeftTyped
<1> QED
  BY Invariant, <1>1, <1>2, PTL DEF Spec

=============================================================================
