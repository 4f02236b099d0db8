------------------------------- MODULE BB84Round -------------------------------
(***************************************************************************)
(* One round of BB84Protocol.run_round (shared/bb84/protocol.py), from the *)
(* bits that both sides measured in the same basis to the key.  A bit is   *)
(* kept as how Bob's compares with Alice's, "right" or "wrong": parities   *)
(* tell no more.  Two parities differ when an odd number of bits is wrong. *)
(*                                                                         *)
(* The binary search is a loop that halves lo..hi.  Rates are percentages, *)
(* as errors in a sample of a size; comparisons are multiplied out.        *)
(***************************************************************************)
EXTENDS QBERMonitor, Integers, Sequences, FiniteSets, Functions

CONSTANTS
    NumRaw,             \* config num_raw_bits: pulses in a round
    MinSifted,          \* _MIN_SIFTED_BITS
    SamplePercent,      \* config qber_sample_fraction
    WarningPercent,     \* the monitor's warning threshold
    ThresholdPercent,   \* config qber_threshold
    SecurityParameter,  \* bits discarded for composable security
    TargetLength,       \* config target_key_length_bits
    ByteBits            \* bits in a byte of the key: eight

ASSUME LengthsAssumption ==
    /\ NumRaw \in Nat /\ SecurityParameter \in Nat
    /\ MinSifted \in Nat \ {0} /\ TargetLength \in Nat \ {0} /\ ByteBits \in Nat \ {0}
ASSUME RatesAssumption ==
    /\ SamplePercent \in 0..100
    /\ WarningPercent \in Nat /\ ThresholdPercent \in Nat

VARIABLES
    phase,   \* what comes next in run_round
    bits,    \* sifted bits, then the remaining ones as Cascade corrects them
    sample,  \* the QBER estimate: errors found, sample_size
    pass,    \* pass_num + 1 of Cascade; 0 before
    order,   \* indices: the positions in the order of this pass
    start,   \* block_start, in order
    lo, hi,  \* the range of order that the binary search is in
    result   \* error band and key of the BB84RoundResult

vars == <<phase, bits, sample, pass, order, start, lo, hi, result>>
cascade == <<pass, order, start, lo, hi>>

-----------------------------------------------------------------------------
Smaller(a, b) == IF a < b THEN a ELSE b
Larger(a, b)  == IF a < b THEN b ELSE a

\* max(1, int(len * fraction)), at most len.
SampleSize(n) == Smaller(Larger(1, (n * SamplePercent) \div 100), n)

\* qber_threshold is no longer tolerated.
Below(s, percent) == 100 * s.errors < percent * s.size

Band(s) ==
    CASE Below(s, WarningPercent) /\ Below(s, ThresholdPercent)  -> "low"
      [] ~Below(s, WarningPercent) /\ Below(s, ThresholdPercent) -> "raised"
      [] OTHER                                                   -> "high"

Failed(band) == [qber |-> band, key |-> "none"]
Pending == Failed("unknown")

\* max(2, int(0.73 / qber))
InitialBlockSize == Larger(2, (73 * sample.size) \div (100 * sample.errors))

\* 2 ** pass_num for each of the num_passes.
Doublings == <<1, 2, 4, 8>>
NumPasses == Len(Doublings)

BlockSize == Smaller(InitialBlockSize * Doublings[pass], Len(bits))

\* Mistake: the last position of a block is left out.
BlockEndShort == Smaller(start + BlockSize - 2, Len(bits))

\* The last position of the block that starts at start.
BlockEnd == Smaller(start + BlockSize - 1, Len(bits))

\* Which places of order hold wrong bits, and whether the parities over these
\* places differ.
WrongAt(places) == {i \in places : bits[order[i]] = "wrong"}
ParitiesDiffer(places) == Cardinality(WrongAt(places)) % 2 = 1

-----------------------------------------------------------------------------
Init ==
    /\ phase = "send"
    /\ bits = << >>
    /\ sample = [errors |-> 0, size |-> 0]
    /\ pass = 0
    /\ order = << >>
    /\ start = 1
    /\ lo = 1 /\ hi = 1
    /\ result = Pending

\* The pulses are sent and sifted: what is kept was detected, in the basis it
\* was sent in.  Noise, dark counts and an eavesdropper make any of it wrong.
SendAndSift ==
    /\ phase = "send"
    /\ phase' = "sifted"
    /\ \E n \in 0..NumRaw : \E b \in [1..n -> {"right", "wrong"}] : bits' = b
    /\ UNCHANGED <<sample, cascade, result>>

Finish(r) == phase' = "done" /\ result' = r

\* No photon, or too few: an error rate of 100 %.
TooFewBits ==
    /\ phase = "sifted"
    /\ Len(bits) < MinSifted
    /\ Finish(Failed("high"))
    /\ UNCHANGED <<bits, sample, cascade>>

\* _estimate_qber
Estimate ==
    LET size == SampleSize(Len(bits))
    IN [errors |-> Cardinality({i \in 1..size : bits[i] = "wrong"}), size |-> size]

TooNoisy ==
    /\ phase = "sifted"
    /\ Len(bits) >= MinSifted
    /\ ~Below(Estimate, ThresholdPercent)
    /\ Finish(Failed(Band(Estimate)))
    /\ sample' = Estimate
    /\ UNCHANGED <<bits, cascade>>

\* Mistake: a round goes on with however few bits.
RemoveSampleFew ==
    /\ phase = "sifted"
    /\ Below(Estimate, ThresholdPercent)
    /\ sample' = Estimate
    /\ bits' = SubSeq(bits, Estimate.size + 1, Len(bits))
    /\ phase' = IF Estimate.errors = 0 \/ bits' = << >> THEN "amplify" ELSE "passes"
    /\ UNCHANGED <<cascade, result>>

\* The sample is removed.  With no error in it Cascade does nothing.
RemoveSample ==
    /\ phase = "sifted"
    /\ Len(bits) >= MinSifted
    /\ Below(Estimate, ThresholdPercent)
    /\ sample' = Estimate
    /\ bits' = SubSeq(bits, Estimate.size + 1, Len(bits))
    /\ phase' = IF Estimate.errors = 0 \/ bits' = << >> THEN "amplify" ELSE "passes"
    /\ UNCHANGED <<cascade, result>>

\* Mistake: positions are drawn with replacement.
OrdersWithReplacement(n) ==
    IF pass = 0 THEN {[i \in 1..n |-> i]} ELSE [1..n -> 1..n]

\* The positions as they are in the first pass, and shuffled in the others.
Orders(n) == IF pass = 0 THEN {[i \in 1..n |-> i]} ELSE Bijection(1..n, 1..n)

StartPass ==
    /\ phase = "passes"
    /\ pass < NumPasses
    /\ phase' = "blocks"
    /\ pass' = pass + 1
    /\ order' \in Orders(Len(bits))
    /\ start' = 1
    /\ UNCHANGED <<bits, sample, lo, hi, result>>

\* A block whose parities agree is left as it is.
SkipBlock ==
    /\ phase = "blocks"
    /\ start <= Len(bits)
    /\ ~ParitiesDiffer(start..BlockEnd)
    /\ start' = start + BlockSize
    /\ UNCHANGED <<phase, bits, sample, pass, order, lo, hi, result>>

SearchBlock ==
    /\ phase = "blocks"
    /\ start <= Len(bits)
    /\ ParitiesDiffer(start..BlockEnd)
    /\ phase' = "search"
    /\ lo' = start
    /\ hi' = BlockEnd
    /\ UNCHANGED <<bits, sample, pass, order, start, result>>

\* Mistake: the left half has one position more.
LastOfLeftLong == lo + (hi - lo + 1) \div 2

\* len(block_indices) // 2 positions go to the left half.
LastOfLeft == lo + (hi - lo + 1) \div 2 - 1

\* A call of _binary_search_correct that calls itself for one of the halves.
Halve ==
    /\ phase = "search"
    /\ lo < hi
    /\ \/ ParitiesDiffer(lo..LastOfLeft) /\ hi' = LastOfLeft /\ lo' = lo
       \/ ~ParitiesDiffer(lo..LastOfLeft) /\ lo' = LastOfLeft + 1 /\ hi' = hi
    /\ UNCHANGED <<phase, bits, sample, pass, order, start, result>>

\* Mistake: all of the range that is left after the first halves is copied.
CorrectRange ==
    /\ phase = "search"
    /\ hi - lo < 3
    /\ phase' = "blocks"
    /\ bits' = [p \in DOMAIN bits |->
                  IF \E i \in lo..hi : order[i] = p THEN "right" ELSE bits[p]]
    /\ start' = start + BlockSize
    /\ lo' = 1 /\ hi' = 1
    /\ UNCHANGED <<sample, pass, order, result>>

\* The call for a single position; the next block comes.
CorrectBit ==
    /\ phase = "search"
    /\ lo = hi
    /\ phase' = "blocks"
    /\ bits' = [bits EXCEPT ![order[lo]] = "right"]
    /\ start' = start + BlockSize
    /\ lo' = 1 /\ hi' = 1
    /\ UNCHANGED <<sample, pass, order, result>>

\* The indices of the pass are of no use any more.
EndPass ==
    /\ phase = "blocks"
    /\ start > Len(bits)
    /\ phase' = IF pass < NumPasses THEN "passes" ELSE "amplify"
    /\ order' = << >> /\ start' = 1
    /\ UNCHANGED <<bits, sample, pass, lo, hi, result>>

\* int(n * secure_fraction): all n bits at an error rate of 0, fewer above it.
SecureBits ==
    IF sample.errors = 0 \/ bits = << >> THEN {Len(bits)} ELSE 0..(Len(bits) - 1)

Bytes(n) == (n + ByteBits - 1) \div ByteBits

\* A key that fills as many bytes as one of the target length is a full one:
\* toeplitz_hash pads the last byte with zeros.
KeyOf(length) ==
    CASE length <= 0                                           -> "none"
      [] length > 0 /\ Bytes(length) >= Bytes(TargetLength)   -> "full"
      [] OTHER                                                 -> "short"

\* _privacy_amplify, and the end of run_round.
Amplify ==
    /\ phase = "amplify"
    /\ \E secure \in SecureBits :
          LET length == Smaller(secure - SecurityParameter, TargetLength)
          IN Finish([qber |-> Band(sample), key |-> KeyOf(length)])
    /\ UNCHANGED <<bits, sample, cascade>>

Done == phase = "done" /\ UNCHANGED vars

Step == \/ SendAndSift \/ TooFewBits \/ TooNoisy \/ RemoveSample
        \/ StartPass \/ SkipBlock \/ SearchBlock \/ Halve \/ CorrectBit \/ EndPass
        \/ Amplify

Next == Step \/ Done

Spec == Init /\ [][Next]_vars

\* A loop in one thread: it goes on until it is done.
FairSpec == Spec /\ WF_vars(Step)

-----------------------------------------------------------------------------
(* Properties *)

Phases == {"send", "sifted", "passes", "blocks", "search", "amplify", "done"}

TypeOK ==
    /\ phase \in Phases
    /\ bits \in Seq({"right", "wrong"})
    /\ sample \in [errors : Nat, size : Nat]
    /\ pass \in 0..NumPasses
    /\ order = << >> \/ order \in Bijection(1..Len(bits), 1..Len(bits))
    /\ start \in Nat /\ lo \in Nat /\ hi \in Nat
    /\ result \in [qber : {"low", "raised", "high", "unknown"},
                   key : {"full", "short", "none"}]

\* Each binary search ends with one wrong bit put right: it is never led astray
\* into a half without errors, where "correcting" would change nothing
\* (_binary_search_correct relies on its caller and on earlier halves).
OneErrorPerSearch ==
    [][phase = "search" /\ phase' = "blocks" =>
          \E i \in DOMAIN bits : /\ bits[i] = "wrong"
                                 /\ bits' = [bits EXCEPT ![i] = "right"]]_vars

\* The blocks that a pass has dealt with hold an even number of errors, the last
\* and shorter one included; so after a pass errors are left in pairs only, and
\* a lone error never survives Cascade.
OnlyPairsSurvive ==
    pass > 0 => ~ParitiesDiffer({i \in DOMAIN order : i < start})

\* What the bits are worth in the end: sampled and remaining ones together are
\* those that were sifted, since Cascade changes bits and drops none.
Sifted == sample.size + Len(bits)

\* run_round's result says no more than its bits bear out, whatever the round
\* went through: a tolerable error rate is reported only from at least the
\* minimum of sifted bits (below it the round reports 100 %), a key is made
\* only at a tolerable rate and from more bits than the security parameter
\* takes off, and a full key only from enough bits beyond that.  KeyRotation
\* takes its rounds from RoundResults.
ResultAllowed ==
    phase = "done" =>
        /\ result \in RoundResults
        /\ result.qber # "high" => Sifted >= MinSifted
        /\ result.key # "none" => /\ Below(sample, ThresholdPercent)
                                  /\ Len(bits) > SecurityParameter
        /\ result.key = "full" =>
              Bytes(Len(bits) - SecurityParameter) >= Bytes(TargetLength)

\* A round ends.
RoundEnds == <>(phase = "done")

=============================================================================
