------------------------------- MODULE SampleEdits -------------------------------
(***************************************************************************)
(* What happens to the bytes of a sample: the nondeterministic mutators    *)
(* (mutator.cpp), alone or inside the ranges the target has read           *)
(* (RangeMutator, rangetracker.cpp), the trimming of a sample that found   *)
(* coverage (MinimizeSample with SimpleTrimmer), and the trie that finds   *)
(* where a new sample differs from all earlier ones (SampleTrie).          *)
(* A mutator is the set of samples it may return; every random number is a *)
(* choice, and so is the result of arithmetic on a value of the sample.    *)
(* Offsets are those of the code: a sample starts at 0.                    *)
(***************************************************************************)
EXTENDS Integers, Sequences, SequencesExt, FiniteSets

CONSTANTS MaxByte,            \* bytes are 0 .. MaxByte
          MaxSampleSize,      \* Sample::max_size
          BlockSize,          \* the largest block a mutator makes, moves or appends
          MaxDuplicates,      \* max_duplicate_cnt
          InterestingSamples, \* interesting_values
          TRIM_STEP_INITIAL,
          Reports,            \* bound: sets of ranges the target may have read
          MaxRepeats,         \* bound: mutations of one sample
          MaxSaved            \* bound: samples saved

ASSUME EditsAssumption ==
  /\ {MaxByte, MaxSampleSize, BlockSize, MaxDuplicates, MaxRepeats, MaxSaved} \subseteq Nat
  /\ TRIM_STEP_INITIAL \in Nat \ {0}
  /\ InterestingSamples \subseteq Seq(0 .. MaxByte)
  /\ \A report \in Reports :
       /\ IsFiniteSet(report)
       /\ \A range \in report :
            /\ range = [from |-> range.from, to |-> range.to]
            /\ range.from \in Nat /\ range.to \in Nat /\ range.from <= range.to

VARIABLES
  pc,
  sample,        \* the sample that is mutated, run, trimmed and saved
  reported,      \* the ranges the target read of the entry
  repeats,
  results,       \* what running it does when it is trimmed to a size
  test_sample, trim_step,      \* of MinimizeSample
  all_samples, trie,
  offset         \* the last result of SampleTrie::AddSample

trimming == << results, test_sample, trim_step >>
vars == << pc, sample, reported, repeats, trimming, all_samples, trie, offset >>

Bytes == 0 .. MaxByte
Blocks(n) == [1 .. n -> Bytes]
Samples == UNION { Blocks(n) : n \in 0 .. MaxSampleSize }
First(s, n) == SubSeq(s, 1, n)
From(s, n) == SubSeq(s, n + 1, Len(s))

\* memcpy(s + start, block, size), inside the sample.
Overwritten(s, start, block) == First(s, start) \o block \o From(s, start + Len(block))

\* Mutator::GetRandBlock.
RandBlocks(s, min_size, max_size) ==
  { b \in [start : 0 .. Len(s), size : min_size .. max_size] :
      b.size > 0 /\ b.start + b.size <= Len(s) }

\* A mutator that finds nothing to do leaves the sample as it is.
OrSame(s, mutated) == IF mutated = {} THEN {s} ELSE mutated
-----------------------------------------------------------------------------
\* ByteFlipMutator, BlockFlipMutator and ArithmeticMutator.
Flip(s) ==
  UNION { { Overwritten(s, b.start, block) : block \in Blocks(b.size) }
            : b \in RandBlocks(s, 1, BlockSize) }

InterestingValue(s) ==
  UNION { { Overwritten(s, b.start, value) : b \in RandBlocks(s, Len(value), Len(value)) }
            : value \in InterestingSamples }

\* What fits of n more bytes.
Room(s, n) == IF Len(s) + n > MaxSampleSize THEN MaxSampleSize - Len(s) ELSE n

NewBlocks(s) == UNION { Blocks(Room(s, n)) : n \in 1 .. BlockSize }
Inserted(s, where, block) == First(s, where) \o block \o From(s, where)
AppendBlock(s) == { s \o block : block \in NewBlocks(s) }
InsertBlock(s) ==
  { Inserted(s, where, block) : where \in 0 .. Len(s), block \in NewBlocks(s) }

Repeated(block, n) == [i \in 1 .. n * Len(block) |-> block[((i - 1) % Len(block)) + 1]]
AllDuplicates(s, block, n) == n   \* mutant of DuplicatesThatFit
DuplicatesThatFit(s, block, n) == Min({n, (MaxSampleSize - Len(s)) \div Len(block)})
Duplicated(s, b, n) ==
  LET block == SubSeq(s, b.start + 1, b.start + b.size)
  IN Inserted(s, b.start + b.size, Repeated(block, DuplicatesThatFit(s, block, n)))
DuplicateBlock(s) ==
  { Duplicated(s, b, n) : b \in RandBlocks(s, 1, BlockSize), n \in 1 .. MaxDuplicates }

\* SpliceMutator with one point: the beginning of one sample and the end of another,
\* from the same offset or another one.
Trimmed(s) == First(s, Min({Len(s), MaxSampleSize}))
Ended(s, p, other, q) == Trimmed(First(s, p) \o From(other, q))
SpliceOnePoint(s, other) ==
  { Ended(s, p, other, q) : p \in 0 .. Len(s) - 1, q \in 0 .. Len(other) - 1 }

\* With two points: a block of one sample is replaced by a block of the other, or
\* by the block at the same place, which starts at the end of a shorter sample.
Replaced(s, b, other, o) ==
  Trimmed(First(s, b.start) \o SubSeq(other, o.start + 1, o.start + o.size)
            \o From(s, b.start + b.size))
ReplacedInPlace(s, other, o) ==
  LET start == Min({o.start, Len(s)})
  IN Overwritten(s, start, SubSeq(other, start + 1, o.start + o.size))
SpliceTwoPoints(s, other) ==
  { Replaced(s, b, other, o)
      : b \in RandBlocks(s, 1, Len(s)), o \in RandBlocks(other, 1, Len(other)) } \cup
  { ReplacedInPlace(s, other, o) : o \in RandBlocks(other, 2, Len(other)) }

Splice(s) ==
  IF s = << >> THEN {}
  ELSE UNION { SpliceOnePoint(s, other) \cup SpliceTwoPoints(s, other)
                 : other \in all_samples \ {<< >>} }

\* PSelectMutator of them.  The mutators that make a sample larger leave one of
\* the largest size alone.
Mutations(s) ==
  OrSame(s, Flip(s)) \cup OrSame(s, InterestingValue(s)) \cup OrSame(s, Splice(s)) \cup
  IF Len(s) >= MaxSampleSize THEN {s}
  ELSE AppendBlock(s) \cup InsertBlock(s) \cup OrSame(s, DuplicateBlock(s))
-----------------------------------------------------------------------------
\* SHMRangeTracker::ConsolidateRanges: a range begins a new one when all that start
\* before it end before it, and those that overlap or touch are joined.
Begins(range) == \A r \in reported : r.from < range.from => r.to < range.from
Joined(range) ==
  { r \in reported : /\ range.from <= r.from
                     /\ \A next \in reported :
                          Begins(next) /\ range.from < next.from => r.from < next.from }
Ranges == { [from |-> range.from, to |-> Max({ r.to : r \in Joined(range) })]
              : range \in { r \in reported : Begins(r) } }

Crop(s, range) ==
  IF range.from >= range.to THEN << >> ELSE SubSeq(s, range.from + 1, Min({range.to, Len(s)}))

Resized(s, size) == s \o [i \in 1 .. size - Len(s) |-> 0]

\* The mutated part goes back to where it was cropped, over what follows if it grew.
PutBackFirst(s, range, part) ==   \* mutant of PutBack
  Overwritten(Resized(s, Max({Len(part), Len(s)})), 0, part)
PutBack(s, range, part) ==
  IF part = << >> THEN Resized(s, Max({range.from, Len(s)}))
  ELSE Overwritten(Resized(s, Max({range.from + Len(part), Len(s)})), range.from, part)

\* RangeMutator, when ranges are tracked and some were read.
RangeMutations(s) ==
  IF reported = {} \/ s = << >> THEN Mutations(s)
  ELSE UNION { { PutBack(s, range, part) : part \in Mutations(Crop(s, range)) }
                 : range \in Ranges }
-----------------------------------------------------------------------------
(* SampleTrie: a node is named by the bytes that lead to it, and holds its *)
(* constant part.                                                          *)

NoNodes == [path \in {} |-> << >>]
CommonPrefix(s, other) ==
  Cardinality({ n \in 1 .. Min({Len(s), Len(other)}) : First(s, n) = First(other, n) })

\* The node where AddSample ends, and how much of its constant part matches.
EndNode(s) == CHOOSE p \in DOMAIN trie :
  IsPrefix(p, s) /\ \A q \in DOMAIN trie : IsPrefix(q, s) => Len(q) <= Len(p)
Matched(s) == CommonPrefix(From(s, Len(EndNode(s))), trie[EndNode(s)])

\* The first byte that differs from all samples seen so far.
DiffOffset(s) ==
  IF s = << >> \/ trie = NoNodes THEN 0 ELSE Len(EndNode(s)) + Matched(s)

\* The tail a node is split off with: without the byte that leads to it.
TailWithByte(part, n) == From(part, n)   \* mutant of TailAfter
TailAfter(part, n) == From(part, n + 1)

NewTrie(s) ==
  LET at == DiffOffset(s)
      leaf == First(s, at + 1)
  IN CASE s = << >> -> trie
       [] s # << >> /\ trie = NoNodes -> [path \in {<< >>} |-> s]
       [] trie # NoNodes /\ at = Len(s) -> trie
       [] OTHER ->
            LET node == EndNode(s)
                part == trie[node]
                n == Matched(s)
                split == IF n = Len(part) THEN {} ELSE {node \o First(part, n + 1)}
            IN [path \in DOMAIN trie \cup {leaf} \cup split |->
                  CASE path = leaf -> TailAfter(s, at)
                    [] path \in split -> TailAfter(part, n)
                    [] path = node -> First(part, n)
                    [] OTHER -> trie[path]]
-----------------------------------------------------------------------------
\* The first input file is about to be trimmed.
Init ==
  /\ pc = "found"
  /\ sample \in Samples /\ reported = {} /\ repeats = 0
  /\ results = << >> /\ test_sample = << >> /\ trim_step = 0
  /\ all_samples = {} /\ trie = NoNodes /\ offset = 0

FuzzEntry ==
  /\ pc = "idle" /\ Cardinality(all_samples) < MaxSaved
  /\ sample' \in all_samples /\ reported' \in Reports
  /\ pc' = "mutate"
  /\ UNCHANGED << repeats, trimming, all_samples, trie, offset >>

\* RepeatMutator mutates at least once.
Mutate ==
  /\ pc = "mutate" /\ repeats < MaxRepeats
  /\ sample' \in RangeMutations(sample) /\ repeats' = repeats + 1
  /\ UNCHANGED << pc, reported, trimming, all_samples, trie, offset >>

\* The sample is too large to be run, or is run; it may find new coverage.
Run ==
  /\ pc = "mutate" /\ repeats > 0
  /\ repeats' = 0 /\ reported' = {}
  /\ \/ pc' = "idle" /\ sample' = << >>
     \/ /\ Len(sample) <= MaxSampleSize
        /\ pc' = "found" /\ UNCHANGED sample
  /\ UNCHANGED << trimming, all_samples, trie, offset >>

BeginMinimize ==
  /\ pc = "found"
  /\ results' \in [1 .. Len(sample) - 1 -> {"same", "less", "crash"}]
  /\ test_sample' = sample /\ trim_step' = TRIM_STEP_INITIAL
  /\ pc' = "minimize"
  /\ UNCHANGED << sample, reported, repeats, all_samples, trie, offset >>

\* The loop of SimpleTrimmer::MinimizeStep, until the step is less than the sample ...
HalveStep ==
  /\ pc = "minimize" /\ Len(test_sample) > 1 /\ trim_step >= Len(test_sample)
  /\ trim_step' = trim_step \div 2
  /\ UNCHANGED << pc, sample, reported, repeats, results, test_sample, all_samples, trie, offset >>

\* ... and what follows it.
MinimizeStep ==
  /\ pc = "minimize" /\ (Len(test_sample) <= 1 \/ trim_step < Len(test_sample))
  /\ IF Len(test_sample) <= 1 \/ trim_step = 0
       THEN pc' = "save" /\ UNCHANGED test_sample
       ELSE /\ pc' = "test"
            /\ test_sample' = First(test_sample, Len(test_sample) - trim_step)
  /\ UNCHANGED << sample, reported, repeats, results, trim_step, all_samples, trie, offset >>

\* The trimmed sample is run: MinimizeSample gives up when it does not end OK.
NoStep == 0   \* mutant of StepAfterFail: the first failure ends the trimming
StepAfterFail == trim_step \div 2
Test ==
  /\ pc = "test"
  /\ \/ /\ results[Len(test_sample)] = "same"
        /\ sample' = test_sample /\ pc' = "minimize"
        /\ UNCHANGED << test_sample, trim_step >>
     \/ /\ results[Len(test_sample)] = "less"
        /\ test_sample' = sample /\ trim_step' = StepAfterFail /\ pc' = "minimize"
        /\ UNCHANGED sample
     \/ /\ results[Len(test_sample)] = "crash"
        /\ pc' = "save" /\ UNCHANGED << sample, test_sample, trim_step >>
  /\ UNCHANGED << reported, repeats, results, all_samples, trie, offset >>

SaveSample ==
  /\ pc = "save"
  /\ all_samples' = all_samples \cup {sample}
  /\ offset' = DiffOffset(sample) /\ trie' = NewTrie(sample)
  /\ pc' = "idle" /\ sample' = << >>
  /\ results' = << >> /\ test_sample' = << >> /\ trim_step' = 0
  /\ UNCHANGED << reported, repeats >>

Next == \/ FuzzEntry \/ Mutate \/ Run
        \/ BeginMinimize \/ HalveStep \/ MinimizeStep \/ Test \/ SaveSample
Spec == Init /\ [][Next]_vars
-----------------------------------------------------------------------------
\* A sample the mutators return never exceeds Sample::max_size, although each
\* of them makes room in its own way; only a RangeMutator, which grows a part of
\* the sample, may do so, and such a sample is not run.
NeverTooLarge ==
  /\ reported = {} => Len(sample) <= MaxSampleSize
  /\ pc # "mutate" => Len(sample) <= MaxSampleSize
  /\ \A s \in all_samples : Len(s) <= MaxSampleSize

\* With ranges, a mutation leaves alone what comes before some range the target
\* read, and loses nothing of the sample behind it, whatever size the mutated
\* part comes back with; consolidating the ranges adds no bytes to them.
KeepsTheRest ==
  Mutate /\ reported # {} /\ sample # << >> =>
    /\ Len(sample') >= Len(sample)
    /\ \E range \in reported :
         LET before == Min({range.from, Len(sample)})
         IN First(sample', before) = First(sample, before)
OnlyTheRange == [][KeepsTheRest]_vars

\* The compressed trie, however its nodes were split by then, finds the first byte
\* at which a new sample differs from all samples before it.
FirstDiffFound ==
  SaveSample => offset' = Max({ CommonPrefix(sample, s) : s \in all_samples } \cup {0})
HotOffsetIsFirstDiff == [][FirstDiffFound]_vars

\* A trimmed sample cannot be trimmed by one more byte, although steps are only
\* ever halved, unless a run that did not end OK has ended the trimming.
TrimmedIsMinimal ==
  pc = "save" => \/ Len(sample) <= 1
                 \/ results[Len(sample) - 1] # "same"
                 \/ test_sample # sample
=============================================================================
