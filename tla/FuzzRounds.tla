------------------------------- MODULE FuzzRounds -------------------------------
(***************************************************************************)
(* How a thread fuzzes its queue (Fuzzer::FuzzJob): the mutators that      *)
(* BinaryFuzzer combines (main.cpp, mutator.h), the deterministic ones     *)
(* around the hot offsets of an entry, the priorities that choose the next *)
(* entry, and what a run that found coverage changes in all of them.       *)
(*                                                                         *)
(* An entry belongs to one thread at a time (EveryEntryInOnePlace of       *)
(* FuzzerJobs), so the model has one thread.  Of a sample it keeps the     *)
(* position a deterministic mutation writes; what the random mutators do   *)
(* to its bytes is in SampleEdits.  Which run finds new coverage, and at   *)
(* which offset the sample then differs, is left open.                     *)
(***************************************************************************)
EXTENDS Integers, Sequences, SequencesExt

CONSTANTS MaxOffset,          \* the offsets at which samples differ: 0 .. MaxOffset
          FirstOffsets,       \* those at which an entry differs from all before it
          BytesPrevious,      \* DETERMINISTIC_MUTATE_BYTES_PREVIOUS
          BytesNext,          \* DETERMINISTIC_MUTATE_BYTES_NEXT
          ByteValues,         \* values of a byte
          InterestingValues,  \* how many interesting values there are ...
          ValueSize,          \* ... and their size
          MaxSampleSize,      \* Sample::max_size
          IterationsPerRound, \* -iterations_per_round
          MaxFinds,           \* bound: runs that find new coverage
          MaxRuns,            \* bound: runs
          MinDiscardRuns      \* runs before an entry is discarded, at least

ASSUME RoundsAssumption ==
  /\ FirstOffsets \subseteq 0 .. MaxOffset
  /\ {MaxOffset, BytesPrevious, MaxFinds, MaxRuns, MinDiscardRuns} \subseteq Nat
  /\ {BytesNext, ByteValues, InterestingValues, ValueSize, MaxSampleSize,
      IterationsPerRound} \subseteq Nat \ {0}

VARIABLES
  options,       \* which mutations were asked for
  queue,         \* sample_queue, as a set of entries
  priority, context,    \* per entry
  pc, entry,     \* the thread and the entry of its FUZZ job
  current_round, last_mutator,   \* of DtermininsticNondeterministicMutator
  written,       \* what the mutated sample was made by
  diff,          \* where it differs, when it found coverage
  \* history: hot offsets and values tried per entry, runs
  hot, tried, finds, runs

job     == << entry, current_round, last_mutator, written, diff >>
history == << hot, tried, finds, runs >>
vars == << options, queue, priority, context, pc, job, history >>

Offsets == 0 .. MaxOffset
Entries == 1 .. Len(priority)
NoDiff  == -1
Nothing == [by |-> "none", pos |-> 0, value |-> 0]

\* -deterministic_mutations and -deterministic_only.
Options == {"both", "nondeterministic", "deterministic_only"}

DeterministicRounds ==
  CASE options = "both" -> IterationsPerRound \div 2
    [] options = "deterministic_only" -> IterationsPerRound
    [] options = "nondeterministic" -> 0
NondeterministicRounds == IterationsPerRound - DeterministicRounds
-----------------------------------------------------------------------------
(* BaseDeterministicContext: sorted regions of bytes to mutate, each with  *)
(* the next byte and its next value.                                       *)

NewRegion(from, to) == [start |-> from, end |-> to, cur |-> from, cur_progress |-> 0]

WindowStart(offset) == IF offset < BytesPrevious THEN 0 ELSE offset - BytesPrevious
WindowEnd(offset) == offset + BytesNext

\* The window of one more hot offset, at the first region that starts later or that
\* it starts in: a new region before the former, an extension of the latter, or a
\* new last region.
WithWindow(regions, offset) ==
  LET from == WindowStart(offset)
      to == WindowEnd(offset)
      stops(i) == from <= regions[i].end \/ from < regions[i].start
  IN IF \A i \in 1 .. Len(regions) : ~stops(i)
       THEN Append(regions, NewRegion(from, to))
     ELSE LET i == CHOOSE i \in 1 .. Len(regions) : stops(i) /\ \A j \in 1 .. i - 1 : ~stops(j)
          IN IF from < regions[i].start
               THEN InsertAt(regions, i, NewRegion(from, Min({to, regions[i].start})))
               ELSE [regions EXCEPT ![i].end = Max({@, to})]

\* AddHotOffset restarts the scan.
Rescanned(child, offset) ==
  [regions |-> WithWindow(child.regions, offset), cur_region |-> 1]

\* A byte that had all its values is left behind.
Advance(region, max_progress) ==
  IF region.cur_progress >= max_progress
    THEN [region EXCEPT !.cur_progress = 0, !.cur = @ + 1] ELSE region
Live(region, max_progress) ==
  LET r == Advance(region, max_progress) IN r.cur < r.end

\* GetNextByteToMutate: the first region with bytes left, from cur_region on.
NextRegion(child, max_progress) ==
  LET ends == Len(child.regions) + 1 IN
  CHOOSE i \in child.cur_region .. ends :
    /\ i = ends \/ Live(child.regions[i], max_progress)
    /\ \A j \in child.cur_region .. i - 1 : ~Live(child.regions[j], max_progress)
HasByte(child, max_progress) == NextRegion(child, max_progress) <= Len(child.regions)
NextByte(child, max_progress) ==
  LET r == Advance(child.regions[NextRegion(child, max_progress)], max_progress)
  IN [pos |-> r.cur, value |-> r.cur_progress]
AfterByte(child, max_progress) ==
  LET next == NextRegion(child, max_progress)
      passed(i) == Advance(child.regions[i], max_progress)
  IN [cur_region |-> next,
      regions |-> [i \in 1 .. Len(child.regions) |->
        CASE i = next -> [passed(i) EXCEPT !.cur_progress = @ + 1]
          [] i \in child.cur_region .. next - 1 -> passed(i)
          [] OTHER -> child.regions[i]]]
-----------------------------------------------------------------------------
(* MutatorSequence of the two deterministic mutators: context.children and *)
(* the index of the current one, which is 3 when both are done.            *)

Children == << "byte_flip", "interesting_value" >>
MaxProgress(m) == IF m = 1 THEN ByteValues ELSE InterestingValues

NoContext == [current_mutator_index |-> 1,
              children |-> << [regions |-> << >>, cur_region |-> 1],
                              [regions |-> << >>, cur_region |-> 1] >>]

\* AddHotOffset: every child gets it, and the sequence starts over.  Only the
\* deterministic mutators keep anything.
IndexKept(c) == c.current_mutator_index   \* mutant of RestartedIndex
RestartedIndex(c) == 1
WithHotOffset(c, offset) ==
  IF options = "nondeterministic" THEN c ELSE
  [current_mutator_index |-> RestartedIndex(c),
   children |-> [m \in 1 .. 2 |-> Rescanned(c.children[m], offset)]]

\* The child that mutates next, skipping those that are done.
Current(c) ==
  CHOOSE m \in c.current_mutator_index .. 3 :
    /\ m = 3 \/ HasByte(c.children[m], MaxProgress(m))
    /\ \A k \in c.current_mutator_index .. m - 1 : ~HasByte(c.children[k], MaxProgress(k))
Exhausted(c) == Current(c) = 3
AfterChildren(c, current) ==
  [m \in 1 .. 2 |-> IF m \in c.current_mutator_index .. current
                      THEN AfterByte(c.children[m], MaxProgress(m)) ELSE c.children[m]]
AdvancedEagerly(c) ==   \* mutant of AfterMutate: a child that gave its last value is left
  LET after == [c EXCEPT !.children = AfterChildren(c, Current(c))]
  IN [after EXCEPT !.current_mutator_index = Current(after)]
AfterMutate(c) ==
  [current_mutator_index |-> Current(c), children |-> AfterChildren(c, Current(c))]

\* The size a deterministic mutation resizes a sample to, at least.
SizeAfter(m, pos) == pos + (IF m = 1 THEN 1 ELSE ValueSize)
-----------------------------------------------------------------------------
Init ==
  /\ options \in Options
  /\ queue = {1} /\ priority = << 0 >>
  /\ \E offset \in FirstOffsets : hot = << {offset} >> /\ context = << WithHotOffset(NoContext, offset) >>
  /\ pc = "get" /\ entry = 0 /\ current_round = 0
  /\ last_mutator = "none" /\ written = Nothing /\ diff = NoDiff
  /\ tried = << {} >> /\ finds = 0 /\ runs = 0

\* CmpEntryPtrs: the highest priority, and of equal ones the newest sample.
Before(e, f) == priority[e] < priority[f] \/ (priority[e] = priority[f] /\ e < f)
Top == CHOOSE e \in queue : \A f \in queue : f = e \/ Before(f, e)

\* A FUZZ job begins a round of its mutator: InitRound.
TakeJob ==
  /\ pc = "get" /\ queue # {} /\ runs < MaxRuns
  /\ entry' = Top /\ queue' = queue \ {Top}
  /\ current_round' = 0
  /\ pc' = "mutate"
  /\ UNCHANGED << options, priority, context, last_mutator, written, diff, history >>

\* Mutate with rounds left for deterministic mutations, and a byte left to mutate.
\* A sample that is too large by now is not run.
DeterministicMutate ==
  /\ pc = "mutate" /\ current_round < DeterministicRounds
  /\ ~Exhausted(context[entry])
  /\ LET c == context[entry]
         m == Current(c)
         byte == NextByte(c.children[m], MaxProgress(m))
     IN /\ context' = [context EXCEPT ![entry] = AfterMutate(c)]
        /\ written' = [by |-> Children[m], pos |-> byte.pos, value |-> byte.value]
        /\ pc' = IF SizeAfter(m, byte.pos) > MaxSampleSize THEN "mutate" ELSE "run"
  /\ last_mutator' = "deterministic"
  /\ current_round' = current_round + 1
  /\ UNCHANGED << options, queue, priority, entry, diff, history >>

\* The deterministic mutator is asked while current_round is below its rounds, and
\* may turn out to be done; a nondeterministic mutation then takes its round.
Asked(c) == IF current_round < DeterministicRounds THEN AfterMutate(c) ELSE c
Done(c) == current_round >= DeterministicRounds \/ Exhausted(c)

OwnRoundsLeft(round) ==   \* mutant of RoundsLeft: the rounds are not passed on
  DeterministicRounds <= round /\ round < DeterministicRounds + NondeterministicRounds
RoundsLeft(round) == round < DeterministicRounds + NondeterministicRounds

NondeterministicMutate ==
  /\ pc = "mutate" /\ Done(context[entry]) /\ RoundsLeft(current_round)
  /\ context' = [context EXCEPT ![entry] = Asked(@)]
  /\ written' = [Nothing EXCEPT !.by = "repeater"]
  /\ last_mutator' = "nondeterministic"
  /\ current_round' = current_round + 1
  /\ pc' = "run"
  /\ UNCHANGED << options, queue, priority, entry, diff, history >>

\* Mutate returns false: JobDone puts the entry back.
RoundEnds ==
  /\ pc = "mutate" /\ Done(context[entry]) /\ ~RoundsLeft(current_round)
  /\ context' = [context EXCEPT ![entry] = Asked(@)]
  /\ queue' = queue \cup {entry}
  /\ entry' = 0 /\ pc' = "get"
  /\ UNCHANGED << options, priority, current_round, last_mutator, written, diff, history >>

\* RunSample and AdjustSamplePriority.  A sample with new coverage becomes an
\* entry, with the offset where it differs from all earlier samples as its first
\* hot offset; it also differs from the sample it was mutated from.
RunSample ==
  /\ pc = "run"
  /\ runs' = runs + 1
  /\ LET now_tried == [tried EXCEPT ![entry] = @ \cup {written}]
     IN \/ /\ priority' = [priority EXCEPT ![entry] = @ - 1]
           /\ tried' = now_tried
           /\ UNCHANGED << queue, context, diff, hot, finds >>
        \/ /\ finds < MaxFinds /\ finds' = finds + 1
           /\ priority' = Append([priority EXCEPT ![entry] = 0], 0)
           /\ queue' = queue \cup {Len(priority) + 1}
           /\ tried' = Append(now_tried, {})
           /\ \E offset \in FirstOffsets :
                /\ context' = Append(context, WithHotOffset(NoContext, offset))
                /\ hot' = Append(hot, {offset})
           /\ diff' \in Offsets
  /\ pc' = "notify"
  /\ UNCHANGED << options, entry, current_round, last_mutator, written >>

\* The mutator NotifyResult reaches: the current one of the sequence, or the
\* RepeatMutator, which takes the number of its repeats into its statistics.
NotifyTarget ==
  IF last_mutator = "deterministic"
    THEN (Children \o << "out of bounds" >>)[context[entry].current_mutator_index]
    ELSE "repeater"

\* NotifyResult, then AddHotOffset when the run found coverage.  An entry that
\* caused too many hangs or crashes by now is discarded.
NotifyResult ==
  /\ pc = "notify"
  /\ IF diff = NoDiff THEN UNCHANGED << context, hot >>
     ELSE /\ context' = [context EXCEPT ![entry] = WithHotOffset(@, diff)]
          /\ hot' = [hot EXCEPT ![entry] = @ \cup {diff}]
  /\ diff' = NoDiff
  /\ \/ pc' = "mutate" /\ entry' = entry
     \/ runs > MinDiscardRuns /\ pc' = "get" /\ entry' = 0
  /\ UNCHANGED << options, queue, priority, current_round, last_mutator, written,
                  tried, finds, runs >>

Next == \/ TakeJob \/ DeterministicMutate \/ NondeterministicMutate \/ RoundEnds
        \/ RunSample \/ NotifyResult

\* The thread is scheduled, and every run of a sample ends.
Fairness == /\ WF_vars(TakeJob) /\ WF_vars(DeterministicMutate)
            /\ WF_vars(NondeterministicMutate) /\ WF_vars(RoundEnds)
            /\ WF_vars(RunSample) /\ WF_vars(NotifyResult)
Spec == Init /\ [][Next]_vars /\ Fairness
-----------------------------------------------------------------------------
Positions == 0 .. MaxOffset + BytesNext
RegionsOK(child) ==
  /\ \A i \in 1 .. Len(child.regions) :
       LET r == child.regions[i] IN
       /\ r.start < r.end /\ r.end \in Positions /\ r.cur \in r.start .. r.end
       /\ r.cur_progress \in 0 .. Max({ByteValues, InterestingValues})
  /\ \A i \in 1 .. Len(child.regions) - 1 : child.regions[i].start < child.regions[i + 1].start
  /\ child.cur_region \in 1 .. Len(child.regions) + 1

\* Types and the shape of the contexts AddHotOffset builds: regions in the order
\* of their starts, each with its next byte inside it or at its end.
TypeOK ==
  /\ options \in Options /\ pc \in {"get", "mutate", "run", "notify"}
  /\ queue \subseteq Entries /\ entry \in Entries \cup {0} /\ entry \notin queue
  /\ (pc = "get") = (entry = 0)
  /\ current_round \in 0 .. IterationsPerRound
  /\ diff \in Offsets \cup {NoDiff}
  /\ \A e \in Entries : /\ priority[e] \in Int
                        /\ context[e].current_mutator_index \in 1 .. 3
                        /\ \A m \in 1 .. 2 : RegionsOK(context[e].children[m])

\* Value v of byte pos is still to come from child m of the context.
Ahead(c, m, pos, v) ==
  /\ m >= c.current_mutator_index
  /\ \E i \in c.children[m].cur_region .. Len(c.children[m].regions) :
       LET r == c.children[m].regions[i] IN
       /\ pos < r.end
       /\ r.cur < pos \/ (r.cur = pos /\ r.cur_progress <= v)

\* Deterministic mutation leaves out no value of a byte around a hot offset of an
\* entry, also not of offsets added while the scan is under way or after it was
\* done: every one has been run or is still to come, so that a scan that is done
\* has run them all.  Inserting, clipping and extending regions (AddHotOffset),
\* moving to the next byte (GetNextByteToMutate) and to the next mutator
\* (MutatorSequence::Mutate) have to fit together for this.  Excepted are
\* mutations that make the sample larger than Sample::max_size.
EveryHotByteTried ==
  \A e \in Entries : options # "nondeterministic" =>
    \A offset \in hot[e], m \in 1 .. 2 :
      \A pos \in WindowStart(offset) .. WindowEnd(offset) - 1, v \in 0 .. MaxProgress(m) - 1 :
        LET mutation == [by |-> Children[m], pos |-> pos, value |-> v]
        IN \/ Ahead(context[e], m, pos, v) \/ mutation \in tried[e]
           \/ pc = "run" /\ entry = e /\ written = mutation
           \/ SizeAfter(m, pos) > MaxSampleSize

\* NotifyResult reaches the mutator that made the sample, through an index the
\* sequence may have moved on: MutatorSequence::NotifyResult does not check it.
NotifiesAuthor == pc = "notify" => NotifyTarget = written.by

\* Fuzzing never spins without running samples: neither when the deterministic
\* mutations of all entries are exhausted, with any combination of options, nor
\* when every mutation left makes the sample too large.
KeepsRunning == []<>(pc = "run" \/ (pc = "get" /\ (runs >= MaxRuns \/ queue = {})))
=============================================================================
