# TLA+ specification of Jackalope

Jackalope is a coverage-guided fuzzer. Several *fuzzer processes*, each with
several threads and one target process per thread, run mutated samples, keep the
ones that reach new code, and exchange them through an optional *coverage
server*. This directory specifies the parts whose correctness depends on the
order in which threads, processes and messages act: the fuzzer's scheduler, the
client/server protocol, the control protocol between a fuzzer thread and its
target, the crash store, the mutexes all of these nest, and the life of a sample:
how it is mutated, trimmed, prioritised and, for a grammar, kept valid.
`PROJECT.json` lists every run, property, theorem and hazard, and maps each
definition to the source lines it stands for.

## 1. The system

| Component | Source | State it keeps | Operations |
|---|---|---|---|
| Scheduler | `fuzzer.cpp`, `fuzzer.h` | fuzzer state, input files, server samples, `samples_pending`, priority queue, `all_entries`, `fuzzer_coverage`, `num_samples` | `SynchronizeAndGetJob`, `RunSample`, `InterestingSample`, `SaveSample`, `JobDone`, `SaveState`, `RestoreState` |
| Coverage client | `client.cpp` | `last_timestamp` | `ConnectToServer`, `ReportNewCoverage`, `GetUpdates`, `ReportCrash` |
| Coverage server | `server.cpp` | corpus, `timestamps`, `total_coverage`, `server_timestamp`, `num_connections`, `unique_crashes` | `HandleConnection`, `ReportNewCoverage`, `ServeUpdates`, `ReportCrash`, `SaveState`, `RestoreState` |
| SanCov instrumentation | `sancovinstrumentation.cpp`, `sancovclient.cpp` | `pid`, `cur_iteration`, `virgin_bits`, pipes, shared bitmap; in the target: edge guards | `Run`, `GetStatus`, `Kill`, `GetCoverage`, `ClearCoverage`, `IgnoreCoverage`; `__pre_fuzz`, `__post_fuzz`, `trace_pc_guard` |
| Crash store | `fuzzer.cpp`, `client.cpp`, `server.cpp` | `unique_crashes` and a directory, in each fuzzer and in the server | crash handling of `RunSampleAndGetCoverage`, `TryReproduceCrash`, `ReportCrash` |
| Sample run | `fuzzer.cpp`, `minimizer.cpp` | locals of one thread | delivery retries, coverage retries, `MinimizeSample` with `SimpleTrimmer` |
| Samples | `sample.cpp` | bytes, `SampleTrie` | `Trim`, `Crop`, `Resize`, `FindFirstDiff`, `AddSample` |
| Range tracker | `rangetracker.cpp` | a buffer shared with the target | `ExtractRanges`, `ConsolidateRanges` |
| Grammar | `mutators/grammar` | `interesting_trees`, the tree under mutation, the minimiser's context | `GenerateTree`, `Mutate`, `EncodeSample`, `DecodeSample`, `MinimizeStep`, `ReportSuccess`, `ReportFail` |
| Mutators | `mutator.cpp`, `mutator.h` | a context per queue entry: regions around hot offsets, the current mutator | `InitRound`, `Mutate`, `NotifyResult`, `AddHotOffset` |
| TinyInst | `tinyinstinstrumentation.cpp` | debugger state (submodule) | `Run`, `CleanTarget` |
| Infrastructure | `mutex.cpp`, `thread.cpp`, `shm.cpp`, `sampledelivery.cpp`, `directory.cpp`, `main.cpp`, `prng.cpp` | - | wrappers and set-up |

**How they interact.** Threads of a fuzzer share the scheduler's state under
five mutexes (`queue_mutex`, `output_mutex`, `coverage_mutex`, `server_mutex`,
`crash_mutex`). Each calls its own instrumentation, which talks to its target
through two pipes and a shared bitmap. Client and server exchange messages over
a TCP connection per operation. Fuzzer and server save themselves to
`state.dat` and `server_state.dat` and start again from there with `-restore`.

**What is hard.**
- Decisions are taken in one critical section and acted on in another: coverage
  is claimed under `coverage_mutex`, the sample saved under `output_mutex`, the
  entry pushed under `queue_mutex`; the server checks coverage under a read lock
  and commits under the write lock.
- A fuzzer only leaves input and server sample processing when a counter of
  pending jobs is back at zero; a state may be saved only then.
- Crashes hit in the middle of a save, between the steps above, or between a
  save and what happened after it.
- Timeouts race late answers, of connections and of targets.
- Lost connections cut updates short; the client must not remember a timestamp
  for samples it did not get.
- The grammar minimiser keeps pointers into a tree whose nodes it deletes.
- Hot offsets arrive in the middle of the deterministic scan they extend.
- Mutexes are nested up to four deep, and one of them waits for the server,
  which takes its own.

**What makes each part correct.** For the scheduler: no entry is lost or fuzzed
twice at once; coverage is claimed once and never without a sample; fuzzing does
not start early and always starts; a state file is consistent with the files
around it. For the protocol: every client gets every sample, none twice; the
corpus holds nothing redundant; the connection limit holds; a restored server is
consistent. For a target: fuzzer and target never get out of step; coverage is
the run's own and all of it. For crashes: none is written over, and each name
gets to the server. For a queue entry: every byte near a hot offset gets every value,
and a thread never spins without running samples. For samples: a mutation stays
in its range and below the largest size, the trie finds the first byte that is
new, trimming goes as far as it can. For all threads: none wait for each other in
a circle. For grammar samples: they stay derivable from the grammar, and
what is saved is what ran.

## 2. The modules

| Module | Models | Checked by | Proved in |
|---|---|---|---|
| `TimestampIndex` | `corpus.timestamps` and what `GetIndex` returns | (used by the next) | `ProceduresProofs` |
| `GetIndexSearch` | the two loops of `GetIndex`, step by step | `procedures` | `ProceduresProofs` |
| `SampleFeed` | abstract: a growing log, of which each client has and remembers a prefix | (implemented by `CoverageServer`) | `SampleFeedProofs` |
| `CoverageServer` | server, clients, connections, save and restore | `server_*` | `CoverageServerProofs` |
| `FuzzerJobs` | scheduler of one fuzzer process | `fuzzer_jobs`, `fuzzer_restore`, `fuzzer_lost` | `FuzzerJobsProofs` |
| `FuzzerInvariant` | the inductive invariant of `FuzzerJobs` | (proofs) | |
| `FuzzRounds` | the rounds of `FuzzJob`: mutators combined, hot offsets, priorities | `fuzz_rounds` | `FuzzRoundsProofs` |
| `SampleEdits` | the bytes of a sample: mutators, ranges, trimming, the trie | `procedures` | `ProceduresProofs` |
| `FuzzerLocks` | which mutexes threads hold while they wait | `fuzzer_locks` | `FuzzerLocksProofs` |
| `SanCovTarget` | one fuzzer thread and its targets | `sancov_target` | `SanCovTargetProofs` |
| `CrashStore` | crashes of several fuzzers and a server | `crash_store` | `CrashStoreProofs` |
| `GrammarSamples` | the trees of one fuzzer thread: generated, mutated, encoded, minimised | `grammar_samples` | - (its operators on trees are RECURSIVE) |

The `MC*` modules define constants for TLC. `MCProcedures` also puts two
sequential parts next to each other in one instance: it extends `SampleEdits` and
has `GetIndexSearch` as `Search`. A behaviour is of one of them; the theorems are
about `Spec` (of `SampleEdits`) and `Search!Spec`, each on its own.

### CoverageServer

One action per step of an operation between two messages. `Connect`, `Accepted`,
`Retry`, `Answered`, `RecvStamp`, `RecvSample`, `EndUpdates` and
`ClientReadFails` are the client (`client.cpp:68-232`); `HandleConnection`,
`HasNewCoverage`, `OnNewCoverage`, `ServeUpdates`, `CloseConnection` and
`ServerReadFails` the server's connection thread. What the code does under the
read or the write lock is one step, except saving: `BeginSave` and `EndSave` are
separate, as a crash may come between them and as the write lock must wait
(`LockWrite`). A report's offsets are sets; a sample is its reporter and the
coverage it was reported for. Client operations run under the fuzzer's
`server_mutex`, so each client has at most one at a time. `Break` loses a
connection and what is on the way; `Crash` and `RestoreState` are the server's.

`SampleFeed` says what server and clients promise together, without messages,
locks or timestamps: samples are admitted to a log, a client is sent the next one
it lacks, and acknowledges what it has. `CoverageServer` implements it under
`Feed == INSTANCE SampleFeed WITH ...`: the log is the corpus, what a client has
is what it received, and what it remembers is the part of the corpus up to its
`last_timestamp`. `FeedsInOrder` is the refinement without restarts.
`FeedsUntilRestart` allows for a crash: until the server is restored each step is
one of the log's, as afterwards timestamps repeat (section 5).

### FuzzerJobs

`pc[t]` says where thread `t` is: `get`, `saving`, `dispatch` (inside
`SynchronizeAndGetJob`, holding `queue_mutex`), `run`, `save`, `entry`, `push`
(the three sections of `SaveSample`), `done`. `NextState` composes the tests of
`SynchronizeAndGetJob` in their order, so one call may pass through several
states, as in the code. `RunSample` claims coverage under `coverage_mutex`; the
coverage a run finds is any set its thread does not ignore, divided into stable
and flaky. `CreateEntry` is separate from `SaveFile` because the code reads
`num_samples` after releasing `output_mutex`. `Crash` restarts with `-restore`.
`claimed` and `handled` are history variables; a save and a restore carry them
along, so that properties speak of the session a restore resumes.

### SanCovTarget

`pc` is the fuzzer thread (`Run`, then the coverage calls), `at[p]` the target
process in slot `p`. `toFuzzer` and `toTarget` are the pipes. A target may run
any edge, stop for ever or die at any step. A process the fuzzer gave up without
killing could go on: that this never matters is what `OneTarget` and
`QuietBetweenRuns` show. Bits are indices; `Bytes`, `ClearedBits` and
`ScannedBits` carry the byte and word arithmetic of `GetCoverage` and
`ClearCoverage`. A write to a target that died between two samples raises
SIGPIPE, which nothing in the code handles: the model has it as the end of the
fuzzer (`pc = "sigpipe"`).

### FuzzRounds

One thread fuzzes its queue, as an entry belongs to one thread at a time
(`EveryEntryInOnePlace`). `TakeJob` pops the entry `CmpEntryPtrs` puts first and
begins a round; `DeterministicMutate`, `NondeterministicMutate` and `RoundEnds`
are the three ways a call of `Mutate` on the mutator `BinaryFuzzer` builds can go:
`DtermininsticNondeterministicMutator` over a `MutatorSequence` of two
deterministic mutators, or `NRoundMutator` (no deterministic rounds). `RunSample`
runs the sample and adjusts the priority; one that finds coverage makes a new
entry. `NotifyResult` is the rest of the loop of `FuzzJob`: the notification, the
hot offset, the discarding. `WithWindow` and `AfterByte` are `AddHotOffset` and
`GetNextByteToMutate` on the regions of a context. A sample is only the position
and value a deterministic mutation wrote; which run finds coverage, and where the
sample then differs, is open. `-deterministic_only` also mutates
nondeterministically once the deterministic mutations are exhausted, as the
repository's README says (line 119).

### SampleEdits

A mutator is the set of samples it may return, every random number being a
choice. `Mutations` is what `PSelectMutator` chooses from, `RangeMutations` what
`RangeMutator` makes of it, `Mutate` one repeat of `RepeatMutator`. `BeginMinimize`,
`HalveStep` (one turn of the loop in `SimpleTrimmer::MinimizeStep`), `MinimizeStep`
and `Test` are `MinimizeSample` with `SimpleTrimmer`; what running
the sample trimmed to a size does is chosen beforehand (`results`). `SaveSample`
adds it to the trie, in which a node is named by the bytes that lead to it.

### FuzzerLocks

An operation is the sequence of mutexes it locks and unlocks; `Optional` marks a
section the code may leave out. A client waits for the answer to its request, so
what its server thread locks is part of the client's section. Threads of one
fuzzer share its mutexes, all share the server's. The statistics and context
mutexes are those of the mutators, `trie` that of `SampleTrie`.

### CrashStore

Threads of several fuzzers crash, try to reproduce, count under `crash_mutex`,
write the file, and report; the server counts again. Reports are not answered,
so a thread goes on while its report is served.

### GrammarSamples

`pc` follows one thread through `SynchronizeAndGetJob`'s two kinds of samples
(generated, or an entry's tree mutated), the run, `MinimizeSample` and
`SaveSample`. `GenerateTree` is the set of trees the code may return; each
mutation maps a tree to the set of its results. An encoded sample has two parts,
as the code writes them: the text that is delivered, and the nodes in preorder
that the tree is decoded from. `context` is the minimiser's: nodes are named by
their position in the encoding, `children` is the tree as it is now, and
`removed` what the current step took out; `freed` are the nodes deleted so far.
`covered` is a history variable: the text that last ran with the sample's
coverage.

## 3. The runs

| Run | Question | Bounds |
|---|---|---|
| `server_delivery` | does the server implement `SampleFeed`: is every sample delivered, once, in order, and only if new? | 2 clients, 2 offsets, 2 connections |
| `server_restart` | does the limit hold; is the state on disk consistent; is the feed kept up to a restart? | 1 client, 3 offsets, 3 connections with a limit of 1, 1 fault, 1 crash |
| `server_rollback` | (violated) does a restored server miss clients? | 2 clients, 2 offsets, 1 crash |
| `fuzzer_jobs` | does every phase drain and end, and does every claim reach the queue? | 2 threads, 1 offset, 1 input, 1 server sample, 2 samples to generate; `-add_all_inputs` adds 1 entry |
| `fuzzer_restore` | consistency across crashes | 2 threads, 2 offsets, 1 input, 2 server samples, 2 crashes |
| `fuzzer_lost` | (violated) may a restored session count coverage it has no sample for? | 2 threads, 2 offsets, 1 input, 1 crash |
| `fuzz_rounds` | is every byte around a hot offset tried; do results reach their mutator; does fuzzing go on? | offsets 0 to 3, windows of 2 bytes, 2 and 1 values per byte, 4 rounds, 2 finds, 12 runs |
| `procedures` | do the loops of `GetIndex` end with the first unseen sample; do edits, ranges, trimming and the trie keep to what they say? | vectors of up to 4 entries with timestamps and corpus up to 5; samples of up to 3 bytes of 2 values, blocks of 2, 2 repeats, 3 saved samples, 5 sets of ranges |
| `fuzzer_locks` | do threads wait for each other in a circle? | 2 fuzz threads and the main thread of one fuzzer, 1 thread of another, the server's status thread |
| `sancov_target` | steps, restarts and coverage of a target | 2 process slots, 9 edges of which the first and the last run, 2 samples per process |
| `crash_store` | files kept, names delivered | 3 threads in 2 fuzzers, 3 crashes, 2 files per name, 1 lost report or restart |
| `grammar_samples` | do samples stay valid, saved as they ran, with the minimiser in step? | a grammar with an id, an empty rule and a nested repeat; depth 3, 9 nodes, 2 samples to mutate and splice from, 1 round of a repeat |

**Why the bounds are enough.** Races here are between two actors: two threads
with the same coverage, two clients with the same offset, a saver and a thread
that has claimed. Two of each, with two offsets (one shared, one own), make every
pair of orders. A third connection slot is needed for a refused connection that
is still counted while another is served and one waits. Two restarts let a state
saved by a restored session be restored. The bounds of connections, files per
name and iterations are below the code's 8, 4 and `-iterations` so that they are
reached. The 9 edges of `sancov_target` need a second byte, so clearing must
round up; edge 9 is not at the end of a word (see section 5). In
`grammar_samples`, repeats are generated with one child but get more by mutation
and splicing, a repeat may stand below a repeat by splicing deeper than
`MaxDepth`, and both kinds of minimisation candidates occur, one below another.
Windows of two bytes around offsets 0 to 3 (`fuzz_rounds`) overlap, touch, nest
and leave gaps; two finds give an entry two more hot offsets, in the middle of a
scan and after one; 12 runs are more than the 4 rounds of three jobs, and entries
are discarded after 10 of them. Samples of 3 bytes (`procedures`) are the largest
there may be, so every mutator meets the limit; the trie gets a node split in the
middle and a sample that is the beginning of another; a trim step of 4 is larger
than any sample. In `fuzzer_locks`, a circle of two threads in one fuzzer can
form with or without the server and another fuzzer in it. Symmetry
is used only in runs without liveness properties.

**Deadlock checking is off** in every run but `fuzzer_locks`: the bounds end all
activity, a fuzzer may end with FATAL, and when every entry has been discarded and there is no
server its threads wait for ever, which the code accepts.

### Fairness

- `CoverageServer`: connection threads and clients are scheduled (weak fairness),
  and a client that keeps connecting gets a slot (strong fairness on `Connect`):
  the operating system has room for another connection, the model's slots are
  few. The client's loop of `ConnectToServer` has no other guarantee: with a
  connection limit below the number of clients, a client may be refused for ever
  while others come and go. Hence the liveness run has as many connections as
  clients. Fuzzers call `GetUpdates` over and over from `SynchronizeAndGetJob`.
- `FuzzerJobs`: every thread is scheduled, every run of a sample ends (the
  instrumentation's timeouts), every round of mutation ends, and a thread that
  waits for `queue_mutex` gets it in its turn (strong fairness). With
  `-add_all_inputs` and updates that break off, the same server samples may be
  fetched and added again and again, so `MaxAdded` bounds how often.
- `SanCovTarget`: only the fuzzer thread is scheduled, and `poll` times out.
  Nothing is assumed of targets.
- `CrashStore`: threads, the tries of `TryReproduceCrash` and the server's threads
  end.
- `FuzzRounds`: each action on its own: the thread is scheduled and every run of a
  sample ends.
- `GetIndexSearch`: the loops go on.
- `GrammarSamples`: only the steps of minimisation are fair: the thread runs and
  each of its test runs ends. Their results are not constrained.

## 4. What is proved

All theorems hold for every value of the constants, under the named assumptions
(`SearchBounds`, `ServerAssumption`, `FuzzerAssumption`, `RoundsAssumption`,
`EditsAssumption`, `TargetAssumption`, `CrashAssumption`), which TLC also evaluates.
They say what the code takes for granted: the sets of threads, fuzzers and
connections are finite, both limits on identical crashes are positive, rounds and
windows are not empty (`RoundsAssumption`), the trim step starts at 1 or more, and
what a target reports is a finite set of ranges that do not end before they start
(`EditsAssumption`). The theorem about the locks uses no assumption: it
also holds for infinitely many threads.

**GetIndex.** `GetIndexSplits` (in `ProceduresProofs`): on a well-formed
vector the declarative `GetIndex` separates the samples stamped `t` or earlier
from the later ones. The proof takes the least position stamped after `t` and
uses that stamps and indices increase together. `SearchInvariant` then shows that
the binary search and the scan compute it: the search interval always has an
entry at or before `t` on its left and one after `t` on its right, so the scan
that follows stops inside the vector and the FATAL is unreachable.

**The scheduler.** None of the safety properties is inductive alone. Two
invariants are. `QInv` (`FuzzerJobsProofs`) is the smaller one, for the queue: an entry
is in the queue, or discarded, or the job of one thread; the number of
processing threads is `samples_pending`; and who holds `queue_mutex`. The
cardinality argument is that a step changes the job of one thread only.
`IInv` (`FuzzerInvariant`) adds, part by part:

- `ClaimsCounted`: the coverage of entries and of unsaved samples is in
  `fuzzer_coverage`, in the state file as in memory. With it, a new claim is
  disjoint from all earlier ones: `ClaimedOnce`.
- `UpdatesAccounted`: a server sample up to `last_timestamp` was handled, or
  waits, or is a job. While fuzzing none waits and none is a job, so a save may
  write that timestamp: `SavedUpdatesProcessed`.
- `FilesNumbered`: files in use, those of a saved state included, are numbered
  below `num_samples`, which a restore never sets back below the file it restored:
  `FilesIntact`.
- `NothingIgnored`, `FirstSession`: what is known before a restore, for
  `IgnoredIsCounted` and `NothingLostWithoutRestart`.

`InductiveInvariant` proves `Spec => []IInv`; each property follows from it. TLC
checked the parts on the runs' instances before they were proved.

**The rounds of a queue entry.** `IInv` (`FuzzRoundsProofs`) is about the regions of
each context. They are sorted by where they start (`RegionsInv`), those before
`cur_region` are done (`DoneBefore`), and what a region has left behind is settled:
tried, being tried, or too large a sample (`Scanned`). `MutatorInv` adds that the
windows of all hot offsets are covered (`Covers`); with `Scanned` this gives
`EveryHotByteTried`. The hard step is `AddHotOffset` (`WithWindow`): a new region is
clipped at the start of the next one, so that it may be shorter than its window. The
window is covered all the same, because windows start and end in the order of their
offsets. The next region starts where the window of a later offset does, and has all
of that window or is joined by the region after it (`FromWindow` is what regions have
to remember for this); following these joins leads past the end of the clipped
window. Extending a region that was done gives it bytes again and keeps its place, and
`cur_region = 0` makes the next scan come past it. `NotifiesAuthor` needs
`AuthorIsCurrent`: nothing between a mutation and its notification moves
`current_mutator_index`, and an exhausted sequence makes no sample, so the index
`MutatorSequence::NotifyResult` uses unchecked is that of a mutator.

**Samples.** `ProceduresProofs` has two invariants of `SampleEdits`.

- `EditsInv`. For sizes (`NeverTooLarge`) there is a lemma per mutator, as each makes
  room in a way of its own: `Room` for what is appended or inserted, as many
  duplicates as fit, `Trim` after a splice; a splice in place ends no later than one of
  the two samples. For trimming (`TrimmedIsMinimal`) the invariant relates the step to
  what was seen: a step becomes 0 only when one byte less has failed on the present
  sample, since `HalveStep` only halves steps of 2 or more. `OnlyTheRange` follows from
  what `PutBack` returns for a part of any size, and from every consolidated range
  starting where a range of the report does.
- `TrieInv`. Every sample saved lies on a path of the trie and every path on a sample
  (`TrieHoldsSamples`); a node below another hangs from it at the byte after its
  constant part (`TrieIsCompressed`). So the node where `AddSample` stops, and how much
  of its constant part matches, is the longest beginning that the sample shares with
  any earlier one: if a saved sample agreed further, there would be a node one byte
  on, and the descent would have continued. That is `HotOffsetIsFirstDiff`. A new
  leaf, with or without the split of the node it hangs from, keeps both parts.

**The target.** `IInv` (`SanCovTargetProofs`) is small, but one part is needed
for everything else: `Pipes` lists, for each step of the fuzzer thread, where the
target may be and what the pipes hold then. A process that died late may leave an
unread answer, but a new process gets new pipes, so `InStep` follows. A live
process that is not `pid` cannot exist, since every path that gives one up kills
it or read its answer first (`OneTarget`); and a run only ends with the target in
its loop's end or dead (`QuietBetweenRuns`). `Iterations` adds that
`cur_iteration` counts what the process itself ran. Coverage needs two further
invariants: new bits in the bitmap are the current run's (`OwnInv`), and a guard
that is off has its bit set while a sample runs (`CompleteInv`). Both rest on
every edge being in a byte that is cleared, or in a word that is scanned. That is
so unless the number of edges is a multiple of 8, or of 64: the theorems assume
it is not, and section 5 says what the code does when it is.

`CoverageExact` states both together.

**The feed.** `FeedInOrder` (`SampleFeedProofs`) says what an implementation of
`SampleFeed` gives its clients: what a client has is the log up to some point, and
what it acknowledged is among it. `TypeOK /\ InOrder` is inductive: admitting a
sample leaves the prefixes of the log as they are, and a prefix with the next
sample is a prefix.

**The server.** `IInv` (`CoverageServerProofs`) is the conjunction of the types, the
four invariants of the runs and what they need from each other:

- `Sockets`, `InStep`: for each step of a client's call, where the connection's
  thread may be and what is on the way between them (`Waiting`, `Answering`,
  `Updating`). A broken or refused connection takes its messages with it, so a new
  one starts empty.
- `FreshIsReported`: what `HasNewCoverage` computed under the read lock is, when
  `OnNewCoverage` uses it under the write lock, the reported coverage but for
  offsets that `total_coverage` has by then. Together with `CorpusKept`
  (`total_coverage` has the coverage of the whole corpus) the second look at
  `total_coverage` keeps out a sample that brings nothing: `NoRedundantSample`.
- `IndexMatchesCorpus` is kept by a commit because `server_timestamp` grows first
  and an entry is only added with its samples.
- `SavingInv`, `SavedInv`: while a save is under way the state it writes is the one
  in memory, as the read lock holds off commits; a complete `server_state.dat` stays
  behind what the files hold, since files are only added: `SavedStateConsistent`.
- `Down`: a server that crashed has neither threads nor memory until it is restored.

The refinement is by steps (`FeedRefined`). `Acknowledged(t)` counts the samples
stamped `t` or earlier; by `IndexMatchesCorpus` and `GetIndexSplits` it is the index
`ServeUpdates` starts from. Committing a sample keeps it for every timestamp a
client can have (`Grows`), since the new entry is stamped later than all of them.
`UpdateOf(c)` describes an update under way: what was received so far, together
with what is still on the way, is the corpus from the acknowledged part up to the
stamp the update was sent with. So each received sample is `SampleFeed`'s next one,
and the last message moves `last_timestamp` over samples the client has. Both are
only claimed until the server is restarted: a restored server's clock is behind its
clients', which is the finding of section 5. `FeedImplemented` is the refinement
for a server that is never restarted, `NoneMissedBeforeRestart` what it means for a
client.

**Crashes.** `NoCrashOverwritten` is an action property: it needs that the file a
step writes does not exist. On the server, files are numbered up to its count of
their name (`ServerNumbered`). In a fuzzer the number is taken under `crash_mutex`
and used after it was released, so `Numbered` says of each thread that is to save:
its number was counted, its file does not exist, and no other thread of the process
has the same number of the same name. A restart resets the counts, but not the
directory; the theorem claims nothing of a fuzzer's directory afterwards.
`ServerHasThem` adds up three finite sets per name: crashes counted, threads between
counting and reporting, and reports on the way. A thread's step moves a crash from
one to the next and leaves the sum alone; serving a report adds one to what was
served, and to the server's count until that is full. The lemma that taking a report
out of the queue takes exactly one of its name (`OfRemoveAt`) is by a bijection.

**Locks.** `FuzzerLocksProofs` orders all mutexes, of fuzzers and server: queue,
output, server, coverage, context, stats, connections, corpus, and so on. `Nested(s)`
says of a sequence of steps that whatever is held when a mutex is locked has a lower
rank. It is stated so that it holds of every suffix if it holds of the whole; hence
it is an invariant of what is left of each operation, and only the operations
themselves need to be looked at, section by section (`InsideSection`,
`InsideConcat`, `InsideOptional`). For `NoDeadlock`, take of the waiting threads one
that wants the mutex of the highest rank, a writer if there is one: whoever it waits
for holds that mutex, so that it waits for none.

**Only model-checked:** all liveness, `Terminates`, `KeepsRunning` and
`EveryoneGetsEverySample` among it (the prover handles neither fairness nor ENABLED
here); and all of `GrammarSamples`, whose trees need induction over data (its
operators on trees are RECURSIVE besides).

## 5. Where the code and its documentation disagree

- `server_rollback`: after `-restore` the server's clock goes back to the saved
  value. Samples it admits next are stamped with timestamps that clients already
  remember, and those clients are never sent them (`server.cpp:246`, `483`),
  although both README lines 101 and 167 promise restoring and distribution.
- `fuzzer_lost`: coverage is counted (`fuzzer.cpp:535`) before its entry is in
  `all_entries` (`fuzzer.cpp:398`). A save in between, then a crash, leaves a
  session that ignores coverage it has no sample for.

Observed where no document says otherwise:

- Guard indices start at 1, but the words scanned and the bytes cleared are
  counted from 0. With a multiple of 64 edges the last one is never reported
  (`sancovinstrumentation.cpp:360`).
- A splice takes a node that stands no deeper than the one it replaces, but
  whatever is below it comes along: trees get deeper than `MAX_DEPTH`
  (`grammarmutator.cpp:191`).
- `interesting_trees` is shared by all threads, the mutex around it is not: each
  thread's mutator has its own (`grammarmutator.cpp:84`).
- `SHMRangeTracker` compares the number of ranges the target wrote with a limit
  counted in words, while a range takes two (`rangetracker.cpp:30`, `43`): a target
  that fills the buffer makes it read beyond.
- `RangeMutator` tests the size of the whole sample where it has just cropped a
  part of it (`mutator.cpp:529`): an empty part is still mutated, which
  `SampleEdits` models; an `AppendMutator` may fill it.
- `MutatorSequence::NotifyResult` uses its index unchecked (`mutator.h:252`).
  `NotifiesAuthor` shows that the index is never behind the last mutator then.
- Two samples saved at once may get the same `sample_index` (`fuzzer.cpp:389`).
  Reading it in the section that queues the entry, under `output_mutex`, would
  close a circle with `SynchronizeAndGetJob`, which saves the state under
  `queue_mutex`: the mutant of `NoDeadlock`.
- The grammar's README says that minimisation stops after a number of
  unsuccessful removals; the code has no such number
  (`mutators/grammar/README.md:67`). `MinimizationEnds` shows that it ends.

## 6. What is not modelled, and why

- `-dry_run`, statistics counters and `StatusThread` printing: no decision
  depends on them, except that `-dry_run` reads `state` without a lock.
- In `FuzzerJobs` any queued entry may be popped; priorities are in `FuzzRounds`,
  which has one thread and no saves. `sample_index`, which only breaks ties, is
  the number of the entry there; that two entries may share one is a hazard.
- Delivery retries, the runs of `-coverage_retry` and output filters: one step
  with any outcome in `FuzzerJobs`. A failing delivery ends the process.
- The values of interesting values and dictionaries, and the statistics that
  adapt how often `RepeatMutator` repeats: any number of repeats may happen.
  `SelectMutator`, which nothing uses.
- Saving and loading mutator contexts: an entry is saved as it is. That
  `MutatorSequence::SaveContext` may tear them is listed as a hazard.
- Files, memory and `-keep_samples_in_memory=0`; the buffer a target reports
  ranges in.
- Threads inside a target, and the benign race `sancovclient.cpp:109` describes.
- A `send` that blocks or raises SIGPIPE on a socket. There is no send timeout in
  the code; the models lose such a message.
- A restart of the server in `CrashStore` (its counts start at zero again, as a
  restarted fuzzer's do, which is modelled).
- The parser of grammar files, and other threads' use of `interesting_trees`. A
  tree over the maximum size is never made, where the code makes it and drops
  the sample.
- TinyInst (a submodule whose sources are absent), random number generators,
  directories, options, logging, build files, example targets.

## 7. Plan

Done: `TimestampIndex`, `GetIndexSearch`, `SampleFeed` and `CoverageServer`,
`FuzzerJobs`, `FuzzRounds`, `SampleEdits`, `FuzzerLocks`, `SanCovTarget`,
`CrashStore`, `GrammarSamples`; the proofs about `GetIndex`, the server and its
refinement of the feed, the scheduler, the rounds of a queue entry, samples and their
trie, the target, crashes and locks.

Next, in this order:

1. `SampleRun`: `RunSampleAndGetCoverage`'s delivery retries and the stable/flaky
   decision of `RunSample` over `-coverage_retry` runs, with the single
   `RunSample` step of `FuzzerJobs` as its abstraction.
2. Saving contexts in `FuzzRounds`, with a second thread that adds hot offsets.
