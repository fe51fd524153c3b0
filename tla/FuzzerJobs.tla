------------------------------- MODULE FuzzerJobs -------------------------------
(***************************************************************************)
(* The scheduler of a fuzzer process (fuzzer.cpp): threads that take jobs  *)
(* under queue_mutex, run samples, claim the coverage they find, save the  *)
(* samples that found it, and hand their jobs back; the states the process *)
(* goes through; saving its state to state.dat, and a crash followed by    *)
(* -restore.                                                               *)
(*                                                                         *)
(* A run of a sample has any stable and flaky coverage its thread does not *)
(* ignore yet (-incremental_coverage, the default).  Which entry of the    *)
(* priority queue is on top is left open here.  Reports to the server have *)
(* no effect on this state (they are in CoverageServer); GetUpdates brings *)
(* the next samples of the server's corpus, and may break off before it    *)
(* remembers how far it got.                                               *)
(***************************************************************************)
EXTENDS Integers, Sequences, FiniteSets

CONSTANTS Threads, Edges, NoThread,
          InputFiles,             \* files in the input directory
          ServerCorpus,           \* samples the server comes to have
          HasServer, SkipInitialServerSync, AddAllInputs,
          CanGenerate,            \* the mutator can generate samples
          MinSamplesToGenerate,   \* MIN_SAMPLES_TO_GENERATE
          MaxRestarts,            \* bound: crashes of the process
          MaxAdded                \* bound: entries beyond which -add_all_inputs adds none

ASSUME FuzzerAssumption ==
  /\ IsFiniteSet(Threads) /\ NoThread \notin Threads
  /\ InputFiles \in Nat /\ ServerCorpus \in Nat
  /\ {HasServer, SkipInitialServerSync, AddAllInputs, CanGenerate} \subseteq BOOLEAN
  /\ MinSamplesToGenerate \in Nat \ {0} /\ MaxRestarts \in Nat /\ MaxAdded \in Nat

VARIABLES
  \* guarded by queue_mutex
  queue_mutex, state, input_files, server_samples, samples_pending,
  sample_queue, all_entries,
  discarded,          \* the entries marked discarded
  \* guarded by output_mutex and coverage_mutex
  num_samples, fuzzer_coverage,
  last_timestamp,     \* the CoverageClient's, as a position in the server's corpus
  \* per thread
  pc, job, sample,    \* the sample a thread is about to save
  filename, sample_index, ignored, coverage_initialized,
  \* the output directory
  files, state_dat,
  \* history: stable coverage claimed so far, server samples processed so far
  claimed, handled,
  restarts

queue    == << queue_mutex, state, input_files, server_samples, samples_pending,
               sample_queue, all_entries, discarded >>
locals   == << pc, job, sample, filename, sample_index, ignored, coverage_initialized >>
history  == << claimed, handled >>
vars == << queue, num_samples, fuzzer_coverage, last_timestamp, locals, files, state_dat,
           history, restarts >>

States == {"RESTORE_NEEDED", "INPUT_SAMPLE_PROCESSING", "SERVER_SAMPLE_PROCESSING",
           "GENERATING_SAMPLES", "FUZZING", "FATAL"}

\* Jobs: what is fuzzed is an entry of all_entries; what is processed comes from
\* the input directory, the server (its position there) or the generator.
NoJob == [type |-> "WAIT", from |-> "none", item |-> 0]
Jobs  == [type : {"WAIT"}, from : {"none"}, item : {0}]
           \cup [type : {"FUZZ"}, from : {"queue"}, item : Nat]
           \cup [type : {"PROCESS_SAMPLE"}, from : {"input", "server", "generator"}, item : Nat]

\* A sample file: where the sample came from and the stable coverage it claims.
Content == [from : {"none", "queue", "input", "server", "generator"}, item : Nat, cov : SUBSET Edges]
NoSample == [from |-> "none", item |-> 0, cov |-> {}]
Entries == [sample_index : Int, file : Nat, sample : Content]

\* state.dat; `complete` is the sentry at its end.
NoState == [complete |-> FALSE, num_samples |-> 0, coverage |-> {}, entries |-> << >>,
            discarded |-> {}, last_timestamp |-> 0, claimed |-> {}, handled |-> {}]

Init ==
  /\ queue_mutex = NoThread /\ state = "INPUT_SAMPLE_PROCESSING"
  /\ input_files = 1 .. InputFiles /\ server_samples = << >> /\ samples_pending = 0
  /\ sample_queue = {} /\ all_entries = << >> /\ discarded = {}
  /\ num_samples = 0 /\ fuzzer_coverage = {} /\ last_timestamp = 0
  /\ pc = [t \in Threads |-> "get"] /\ job = [t \in Threads |-> NoJob]
  /\ sample = [t \in Threads |-> NoSample]
  /\ filename = [t \in Threads |-> 0] /\ sample_index = [t \in Threads |-> 0]
  /\ ignored = [t \in Threads |-> {}]
  /\ coverage_initialized = [t \in Threads |-> FALSE]
  /\ files = << >> /\ state_dat = NoState
  /\ claimed = {} /\ handled = {}
  /\ restarts = 0
-----------------------------------------------------------------------------
(* SynchronizeAndGetJob: queue_mutex is held from Enter or BeginSave to    *)
(* Dispatch.                                                               *)

Goto(t, label) == pc' = [pc EXCEPT ![t] = label]

\* A FATAL ends the process with all its threads.
Fatal == pc' = [u \in Threads |-> "exited"]

\* SaveState holds output_mutex and coverage_mutex while it writes the file.
OutputFree   == \A t \in Threads : pc[t] # "saving"
CoverageFree == \A t \in Threads : pc[t] # "saving"

Lock(t) == /\ pc[t] = "get" /\ queue_mutex = NoThread
           /\ queue_mutex' = t

\* The number of the next sample file.
LastNumber == state_dat.num_samples - 1   \* mutant of RestoredNumber
RestoredNumber == state_dat.num_samples

\* The first thread after a crash restores the state from a complete file.
Restore(t) ==
  /\ Lock(t) /\ state = "RESTORE_NEEDED" /\ state_dat.complete
  /\ state' = "INPUT_SAMPLE_PROCESSING"
  /\ num_samples' = RestoredNumber
  /\ fuzzer_coverage' = state_dat.coverage
  /\ all_entries' = state_dat.entries
  /\ discarded' = state_dat.discarded
  /\ sample_queue' = (1 .. Len(state_dat.entries)) \ state_dat.discarded
  /\ last_timestamp' = state_dat.last_timestamp
  /\ claimed' = state_dat.claimed /\ handled' = state_dat.handled
  /\ Goto(t, "dispatch")
  /\ UNCHANGED << input_files, server_samples, samples_pending, job, sample, filename,
                  sample_index, ignored, coverage_initialized, files, state_dat, restarts >>

\* No state.dat, or one without its sentry: FATAL.
RestoreFails(t) ==
  /\ Lock(t) /\ state = "RESTORE_NEEDED" /\ ~state_dat.complete
  /\ state' = "FATAL" /\ Fatal
  /\ UNCHANGED << input_files, server_samples, samples_pending, sample_queue, all_entries,
                  discarded, num_samples, fuzzer_coverage, last_timestamp, job, sample,
                  filename, sample_index, ignored, coverage_initialized, files, state_dat,
                  history, restarts >>

Enter(t) ==
  /\ Lock(t) /\ state # "RESTORE_NEEDED"
  /\ Goto(t, "dispatch")
  /\ UNCHANGED << state, input_files, server_samples, samples_pending, sample_queue,
                  all_entries, discarded, num_samples, fuzzer_coverage, last_timestamp, job,
                  sample, filename, sample_index, ignored, coverage_initialized, files,
                  state_dat, history, restarts >>

\* The state may only be saved while fuzzing.
MaySaveBetween == state \in {"FUZZING", "SERVER_SAMPLE_PROCESSING"}   \* mutant of MaySave
MaySave == state = "FUZZING"

\* FUZZER_SAVE_INERVAL has passed: the file is emptied, then written.  (What is
\* saved after the last restart of the bound would never be read.)
BeginSave(t) ==
  /\ Lock(t) /\ MaySave /\ restarts < MaxRestarts
  /\ OutputFree /\ CoverageFree
  /\ state_dat' = NoState
  /\ Goto(t, "saving")
  /\ UNCHANGED << state, input_files, server_samples, samples_pending, sample_queue,
                  all_entries, discarded, num_samples, fuzzer_coverage, last_timestamp, job,
                  sample, filename, sample_index, ignored, coverage_initialized, files,
                  history, restarts >>

EndSave(t) ==
  /\ pc[t] = "saving"
  /\ state_dat' = [complete |-> TRUE, num_samples |-> num_samples,
                   coverage |-> fuzzer_coverage, entries |-> all_entries,
                   discarded |-> discarded, last_timestamp |-> last_timestamp,
                   claimed |-> claimed, handled |-> handled]
  /\ Goto(t, "dispatch")
  /\ UNCHANGED << queue, num_samples, fuzzer_coverage, last_timestamp, job, sample, filename,
                  sample_index, ignored, coverage_initialized, files, history, restarts >>

InputsDone == input_files = {} /\ samples_pending = 0

\* The states one call passes through, in the order of its tests; due says that
\* server_update_interval_ms has passed.
AfterPoll(due) ==
  IF state = "FUZZING" /\ HasServer /\ due THEN "SERVER_SAMPLE_PROCESSING" ELSE state
AfterInputs(s) ==
  IF s = "INPUT_SAMPLE_PROCESSING" /\ InputsDone
    THEN IF HasServer THEN "SERVER_SAMPLE_PROCESSING" ELSE "FUZZING"
    ELSE s

AfterServerSamples(s, waiting) ==
  IF s = "SERVER_SAMPLE_PROCESSING" /\ waiting = << >> /\ samples_pending = 0
    THEN "FUZZING" ELSE s
AfterCheck(s) ==
  IF s = "FUZZING" /\ num_samples = 0
    THEN IF CanGenerate THEN "GENERATING_SAMPLES" ELSE "FATAL"
    ELSE s
\* Mutant of AfterGenerating: it does not wait for the samples being processed.
AfterEnough(s) ==
  IF s = "GENERATING_SAMPLES" /\ Cardinality(sample_queue) >= MinSamplesToGenerate
    THEN "FUZZING" ELSE s
AfterGenerating(s) ==
  IF /\ s = "GENERATING_SAMPLES"
     /\ Cardinality(sample_queue) >= MinSamplesToGenerate
     /\ samples_pending = 0
    THEN "FUZZING" ELSE s
NextState(due, waiting) ==
  AfterGenerating(AfterCheck(AfterServerSamples(AfterInputs(AfterPoll(due)), waiting)))

\* GetUpdates is called: when polling, and when the inputs are done.
Fetches(due) ==
  /\ HasServer
  /\ \/ state = "FUZZING" /\ due
     \/ state = "INPUT_SAMPLE_PROCESSING" /\ InputsDone /\ ~SkipInitialServerSync

\* What GetUpdates may bring: all that is new up to some point, or a part of it
\* without a new last_timestamp.
Updates(due) ==
  IF Fetches(due)
    THEN [upto : last_timestamp .. ServerCorpus, complete : BOOLEAN]
    ELSE [upto : {last_timestamp}, complete : {TRUE}]

\* server_samples once the update is received.
Waiting(update) ==
  server_samples \o [i \in 1 .. (update.upto - last_timestamp) |-> last_timestamp + i]

\* The job for the new state.
Gets(t, type, from, item) ==
  job' = [job EXCEPT ![t] = [type |-> type, from |-> from, item |-> item]]

TakeEntry(t, s, waiting) ==
  /\ s = "FUZZING"
  /\ \E e \in sample_queue :
       Gets(t, "FUZZ", "queue", e) /\ sample_queue' = sample_queue \ {e}
  /\ server_samples' = waiting
  /\ UNCHANGED << input_files, samples_pending >>

TakeInput(t, s, waiting) ==
  /\ s = "INPUT_SAMPLE_PROCESSING"
  /\ \E i \in input_files :
       Gets(t, "PROCESS_SAMPLE", "input", i) /\ input_files' = input_files \ {i}
  /\ server_samples' = waiting
  /\ samples_pending' = samples_pending + 1
  /\ UNCHANGED sample_queue

TakeServerSample(t, s, waiting) ==
  /\ s = "SERVER_SAMPLE_PROCESSING" /\ waiting # << >>
  /\ Gets(t, "PROCESS_SAMPLE", "server", Head(waiting))
  /\ server_samples' = Tail(waiting)
  /\ samples_pending' = samples_pending + 1
  /\ UNCHANGED << input_files, sample_queue >>

GenerateSample(t, s, waiting) ==
  /\ s = "GENERATING_SAMPLES" /\ Cardinality(sample_queue) < MinSamplesToGenerate
  /\ Gets(t, "PROCESS_SAMPLE", "generator", 0)
  /\ server_samples' = waiting
  /\ samples_pending' = samples_pending + 1
  /\ UNCHANGED << input_files, sample_queue >>

TakeJob(t, s, waiting) ==
  \/ TakeEntry(t, s, waiting) \/ TakeInput(t, s, waiting)
  \/ TakeServerSample(t, s, waiting) \/ GenerateSample(t, s, waiting)

\* There is none: the thread sleeps and asks again (its JobDone does nothing).
MustWait(s, waiting) ==
  \/ s = "FUZZING" /\ sample_queue = {}
  \/ s = "INPUT_SAMPLE_PROCESSING" /\ input_files = {}
  \/ s = "SERVER_SAMPLE_PROCESSING" /\ waiting = << >>
  \/ s = "GENERATING_SAMPLES" /\ Cardinality(sample_queue) >= MinSamplesToGenerate

\* From the update of the state to the choice of the job.
GetJob(t, due, update) ==
  LET waiting == Waiting(update)
      s == NextState(due, waiting)
  IN /\ last_timestamp' = IF update.complete THEN update.upto ELSE last_timestamp
     /\ state' = s
     /\ \/ TakeJob(t, s, waiting) /\ Goto(t, "run")
        \/ /\ \/ MustWait(s, waiting) /\ Goto(t, "get")
              \/ s = "FATAL" /\ Fatal
           /\ server_samples' = waiting
           /\ UNCHANGED << job, input_files, samples_pending, sample_queue >>

Dispatch(t) ==
  /\ pc[t] = "dispatch"
  /\ queue_mutex' = NoThread
  /\ ignored' = IF coverage_initialized[t] THEN ignored
                ELSE [ignored EXCEPT ![t] = fuzzer_coverage]
  /\ coverage_initialized' = [coverage_initialized EXCEPT ![t] = TRUE]
  /\ \E due \in BOOLEAN : \E update \in Updates(due) : GetJob(t, due, update)
  /\ UNCHANGED << all_entries, discarded, num_samples, fuzzer_coverage, sample, filename,
                  sample_index, files, state_dat, history, restarts >>
-----------------------------------------------------------------------------
(* Running a job.                                                          *)

Processing(t) == job[t].type = "PROCESS_SAMPLE"

\* Where a thread goes after a sample: a FUZZ job mutates its entry again.
AfterSample(t) == IF Processing(t) THEN "done" ELSE "run"

\* What of it fuzzer_coverage takes.
StableOnly(stable, variable) == stable   \* mutant of Merged
Merged(stable, variable) == stable \cup variable

\* What InterestingSample claims; the mutant claims what others claimed before.
AllStable(stable) == stable   \* mutant of NewStable
NewStable(stable) == stable \ fuzzer_coverage

\* Samples with new stable coverage are saved, and all processed ones with
\* -add_all_inputs; the mutant saves fuzzed samples only.
InterestingIfFuzzed(t, new_stable) == ~Processing(t) /\ new_stable # {}   \* mutant of Interesting
Interesting(t, new_stable) == new_stable # {} \/ (Processing(t) /\ AddAllInputs)

\* The claim: what is new to the fuzzer of the stable and of the flaky coverage now
\* belongs to this sample.  The thread ignores all of it from then on.
Claims(t, stable, variable) ==
  LET new_stable == NewStable(stable)
  IN /\ fuzzer_coverage' = fuzzer_coverage \cup Merged(stable, variable)
     /\ ignored' = [ignored EXCEPT ![t] = @ \cup stable \cup variable]
     /\ claimed' = claimed \cup new_stable
     /\ \/ /\ Interesting(t, new_stable)
           /\ sample' = [sample EXCEPT ![t] =
                          [from |-> job[t].from, item |-> job[t].item, cov |-> new_stable]]
           /\ Goto(t, "save")
        \/ /\ ~Interesting(t, new_stable)
           /\ Goto(t, AfterSample(t))
           /\ UNCHANGED sample

\* RunSample up to InterestingSample, which claims under coverage_mutex.
RunSample(t) ==
  /\ pc[t] = "run" /\ CoverageFree
  /\ \E stable \in SUBSET (Edges \ ignored[t]) :
     \E variable \in SUBSET ((Edges \ ignored[t]) \ stable) :
       stable \cup variable # {} /\ Claims(t, stable, variable)
  /\ UNCHANGED << queue, num_samples, last_timestamp, job, filename, sample_index,
                  coverage_initialized, files, state_dat, handled, restarts >>

\* RunSample without coverage, or with a result other than OK; a FUZZ job just
\* goes on, until its mutator has no more for this round or the entry causes too
\* many hangs or crashes.
RunEnds(t) ==
  /\ pc[t] = "run"
  /\ \/ Goto(t, "done") /\ UNCHANGED sample
     \/ /\ Processing(t) /\ AddAllInputs /\ Len(all_entries) < MaxAdded
        /\ sample' = [sample EXCEPT ![t] =
                       [from |-> job[t].from, item |-> job[t].item, cov |-> {}]]
        /\ Goto(t, "save")
  /\ UNCHANGED << queue, num_samples, fuzzer_coverage, last_timestamp, job, filename,
                  sample_index, ignored, coverage_initialized, files, state_dat, history,
                  restarts >>

\* SaveSample, first half, under output_mutex: the next sample file.
SaveFile(t) ==
  /\ pc[t] = "save" /\ OutputFree
  /\ files' = IF num_samples < Len(files) THEN [files EXCEPT ![num_samples + 1] = sample[t]]
              ELSE Append(files, sample[t])
  /\ filename' = [filename EXCEPT ![t] = num_samples]
  /\ num_samples' = num_samples + 1
  /\ Goto(t, "entry")
  /\ UNCHANGED << queue, fuzzer_coverage, last_timestamp, job, sample, sample_index, ignored,
                  coverage_initialized, state_dat, history, restarts >>

\* The entry takes its sample_index from num_samples, which is not locked here.
CreateEntry(t) ==
  /\ pc[t] = "entry"
  /\ sample_index' = [sample_index EXCEPT ![t] = num_samples - 1]
  /\ Goto(t, "push")
  /\ UNCHANGED << queue, num_samples, fuzzer_coverage, last_timestamp, job, sample, filename,
                  ignored, coverage_initialized, files, state_dat, history, restarts >>

\* SaveSample, last part, under queue_mutex.
PushEntry(t) ==
  /\ pc[t] = "push" /\ queue_mutex = NoThread
  /\ all_entries' = Append(all_entries, [sample_index |-> sample_index[t],
                                         file |-> filename[t], sample |-> sample[t]])
  /\ sample_queue' = sample_queue \cup {Len(all_entries) + 1}
  /\ sample' = [sample EXCEPT ![t] = NoSample]
  /\ filename' = [filename EXCEPT ![t] = 0]
  /\ sample_index' = [sample_index EXCEPT ![t] = 0]
  /\ Goto(t, AfterSample(t))
  /\ UNCHANGED << queue_mutex, state, input_files, server_samples, samples_pending, discarded,
                  num_samples, fuzzer_coverage, last_timestamp, job, ignored,
                  coverage_initialized, files, state_dat, history, restarts >>

\* samples_pending when a job is done.
PendingWithout(t) == samples_pending - 1   \* mutant of PendingAfter: whatever the job
StillPending(t) == samples_pending         \* mutant of PendingAfter
PendingAfter(t) == IF Processing(t) THEN samples_pending - 1 ELSE samples_pending

\* JobDone: a fuzzed entry goes back to the queue unless FuzzJob gave it up.
DroppedFrom(discard, e) == sample_queue \cup {e}   \* mutant of QueueAfter
QueueAfter(discard, e) == IF discard THEN sample_queue ELSE sample_queue \cup {e}

JobDone(t) ==
  /\ pc[t] = "done" /\ queue_mutex = NoThread
  /\ \/ /\ job[t].type = "FUZZ"
        /\ \E discard \in BOOLEAN :
             /\ sample_queue' = QueueAfter(discard, job[t].item)
             /\ discarded' = IF discard THEN discarded \cup {job[t].item} ELSE discarded
        /\ UNCHANGED handled
     \/ /\ Processing(t)
        /\ handled' = IF job[t].from = "server" THEN handled \cup {job[t].item} ELSE handled
        /\ UNCHANGED << sample_queue, discarded >>
  /\ samples_pending' = PendingAfter(t)
  /\ job' = [job EXCEPT ![t] = NoJob]
  /\ Goto(t, "get")
  /\ UNCHANGED << queue_mutex, state, input_files, server_samples, all_entries, num_samples,
                  fuzzer_coverage, last_timestamp, sample, filename, sample_index, ignored,
                  coverage_initialized, files, state_dat, claimed, restarts >>

\* The process dies and is started again with -restore.
Crash ==
  /\ restarts < MaxRestarts
  /\ restarts' = restarts + 1
  /\ queue_mutex' = NoThread /\ state' = "RESTORE_NEEDED"
  /\ input_files' = {} /\ server_samples' = << >> /\ samples_pending' = 0
  /\ sample_queue' = {} /\ all_entries' = << >> /\ discarded' = {}
  /\ num_samples' = 0 /\ fuzzer_coverage' = {} /\ last_timestamp' = 0
  /\ pc' = [t \in Threads |-> "get"] /\ job' = [t \in Threads |-> NoJob]
  /\ sample' = [t \in Threads |-> NoSample]
  /\ filename' = [t \in Threads |-> 0] /\ sample_index' = [t \in Threads |-> 0]
  /\ ignored' = [t \in Threads |-> {}]
  /\ coverage_initialized' = [t \in Threads |-> FALSE]
  /\ claimed' = {} /\ handled' = {}
  /\ UNCHANGED << files, state_dat >>
-----------------------------------------------------------------------------
Thread(t) ==
  \/ Restore(t) \/ RestoreFails(t) \/ Enter(t) \/ BeginSave(t) \/ EndSave(t) \/ Dispatch(t)
  \/ RunSample(t) \/ RunEnds(t) \/ SaveFile(t) \/ CreateEntry(t) \/ PushEntry(t) \/ JobDone(t)

Next == (\E t \in Threads : Thread(t)) \/ Crash

Spec == Init /\ [][Next]_vars

\* Every thread is scheduled and gets queue_mutex in its turn; every round of a
\* FUZZ job and every run of a sample ends (NRoundMutator, the timeouts).
Fairness ==
  \A t \in Threads :
    /\ WF_vars(Thread(t))
    /\ SF_vars(Restore(t) \/ Enter(t) \/ PushEntry(t) \/ JobDone(t))
FairSpec == Spec /\ Fairness
-----------------------------------------------------------------------------
TypeOK ==
  /\ queue_mutex \in Threads \cup {NoThread}
  /\ state \in States
  /\ input_files \in SUBSET Nat /\ server_samples \in Seq(Nat) /\ samples_pending \in Nat
  /\ all_entries \in Seq(Entries)
  /\ sample_queue \in SUBSET Nat /\ discarded \in SUBSET Nat
  /\ num_samples \in Nat /\ fuzzer_coverage \in SUBSET Edges /\ last_timestamp \in Nat
  /\ pc \in [Threads -> {"get", "saving", "dispatch", "run", "save", "entry", "push", "done",
                     "exited"}]
  /\ job \in [Threads -> Jobs] /\ sample \in [Threads -> Content]
  /\ filename \in [Threads -> Nat] /\ sample_index \in [Threads -> Int]
  /\ ignored \in [Threads -> SUBSET Edges]
  /\ coverage_initialized \in [Threads -> BOOLEAN]
  /\ files \in Seq(Content)
  /\ state_dat \in [complete : BOOLEAN, num_samples : Nat, coverage : SUBSET Edges,
                    entries : Seq(Entries), discarded : SUBSET Nat, last_timestamp : Nat,
                    claimed : SUBSET Edges, handled : SUBSET Nat]
  /\ claimed \in SUBSET Edges /\ handled \in SUBSET Nat /\ restarts \in Nat

Holds(t, e) == job[t].type = "FUZZ" /\ job[t].item = e

\* No entry is lost or handed out twice, whatever the threads do: each one is in
\* the queue, or discarded, or the FUZZ job of exactly one thread.
EveryEntryInOnePlace ==
  \A e \in 1 .. Len(all_entries) :
    /\ ~ (e \in sample_queue /\ e \in discarded)
    /\ e \in sample_queue \cup discarded <=> ~ \E t \in Threads : Holds(t, e)
    /\ \A t, u \in Threads : Holds(t, e) /\ Holds(u, e) => t = u

\* samples_pending counts the samples being processed; fuzzing only goes on when
\* there are none left, neither taken nor waiting.
FuzzingIsDrained ==
  /\ samples_pending = Cardinality({ t \in Threads : Processing(t) })
  /\ state = "FUZZING" => server_samples = << >> /\ input_files = {} /\ samples_pending = 0

\* A saved last_timestamp never covers a server sample that was not processed
\* before the save: the restored session, which will not be sent it again, lost
\* nothing.
SavedUpdatesProcessed ==
  state_dat.complete => 1 .. state_dat.last_timestamp \subseteq state_dat.handled

Unsaved(t) == IF pc[t] \in {"save", "entry", "push"} THEN sample[t].cov ELSE {}

\* Stable coverage is claimed for one sample only, however many threads find it
\* at the same time.
ClaimedOnce ==
  /\ \A e, f \in 1 .. Len(all_entries) :
       e # f => all_entries[e].sample.cov \cap all_entries[f].sample.cov = {}
  /\ \A t, u \in Threads : t # u => Unsaved(t) \cap Unsaved(u) = {}
  /\ \A t \in Threads : \A e \in 1 .. Len(all_entries) :
       Unsaved(t) \cap all_entries[e].sample.cov = {}

\* Stable coverage that the fuzzer counts as seen has a sample that reaches it,
\* in all_entries or on its way there.
ClaimedCoverageHasSample ==
  claimed = (UNION { all_entries[e].sample.cov : e \in 1 .. Len(all_entries) })
              \cup (UNION { Unsaved(t) : t \in Threads })

\* ... which the code guarantees as long as the session is not restored.
NothingLostWithoutRestart == restarts = 0 => ClaimedCoverageHasSample

\* Every entry's file holds its own sample, and so does every file a complete
\* state.dat names, although a restored session reuses the later file numbers.
FilesIntact ==
  /\ \A e \in 1 .. Len(all_entries) : files[all_entries[e].file + 1] = all_entries[e].sample
  /\ \A e, f \in 1 .. Len(all_entries) : e # f => all_entries[e].file # all_entries[f].file
  /\ \A t \in Threads : pc[t] \in {"entry", "push"} => files[filename[t] + 1] = sample[t]
  /\ state_dat.complete => \A e \in 1 .. Len(state_dat.entries) :
       files[state_dat.entries[e].file + 1] = state_dat.entries[e].sample

\* A thread only ignores coverage that the fuzzer has counted, so no coverage is
\* dropped because one thread saw it, also after a restore.
IgnoredIsCounted == \A t \in Threads : ignored[t] \subseteq fuzzer_coverage

\* A process that is not restarted gets through its inputs, and through every
\* batch of server samples.
Proceeds == []<>(state \notin {"INPUT_SAMPLE_PROCESSING", "SERVER_SAMPLE_PROCESSING"})

\* A sample that claimed coverage gets into the queue.
ClaimsAreQueued ==
  []<>(claimed \subseteq UNION { all_entries[e].sample.cov : e \in 1 .. Len(all_entries) })
=============================================================================
