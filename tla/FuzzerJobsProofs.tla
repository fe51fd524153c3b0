---------------------------- MODULE FuzzerJobsProofs ----------------------------
(***************************************************************************)
(* FuzzerJobs for any number of threads, entries, files and samples, in    *)
(* three parts: its types and what its helpers return; its jobs, that is   *)
(* who holds queue_mutex, which entries and which samples are where and    *)
(* what has been got through when the state changes; and its samples: what *)
(* is claimed, saved, ignored and processed.                               *)
(***************************************************************************)
EXTENDS FuzzerInvariant, FiniteSetTheorems, SequenceTheorems, TLAPS

(* GetUpdates never goes back, and only brings something where it is called. *)
LEMMA UpdatesFacts ==
  ASSUME TypeOK, NEW due \in BOOLEAN, NEW update \in Updates(due)
  PROVE  /\ update.upto \in Nat /\ update.upto >= last_timestamp
         /\ update.complete \in BOOLEAN
         /\ ~Fetches(due) => update.upto = last_timestamp
<1>1. last_timestamp \in Nat /\ ServerCorpus \in Nat
  BY FuzzerAssumption DEF TypeOK
<1>2. CASE Fetches(due)
  <2>1. update \in [upto : last_timestamp .. ServerCorpus, complete : BOOLEAN]
    BY <1>2 DEF Updates
  <2>2. update.upto \in last_timestamp .. ServerCorpus /\ update.complete \in BOOLEAN
    BY <2>1
  <2> QED
    BY <1>1, <1>2, <2>2
<1>3. CASE ~Fetches(due)
  <2>1. update \in [upto : {last_timestamp}, complete : {TRUE}]
    BY <1>3 DEF Updates
  <2>2. update.upto = last_timestamp
    BY <2>1
  <2>3. update.complete \in {TRUE}
    BY <2>1
  <2>4. update.complete \in BOOLEAN
    BY <2>3, Zenon
  <2> QED
    BY <1>1, <2>2, <2>4
<1> QED
  BY <1>2, <1>3

(* What is waiting afterwards: the old samples, then the new positions. *)
LEMMA WaitingFacts ==
  ASSUME TypeOK, NEW due \in BOOLEAN, NEW update \in Updates(due)
  PROVE  /\ Waiting(update) \in Seq(Nat)
         /\ Len(Waiting(update)) = Len(server_samples) + (update.upto - last_timestamp)
         /\ \A k \in 1 .. Len(server_samples) : Waiting(update)[k] = server_samples[k]
         /\ \A i \in last_timestamp + 1 .. update.upto :
              Waiting(update)[Len(server_samples) + (i - last_timestamp)] = i
         /\ ~Fetches(due) => Waiting(update) = server_samples
<1> DEFINE new == [i \in 1 .. (update.upto - last_timestamp) |-> last_timestamp + i]
<1>1. /\ update.upto \in Nat /\ update.upto >= last_timestamp /\ last_timestamp \in Nat
      /\ server_samples \in Seq(Nat)
  BY UpdatesFacts DEF TypeOK
<1>2. /\ update.upto - last_timestamp \in Nat
      /\ \A i \in 1 .. (update.upto - last_timestamp) : last_timestamp + i \in Nat
  BY <1>1
<1>3. new \in Seq(Nat) /\ Len(new) = update.upto - last_timestamp
  BY <1>2
<1>4. Waiting(update) = server_samples \o new
  BY DEF Waiting
<1> HIDE DEF new
<1>5. /\ Waiting(update) \in Seq(Nat)
      /\ Len(Waiting(update)) = Len(server_samples) + (update.upto - last_timestamp)
      /\ \A k \in 1 .. Len(server_samples) : Waiting(update)[k] = server_samples[k]
  <2>1. /\ server_samples \o new \in Seq(Nat)
        /\ Len(server_samples \o new) = Len(server_samples) + Len(new)
        /\ \A k \in 1 .. Len(server_samples) + Len(new) : (server_samples \o new)[k] =
             IF k <= Len(server_samples) THEN server_samples[k]
             ELSE new[k - Len(server_samples)]
    BY <1>1, <1>3, ConcatProperties
  <2>2. Len(server_samples) \in Nat /\ Len(new) \in Nat
    BY <1>1, <1>3
  <2> QED
    BY <1>3, <1>4, <2>1, <2>2
<1>6. ASSUME NEW i \in last_timestamp + 1 .. update.upto
      PROVE  Waiting(update)[Len(server_samples) + (i - last_timestamp)] = i
  <2>1. i - last_timestamp \in 1 .. Len(new) /\ i \in Int
    BY <1>1, <1>3
  <2>2. new[i - last_timestamp] = i
    BY <2>1, <1>1, <1>3 DEF new
  <2> QED
    BY <2>1, <2>2, <1>1, <1>3, <1>4
<1>7. ASSUME ~Fetches(due) PROVE Waiting(update) = server_samples
  <2>1. Len(new) = 0
    BY <1>7, <1>1, <1>3, UpdatesFacts
  <2> QED
    BY <2>1, <1>1, <1>3, <1>4
<1> QED
  BY <1>5, <1>6, <1>7

(* The states a call to SynchronizeAndGetJob can end in. *)
LEMMA NextStateFacts ==
  ASSUME TypeOK, NEW due \in BOOLEAN, NEW waiting, state # "RESTORE_NEEDED"
  PROVE  NextState(due, waiting) \in States \ {"RESTORE_NEEDED"}
  BY DEF TypeOK, States, NextState, AfterPoll, AfterInputs, AfterServerSamples, AfterCheck,
         AfterGenerating

(* A sample in progress is counted. *)
LEMMA PendingPositive ==
  ASSUME TypeOK, FuzzingIsDrained, NEW t \in Threads, Processing(t)
  PROVE  samples_pending # 0
<1> DEFINE P == { u \in Threads : Processing(u) }
<1>1. IsFiniteSet(P)
  BY FuzzerAssumption, FS_Subset
<1>2. t \in P
  OBVIOUS
<1> HIDE DEF P
<1>3. Cardinality(P) # 0
  BY <1>1, <1>2, FS_EmptySet
<1> QED
  BY <1>3 DEF FuzzingIsDrained, P

(* The initial values have their types. *)
LEMMA TypeInit == Init => TypeOK
  BY FuzzerAssumption DEF Init, TypeOK, States, NoJob, Jobs, NoSample, Content, NoState, Entries

(* Every step preserves the types; that samples_pending stays natural rests on its
   being the number of samples in progress. *)
LEMMA TypeStep == TypeOK /\ FuzzingIsDrained /\ [Next]_vars => TypeOK'
<1> SUFFICES ASSUME TypeOK, FuzzingIsDrained, [Next]_vars PROVE TypeOK'
  OBVIOUS
<1> USE FuzzerAssumption DEF TypeOK, States
<1>1. ASSUME NEW t \in Threads, Restore(t) PROVE TypeOK'
  BY <1>1 DEF Restore, Lock, RestoredNumber, Goto
<1>2. ASSUME NEW t \in Threads, RestoreFails(t) PROVE TypeOK'
  BY <1>2 DEF RestoreFails, Lock, Fatal, history
<1>3. ASSUME NEW t \in Threads, Enter(t) PROVE TypeOK'
  BY <1>3 DEF Enter, Lock, Goto, history
<1>4. ASSUME NEW t \in Threads, BeginSave(t) PROVE TypeOK'
  BY <1>4 DEF BeginSave, Lock, Goto, history, NoState
<1>5. ASSUME NEW t \in Threads, EndSave(t) PROVE TypeOK'
  BY <1>5 DEF EndSave, Goto, history, queue
<1>6. ASSUME NEW t \in Threads, Dispatch(t) PROVE TypeOK'
  <2>1. /\ queue_mutex' = NoThread
        /\ UNCHANGED << all_entries, discarded, num_samples, fuzzer_coverage, sample, filename,
                        sample_index, files, state_dat, claimed, handled, restarts >>
    BY <1>6 DEF Dispatch, history
  <2>2. ignored' \in [Threads -> SUBSET Edges] /\ coverage_initialized' \in [Threads -> BOOLEAN]
    BY <1>6 DEF Dispatch
  <2>a. PICK due \in BOOLEAN : \E update \in Updates(due) : GetJob(t, due, update)
    BY <1>6 DEF Dispatch
  <2>3. PICK update \in Updates(due) : GetJob(t, due, update)
    BY <2>a
  <2> DEFINE waiting == Waiting(update)
             s == NextState(due, waiting)
  <2>4. last_timestamp' \in Nat
    BY <2>3, UpdatesFacts DEF GetJob
  <2>5. state' \in States
    BY <2>3 DEF GetJob, States, NextState, AfterPoll, AfterInputs, AfterServerSamples, AfterCheck,
         AfterGenerating
  <2>6. waiting \in Seq(Nat)
    BY WaitingFacts
  <2> HIDE DEF waiting, s
  <2>7. CASE TakeJob(t, s, waiting) /\ Goto(t, "run")
    <3>1. waiting # << >> => Head(waiting) \in Nat /\ Tail(waiting) \in Seq(Nat)
      BY <2>6, HeadTailProperties
    <3>2. server_samples' \in Seq(Nat)
      BY <2>7, <2>6, <3>1 DEF TakeJob, TakeEntry, TakeInput, TakeServerSample, GenerateSample
    <3>3. input_files' \in SUBSET Nat /\ sample_queue' \in SUBSET Nat
      BY <2>7 DEF TakeJob, TakeEntry, TakeInput, TakeServerSample, GenerateSample
    <3>4. samples_pending' \in Nat
      BY <2>7 DEF TakeJob, TakeEntry, TakeInput, TakeServerSample, GenerateSample
    <3>5. \E j \in Jobs : job' = [job EXCEPT ![t] = j]
      <4>1. CASE TakeEntry(t, s, waiting)
        BY <4>1 DEF TakeEntry, Gets, Jobs
      <4>2. CASE TakeInput(t, s, waiting)
        BY <4>2 DEF TakeInput, Gets, Jobs
      <4>3. CASE TakeServerSample(t, s, waiting)
        BY <4>3, <3>1 DEF TakeServerSample, Gets, Jobs
      <4>4. CASE GenerateSample(t, s, waiting)
        BY <4>4 DEF GenerateSample, Gets, Jobs
      <4> QED
        BY <2>7, <4>1, <4>2, <4>3, <4>4 DEF TakeJob
    <3>6. job' \in [Threads -> Jobs]
      BY <3>5
    <3> QED
      BY <2>1, <2>2, <2>4, <2>5, <2>7, <3>2, <3>3, <3>4, <3>6 DEF Goto
  <2>8. CASE /\ \/ MustWait(s, waiting) /\ Goto(t, "get")
                \/ s = "FATAL" /\ Fatal
             /\ server_samples' = waiting
             /\ UNCHANGED << job, input_files, samples_pending, sample_queue >>
    BY <2>1, <2>2, <2>4, <2>5, <2>6, <2>8 DEF Goto, Fatal
  <2> QED
    BY <2>3, <2>7, <2>8 DEF GetJob, waiting, s
<1>7. ASSUME NEW t \in Threads, RunSample(t) PROVE TypeOK'
  <2>a. PICK stable \in SUBSET (Edges \ ignored[t]) :
          \E variable \in SUBSET ((Edges \ ignored[t]) \ stable) :
            Claims(t, stable, variable)
    BY <1>7 DEF RunSample
  <2>1. PICK variable \in SUBSET ((Edges \ ignored[t]) \ stable) : Claims(t, stable, variable)
    BY <2>a
  <2> HIDE DEF TypeOK
  <2>2. stable \in SUBSET Edges /\ variable \in SUBSET Edges /\ NewStable(stable) \in SUBSET Edges
    BY <2>1 DEF NewStable
  <2>3. pc[t] = "run" /\ job[t] \in Jobs
    BY <1>7 DEF RunSample, TypeOK
  <2>4. [from |-> job[t].from, item |-> job[t].item, cov |-> NewStable(stable)] \in Content
    BY <2>2, <2>3 DEF Jobs, Content
  <2>5. fuzzer_coverage' \in SUBSET Edges /\ claimed' \in SUBSET Edges
    BY <2>1, <2>2 DEF Claims, Merged, TypeOK
  <2>6. ignored' \in [Threads -> SUBSET Edges]
    BY <2>1, <2>2 DEF Claims, TypeOK
  <2>7. sample' \in [Threads -> Content]
    BY <2>1, <2>4 DEF Claims, TypeOK
  <2>8. pc' \in [Threads -> {"get", "saving", "dispatch", "run", "save", "entry", "push", "done",
                            "exited"}]
    BY <2>1 DEF Claims, TypeOK, Goto, AfterSample
  <2> QED
    BY <1>7, <2>5, <2>6, <2>7, <2>8 DEF RunSample, TypeOK, queue
<1>8. ASSUME NEW t \in Threads, RunEnds(t) PROVE TypeOK'
  <2> HIDE DEF TypeOK
  <2>1. [from |-> job[t].from, item |-> job[t].item, cov |-> {}] \in Content
    BY DEF Jobs, Content, TypeOK
  <2>2. sample' \in [Threads -> Content]
    BY <1>8, <2>1 DEF RunEnds, TypeOK
  <2>3. pc' \in [Threads -> {"get", "saving", "dispatch", "run", "save", "entry", "push", "done",
                            "exited"}]
    BY <1>8 DEF RunEnds, TypeOK, Goto
  <2> QED
    BY <1>8, <2>2, <2>3 DEF RunEnds, TypeOK, queue, history
<1>9. ASSUME NEW t \in Threads, SaveFile(t) PROVE TypeOK'
  <2>1. num_samples' = num_samples + 1 /\ filename' \in [Threads -> Nat] /\ Goto(t, "entry")
    BY <1>9 DEF SaveFile
  <2>2. files' \in Seq(Content)
    <3>1. CASE num_samples < Len(files)
      BY <3>1, <1>9, ExceptSeq DEF SaveFile
    <3>2. CASE ~(num_samples < Len(files))
      BY <3>2, <1>9 DEF SaveFile
    <3> QED
      BY <3>1, <3>2
  <2> QED
    <3>1. num_samples' \in Nat
      BY <2>1
    <3>2. pc' \in [Threads -> {"get", "saving", "dispatch", "run", "save", "entry", "push",
                              "done", "exited"}]
      BY <2>1 DEF Goto
    <3> QED
      BY <2>1, <2>2, <3>1, <3>2, <1>9 DEF SaveFile, history, queue
<1>10. ASSUME NEW t \in Threads, CreateEntry(t) PROVE TypeOK'
  <2>1. sample_index' \in [Threads -> Int]
    BY <1>10 DEF CreateEntry
  <2> QED
    BY <1>10, <2>1 DEF CreateEntry, Goto, history, queue
<1>11. ASSUME NEW t \in Threads, PushEntry(t) PROVE TypeOK'
  <2> HIDE DEF TypeOK
  <2> DEFINE entry == [sample_index |-> sample_index[t], file |-> filename[t],
                       sample |-> sample[t]]
  <2>1. entry \in Entries
    BY DEF TypeOK, Entries
  <2>a. all_entries' = Append(all_entries, entry)
    BY <1>11 DEF PushEntry
  <2>b. all_entries \in Seq(Entries) /\ Len(all_entries) \in Nat
    BY DEF TypeOK
  <2> HIDE DEF entry
  <2>2. all_entries' \in Seq(Entries)
    BY <2>1, <2>a, <2>b
  <2>3. sample_queue' \in SUBSET Nat
    BY <1>11, <2>b DEF PushEntry, TypeOK
  <2>4. /\ sample' \in [Threads -> Content] /\ filename' \in [Threads -> Nat]
        /\ sample_index' \in [Threads -> Int]
    BY <1>11 DEF PushEntry, TypeOK, NoSample, Content
  <2>5. pc' \in [Threads -> {"get", "saving", "dispatch", "run", "save", "entry", "push", "done",
                            "exited"}]
    BY <1>11 DEF PushEntry, TypeOK, Goto, AfterSample
  <2> QED
    BY <1>11, <2>2, <2>3, <2>4, <2>5 DEF PushEntry, TypeOK, history
<1>12. ASSUME NEW t \in Threads, JobDone(t) PROVE TypeOK'
  <2>1. Processing(t) => samples_pending # 0
    BY PendingPositive
  <2>2. samples_pending' \in Nat
    BY <1>12, <2>1 DEF JobDone, PendingAfter
  <2>3. job[t] \in Jobs /\ job[t].item \in Nat
    BY DEF Jobs
  <2>4. sample_queue' \in SUBSET Nat /\ discarded' \in SUBSET Nat /\ handled' \in SUBSET Nat
    BY <1>12, <2>3 DEF JobDone, QueueAfter
  <2>5. job' \in [Threads -> Jobs]
    BY <1>12 DEF JobDone, Jobs, NoJob
  <2> QED
    BY <1>12, <2>2, <2>4, <2>5 DEF JobDone, Goto
<1>13. ASSUME Crash PROVE TypeOK'
  BY <1>13 DEF Crash, NoJob, Jobs, NoSample, Content
<1>14. ASSUME UNCHANGED vars PROVE TypeOK'
  BY <1>14 DEF vars, queue, locals, history
<1> QED
  BY <1>1, <1>2, <1>3, <1>4, <1>5, <1>6, <1>7, <1>8, <1>9, <1>10, <1>11, <1>12, <1>13, <1>14
     DEF Next, Thread
-----------------------------------------------------------------------------
(* Jobs.                                                                   *)

(* The part of the inductive invariant that is about jobs. *)
QInv == /\ TypeOK /\ Locking /\ JobsTaken /\ EntriesExist /\ EveryEntryInOnePlace
        /\ PhasesDone /\ FuzzingIsDrained /\ FirstSession

(* The four things Dispatch does: a FUZZ job, a sample to process, no job, the end. *)
TakesEntry(t) ==
  /\ state' = "FUZZING"
  /\ \E e \in sample_queue :
       /\ job' = [job EXCEPT ![t] = [type |-> "FUZZ", from |-> "queue", item |-> e]]
       /\ sample_queue' = sample_queue \ {e}
  /\ UNCHANGED << samples_pending, input_files >> /\ Goto(t, "run")
TakesSample(t) ==
  /\ state' \notin {"FUZZING", "FATAL"}
  /\ \E j \in Jobs : j.type = "PROCESS_SAMPLE" /\ job' = [job EXCEPT ![t] = j]
  /\ samples_pending' = samples_pending + 1
  /\ UNCHANGED sample_queue /\ Goto(t, "run")
Waits(t) ==
  /\ state' # "FATAL"
  /\ UNCHANGED << job, samples_pending, sample_queue, input_files >> /\ Goto(t, "get")
Exits ==
  /\ state' = "FATAL" /\ UNCHANGED << job, samples_pending, sample_queue, input_files >>
  /\ Fatal

(* Every Dispatch step is one of them. *)
LEMMA DispatchCases ==
  ASSUME TypeOK, Locking, NEW t \in Threads, Dispatch(t)
  PROVE  /\ queue_mutex' = NoThread /\ state' # "RESTORE_NEEDED"
         /\ UNCHANGED << all_entries, discarded, num_samples, fuzzer_coverage, sample, filename,
                         sample_index, files, state_dat, history, restarts >>
         /\ TakesEntry(t) \/ TakesSample(t) \/ Waits(t) \/ Exits
<1>a. PICK due \in BOOLEAN : \E update \in Updates(due) : GetJob(t, due, update)
  BY DEF Dispatch
<1>b. PICK update \in Updates(due) : GetJob(t, due, update)
  BY <1>a
<1> DEFINE waiting == Waiting(update)
           s == NextState(due, waiting)
<1>1. waiting \in Seq(Nat)
  BY WaitingFacts
<1>2. state # "RESTORE_NEEDED"
  BY DEF Locking, Dispatch
<1>3. s # "RESTORE_NEEDED"
  BY <1>2, NextStateFacts
<1>4. state' = s
  BY <1>b DEF GetJob
<1> HIDE DEF waiting, s
<1>5. CASE TakeJob(t, s, waiting) /\ Goto(t, "run")
  <2>1. waiting # << >> => Head(waiting) \in Nat
    BY <1>1, HeadTailProperties
  <2> SUFFICES TakesEntry(t) \/ TakesSample(t)
    BY <1>3, <1>4 DEF Dispatch
  <2>2. CASE TakeEntry(t, s, waiting)
    BY <1>4, <1>5, <2>2 DEF TakesEntry, TakeEntry, Gets
  <2>3. CASE TakeInput(t, s, waiting)
    <3>1. \E j \in Jobs : j.type = "PROCESS_SAMPLE" /\ job' = [job EXCEPT ![t] = j]
      BY <2>3 DEF TakeInput, Gets, Jobs, TypeOK
    <3> QED
      BY <1>4, <1>5, <2>3, <3>1 DEF TakesSample, TakeInput
  <2>4. CASE TakeServerSample(t, s, waiting)
    <3>1. \E j \in Jobs : j.type = "PROCESS_SAMPLE" /\ job' = [job EXCEPT ![t] = j]
      BY <2>1, <2>4 DEF TakeServerSample, Gets, Jobs
    <3> QED
      BY <1>4, <1>5, <2>4, <3>1 DEF TakesSample, TakeServerSample
  <2>5. CASE GenerateSample(t, s, waiting)
    <3>1. \E j \in Jobs : j.type = "PROCESS_SAMPLE" /\ job' = [job EXCEPT ![t] = j]
      BY <2>5 DEF GenerateSample, Gets, Jobs
    <3> QED
      BY <1>4, <1>5, <2>5, <3>1 DEF TakesSample, GenerateSample
  <2> QED
    BY <1>5, <2>2, <2>3, <2>4, <2>5 DEF TakeJob
<1>6. CASE /\ \/ MustWait(s, waiting) /\ Goto(t, "get")
              \/ s = "FATAL" /\ Fatal
           /\ server_samples' = waiting
           /\ UNCHANGED << job, input_files, samples_pending, sample_queue >>
  <2>1. MustWait(s, waiting) => s # "FATAL"
    BY DEF MustWait
  <2> QED
    BY <1>3, <1>4, <1>6, <2>1 DEF Waits, Exits, Dispatch
<1> QED
  BY <1>b, <1>5, <1>6 DEF GetJob, waiting, s

(* queue_mutex is passed on properly. *)
LEMMA LockingStep == TypeOK /\ Locking /\ [Next]_vars => Locking'
<1> SUFFICES ASSUME TypeOK, Locking, [Next]_vars PROVE Locking'
  OBVIOUS
<1>1. ASSUME NEW t \in Threads, Restore(t) \/ RestoreFails(t) \/ Enter(t) \/ BeginSave(t)
      PROVE  Locking'
  BY <1>1, FuzzerAssumption
     DEF TypeOK, Locking, Restore, RestoreFails, Enter, BeginSave, Lock, Goto, Fatal, MaySave
<1>2. ASSUME NEW t \in Threads, EndSave(t) \/ RunSample(t) \/ RunEnds(t) \/ SaveFile(t)
                                \/ CreateEntry(t) \/ PushEntry(t) \/ JobDone(t)
      PROVE  Locking'
  <2>1. /\ UNCHANGED << queue_mutex, state >>
        /\ pc[t] \notin {"get", "exited"}
        /\ \E l \in {"dispatch", "run", "save", "entry", "push", "done", "get"} :
             Goto(t, l) /\ (l = "dispatch" => pc[t] = "saving")
    BY <1>2 DEF EndSave, RunSample, Claims, RunEnds, SaveFile, CreateEntry, PushEntry, JobDone,
                queue, AfterSample
  <2> QED
    BY <2>1 DEF TypeOK, Locking, Goto
<1>3. ASSUME NEW t \in Threads, Dispatch(t) PROVE Locking'
  <2>1. pc[t] = "dispatch" /\ queue_mutex = t
    BY <1>3 DEF Dispatch, Locking
  <2>2. \A u \in Threads \ {t} : pc[u] \notin {"saving", "dispatch"}
    BY <2>1 DEF Locking
  <2>3. /\ state' # "RESTORE_NEEDED"
        /\ \/ Goto(t, "run") /\ state' # "FATAL"
           \/ Goto(t, "get") /\ state' # "FATAL"
           \/ Fatal
    BY <1>3, DispatchCases DEF TakesEntry, TakesSample, Waits, Exits
  <2> QED
    BY <2>1, <2>2, <2>3 DEF TypeOK, Locking, Goto, Fatal
<1>4. CASE Crash
  BY <1>4 DEF Crash, Locking
<1>5. CASE UNCHANGED vars
  BY <1>5 DEF vars, queue, locals, Locking
<1> QED
  BY <1>1, <1>2, <1>3, <1>4, <1>5 DEF Next, Thread

(* A thread has a job exactly while it works on it. *)
LEMMA JobsTakenStep == TypeOK /\ Locking /\ JobsTaken /\ [Next]_vars => JobsTaken'
<1> SUFFICES ASSUME TypeOK, Locking, JobsTaken, [Next]_vars PROVE JobsTaken'
  OBVIOUS
<1>1. ASSUME NEW t \in Threads, Restore(t) \/ RestoreFails(t) \/ Enter(t) \/ BeginSave(t)
                                \/ EndSave(t)
      PROVE  JobsTaken'
  BY <1>1 DEF TypeOK, JobsTaken, Working, Restore, RestoreFails, Enter, BeginSave, EndSave,
              Lock, Goto, Fatal
<1>2. ASSUME NEW t \in Threads, RunSample(t) \/ RunEnds(t) \/ SaveFile(t) \/ CreateEntry(t)
                                \/ PushEntry(t)
      PROVE  JobsTaken'
  <2>1. /\ UNCHANGED job /\ Working(t)
        /\ \E l \in {"run", "save", "entry", "push", "done"} : Goto(t, l)
    BY <1>2 DEF RunSample, Claims, RunEnds, SaveFile, CreateEntry, PushEntry, AfterSample, Working
  <2> QED
    BY <2>1 DEF TypeOK, JobsTaken, Working, Goto
<1>3. ASSUME NEW t \in Threads, JobDone(t) PROVE JobsTaken'
  BY <1>3 DEF TypeOK, JobsTaken, Working, JobDone, Goto
<1>4. ASSUME NEW t \in Threads, Dispatch(t) PROVE JobsTaken'
  <2>1. TakesEntry(t) \/ TakesSample(t) \/ Waits(t) \/ Exits
    BY <1>4, DispatchCases
  <2>2. pc[t] = "dispatch" /\ job[t] = NoJob
    BY <1>4 DEF Dispatch, JobsTaken
  <2>3. CASE TakesEntry(t) \/ TakesSample(t)
    <3>1. Goto(t, "run") /\ \E j : j.type # "WAIT" /\ job' = [job EXCEPT ![t] = j]
      BY <2>3 DEF TakesEntry, TakesSample
    <3> QED
      BY <3>1 DEF TypeOK, JobsTaken, Working, Goto
  <2>4. CASE Waits(t) \/ Exits
    BY <2>2, <2>4 DEF TypeOK, JobsTaken, Working, Goto, Waits, Exits, Fatal
  <2> QED
    BY <2>1, <2>3, <2>4
<1>5. CASE Crash
  BY <1>5 DEF Crash, JobsTaken, Working
<1>6. CASE UNCHANGED vars
  BY <1>6 DEF vars, locals, JobsTaken, Working
<1> QED
  BY <1>1, <1>2, <1>3, <1>4, <1>5, <1>6 DEF Next, Thread

(* Each step moves entries between the queue, the threads and the discarded ones. *)
LEMMA EntriesStep ==
  TypeOK /\ Locking /\ JobsTaken /\ EntriesExist /\ EveryEntryInOnePlace /\ [Next]_vars
    => EntriesExist' /\ EveryEntryInOnePlace'
<1> SUFFICES ASSUME TypeOK, Locking, JobsTaken, EntriesExist, EveryEntryInOnePlace, [Next]_vars
             PROVE  EntriesExist' /\ EveryEntryInOnePlace'
  OBVIOUS
<1>0. Len(all_entries) \in Nat /\ Len(state_dat.entries) \in Nat
  BY DEF TypeOK
<1>1. ASSUME NEW t \in Threads, Restore(t) PROVE EntriesExist' /\ EveryEntryInOnePlace'
  <2>1. \A u \in Threads : job[u] = NoJob
    BY <1>1 DEF Restore, Locking, JobsTaken
  <2>2. /\ all_entries' = state_dat.entries /\ discarded' = state_dat.discarded
        /\ sample_queue' = (1 .. Len(state_dat.entries)) \ state_dat.discarded
        /\ UNCHANGED << job, state_dat >>
    BY <1>1 DEF Restore
  <2> QED
    BY <1>0, <2>1, <2>2 DEF EntriesExist, EveryEntryInOnePlace, Holds, NoJob
<1>2. ASSUME UNCHANGED << all_entries, sample_queue, discarded, job, state_dat >>
      PROVE  EntriesExist' /\ EveryEntryInOnePlace'
  BY <1>2 DEF EntriesExist, EveryEntryInOnePlace, Holds
<1>3. ASSUME NEW t \in Threads, BeginSave(t) \/ EndSave(t)
      PROVE  EntriesExist' /\ EveryEntryInOnePlace'
  <2>1. UNCHANGED << all_entries, sample_queue, discarded, job >>
    BY <1>3 DEF BeginSave, EndSave, queue
  <2>2. state_dat'.discarded \subseteq 1 .. Len(state_dat'.entries)
    BY <1>3 DEF BeginSave, EndSave, NoState, EntriesExist
  <2> QED
    BY <2>1, <2>2 DEF EntriesExist, EveryEntryInOnePlace, Holds
<1>4. ASSUME NEW t \in Threads, Dispatch(t) PROVE EntriesExist' /\ EveryEntryInOnePlace'
  <2>1. /\ UNCHANGED << all_entries, discarded, state_dat >>
        /\ TakesEntry(t) \/ TakesSample(t) \/ Waits(t) \/ Exits
    BY <1>4, DispatchCases
  <2>2. job[t] = NoJob /\ job[t].type = "WAIT"
    BY <1>4 DEF Dispatch, JobsTaken, NoJob
  <2>3. CASE TakesEntry(t)
    <3>1. PICK e \in sample_queue :
            /\ job' = [job EXCEPT ![t] = [type |-> "FUZZ", from |-> "queue", item |-> e]]
            /\ sample_queue' = sample_queue \ {e}
      BY <2>3 DEF TakesEntry
    <3>2. /\ job'[t].type = "FUZZ" /\ job'[t].item = e
          /\ \A u \in Threads \ {t} : job'[u] = job[u]
      BY <3>1 DEF TypeOK
    <3>3. e \in 1 .. Len(all_entries) /\ e \notin discarded
          /\ \A u \in Threads : ~Holds(u, e)
      BY DEF EntriesExist, EveryEntryInOnePlace
    <3>4. EntriesExist'
      BY <2>1, <3>1, <3>2, <3>3 DEF EntriesExist
    <3>5. \A f, u : u \in Threads => (Holds(u, f)' <=> IF u = t THEN f = e ELSE Holds(u, f))
      BY <3>2 DEF Holds
    <3>6. EveryEntryInOnePlace'
      BY <2>1, <2>2, <3>1, <3>3, <3>5 DEF EveryEntryInOnePlace, Holds
    <3> QED
      BY <3>4, <3>6
  <2>4. CASE TakesSample(t)
    <3>1. PICK j \in Jobs : j.type = "PROCESS_SAMPLE" /\ job' = [job EXCEPT ![t] = j]
      BY <2>4 DEF TakesSample
    <3>2. /\ job'[t].type = "PROCESS_SAMPLE"
          /\ \A u \in Threads \ {t} : job'[u] = job[u]
      BY <3>1 DEF TypeOK
    <3>3. \A f, u : u \in Threads => (Holds(u, f)' <=> Holds(u, f))
      BY <2>2, <3>2 DEF Holds
    <3>4. UNCHANGED sample_queue
      BY <2>4 DEF TakesSample
    <3> QED
      BY <2>1, <2>2, <3>2, <3>3, <3>4 DEF EntriesExist, EveryEntryInOnePlace
  <2>5. CASE Waits(t) \/ Exits
    BY <1>2, <2>1, <2>5 DEF Waits, Exits
  <2> QED
    BY <2>1, <2>3, <2>4, <2>5
<1>5. ASSUME NEW t \in Threads, PushEntry(t) PROVE EntriesExist' /\ EveryEntryInOnePlace'
  <2>1. /\ Len(all_entries') = Len(all_entries) + 1
        /\ sample_queue' = sample_queue \cup {Len(all_entries) + 1}
        /\ UNCHANGED << discarded, job, state_dat >>
    BY <1>5 DEF PushEntry, TypeOK
  <2>2. Len(all_entries)' = Len(all_entries) + 1
    BY <2>1
  <2>3. EntriesExist'
    <3>1. /\ 1 .. Len(all_entries) \subseteq 1 .. Len(all_entries')
          /\ Len(all_entries) + 1 \in 1 .. Len(all_entries')
      BY <1>0, <2>1
    <3>2. sample_queue' \subseteq 1 .. Len(all_entries')
      BY <2>1, <3>1, Zenon DEF EntriesExist
    <3> QED
      BY <2>1, <3>1, <3>2, Zenon DEF EntriesExist
  <2>4. \A f, u : Holds(u, f)' <=> Holds(u, f)
    BY <2>1 DEF Holds
  <2>5. \A u \in Threads : ~Holds(u, Len(all_entries) + 1)
    BY <1>0 DEF EntriesExist, Holds
  <2>6. EveryEntryInOnePlace'
    BY <1>0, <2>1, <2>2, <2>4, <2>5 DEF EntriesExist, EveryEntryInOnePlace
  <2> QED
    BY <2>3, <2>6
<1>6. ASSUME NEW t \in Threads, JobDone(t) PROVE EntriesExist' /\ EveryEntryInOnePlace'
  <2>1. /\ UNCHANGED << all_entries, state_dat >>
        /\ job'[t].type = "WAIT" /\ \A u \in Threads \ {t} : job'[u] = job[u]
    BY <1>6 DEF JobDone, TypeOK, NoJob
  <2>2. CASE job[t].type = "FUZZ"
    <3> DEFINE e == job[t].item
    <3>1. \/ sample_queue' = sample_queue /\ discarded' = discarded \cup {e}
          \/ sample_queue' = sample_queue \cup {e} /\ discarded' = discarded
      BY <1>6, <2>2 DEF JobDone, QueueAfter, Processing
    <3>2. /\ e \in 1 .. Len(all_entries) /\ e \notin sample_queue /\ e \notin discarded
          /\ \A u \in Threads \ {t} : ~Holds(u, e)
      BY <2>2 DEF EntriesExist, EveryEntryInOnePlace, Holds
    <3>3. \A f, u : u \in Threads => (Holds(u, f)' <=> (u # t /\ Holds(u, f)))
      BY <2>1 DEF Holds
    <3>4. \A f : Holds(t, f) <=> f = e
      BY <2>2 DEF Holds
    <3> HIDE DEF e
    <3>5. EntriesExist'
      BY <2>1, <3>1, <3>2 DEF EntriesExist
    <3>6. EveryEntryInOnePlace'
      BY <2>1, <3>1, <3>2, <3>3, <3>4 DEF EveryEntryInOnePlace
    <3> QED
      BY <3>5, <3>6
  <2>3. CASE job[t].type # "FUZZ"
    <3>1. UNCHANGED << sample_queue, discarded >>
      BY <1>6, <2>3 DEF JobDone
    <3>2. \A f, u : u \in Threads => (Holds(u, f)' <=> Holds(u, f))
      BY <2>1, <2>3 DEF Holds
    <3> QED
      BY <2>1, <3>1, <3>2 DEF EntriesExist, EveryEntryInOnePlace
  <2> QED
    BY <2>2, <2>3
<1>7. CASE Crash
  BY <1>7 DEF Crash, EntriesExist, EveryEntryInOnePlace, Holds, NoJob
<1>8. ASSUME NEW t \in Threads, RestoreFails(t) \/ Enter(t) \/ RunSample(t) \/ RunEnds(t)
                                \/ SaveFile(t) \/ CreateEntry(t)
      PROVE  EntriesExist' /\ EveryEntryInOnePlace'
  BY <1>2, <1>8 DEF RestoreFails, Enter, RunSample, RunEnds, SaveFile, CreateEntry, queue
<1>9. CASE UNCHANGED vars
  BY <1>2, <1>9 DEF vars, queue, locals
<1> QED
  BY <1>1, <1>3, <1>4, <1>5, <1>6, <1>7, <1>8, <1>9 DEF Next, Thread

(* The transitions of SynchronizeAndGetJob: what is left of inputs and server samples
   in the state it ends in, and when it may start fuzzing or give up. *)
LEMMA DispatchPhases ==
  ASSUME TypeOK, Locking, PhasesDone, FuzzingIsDrained, NEW t \in Threads, Dispatch(t)
  PROVE  /\ PhasesDone'
         /\ state' = "FUZZING" => /\ server_samples' = << >> /\ input_files' = {}
                                  /\ samples_pending = 0
         /\ state' = "FATAL" => num_samples = 0 /\ samples_pending = 0
<1>a. PICK due \in BOOLEAN : \E update \in Updates(due) : GetJob(t, due, update)
  BY DEF Dispatch
<1>b. PICK update \in Updates(due) : GetJob(t, due, update)
  BY <1>a
<1> DEFINE waiting == Waiting(update)
           s == NextState(due, waiting)
<1>1. state \notin {"RESTORE_NEEDED", "FATAL"} /\ state \in States
  BY DEF Locking, Dispatch, TypeOK
<1>2. ~Fetches(due) => waiting = server_samples
  BY WaitingFacts
<1>3. waiting \in Seq(Nat)
  BY WaitingFacts
<1> HIDE DEF waiting
<1>4. CASE s = "FUZZING"
  <2>1. input_files = {} /\ samples_pending = 0 /\ waiting = << >>
    BY <1>1, <1>2, <1>4 DEF NextState, AfterPoll, AfterInputs, AfterServerSamples, AfterCheck,
       AfterGenerating, States, PhasesDone, FuzzingIsDrained, Fetches, InputsDone
  <2>2. server_samples' = << >> /\ input_files' = {} /\ state' = "FUZZING"
    BY <1>4, <1>b, <2>1 DEF GetJob, TakeJob, TakeEntry, TakeInput, TakeServerSample,
       GenerateSample, waiting
  <2> QED
    BY <2>1, <2>2 DEF PhasesDone
<1>5. CASE s = "FATAL"
  <2>1. num_samples = 0 /\ samples_pending = 0
    BY <1>1, <1>2, <1>5 DEF NextState, AfterPoll, AfterInputs, AfterServerSamples, AfterCheck,
       AfterGenerating, States, PhasesDone, FuzzingIsDrained, Fetches, InputsDone
  <2>2. state' = "FATAL"
    BY <1>5, <1>b DEF GetJob, waiting
  <2> QED
    BY <2>1, <2>2 DEF PhasesDone
<1>6. CASE s = "GENERATING_SAMPLES"
  <2>1. input_files = {} /\ waiting = << >>
    BY <1>1, <1>2, <1>6 DEF NextState, AfterPoll, AfterInputs, AfterServerSamples, AfterCheck,
       AfterGenerating, States, PhasesDone, FuzzingIsDrained, Fetches, InputsDone
  <2>2. server_samples' = << >> /\ input_files' = {} /\ state' = "GENERATING_SAMPLES"
    BY <1>6, <1>b, <2>1 DEF GetJob, TakeJob, TakeEntry, TakeInput, TakeServerSample,
       GenerateSample, waiting
  <2> QED
    BY <2>2 DEF PhasesDone
<1>7. CASE s = "SERVER_SAMPLE_PROCESSING"
  <2>1. input_files = {}
    BY <1>1, <1>2, <1>7 DEF NextState, AfterPoll, AfterInputs, AfterServerSamples, AfterCheck,
       AfterGenerating, States, PhasesDone, FuzzingIsDrained, Fetches, InputsDone
  <2>2. input_files' = {} /\ state' = "SERVER_SAMPLE_PROCESSING"
    BY <1>7, <1>b, <2>1 DEF GetJob, TakeJob, TakeEntry, TakeInput, TakeServerSample,
       GenerateSample, waiting
  <2> QED
    BY <2>2 DEF PhasesDone
<1>8. CASE s = "INPUT_SAMPLE_PROCESSING"
  <2>1. waiting = << >>
    BY <1>1, <1>2, <1>8 DEF NextState, AfterPoll, AfterInputs, AfterServerSamples, AfterCheck,
       AfterGenerating, States, PhasesDone, FuzzingIsDrained, Fetches, InputsDone
  <2>2. server_samples' = << >> /\ state' = "INPUT_SAMPLE_PROCESSING"
    BY <1>8, <1>b, <2>1 DEF GetJob, TakeJob, TakeEntry, TakeInput, TakeServerSample,
       GenerateSample, waiting
  <2> QED
    BY <2>2 DEF PhasesDone
<1> QED
  BY <1>1, <1>4, <1>5, <1>6, <1>7, <1>8, NextStateFacts DEF States

(* samples_pending follows the threads that process samples. *)
PendingCounted == samples_pending = Cardinality({ t \in Threads : Processing(t) })

(* ... in every step. *)
LEMMA PendingStep ==
  TypeOK /\ Locking /\ JobsTaken /\ PendingCounted /\ [Next]_vars => PendingCounted'
<1> SUFFICES ASSUME TypeOK, Locking, JobsTaken, PendingCounted, [Next]_vars
             PROVE  PendingCounted'
  OBVIOUS
<1> DEFINE P == { t \in Threads : Processing(t) }
<1>0. IsFiniteSet(P) /\ Cardinality(P) \in Nat
  BY FuzzerAssumption, FS_Subset, FS_CardinalityType
<1>1. ASSUME UNCHANGED << samples_pending, job >> PROVE PendingCounted'
  BY <1>1 DEF PendingCounted, Processing
<1>2. ASSUME NEW t \in Threads, Dispatch(t) PROVE PendingCounted'
  <2>1. TakesEntry(t) \/ TakesSample(t) \/ Waits(t) \/ Exits
    BY <1>2, DispatchCases
  <2>2. job[t] = NoJob /\ t \notin P
    BY <1>2 DEF Dispatch, JobsTaken, NoJob, Processing
  <2>3. CASE TakesEntry(t)
    <3>1. \A u \in Threads : Processing(u)' <=> Processing(u)
      BY <2>2, <2>3 DEF TakesEntry, Processing, TypeOK
    <3>2. P' = P
      BY <3>1
    <3> QED
      BY <2>3, <3>2 DEF PendingCounted, TakesEntry
  <2>4. CASE TakesSample(t)
    <3>1. \A u \in Threads : Processing(u)' <=> (u = t \/ Processing(u))
      BY <2>2, <2>4 DEF TakesSample, Processing, TypeOK
    <3>2. P' = P \cup {t}
      BY <3>1
    <3>3. Cardinality(P') = Cardinality(P) + 1
      BY <1>0, <2>2, <3>2, FS_AddElement
    <3> QED
      BY <2>4, <3>3 DEF PendingCounted, TakesSample
  <2>5. CASE Waits(t) \/ Exits
    BY <1>1, <2>5 DEF Waits, Exits
  <2> QED
    BY <2>1, <2>3, <2>4, <2>5
<1>3. ASSUME NEW t \in Threads, JobDone(t) PROVE PendingCounted'
  <2>1. \A u \in Threads : Processing(u)' <=> (u # t /\ Processing(u))
    BY <1>3 DEF JobDone, Processing, TypeOK, NoJob
  <2>2. P' = P \ {t}
    BY <2>1
  <2>3. CASE Processing(t)
    <3>1. Cardinality(P') = Cardinality(P) - 1
      BY <1>0, <2>2, <2>3, FS_RemoveElement
    <3> QED
      BY <1>3, <2>3, <3>1 DEF PendingCounted, JobDone, PendingAfter
  <2>4. CASE ~Processing(t)
    <3>1. P' = P
      BY <2>2, <2>4
    <3> QED
      BY <1>3, <2>4, <3>1 DEF PendingCounted, JobDone, PendingAfter
  <2> QED
    BY <2>3, <2>4
<1>4. ASSUME NEW t \in Threads, Restore(t) PROVE PendingCounted'
  BY <1>1, <1>4 DEF Restore
<1>5. CASE Crash
  <2>1. P' = {}
    BY <1>5 DEF Crash, Processing, NoJob
  <2> QED
    BY <1>5, <2>1, FS_EmptySet DEF Crash, PendingCounted
<1>6. ASSUME NEW t \in Threads, RestoreFails(t) \/ Enter(t) \/ BeginSave(t) \/ EndSave(t)
                                \/ RunSample(t) \/ RunEnds(t) \/ SaveFile(t)
                                \/ CreateEntry(t) \/ PushEntry(t)
      PROVE  PendingCounted'
  BY <1>1, <1>6 DEF RestoreFails, Enter, BeginSave, EndSave, RunSample, RunEnds, SaveFile,
                    CreateEntry, PushEntry, queue
<1>7. CASE UNCHANGED vars
  BY <1>1, <1>7 DEF vars, queue, locals
<1> QED
  BY <1>2, <1>3, <1>4, <1>5, <1>6, <1>7 DEF Next, Thread

(* The state only moves on when its samples are gone. *)
LEMMA PhasesStep == QInv /\ [Next]_vars => PhasesDone' /\ FuzzingIsDrained' /\ FirstSession'
<1> SUFFICES ASSUME QInv, [Next]_vars
             PROVE  PhasesDone' /\ FuzzingIsDrained' /\ FirstSession'
  OBVIOUS
<1> USE DEF QInv
<1>0. PendingCounted'
  BY PendingStep DEF PendingCounted, FuzzingIsDrained
<1>1. ASSUME NEW t \in Threads, Dispatch(t)
      PROVE  PhasesDone' /\ FuzzingIsDrained' /\ FirstSession'
  <2>1. /\ PhasesDone'
        /\ state' = "FUZZING" => /\ server_samples' = << >> /\ input_files' = {}
                                 /\ samples_pending = 0
    BY <1>1, DispatchPhases
  <2>2. TakesEntry(t) \/ TakesSample(t) \/ Waits(t) \/ Exits
    BY <1>1, DispatchCases
  <2>3. state' # "RESTORE_NEEDED"
    BY <1>1, DispatchCases
  <2>4. state' = "FUZZING" => samples_pending' = samples_pending
    BY <2>2 DEF TakesEntry, TakesSample, Waits, Exits
  <2> QED
    BY <1>0, <2>1, <2>3, <2>4 DEF PendingCounted, FuzzingIsDrained, FirstSession
<1>2. ASSUME NEW t \in Threads, Restore(t)
      PROVE  PhasesDone' /\ FuzzingIsDrained' /\ FirstSession'
  BY <1>0, <1>2 DEF Restore, PhasesDone, PendingCounted, FuzzingIsDrained, FirstSession
<1>3. ASSUME NEW t \in Threads, RestoreFails(t)
      PROVE  PhasesDone' /\ FuzzingIsDrained' /\ FirstSession'
  BY <1>0, <1>3 DEF RestoreFails, PhasesDone, PendingCounted, FuzzingIsDrained, FirstSession
<1>4. ASSUME NEW t \in Threads, JobDone(t)
      PROVE  PhasesDone' /\ FuzzingIsDrained' /\ FirstSession'
  <2>1. state = "FUZZING" => ~Processing(t)
    BY PendingPositive DEF FuzzingIsDrained
  <2>2. state = "FUZZING" => samples_pending' = samples_pending
    BY <1>4, <2>1 DEF JobDone, PendingAfter
  <2>3. UNCHANGED << state, input_files, server_samples, restarts >>
    BY <1>4 DEF JobDone
  <2> QED
    BY <1>0, <2>2, <2>3 DEF PhasesDone, PendingCounted, FuzzingIsDrained, FirstSession
<1>5. CASE Crash
  <2>1. restarts' > 0
    BY <1>5 DEF Crash, TypeOK
  <2> QED
    BY <1>0, <1>5, <2>1 DEF Crash, PhasesDone, PendingCounted, FuzzingIsDrained, FirstSession
<1>6. ASSUME UNCHANGED << state, input_files, server_samples, samples_pending, restarts >>
      PROVE  PhasesDone' /\ FuzzingIsDrained' /\ FirstSession'
  BY <1>0, <1>6 DEF PhasesDone, PendingCounted, FuzzingIsDrained, FirstSession
<1>7. ASSUME NEW t \in Threads, Enter(t) \/ BeginSave(t) \/ EndSave(t) \/ RunSample(t)
                                \/ RunEnds(t) \/ SaveFile(t) \/ CreateEntry(t) \/ PushEntry(t)
      PROVE  PhasesDone' /\ FuzzingIsDrained' /\ FirstSession'
  BY <1>6, <1>7 DEF Enter, BeginSave, EndSave, RunSample, RunEnds, SaveFile, CreateEntry,
                    PushEntry, queue
<1>8. CASE UNCHANGED vars
  BY <1>6, <1>8 DEF vars, queue
<1> QED
  BY <1>1, <1>2, <1>3, <1>4, <1>5, <1>7, <1>8 DEF Next, Thread

(* A process starts without entries, jobs and pending samples. *)
LEMMA QInvInit == Init => QInv
<1> SUFFICES ASSUME Init PROVE QInv
  OBVIOUS
<1>1. TypeOK
  BY TypeInit
<1>2. Cardinality({ t \in Threads : Processing(t) }) = 0
  <2>1. { t \in Threads : Processing(t) } = {}
    BY DEF Init, Processing, NoJob
  <2> QED
    BY <2>1, FS_EmptySet
<1>3. FuzzingIsDrained /\ PhasesDone /\ FirstSession
  BY <1>2 DEF Init, FuzzingIsDrained, PhasesDone, FirstSession
<1>4. Locking /\ JobsTaken
  BY DEF Init, Locking, JobsTaken, Working
<1>5. EntriesExist /\ EveryEntryInOnePlace
  BY DEF Init, EntriesExist, EveryEntryInOnePlace, NoJob, NoState
<1> QED
  BY <1>1, <1>3, <1>4, <1>5 DEF QInv

(* QInv is an invariant. *)
THEOREM QueueInvariant == Spec => []QInv
<1>1. QInv /\ [Next]_vars => QInv'
  BY TypeStep, LockingStep, JobsTakenStep, EntriesStep, PhasesStep DEF QInv
<1> QED
  BY QInvInit, <1>1, PTL DEF Spec

(* Every variable of the fuzzer keeps its type; in particular samples_pending, a
   size_t, is never decremented below zero (JobDone). *)
THEOREM TypeCorrect == Spec => []TypeOK
<1>1. QInv => TypeOK
  BY DEF QInv
<1> QED
  BY <1>1, QueueInvariant, PTL

(* No queue entry is lost or handed out twice (SynchronizeAndGetJob, JobDone,
   SaveSample, RestoreState). *)
THEOREM EntriesInOnePlace == Spec => []EveryEntryInOnePlace
<1>1. QInv => EveryEntryInOnePlace
  BY DEF QInv
<1> QED
  BY <1>1, QueueInvariant, PTL

(* Fuzzing, and with it saving the state, only goes on when all inputs and server
   samples have been processed (SynchronizeAndGetJob). *)
THEOREM FuzzingDrained == Spec => []FuzzingIsDrained
<1>1. QInv => FuzzingIsDrained
  BY DEF QInv
<1> QED
  BY <1>1, QueueInvariant, PTL
-----------------------------------------------------------------------------
(* Samples.                                                                *)

(* A claim is in flight from RunSample to PushEntry; no other step makes one. *)
LEMMA UnsavedFacts ==
  ASSUME TypeOK, Locking, NEW t \in Threads
  PROVE  /\ Restore(t) \/ RestoreFails(t) \/ Enter(t) \/ BeginSave(t) \/ EndSave(t) \/ Dispatch(t)
              \/ RunEnds(t) \/ SaveFile(t) \/ CreateEntry(t) \/ JobDone(t)
              => \A u \in Threads : Unsaved(u)' \subseteq Unsaved(u)
         /\ PushEntry(t) => /\ Unsaved(t) = sample[t].cov /\ Unsaved(t)' = {}
                            /\ \A u \in Threads \ {t} : Unsaved(u)' = Unsaved(u)
<1>1. ASSUME Restore(t) \/ RestoreFails(t) \/ Enter(t) \/ BeginSave(t) \/ EndSave(t) \/ JobDone(t)
      PROVE  \A u \in Threads : Unsaved(u)' \subseteq Unsaved(u)
  <2>1. UNCHANGED sample
    BY <1>1 DEF Restore, RestoreFails, Enter, BeginSave, EndSave, JobDone
  <2>2. \/ \E l \in {"dispatch", "saving", "get"} : Goto(t, l)
        \/ Fatal
    BY <1>1 DEF Restore, RestoreFails, Enter, BeginSave, EndSave, JobDone
  <2>3. \A u \in Threads : pc'[u] \in {"save", "entry", "push"} => pc'[u] = pc[u]
    BY <2>2 DEF Goto, Fatal, TypeOK
  <2> QED
    BY <2>1, <2>3 DEF Unsaved
<1>2. ASSUME Dispatch(t) PROVE \A u \in Threads : Unsaved(u)' \subseteq Unsaved(u)
  <2>1. UNCHANGED sample /\ (Goto(t, "run") \/ Goto(t, "get") \/ Fatal)
    BY <1>2, DispatchCases DEF TakesEntry, TakesSample, Waits, Exits
  <2>2. \A u \in Threads : pc'[u] \in {"save", "entry", "push"} => pc'[u] = pc[u]
    BY <2>1 DEF Goto, Fatal, TypeOK
  <2> QED
    BY <2>1, <2>2 DEF Unsaved
<1>3. ASSUME RunEnds(t) PROVE \A u \in Threads : Unsaved(u)' \subseteq Unsaved(u)
  <2>1. \A u \in Threads \ {t} : pc'[u] = pc[u] /\ sample'[u] = sample[u]
    BY <1>3 DEF RunEnds, Goto, TypeOK
  <2>2. pc'[t] = "done" \/ sample'[t].cov = {}
    BY <1>3 DEF RunEnds, Goto, TypeOK
  <2>3. Unsaved(t)' = {}
    BY <2>2 DEF Unsaved
  <2> QED
    BY <2>1, <2>3 DEF Unsaved
<1>4. ASSUME SaveFile(t) \/ CreateEntry(t) PROVE \A u \in Threads : Unsaved(u)' \subseteq Unsaved(u)
  <2>1. /\ UNCHANGED sample /\ pc[t] \in {"save", "entry"}
        /\ \A u \in Threads \ {t} : pc'[u] = pc[u]
    BY <1>4 DEF SaveFile, CreateEntry, Goto, TypeOK
  <2> QED
    BY <2>1 DEF Unsaved
<1>5. ASSUME PushEntry(t)
      PROVE  /\ Unsaved(t) = sample[t].cov /\ Unsaved(t)' = {}
             /\ \A u \in Threads \ {t} : Unsaved(u)' = Unsaved(u)
  <2>1. /\ pc[t] = "push" /\ pc'[t] \in {"run", "done"}
        /\ \A u \in Threads \ {t} : pc'[u] = pc[u] /\ sample'[u] = sample[u]
    BY <1>5 DEF PushEntry, Goto, AfterSample, TypeOK
  <2> QED
    BY <2>1 DEF Unsaved
<1> QED
  BY <1>1, <1>2, <1>3, <1>4, <1>5

(* RunSample claims what nobody has claimed, and keeps a sample for it. *)
LEMMA ClaimFacts ==
  ASSUME TypeOK, NEW t \in Threads, RunSample(t)
  PROVE  \E new \in SUBSET (Edges \ fuzzer_coverage) :
           /\ Unsaved(t) = {} /\ Unsaved(t)' = new
           /\ claimed' = claimed \cup new
           /\ new \subseteq fuzzer_coverage'
           /\ fuzzer_coverage \subseteq fuzzer_coverage'
           /\ \A u \in Threads \ {t} : Unsaved(u)' = Unsaved(u) /\ ignored'[u] = ignored[u]
           /\ \A x \in ignored'[t] : x \in ignored[t] \/ x \in fuzzer_coverage'
<1>a. PICK stable \in SUBSET (Edges \ ignored[t]) :
        \E variable \in SUBSET ((Edges \ ignored[t]) \ stable) : Claims(t, stable, variable)
  BY DEF RunSample
<1>b. PICK variable \in SUBSET ((Edges \ ignored[t]) \ stable) : Claims(t, stable, variable)
  BY <1>a
<1> DEFINE new == NewStable(stable)
<1>1. new \in SUBSET (Edges \ fuzzer_coverage) /\ new \subseteq stable
  BY DEF NewStable
<1>2. /\ fuzzer_coverage' = fuzzer_coverage \cup stable \cup variable
      /\ claimed' = claimed \cup new
      /\ ignored' = [ignored EXCEPT ![t] = @ \cup stable \cup variable]
  BY <1>b DEF Claims, Merged
<1>3. \A u \in Threads \ {t} : Unsaved(u)' = Unsaved(u)
  BY <1>b DEF Claims, Goto, Unsaved, TypeOK
<1>4. Unsaved(t) = {}
  BY DEF RunSample, Unsaved
<1>5. Unsaved(t)' = new
  <2>1. CASE Interesting(t, new)
    <3>1. pc'[t] = "save" /\ sample'[t].cov = new
      BY <1>b, <2>1 DEF Claims, Goto, TypeOK
    <3> QED
      BY <3>1 DEF Unsaved
  <2>2. CASE ~Interesting(t, new)
    <3>1. new = {} /\ pc'[t] \in {"run", "done"}
      BY <1>b, <2>2 DEF Claims, Goto, AfterSample, Interesting, TypeOK
    <3> QED
      BY <3>1 DEF Unsaved
  <2> QED
    BY <2>1, <2>2
<1>6. /\ \A u \in Threads \ {t} : ignored'[u] = ignored[u]
      /\ ignored'[t] = ignored[t] \cup stable \cup variable
  BY <1>2 DEF TypeOK
<1> HIDE DEF new
<1> QED
  BY <1>1, <1>2, <1>3, <1>4, <1>5, <1>6

(* The claims stay disjoint and counted, in memory and in state.dat. *)
LEMMA ClaimsStep ==
  TypeOK /\ Locking /\ ClaimsCounted /\ ClaimedOnce /\ [Next]_vars
    => ClaimsCounted' /\ ClaimedOnce'
<1> SUFFICES ASSUME TypeOK, Locking, ClaimsCounted, ClaimedOnce, [Next]_vars
             PROVE  ClaimsCounted' /\ ClaimedOnce'
  OBVIOUS
<1>0. Len(all_entries) \in Nat
  BY DEF TypeOK
<1>1. ASSUME UNCHANGED << all_entries, fuzzer_coverage, state_dat >>,
             \A u \in Threads : Unsaved(u)' \subseteq Unsaved(u)
      PROVE  ClaimsCounted' /\ ClaimedOnce'
  <2>1. ClaimsCounted'
    BY <1>1 DEF ClaimsCounted, CountedOnce
  <2>2. ClaimedOnce'
    BY <1>1 DEF ClaimedOnce
  <2> QED
    BY <2>1, <2>2
<1>2. ASSUME NEW t \in Threads, Restore(t) PROVE ClaimsCounted' /\ ClaimedOnce'
  <2>1. \A u \in Threads : Unsaved(u)' = {}
    <3>1. \A u \in Threads : pc[u] = "get"
      BY <1>2 DEF Restore, Locking
    <3>2. \A u \in Threads : pc'[u] \in {"get", "dispatch"}
      BY <1>2, <3>1 DEF Restore, Goto, TypeOK
    <3> QED
      BY <3>2 DEF Unsaved
  <2>2. /\ all_entries' = state_dat.entries /\ fuzzer_coverage' = state_dat.coverage
        /\ UNCHANGED state_dat
    BY <1>2 DEF Restore
  <2>3. ClaimsCounted'
    BY <2>1, <2>2 DEF ClaimsCounted, CountedOnce
  <2>4. ClaimedOnce'
    BY <2>1, <2>2 DEF ClaimsCounted, CountedOnce, ClaimedOnce
  <2> QED
    BY <2>3, <2>4
<1>3. ASSUME NEW t \in Threads, BeginSave(t) \/ EndSave(t)
      PROVE  ClaimsCounted' /\ ClaimedOnce'
  <2>1. /\ UNCHANGED << all_entries, fuzzer_coverage >>
        /\ \A u \in Threads : Unsaved(u)' \subseteq Unsaved(u)
    BY <1>3, UnsavedFacts DEF BeginSave, EndSave, queue
  <2>2. \/ state_dat'.entries = << >>
        \/ state_dat'.entries = all_entries /\ state_dat'.coverage = fuzzer_coverage
    BY <1>3 DEF BeginSave, EndSave, NoState
  <2>3. CountedOnce(state_dat.entries, state_dat.coverage)'
    BY <2>2 DEF ClaimsCounted, CountedOnce
  <2>4. ClaimsCounted'
    BY <2>1, <2>3 DEF ClaimsCounted, CountedOnce
  <2>5. ClaimedOnce'
    BY <2>1 DEF ClaimedOnce
  <2> QED
    BY <2>4, <2>5
<1>4. ASSUME NEW t \in Threads, RunSample(t) PROVE ClaimsCounted' /\ ClaimedOnce'
  <2>1. PICK new \in SUBSET (Edges \ fuzzer_coverage) :
          /\ Unsaved(t) = {} /\ Unsaved(t)' = new
          /\ new \subseteq fuzzer_coverage' /\ fuzzer_coverage \subseteq fuzzer_coverage'
          /\ \A u \in Threads \ {t} : Unsaved(u)' = Unsaved(u)
    BY <1>4, ClaimFacts
  <2>2. UNCHANGED << all_entries, state_dat >>
    BY <1>4 DEF RunSample, queue
  <2>3. ClaimsCounted'
    BY <2>1, <2>2 DEF ClaimsCounted, CountedOnce
  <2>4. /\ \A u \in Threads : Unsaved(u) \cap new = {}
        /\ \A e \in 1 .. Len(all_entries) : all_entries[e].sample.cov \cap new = {}
    BY <2>1 DEF ClaimsCounted, CountedOnce
  <2>5. ClaimedOnce'
    BY <2>1, <2>2, <2>4 DEF ClaimedOnce
  <2> QED
    BY <2>3, <2>5
<1>5. ASSUME NEW t \in Threads, PushEntry(t) PROVE ClaimsCounted' /\ ClaimedOnce'
  <2> DEFINE n == Len(all_entries)
  <2>1. /\ Unsaved(t) = sample[t].cov /\ Unsaved(t)' = {}
        /\ \A u \in Threads \ {t} : Unsaved(u)' = Unsaved(u)
    BY <1>5, UnsavedFacts
  <2>2. /\ Len(all_entries') = n + 1
        /\ \A e \in 1 .. n : all_entries'[e] = all_entries[e]
        /\ all_entries'[n + 1].sample = sample[t]
        /\ UNCHANGED << fuzzer_coverage, state_dat >>
    BY <1>0, <1>5 DEF PushEntry, TypeOK
  <2>3. \A e : e \in 1 .. n + 1 <=> e \in 1 .. n \/ e = n + 1
    BY <1>0
  <2>4. \A e \in 1 .. n : all_entries[e].sample.cov \cap Unsaved(t) = {}
    BY DEF ClaimedOnce
  <2>5. n + 1 \notin 1 .. n
    BY <1>0
  <2> HIDE DEF n
  <2>6. \A e \in 1 .. n + 1 : /\ all_entries'[e].sample.cov \subseteq fuzzer_coverage
                             /\ \A f \in 1 .. n + 1 : e # f =>
                                  all_entries'[e].sample.cov \cap all_entries'[f].sample.cov = {}
    BY <2>1, <2>2, <2>3, <2>4, <2>5 DEF ClaimsCounted, CountedOnce, n
  <2>7. ClaimsCounted'
    BY <2>1, <2>2, <2>6 DEF ClaimsCounted, CountedOnce
  <2>8. \A u \in Threads : \A e \in 1 .. n + 1 : Unsaved(u)' \cap all_entries'[e].sample.cov = {}
    BY <2>1, <2>2, <2>3 DEF ClaimedOnce, n
  <2>9. ClaimedOnce'
    BY <2>1, <2>2, <2>6, <2>8 DEF ClaimedOnce
  <2> QED
    BY <2>7, <2>9
<1>6. CASE Crash
  <2>1. all_entries' = << >> /\ UNCHANGED state_dat /\ \A u \in Threads : Unsaved(u)' = {}
    BY <1>6 DEF Crash, Unsaved
  <2> QED
    BY <2>1 DEF ClaimsCounted, CountedOnce, ClaimedOnce
<1>7. ASSUME NEW t \in Threads, RestoreFails(t) \/ Enter(t) \/ Dispatch(t) \/ RunEnds(t)
                                \/ SaveFile(t) \/ CreateEntry(t) \/ JobDone(t)
      PROVE  ClaimsCounted' /\ ClaimedOnce'
  <2>1. UNCHANGED << all_entries, fuzzer_coverage, state_dat >>
    BY <1>7 DEF RestoreFails, Enter, Dispatch, RunEnds, SaveFile, CreateEntry, JobDone, queue
  <2> QED
    BY <1>1, <1>7, <2>1, UnsavedFacts
<1>8. CASE UNCHANGED vars
  BY <1>1, <1>8 DEF vars, queue, locals, Unsaved
<1> QED
  BY <1>2, <1>3, <1>4, <1>5, <1>6, <1>7, <1>8 DEF Next, Thread

(* Threads ignore what fuzzer_coverage has, and start afresh after a crash. *)
LEMMA IgnoredStep ==
  TypeOK /\ Locking /\ NothingIgnored /\ IgnoredIsCounted /\ [Next]_vars
    => NothingIgnored' /\ IgnoredIsCounted'
<1> SUFFICES ASSUME TypeOK, Locking, NothingIgnored, IgnoredIsCounted, [Next]_vars
             PROVE  NothingIgnored' /\ IgnoredIsCounted'
  OBVIOUS
<1>1. ASSUME NEW t \in Threads, Restore(t) PROVE NothingIgnored' /\ IgnoredIsCounted'
  BY <1>1 DEF Restore, NothingIgnored, IgnoredIsCounted
<1>2. ASSUME NEW t \in Threads, Dispatch(t)
      PROVE  NothingIgnored' /\ IgnoredIsCounted'
  <2>1. state' # "RESTORE_NEEDED" /\ UNCHANGED fuzzer_coverage
    BY <1>2, DispatchCases
  <2>2. \A u \in Threads : ignored'[u] = ignored[u] \/ ignored'[u] = fuzzer_coverage
    BY <1>2 DEF Dispatch, TypeOK
  <2> QED
    BY <2>1, <2>2 DEF NothingIgnored, IgnoredIsCounted
<1>3. ASSUME NEW t \in Threads, RunSample(t)
      PROVE  NothingIgnored' /\ IgnoredIsCounted'
  <2>1. /\ fuzzer_coverage \subseteq fuzzer_coverage'
        /\ \A u \in Threads \ {t} : ignored'[u] = ignored[u]
        /\ \A x \in ignored'[t] : x \in ignored[t] \/ x \in fuzzer_coverage'
    BY <1>3, ClaimFacts
  <2>2. state' # "RESTORE_NEEDED"
    BY <1>3 DEF RunSample, Locking, queue
  <2> QED
    BY <2>1, <2>2 DEF NothingIgnored, IgnoredIsCounted
<1>4. CASE Crash
  BY <1>4 DEF Crash, NothingIgnored, IgnoredIsCounted
<1>5. ASSUME NEW t \in Threads, RestoreFails(t) PROVE NothingIgnored' /\ IgnoredIsCounted'
  BY <1>5 DEF RestoreFails, NothingIgnored, IgnoredIsCounted
<1>6. ASSUME UNCHANGED << state, fuzzer_coverage, ignored >>
      PROVE  NothingIgnored' /\ IgnoredIsCounted'
  BY <1>6 DEF NothingIgnored, IgnoredIsCounted
<1>7. ASSUME NEW t \in Threads, Enter(t) \/ BeginSave(t) \/ EndSave(t) \/ RunEnds(t)
                                \/ SaveFile(t) \/ CreateEntry(t) \/ PushEntry(t) \/ JobDone(t)
      PROVE  NothingIgnored' /\ IgnoredIsCounted'
  BY <1>6, <1>7 DEF Enter, BeginSave, EndSave, RunEnds, SaveFile, CreateEntry, PushEntry,
                    JobDone, queue
<1>8. CASE UNCHANGED vars
  BY <1>6, <1>8 DEF vars, queue, locals
<1> QED
  BY <1>1, <1>2, <1>3, <1>4, <1>5, <1>7, <1>8 DEF Next, Thread

(* Every server sample that the client counts as received is accounted for. *)
LEMMA UpdatesStep ==
  QInv /\ UpdatesAccounted /\ SavedUpdatesProcessed /\ [Next]_vars
    => UpdatesAccounted' /\ SavedUpdatesProcessed'
<1> SUFFICES ASSUME QInv, UpdatesAccounted, SavedUpdatesProcessed, [Next]_vars
             PROVE  UpdatesAccounted' /\ SavedUpdatesProcessed'
  OBVIOUS
<1>0. TypeOK
  BY DEF QInv
<1>1. ASSUME UNCHANGED << last_timestamp, handled, server_samples, job, state_dat >>
      PROVE  UpdatesAccounted' /\ SavedUpdatesProcessed'
  BY <1>1 DEF UpdatesAccounted, SavedUpdatesProcessed
<1>2. ASSUME NEW t \in Threads, Restore(t)
      PROVE  UpdatesAccounted' /\ SavedUpdatesProcessed'
  BY <1>2 DEF Restore, UpdatesAccounted, SavedUpdatesProcessed
<1>3. ASSUME NEW t \in Threads, BeginSave(t)
      PROVE  UpdatesAccounted' /\ SavedUpdatesProcessed'
  BY <1>3 DEF BeginSave, NoState, UpdatesAccounted, SavedUpdatesProcessed, history
<1>4. ASSUME NEW t \in Threads, EndSave(t)
      PROVE  UpdatesAccounted' /\ SavedUpdatesProcessed'
  <2>1. state = "FUZZING"
    BY <1>4 DEF EndSave, Locking, QInv
  <2>2. server_samples = << >> /\ \A u \in Threads : ~Processing(u)
    BY <2>1, PendingPositive DEF FuzzingIsDrained, QInv
  <2>3. \A u \in Threads : job[u].from # "server"
    BY <1>0, <2>2 DEF Processing, TypeOK, Jobs
  <2>4. 1 .. last_timestamp \subseteq handled
    BY <2>2, <2>3 DEF UpdatesAccounted
  <2>5. /\ state_dat'.last_timestamp = last_timestamp /\ state_dat'.handled = handled
        /\ UNCHANGED << last_timestamp, handled, server_samples, job >>
    BY <1>4 DEF EndSave, queue, history
  <2>6. SavedUpdatesProcessed'
    BY <2>4, <2>5 DEF SavedUpdatesProcessed
  <2>7. UpdatesAccounted'
    BY <2>5 DEF UpdatesAccounted
  <2> QED
    BY <2>6, <2>7
<1>5. ASSUME NEW t \in Threads, Dispatch(t)
      PROVE  UpdatesAccounted' /\ SavedUpdatesProcessed'
  <2>a. PICK due \in BOOLEAN : \E update \in Updates(due) : GetJob(t, due, update)
    BY <1>5 DEF Dispatch
  <2>b. PICK update \in Updates(due) : GetJob(t, due, update)
    BY <2>a
  <2> DEFINE waiting == Waiting(update)
             s == NextState(due, waiting)
             n == Len(server_samples)
  <2>1. /\ waiting \in Seq(Nat) /\ Len(waiting) = n + (update.upto - last_timestamp)
        /\ \A k \in 1 .. n : waiting[k] = server_samples[k]
        /\ \A i \in last_timestamp + 1 .. update.upto : waiting[n + (i - last_timestamp)] = i
    BY <1>0, WaitingFacts
  <2>2. /\ update.upto \in Nat /\ last_timestamp \in Nat /\ update.upto >= last_timestamp
        /\ n \in Nat
    BY <1>0, UpdatesFacts DEF TypeOK
  <2>3. /\ last_timestamp' = last_timestamp \/ last_timestamp' = update.upto
        /\ UNCHANGED << handled, state_dat >>
    BY <1>5, <2>b DEF GetJob, Dispatch, history
  <2>4. job[t].from = "none"
    BY <1>5 DEF Dispatch, JobsTaken, NoJob, QInv
  <2> HIDE DEF waiting, s, n
  <2>5. \A i \in 1 .. last_timestamp' :
          \/ i \in handled
          \/ \E k \in 1 .. Len(waiting) : waiting[k] = i
          \/ \E u \in Threads : job[u].from = "server" /\ job[u].item = i
    <3> TAKE i \in 1 .. last_timestamp'
    <3>1. CASE i \in 1 .. last_timestamp
      <4>1. ASSUME NEW k \in 1 .. n, server_samples[k] = i
            PROVE  \E l \in 1 .. Len(waiting) : waiting[l] = i
        BY <2>1, <2>2, <4>1
      <4> QED
        BY <3>1, <4>1 DEF UpdatesAccounted, n
    <3>2. CASE i \in last_timestamp + 1 .. update.upto
      <4>1. n + (i - last_timestamp) \in 1 .. Len(waiting)
        BY <2>1, <2>2, <3>2
      <4>2. waiting[n + (i - last_timestamp)] = i
        BY <2>1, <3>2
      <4> QED
        BY <4>1, <4>2
    <3> QED
      BY <2>2, <2>3, <3>1, <3>2
  <2>6. CASE TakeServerSample(t, s, waiting)
    <3>1. /\ waiting # << >> /\ server_samples' = Tail(waiting)
          /\ job'[t].from = "server" /\ job'[t].item = Head(waiting)
          /\ \A u \in Threads \ {t} : job'[u] = job[u]
      BY <1>0, <2>6 DEF TakeServerSample, Gets, TypeOK
    <3>2. /\ Len(Tail(waiting)) = Len(waiting) - 1 /\ Head(waiting) = waiting[1]
          /\ \A k \in 1 .. Len(Tail(waiting)) : Tail(waiting)[k] = waiting[k + 1]
      BY <2>1, <3>1, HeadTailProperties
    <3>3. ASSUME NEW k \in 1 .. Len(waiting)
          PROVE  \/ waiting[k] = Head(waiting)
                 \/ \E l \in 1 .. Len(Tail(waiting)) : Tail(waiting)[l] = waiting[k]
      <4>1. Len(waiting) \in Nat
        BY <2>1
      <4>2. CASE k = 1
        BY <3>2, <4>2
      <4>3. CASE k # 1
        <5>1. k - 1 \in 1 .. Len(Tail(waiting)) /\ (k - 1) + 1 = k
          BY <3>2, <4>1, <4>3
        <5>2. Tail(waiting)[k - 1] = waiting[k]
          BY <3>2, <5>1
        <5> QED
          BY <5>1, <5>2
      <4> QED
        BY <4>2, <4>3
    <3>4. UpdatesAccounted'
      BY <2>3, <2>4, <2>5, <3>1, <3>3 DEF UpdatesAccounted
    <3> QED
      BY <2>3, <3>4 DEF SavedUpdatesProcessed
  <2>7. CASE ~TakeServerSample(t, s, waiting)
    <3>1. server_samples' = waiting
      BY <2>b, <2>7 DEF GetJob, TakeJob, TakeEntry, TakeInput, GenerateSample, waiting, s
    <3>2. \A u \in Threads \ {t} : job'[u] = job[u]
      BY <1>0, <2>b, <2>7 DEF GetJob, TakeJob, TakeEntry, TakeInput, GenerateSample, Gets,
         waiting, s, TypeOK
    <3>3. UpdatesAccounted'
      BY <2>3, <2>4, <2>5, <3>1, <3>2 DEF UpdatesAccounted
    <3> QED
      BY <2>3, <3>3 DEF SavedUpdatesProcessed
  <2> QED
    BY <2>6, <2>7
<1>6. ASSUME NEW t \in Threads, JobDone(t)
      PROVE  UpdatesAccounted' /\ SavedUpdatesProcessed'
  <2>1. /\ UNCHANGED << last_timestamp, server_samples, state_dat >>
        /\ \A u \in Threads \ {t} : job'[u] = job[u]
    BY <1>0, <1>6 DEF JobDone, TypeOK
  <2>2. handled \subseteq handled' /\ (job[t].from = "server" => job[t].item \in handled')
    <3>1. job[t].from = "server" => Processing(t)
      BY <1>0 DEF TypeOK, Jobs, Processing
    <3> QED
      BY <1>6, <3>1 DEF JobDone, Processing
  <2>3. UpdatesAccounted'
    BY <2>1, <2>2 DEF UpdatesAccounted
  <2> QED
    BY <2>1, <2>3 DEF SavedUpdatesProcessed
<1>7. CASE Crash
  BY <1>7 DEF Crash, UpdatesAccounted, SavedUpdatesProcessed
<1>8. ASSUME NEW t \in Threads, RestoreFails(t) \/ Enter(t) \/ RunSample(t) \/ RunEnds(t)
                                \/ SaveFile(t) \/ CreateEntry(t) \/ PushEntry(t)
      PROVE  UpdatesAccounted' /\ SavedUpdatesProcessed'
  BY <1>1, <1>8 DEF RestoreFails, Enter, RunSample, RunEnds, SaveFile, CreateEntry, PushEntry,
                    queue, history
<1>9. CASE UNCHANGED vars
  BY <1>1, <1>9 DEF vars, queue, locals, history
<1> QED
  BY <1>2, <1>3, <1>4, <1>5, <1>6, <1>7, <1>8, <1>9 DEF Next, Thread

(* Sample files keep their samples: a file is written once per session, and a
   restored session writes from the saved number on. *)
LEMMA FilesStep ==
  TypeOK /\ Locking /\ FilesNumbered /\ FilesIntact /\ [Next]_vars
    => FilesNumbered' /\ FilesIntact'
<1> SUFFICES ASSUME TypeOK, Locking, FilesNumbered, FilesIntact, [Next]_vars
             PROVE  FilesNumbered' /\ FilesIntact'
  OBVIOUS
<1>0. Len(all_entries) \in Nat /\ Len(files) \in Nat /\ num_samples \in Nat
  BY DEF TypeOK
<1>1. ASSUME UNCHANGED << all_entries, files, num_samples, filename, sample, state_dat >>,
             \A u \in Threads : Filed(u)' => Filed(u),
             state' \notin {"RESTORE_NEEDED", "FATAL"} => state \notin {"RESTORE_NEEDED", "FATAL"}
      PROVE  FilesNumbered' /\ FilesIntact'
  <2>1. FilesNumbered'
    BY <1>1 DEF FilesNumbered, Numbered
  <2>2. FilesIntact'
    BY <1>1 DEF FilesIntact, Filed
  <2> QED
    BY <2>1, <2>2
<1>2. ASSUME NEW t \in Threads, Restore(t) PROVE FilesNumbered' /\ FilesIntact'
  <2>1. /\ all_entries' = state_dat.entries /\ num_samples' = state_dat.num_samples
        /\ state_dat.complete /\ UNCHANGED << files, state_dat, sample, filename >>
    BY <1>2 DEF Restore, RestoredNumber
  <2>2. \A u \in Threads : pc'[u] \in {"get", "dispatch"}
    <3>1. \A u \in Threads : pc[u] = "get"
      BY <1>2 DEF Restore, Locking
    <3> QED
      BY <1>2, <3>1 DEF Restore, Goto, TypeOK
  <2>3. \A u \in Threads : ~Filed(u)'
    BY <2>2 DEF Filed
  <2>4. FilesNumbered'
    BY <2>1, <2>3, <1>0 DEF FilesNumbered, Numbered, TypeOK
  <2>5. FilesIntact'
    BY <2>1, <2>3 DEF FilesNumbered, FilesIntact, Filed
  <2> QED
    BY <2>4, <2>5
<1>3. ASSUME NEW t \in Threads, BeginSave(t) PROVE FilesNumbered' /\ FilesIntact'
  <2>1. /\ UNCHANGED << all_entries, files, num_samples, filename, sample >>
        /\ state_dat' = NoState /\ \A u \in Threads : Filed(u)' => Filed(u)
    BY <1>3 DEF BeginSave, Goto, Filed, TypeOK
  <2>2. ~state_dat'.complete /\ state_dat'.num_samples = 0
    BY <2>1 DEF NoState
  <2>3. FilesNumbered'
    BY <1>0, <2>1, <2>2 DEF FilesNumbered, Numbered
  <2>4. FilesIntact'
    BY <2>1, <2>2 DEF FilesIntact, Filed
  <2> QED
    BY <2>3, <2>4
<1>4. ASSUME NEW t \in Threads, EndSave(t) PROVE FilesNumbered' /\ FilesIntact'
  <2>1. /\ UNCHANGED << all_entries, files, num_samples, filename, sample >>
        /\ state_dat'.entries = all_entries /\ state_dat'.num_samples = num_samples
        /\ \A u \in Threads : Filed(u)' => Filed(u)
    BY <1>4 DEF EndSave, Goto, Filed, TypeOK, queue
  <2>2. FilesNumbered'
    BY <1>0, <2>1 DEF FilesNumbered, Numbered, FilesIntact
  <2>3. FilesIntact'
    BY <2>1 DEF FilesIntact, Filed
  <2> QED
    BY <2>2, <2>3
<1>5. ASSUME NEW t \in Threads, Dispatch(t) PROVE FilesNumbered' /\ FilesIntact'
  <2>1. /\ UNCHANGED << all_entries, files, num_samples, filename, sample, state_dat >>
        /\ Goto(t, "run") \/ Goto(t, "get") \/ Fatal
    BY <1>5, DispatchCases DEF TakesEntry, TakesSample, Waits, Exits
  <2>2. state \notin {"RESTORE_NEEDED", "FATAL"}
    BY <1>5 DEF Dispatch, Locking
  <2>3. \A u \in Threads : Filed(u)' => Filed(u)
    BY <2>1 DEF Goto, Fatal, Filed, TypeOK
  <2> QED
    BY <1>1, <2>1, <2>2, <2>3
<1>6. ASSUME NEW t \in Threads, SaveFile(t) PROVE FilesNumbered' /\ FilesIntact'
  <2> DEFINE n == num_samples
  <2>1. /\ num_samples' = n + 1 /\ UNCHANGED << all_entries, sample, state_dat, state >>
        /\ filename'[t] = n /\ \A u \in Threads \ {t} : filename'[u] = filename[u]
        /\ \A u \in Threads \ {t} : pc'[u] = pc[u]
    BY <1>6 DEF SaveFile, Goto, TypeOK, queue
  <2>2. n <= Len(files)
    BY DEF FilesNumbered
  <2>3. /\ files'[n + 1] = sample[t] /\ Len(files') >= n + 1 /\ Len(files') >= Len(files)
        /\ \A i \in 1 .. n : files'[i] = files[i]
    <3>1. sample[t] \in Content /\ files \in Seq(Content)
      BY DEF TypeOK
    <3>2. CASE n < Len(files)
      <4>1. files' = [files EXCEPT ![n + 1] = sample[t]] /\ n + 1 \in 1 .. Len(files)
        BY <1>0, <1>6, <3>2 DEF SaveFile
      <4> QED
        BY <1>0, <3>1, <4>1, ExceptSeq
    <3>3. CASE ~(n < Len(files))
      <4>1. files' = Append(files, sample[t]) /\ n = Len(files)
        BY <1>0, <1>6, <2>2, <3>3 DEF SaveFile
      <4> QED
        BY <1>0, <3>1, <4>1, AppendProperties
    <3> QED
      BY <3>2, <3>3
  <2>4. Len(files') \in Nat
    BY <1>0, <1>6, <2>3 DEF SaveFile, TypeOK
  <2>5. Filed(t)' /\ ~Filed(t) /\ \A u \in Threads \ {t} : Filed(u)' <=> Filed(u)
    BY <1>6, <2>1 DEF SaveFile, Goto, Filed, TypeOK
  <2>6. state \notin {"RESTORE_NEEDED", "FATAL"}
    BY <1>6 DEF SaveFile, Locking
  <2>7. \A e \in 1 .. Len(all_entries) : all_entries[e].file \in 0 .. n - 1
    <3>1. ASSUME NEW e \in 1 .. Len(all_entries) PROVE all_entries[e].file \in Nat
      <4>1. all_entries[e] \in Entries
        BY DEF TypeOK
      <4> QED
        BY <4>1 DEF Entries
    <3> QED
      BY <1>0, <3>1 DEF FilesNumbered, Numbered
  <2>8. state_dat.complete =>
          \A e \in 1 .. Len(state_dat.entries) : state_dat.entries[e].file \in 0 .. n - 1
    <3>1. ASSUME NEW e \in 1 .. Len(state_dat.entries) PROVE state_dat.entries[e].file \in Nat
      <4>1. state_dat.entries[e] \in Entries
        BY DEF TypeOK
      <4> QED
        BY <4>1 DEF Entries
    <3>2. state_dat.num_samples \in Nat
      BY DEF TypeOK
    <3> QED
      BY <1>0, <2>6, <3>1, <3>2 DEF FilesNumbered, Numbered
  <2>9. \A u \in Threads : Filed(u) => filename[u] \in 0 .. n - 1
    BY <1>0 DEF FilesNumbered, TypeOK
  <2>10. Numbered(all_entries, num_samples)'
    BY <1>0, <2>1, <2>3, <2>7 DEF FilesNumbered, Numbered
  <2>11. state_dat.complete => Numbered(state_dat.entries, state_dat.num_samples)'
    BY <1>0, <2>1, <2>3, <2>8 DEF FilesNumbered, Numbered
  <2>12. \A u \in Threads : Filed(u)' =>
           /\ filename'[u] < n + 1
           /\ \A e \in 1 .. Len(all_entries) : all_entries[e].file # filename'[u]
           /\ \A v \in Threads \ {u} : Filed(v)' => filename'[u] # filename'[v]
    BY <1>0, <2>1, <2>5, <2>7, <2>9 DEF FilesNumbered
  <2>13. FilesNumbered'
    BY <1>0, <2>1, <2>3, <2>4, <2>6, <2>10, <2>11, <2>12 DEF FilesNumbered, TypeOK
  <2>14. \A u \in Threads : Filed(u)' => files'[filename'[u] + 1] = sample'[u]
    BY <1>0, <2>1, <2>3, <2>5, <2>9 DEF FilesIntact, Filed
  <2>15. FilesIntact'
    BY <2>1, <2>10, <2>11, <2>14 DEF FilesIntact, Numbered, Filed
  <2> QED
    BY <2>13, <2>15
<1>7. ASSUME NEW t \in Threads, CreateEntry(t) PROVE FilesNumbered' /\ FilesIntact'
  <2>1. /\ UNCHANGED << all_entries, files, num_samples, filename, sample, state_dat, state >>
        /\ \A u \in Threads : Filed(u)' => Filed(u)
    BY <1>7 DEF CreateEntry, Goto, Filed, TypeOK, queue
  <2> QED
    BY <1>1, <2>1
<1>8. ASSUME NEW t \in Threads, PushEntry(t) PROVE FilesNumbered' /\ FilesIntact'
  <2> DEFINE n == Len(all_entries)
  <2>1. /\ Len(all_entries') = n + 1
        /\ \A e \in 1 .. n : all_entries'[e] = all_entries[e]
        /\ all_entries'[n + 1].sample = sample[t] /\ all_entries'[n + 1].file = filename[t]
        /\ UNCHANGED << state, files, num_samples, state_dat >>
    BY <1>0, <1>8 DEF PushEntry, TypeOK
  <2>2. \A e : e \in 1 .. n + 1 <=> e \in 1 .. n \/ e = n + 1
    BY <1>0
  <2>3. /\ Filed(t) /\ ~Filed(t)'
        /\ \A u \in Threads \ {t} : /\ Filed(u)' <=> Filed(u)
                                    /\ filename'[u] = filename[u] /\ sample'[u] = sample[u]
    BY <1>8 DEF PushEntry, Goto, AfterSample, Filed, TypeOK
  <2>4. /\ filename[t] < num_samples /\ files[filename[t] + 1] = sample[t]
        /\ \A e \in 1 .. n : all_entries[e].file # filename[t]
        /\ \A u \in Threads \ {t} : Filed(u) => filename[t] # filename[u]
    BY <2>3 DEF FilesNumbered, FilesIntact, Filed
  <2> HIDE DEF n
  <2>5. Numbered(all_entries, num_samples)'
    BY <2>1, <2>2, <2>4 DEF FilesNumbered, Numbered, n
  <2>6. \A u \in Threads : Filed(u)' =>
           /\ filename'[u] < num_samples'
           /\ \A e \in 1 .. n + 1 : all_entries'[e].file # filename'[u]
           /\ \A v \in Threads \ {u} : Filed(v)' => filename'[u] # filename'[v]
    BY <2>1, <2>2, <2>3, <2>4 DEF FilesNumbered, n
  <2>7. FilesNumbered'
    BY <2>1, <2>5, <2>6 DEF FilesNumbered, Numbered
  <2>8. n + 1 \notin 1 .. n
    BY <1>0 DEF n
  <2>9. \A e, f \in 1 .. n + 1 : e # f => all_entries'[e].file # all_entries'[f].file
    BY <2>1, <2>2, <2>4, <2>8 DEF FilesIntact, n
  <2>10. FilesIntact'
    <3>1. \A e \in 1 .. n + 1 : files'[all_entries'[e].file + 1] = all_entries'[e].sample
      BY <2>1, <2>5 DEF Numbered
    <3>2. \A u \in Threads : Filed(u)' => files'[filename'[u] + 1] = sample'[u]
      BY <2>1, <2>3 DEF FilesIntact, Filed
    <3> QED
      BY <2>1, <2>9, <3>1, <3>2 DEF FilesIntact, Filed
  <2> QED
    BY <2>7, <2>10
<1>9. ASSUME NEW t \in Threads, RunSample(t) \/ RunEnds(t)
      PROVE  FilesNumbered' /\ FilesIntact'
  <2>1. UNCHANGED << all_entries, files, num_samples, filename, state_dat, state >>
    BY <1>9 DEF RunSample, RunEnds, queue
  <2>2. /\ \A u \in Threads : Filed(u)' => Filed(u) /\ u # t
        /\ \A u \in Threads \ {t} : sample'[u] = sample[u]
    <3>1. pc'[t] \in {"run", "save", "done"} /\ \A u \in Threads \ {t} : pc'[u] = pc[u]
      BY <1>9 DEF RunSample, Claims, RunEnds, Goto, AfterSample, TypeOK
    <3>2. \A u \in Threads \ {t} : sample'[u] = sample[u]
      BY <1>9 DEF RunSample, Claims, RunEnds, TypeOK
    <3> QED
      BY <3>1, <3>2 DEF Filed
  <2>3. FilesNumbered'
    BY <2>1, <2>2 DEF FilesNumbered, Numbered
  <2>4. FilesIntact'
    BY <2>1, <2>2 DEF FilesIntact, Filed
  <2> QED
    BY <2>3, <2>4
<1>10. ASSUME NEW t \in Threads, RestoreFails(t) \/ Enter(t) \/ JobDone(t)
       PROVE  FilesNumbered' /\ FilesIntact'
  <2>1. /\ UNCHANGED << all_entries, files, num_samples, filename, sample, state_dat >>
        /\ state' = state \/ state' = "FATAL"
        /\ \A u \in Threads : Filed(u)' => Filed(u)
    BY <1>10 DEF RestoreFails, Enter, JobDone, Goto, Fatal, Filed, TypeOK
  <2> QED
    BY <1>1, <2>1
<1>11. CASE Crash
  <2>1. /\ all_entries' = << >> /\ num_samples' = 0 /\ state' = "RESTORE_NEEDED"
        /\ UNCHANGED << files, state_dat >> /\ \A u \in Threads : ~Filed(u)'
    BY <1>11 DEF Crash, Filed
  <2>2. FilesNumbered'
    BY <1>0, <2>1 DEF FilesNumbered, Numbered
  <2>3. FilesIntact'
    BY <2>1 DEF FilesIntact, Filed
  <2> QED
    BY <2>2, <2>3
<1>12. CASE UNCHANGED vars
  BY <1>1, <1>12 DEF vars, queue, locals, Filed
<1> QED
  BY <1>2, <1>3, <1>4, <1>5, <1>6, <1>7, <1>8, <1>9, <1>10, <1>11, <1>12 DEF Next, Thread

(* While nobody fails, a step that claims or pushes nothing keeps every claim. *)
LEMMA ClaimsKept ==
  ASSUME TypeOK, Locking, NEW t \in Threads,
         \/ Enter(t) \/ BeginSave(t) \/ EndSave(t) \/ RunEnds(t) \/ SaveFile(t)
         \/ CreateEntry(t) \/ JobDone(t) \/ (Dispatch(t) /\ ~Exits)
  PROVE  /\ UNCHANGED << all_entries, claimed, restarts >>
         /\ \A u \in Threads : Unsaved(u)' = Unsaved(u)
<1>1. UNCHANGED << all_entries, claimed, restarts >>
  BY DEF Enter, BeginSave, EndSave, RunEnds, SaveFile, CreateEntry, JobDone, Dispatch, queue, history
<1>2. ASSUME Enter(t) \/ BeginSave(t) \/ EndSave(t) \/ JobDone(t) \/ (Dispatch(t) /\ ~Exits)
      PROVE  \A u \in Threads : Unsaved(u)' = Unsaved(u)
  <2>1. /\ UNCHANGED sample
        /\ \E l \in {"dispatch", "saving", "get", "run"} : Goto(t, l)
        /\ pc[t] \in {"get", "saving", "done", "dispatch"}
    <3>1. CASE Dispatch(t) /\ ~Exits
      BY <3>1, DispatchCases DEF Dispatch, TakesEntry, TakesSample, Waits
    <3>2. CASE Enter(t) \/ BeginSave(t) \/ EndSave(t) \/ JobDone(t)
      BY <3>2 DEF Enter, BeginSave, EndSave, JobDone, Lock
    <3> QED
      BY <1>2, <3>1, <3>2
  <2> QED
    BY <2>1 DEF Goto, Unsaved, TypeOK
<1>3. ASSUME RunEnds(t) PROVE \A u \in Threads : Unsaved(u)' = Unsaved(u)
  <2>1. \A u \in Threads \ {t} : pc'[u] = pc[u] /\ sample'[u] = sample[u]
    BY <1>3 DEF RunEnds, Goto, TypeOK
  <2>2. pc[t] = "run" /\ (pc'[t] = "done" \/ sample'[t].cov = {})
    BY <1>3 DEF RunEnds, Goto, TypeOK
  <2> QED
    BY <2>1, <2>2 DEF Unsaved
<1>4. ASSUME SaveFile(t) \/ CreateEntry(t) PROVE \A u \in Threads : Unsaved(u)' = Unsaved(u)
  <2>1. /\ UNCHANGED sample /\ pc[t] \in {"save", "entry"} /\ pc'[t] \in {"entry", "push"}
        /\ \A u \in Threads \ {t} : pc'[u] = pc[u]
    BY <1>4 DEF SaveFile, CreateEntry, Goto, TypeOK
  <2> QED
    BY <2>1 DEF Unsaved
<1> QED
  BY <1>1, <1>2, <1>3, <1>4

(* When the process ends for lack of samples, no thread holds a claim. *)
LEMMA NobodyWorksAtTheEnd ==
  ASSUME QInv, FilesNumbered, NEW t \in Threads, Dispatch(t), Exits
  PROVE  \A u \in Threads : Unsaved(u) = {}
<1>1. num_samples = 0 /\ samples_pending = 0
  BY DispatchPhases DEF Exits, QInv
<1>2. Len(all_entries) = 0
  <2>1. Len(all_entries) \in Nat
    BY DEF QInv, TypeOK
  <2>2. ASSUME 1 \in 1 .. Len(all_entries) PROVE FALSE
    <3>1. all_entries[1] \in Entries
      BY <2>2 DEF QInv, TypeOK
    <3>2. all_entries[1].file \in Nat
      BY <3>1 DEF Entries
    <3> QED
      BY <1>1, <2>2, <3>2 DEF FilesNumbered, Numbered
  <2> QED
    BY <2>1, <2>2
<1>3. ASSUME NEW u \in Threads PROVE ~Working(u)
  <2>1. ~Processing(u)
    BY <1>1, PendingPositive DEF QInv
  <2>2. job[u].type # "FUZZ"
    BY <1>2 DEF EntriesExist, QInv
  <2>3. job[u].type \in {"WAIT", "FUZZ", "PROCESS_SAMPLE"}
    BY DEF QInv, TypeOK, Jobs
  <2> QED
    BY <2>1, <2>2, <2>3 DEF Processing, JobsTaken, QInv
<1> QED
  BY <1>3 DEF Unsaved, Working

(* As long as nothing is restored, every claim has its sample. *)
LEMMA NothingLostStep ==
  QInv /\ FilesNumbered /\ NothingLostWithoutRestart /\ [Next]_vars
    => NothingLostWithoutRestart'
<1> DEFINE Reached(x) == \/ \E e \in 1 .. Len(all_entries) : x \in all_entries[e].sample.cov
                         \/ \E u \in Threads : x \in Unsaved(u)
<1> SUFFICES ASSUME QInv, FilesNumbered, NothingLostWithoutRestart, [Next]_vars, restarts' = 0
             PROVE  ClaimedCoverageHasSample'
  BY DEF NothingLostWithoutRestart
<1>0. TypeOK /\ Locking
  BY DEF QInv
<1> DEFINE Samples == (UNION { all_entries[e].sample.cov : e \in 1 .. Len(all_entries) })
                        \cup (UNION { Unsaved(u) : u \in Threads })
<1>c. \A x : x \in Samples <=> Reached(x)
  OBVIOUS
<1>d. \A x : (x \in Samples)' <=> Reached(x)'
  OBVIOUS
<1>e. /\ ClaimedCoverageHasSample <=> claimed = Samples
      /\ ClaimedCoverageHasSample' <=> claimed' = Samples'
  BY DEF ClaimedCoverageHasSample
<1> HIDE DEF Samples
<1>a. ClaimedCoverageHasSample <=> \A x : x \in claimed <=> Reached(x)
  BY <1>c, <1>e
<1>b. ClaimedCoverageHasSample' <=> \A x : x \in claimed' <=> Reached(x)'
  BY <1>d, <1>e
<1>1. ASSUME restarts = 0, UNCHANGED << all_entries, claimed >>,
             \A u \in Threads : Unsaved(u)' = Unsaved(u)
      PROVE  ClaimedCoverageHasSample'
  BY <1>1 DEF ClaimedCoverageHasSample, NothingLostWithoutRestart
<1>2. ASSUME NEW t \in Threads,
             \/ Enter(t) \/ BeginSave(t) \/ EndSave(t) \/ RunEnds(t) \/ SaveFile(t)
             \/ CreateEntry(t) \/ JobDone(t) \/ (Dispatch(t) /\ ~Exits)
      PROVE  ClaimedCoverageHasSample'
  BY <1>0, <1>1, <1>2, ClaimsKept
<1>3. ASSUME NEW t \in Threads, Restore(t) \/ RestoreFails(t) PROVE FALSE
  <2>1. state = "RESTORE_NEEDED" /\ restarts = 0
    BY <1>3 DEF Restore, RestoreFails
  <2> QED
    BY <2>1 DEF FirstSession, QInv
<1>4. ASSUME NEW t \in Threads, Dispatch(t), Exits PROVE ClaimedCoverageHasSample'
  <2>1. \A u \in Threads : Unsaved(u) = {}
    BY <1>4, NobodyWorksAtTheEnd
  <2>2. \A u \in Threads : Unsaved(u)' = {}
    BY <1>4 DEF Exits, Fatal, Unsaved
  <2>3. UNCHANGED << all_entries, claimed >> /\ restarts = 0
    BY <1>4 DEF Dispatch, history
  <2> QED
    BY <1>1, <2>1, <2>2, <2>3
<1>5. ASSUME NEW t \in Threads, RunSample(t) PROVE ClaimedCoverageHasSample'
  <2>1. PICK new \in SUBSET (Edges \ fuzzer_coverage) :
          /\ Unsaved(t) = {} /\ Unsaved(t)' = new /\ claimed' = claimed \cup new
          /\ \A u \in Threads \ {t} : Unsaved(u)' = Unsaved(u)
    BY <1>0, <1>5, ClaimFacts
  <2>2. UNCHANGED all_entries /\ restarts = 0
    BY <1>5 DEF RunSample, queue
  <2>3. \A x : Reached(x)' <=> Reached(x) \/ x \in new
    BY <2>1, <2>2
  <2> QED
    BY <1>a, <1>b, <2>1, <2>2, <2>3 DEF NothingLostWithoutRestart
<1>6. ASSUME NEW t \in Threads, PushEntry(t) PROVE ClaimedCoverageHasSample'
  <2> DEFINE n == Len(all_entries)
  <2>0. n \in Nat
    BY <1>0 DEF TypeOK
  <2>1. /\ Unsaved(t) = sample[t].cov /\ Unsaved(t)' = {}
        /\ \A u \in Threads \ {t} : Unsaved(u)' = Unsaved(u)
    BY <1>0, <1>6, UnsavedFacts
  <2>2. /\ Len(all_entries') = n + 1
        /\ \A e \in 1 .. n : all_entries'[e] = all_entries[e]
        /\ all_entries'[n + 1].sample = sample[t]
        /\ UNCHANGED claimed /\ restarts = 0
    BY <1>0, <1>6, <2>0 DEF PushEntry, TypeOK, history
  <2>3. \A e : e \in 1 .. n + 1 <=> e \in 1 .. n \/ e = n + 1
    BY <2>0
  <2> HIDE DEF n
  <2>4. \A x : Reached(x)' <=> Reached(x)
    BY <2>1, <2>2, <2>3 DEF n
  <2> QED
    BY <1>a, <1>b, <2>2, <2>4 DEF NothingLostWithoutRestart
<1>7. CASE Crash
  BY <1>0, <1>7 DEF Crash, TypeOK
<1>8. CASE UNCHANGED vars
  BY <1>1, <1>8 DEF vars, queue, locals, history, Unsaved
<1> QED
  BY <1>2, <1>3, <1>4, <1>5, <1>6, <1>7, <1>8 DEF Next, Thread

(* All of it together. *)
THEOREM InductiveInvariant == Spec => []IInv
<1>1. Init => IInv
  <2> SUFFICES ASSUME Init PROVE IInv
    OBVIOUS
  <2>1. QInv
    BY QInvInit
  <2>2. \A t \in Threads : Unsaved(t) = {}
    BY DEF Init, Unsaved
  <2>3. ClaimsCounted /\ ClaimedOnce /\ NothingIgnored /\ IgnoredIsCounted
    BY <2>2 DEF Init, NoState, ClaimsCounted, CountedOnce, ClaimedOnce, NothingIgnored,
       IgnoredIsCounted
  <2>4. UpdatesAccounted /\ SavedUpdatesProcessed
    BY DEF Init, NoState, UpdatesAccounted, SavedUpdatesProcessed
  <2>5. FilesNumbered /\ FilesIntact
    BY DEF Init, NoState, FilesNumbered, Numbered, FilesIntact, Filed
  <2>6. NothingLostWithoutRestart
    BY <2>2 DEF Init, NothingLostWithoutRestart, ClaimedCoverageHasSample
  <2> QED
    BY <2>1, <2>3, <2>4, <2>5, <2>6 DEF IInv, QInv
<1>2. IInv /\ [Next]_vars => IInv'
  <2> SUFFICES ASSUME IInv, [Next]_vars PROVE IInv'
    OBVIOUS
  <2>1. QInv
    BY DEF IInv, QInv
  <2>2. QInv'
    BY <2>1, TypeStep, LockingStep, JobsTakenStep, EntriesStep, PhasesStep DEF QInv
  <2>3. ClaimsCounted' /\ ClaimedOnce' /\ NothingIgnored' /\ IgnoredIsCounted'
    BY ClaimsStep, IgnoredStep DEF IInv
  <2>4. UpdatesAccounted' /\ SavedUpdatesProcessed'
    BY <2>1, UpdatesStep DEF IInv
  <2>5. FilesNumbered' /\ FilesIntact'
    BY FilesStep DEF IInv
  <2>6. NothingLostWithoutRestart'
    BY <2>1, NothingLostStep DEF IInv
  <2> QED
    BY <2>2, <2>3, <2>4, <2>5, <2>6 DEF IInv, QInv
<1> QED
  BY <1>1, <1>2, PTL DEF Spec

(* Stable coverage is claimed for one sample only (InterestingSample). *)
THEOREM ClaimsOnce == Spec => []ClaimedOnce
<1>1. IInv => ClaimedOnce
  BY DEF IInv
<1> QED
  BY <1>1, InductiveInvariant, PTL

(* No thread ignores coverage the fuzzer has not counted (RunSample, RestoreState). *)
THEOREM IgnoredCounted == Spec => []IgnoredIsCounted
<1>1. IInv => IgnoredIsCounted
  BY DEF IInv
<1> QED
  BY <1>1, InductiveInvariant, PTL

(* A saved last_timestamp covers only server samples that were processed, so that
   a restored fuzzer lost none (SynchronizeAndGetJob, SaveState). *)
THEOREM UpdatesProcessed == Spec => []SavedUpdatesProcessed
<1>1. IInv => SavedUpdatesProcessed
  BY DEF IInv
<1> QED
  BY <1>1, InductiveInvariant, PTL

(* The sample files of the entries, also of the ones in state.dat, are never
   overwritten by another sample (SaveSample, RestoreState). *)
THEOREM FilesStayIntact == Spec => []FilesIntact
<1>1. IInv => FilesIntact
  BY DEF IInv
<1> QED
  BY <1>1, InductiveInvariant, PTL

(* Stable coverage that was claimed has its sample, unless the session was
   restored (InterestingSample, SaveSample). *)
THEOREM NothingLost == Spec => []NothingLostWithoutRestart
<1>1. IInv => NothingLostWithoutRestart
  BY DEF IInv
<1> QED
  BY <1>1, InductiveInvariant, PTL
=============================================================================
