--------------------------- MODULE FuzzerInvariant ---------------------------
(***************************************************************************)
(* The inductive invariant of FuzzerJobs: what the safety properties there *)
(* need to be preserved by every step.                                     *)
(***************************************************************************)
EXTENDS FuzzerJobs

\* A thread between taking a job and handing it back.
Working(t) == pc[t] \in {"run", "save", "entry", "push", "done"}

\* A thread that has its file but no entry yet.
Filed(t) == pc[t] \in {"entry", "push"}

\* queue_mutex protects a thread in SynchronizeAndGetJob, and nobody gets past
\* a needed restore.
Locking ==
  \A t \in Threads :
    /\ pc[t] \in {"saving", "dispatch"} => queue_mutex = t /\ state # "RESTORE_NEEDED"
    /\ pc[t] = "saving" => state = "FUZZING"
    /\ state = "RESTORE_NEEDED" => pc[t] = "get"
    /\ state = "FATAL" => pc[t] = "exited"

\* Threads that work have a job, and threads that look for one have none.
JobsTaken ==
  \A t \in Threads :
    /\ pc[t] \in {"get", "saving", "dispatch"} => job[t] = NoJob
    /\ Working(t) => job[t].type # "WAIT"

\* Everybody talks of entries that exist.
EntriesExist ==
  /\ sample_queue \subseteq 1 .. Len(all_entries)
  /\ discarded \subseteq 1 .. Len(all_entries)
  /\ \A t \in Threads : job[t].type = "FUZZ" => job[t].item \in 1 .. Len(all_entries)
  /\ state_dat.discarded \subseteq 1 .. Len(state_dat.entries)

\* Inputs and server samples are gone by the time their state is left.
PhasesDone ==
  /\ state \in {"RESTORE_NEEDED", "SERVER_SAMPLE_PROCESSING", "GENERATING_SAMPLES", "FUZZING"}
       => input_files = {}
  /\ state \in {"RESTORE_NEEDED", "INPUT_SAMPLE_PROCESSING", "GENERATING_SAMPLES", "FUZZING"}
       => server_samples = << >>

\* Saved coverage is counted, and counted once.
CountedOnce(entries, coverage) ==
  \A e \in 1 .. Len(entries) :
    /\ entries[e].sample.cov \subseteq coverage
    /\ \A f \in 1 .. Len(entries) : e # f => entries[e].sample.cov \cap entries[f].sample.cov = {}
ClaimsCounted ==
  /\ CountedOnce(all_entries, fuzzer_coverage)
  /\ CountedOnce(state_dat.entries, state_dat.coverage)
  /\ \A t \in Threads : Unsaved(t) \subseteq fuzzer_coverage

\* Before the restore, nobody has run anything yet.
NothingIgnored == state = "RESTORE_NEEDED" => \A t \in Threads : ignored[t] = {}

\* Every server sample up to last_timestamp was processed, or is waiting, or is
\* being processed.
UpdatesAccounted ==
  \A i \in 1 .. last_timestamp :
    \/ i \in handled
    \/ \E k \in 1 .. Len(server_samples) : server_samples[k] = i
    \/ \E t \in Threads : job[t].from = "server" /\ job[t].item = i

\* Files are numbered below num_samples, each for one sample.
Numbered(entries, number) ==
  \A e \in 1 .. Len(entries) :
    /\ entries[e].file < number
    /\ files[entries[e].file + 1] = entries[e].sample
FilesNumbered ==
  /\ num_samples <= Len(files) /\ state_dat.num_samples <= Len(files)
  /\ Numbered(all_entries, num_samples)
  /\ state_dat.complete => Numbered(state_dat.entries, state_dat.num_samples)
  /\ state_dat.complete => \A e, f \in 1 .. Len(state_dat.entries) :
       e # f => state_dat.entries[e].file # state_dat.entries[f].file
  /\ \A t \in Threads : Filed(t) =>
       /\ filename[t] < num_samples
       /\ \A e \in 1 .. Len(all_entries) : all_entries[e].file # filename[t]
       /\ \A u \in Threads \ {t} : Filed(u) => filename[t] # filename[u]
  /\ state_dat.complete /\ state \notin {"RESTORE_NEEDED", "FATAL"}
       => state_dat.num_samples <= num_samples

\* Only a restart needs a restore.
FirstSession == state = "RESTORE_NEEDED" => restarts > 0

IInv ==
  /\ TypeOK /\ Locking /\ JobsTaken /\ EntriesExist /\ EveryEntryInOnePlace
  /\ PhasesDone /\ FuzzingIsDrained /\ ClaimsCounted /\ ClaimedOnce
  /\ NothingIgnored /\ IgnoredIsCounted
  /\ UpdatesAccounted /\ SavedUpdatesProcessed /\ FilesNumbered /\ FilesIntact
  /\ FirstSession /\ NothingLostWithoutRestart
=============================================================================
