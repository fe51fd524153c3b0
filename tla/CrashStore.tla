------------------------------ MODULE CrashStore ------------------------------
(***************************************************************************)
(* What becomes of a crash: RunSampleAndGetCoverage and TryReproduceCrash  *)
(* (fuzzer.cpp), CoverageClient::ReportCrash (client.cpp) and              *)
(* CoverageServer::ReportCrash (server.cpp).  Each fuzzer process and the  *)
(* server keep a bounded number of crashes of every name in a directory.   *)
(*                                                                         *)
(* The fuzzers were started with -server.  Both sections under crash_mutex *)
(* and the one under output_mutex are one step each.  A report is sent     *)
(* whole, and no answer is awaited: it is still on its way, or being       *)
(* served, when its thread goes on.  Samples are named by the number of    *)
(* the crash they caused.                                                  *)
(***************************************************************************)
EXTENDS Integers, FiniteSets, Sequences, SequencesExt

CONSTANTS
  Fuzzers, Threads, Process,      \* Process[t]: the fuzzer thread t belongs to
  Descs, ValidDescs,              \* crash descriptions; those CheckFilename accepts
  None,
  MAX_IDENTICAL_CRASHES, MAX_SERVER_IDENTICAL_CRASHES,
  crash_reproduce_retries,        \* -crash_retry
  MaxCrashes,                     \* bound: crashes of the target
  MaxFailures                     \* bound: reports lost on the way and restarts of a fuzzer

ASSUME CrashAssumption ==
  /\ IsFiniteSet(Fuzzers) /\ IsFiniteSet(Threads)
  /\ Process \in [Threads -> Fuzzers] /\ ValidDescs \subseteq Descs
  /\ None \notin Descs
  /\ {MAX_IDENTICAL_CRASHES, MAX_SERVER_IDENTICAL_CRASHES} \subseteq Nat \ {0}
  /\ {crash_reproduce_retries, MaxCrashes, MaxFailures} \subseteq Nat

\* A crash description, with the prefix "flaky_" or without.
Names == [desc : Descs, flaky : BOOLEAN]
Valid(n) == n.desc \in ValidDescs
NoName == [desc |-> None, flaky |-> FALSE]

VARIABLES
  pc, sample, crash_desc, tries, duplicates,      \* threads
  unique_crashes, crash_dir,                      \* fuzzers
  reports,                                        \* on their way, or being served
  server_crashes, server_dir,                     \* the server
  crashes, faults, restarts                       \* for the bounds

locals  == << pc, sample, crash_desc, tries, duplicates >>
fuzzers == << unique_crashes, crash_dir >>
server  == << server_crashes, server_dir >>
counts  == << crashes, faults, restarts >>
vars == << locals, fuzzers, reports, server, counts >>

NoCrashes == [n \in Names |-> 0]
\* The files of a directory: a name, a number, and the sample in it (0: no file).
EmptyDir(max) == [f \in Names \X (1 .. max) |-> 0]

Init ==
  /\ pc = [t \in Threads |-> "idle"] /\ sample = [t \in Threads |-> 0]
  /\ crash_desc = [t \in Threads |-> NoName]
  /\ tries = [t \in Threads |-> 0] /\ duplicates = [t \in Threads |-> 0]
  /\ unique_crashes = [f \in Fuzzers |-> NoCrashes]
  /\ crash_dir = [f \in Fuzzers |-> EmptyDir(MAX_IDENTICAL_CRASHES)]
  /\ reports = << >>
  /\ server_crashes = NoCrashes /\ server_dir = EmptyDir(MAX_SERVER_IDENTICAL_CRASHES)
  /\ crashes = 0 /\ faults = 0 /\ restarts = 0
-----------------------------------------------------------------------------
(* A fuzzer thread.                                                        *)

Goes(t, label) == pc' = [pc EXCEPT ![t] = label]
\* RunSampleAndGetCoverage returns: its locals are gone.
Returns(ts) == /\ pc' = [t \in Threads |-> IF t \in ts THEN "idle" ELSE pc[t]]
               /\ sample' = [t \in Threads |-> IF t \in ts THEN 0 ELSE sample[t]]
               /\ crash_desc' = [t \in Threads |-> IF t \in ts THEN NoName ELSE crash_desc[t]]
               /\ duplicates' = [t \in Threads |-> IF t \in ts THEN 0 ELSE duplicates[t]]
Named(t, d, flaky) == crash_desc' = [crash_desc EXCEPT ![t] = [desc |-> d, flaky |-> flaky]]

\* Run returned CRASH.  With retries the crash is flaky until it is reproduced.
RunCrashes(t) ==
  /\ pc[t] = "idle" /\ crashes < MaxCrashes
  /\ crashes' = crashes + 1
  /\ sample' = [sample EXCEPT ![t] = crashes']
  /\ \E d \in Descs : Named(t, d, crash_reproduce_retries > 0)
  /\ Goes(t, IF crash_reproduce_retries > 0 THEN "reproduce" ELSE "count")
  /\ UNCHANGED << tries, duplicates, fuzzers, reports, server, faults, restarts >>

\* TryReproduceCrash: a try crashes, maybe with another name; or it does not; or
\* the sample cannot be delivered, which ends the tries.
Reproduced(t) ==
  /\ pc[t] = "reproduce"
  /\ \E d \in Descs : Named(t, d, FALSE)
  /\ tries' = [tries EXCEPT ![t] = 0]
  /\ Goes(t, "count")
  /\ UNCHANGED << sample, duplicates, fuzzers, reports, server, counts >>

NotReproduced(t) ==
  /\ pc[t] = "reproduce"
  /\ \/ /\ tries[t] + 1 < crash_reproduce_retries
        /\ tries' = [tries EXCEPT ![t] = @ + 1] /\ UNCHANGED pc
     \/ tries' = [tries EXCEPT ![t] = 0] /\ Goes(t, "count")
  /\ UNCHANGED << sample, crash_desc, duplicates, fuzzers, reports, server, counts >>

\* Whether a crash is saved when n of its name have been.
KeepsFirst(n, max) == n = 0   \* mutant of Keeps
Keeps(n, max) == n < max

\* The section under crash_mutex.
CountCrash(t) ==
  /\ pc[t] = "count"
  /\ LET f == Process[t]
         n == unique_crashes[f][crash_desc[t]]
     IN \/ /\ Keeps(n, MAX_IDENTICAL_CRASHES)
           /\ unique_crashes' = [unique_crashes EXCEPT ![f][crash_desc[t]] = n + 1]
           /\ duplicates' = [duplicates EXCEPT ![t] = n + 1]
           /\ Goes(t, "save")
           /\ UNCHANGED << sample, crash_desc >>
        \/ /\ ~Keeps(n, MAX_IDENTICAL_CRASHES)
           /\ Returns({t})
           /\ UNCHANGED unique_crashes
  /\ UNCHANGED << tries, crash_dir, reports, server, counts >>

\* The number in a crash file's name.
CurrentNumber(t) == unique_crashes[Process[t]][crash_desc[t]]   \* mutant of FileNumber
FileNumber(t) == duplicates[t]

\* What a thread does when the crash file is written.
ReportsRepeated(t) == IF duplicates[t] > 1 THEN "report" ELSE "idle"   \* mutant of AfterSave
AfterSave(t) == "report"

SaveCrash(t) ==
  /\ pc[t] = "save"
  /\ crash_dir' = [crash_dir EXCEPT ![Process[t]][<< crash_desc[t], FileNumber(t) >>] = sample[t]]
  /\ Goes(t, AfterSave(t))
  /\ UNCHANGED << sample, crash_desc, tries, duplicates, unique_crashes, reports, server, counts >>

\* CoverageClient::ReportCrash, once a connection is accepted: 'S', the sample, the
\* description and 'N'.
ReportCrash(t) ==
  /\ pc[t] = "report"
  /\ reports' = Append(reports, [sample |-> sample[t], name |-> crash_desc[t]])
  /\ Returns({t})
  /\ UNCHANGED << tries, fuzzers, server, counts >>

\* The connection breaks before the server has read a report, or its Read times out;
\* nobody sends it again.
LoseReport(i) ==
  /\ faults + restarts < MaxFailures
  /\ faults' = faults + 1
  /\ reports' = RemoveAt(reports, i)
  /\ UNCHANGED << locals, fuzzers, server, crashes, restarts >>
-----------------------------------------------------------------------------
(* The server, one thread per report.                                      *)

\* CoverageServer::ReportCrash: the count, and the file, under crash_mutex.
ServeReport(i) ==
  /\ reports' = RemoveAt(reports, i)
  /\ LET r == reports[i]
         n == server_crashes[r.name]
     IN \/ /\ Valid(r.name) /\ Keeps(n, MAX_SERVER_IDENTICAL_CRASHES)
           /\ server_crashes' = [server_crashes EXCEPT ![r.name] = n + 1]
           /\ server_dir' = [server_dir EXCEPT ![<< r.name, n + 1 >>] = r.sample]
        \/ /\ Valid(r.name) => ~Keeps(n, MAX_SERVER_IDENTICAL_CRASHES)
           /\ UNCHANGED server
  /\ UNCHANGED << locals, fuzzers, counts >>
-----------------------------------------------------------------------------
\* A fuzzer process dies and is started again: its map of names is not saved, its
\* directory stays.
RestartFuzzer(f) ==
  /\ faults + restarts < MaxFailures
  /\ restarts' = restarts + 1
  /\ Returns({ t \in Threads : Process[t] = f })
  /\ tries' = [t \in Threads |-> IF Process[t] = f THEN 0 ELSE tries[t]]
  /\ unique_crashes' = [unique_crashes EXCEPT ![f] = NoCrashes]
  /\ UNCHANGED << crash_dir, reports, server, crashes, faults >>
-----------------------------------------------------------------------------
Thread(t) == \/ Reproduced(t) \/ NotReproduced(t) \/ CountCrash(t)
             \/ SaveCrash(t) \/ ReportCrash(t)
Serve == \E i \in 1 .. Len(reports) : ServeReport(i)

Next == \/ \E t \in Threads : RunCrashes(t) \/ Thread(t)
        \/ Serve
        \/ \E i \in 1 .. Len(reports) : LoseReport(i)
        \/ \E f \in Fuzzers : RestartFuzzer(f)

Spec == Init /\ [][Next]_vars

\* Threads run, tries end, and the server's threads are scheduled.
FairSpec == Spec /\ (\A t \in Threads : WF_vars(Thread(t))) /\ WF_vars(Serve)
-----------------------------------------------------------------------------
Dirs(max) == [Names \X (1 .. max) -> Nat]

TypeOK ==
  /\ pc \in [Threads -> {"idle", "reproduce", "count", "save", "report"}]
  /\ sample \in [Threads -> Nat]
  /\ crash_desc \in [Threads -> Names \cup {NoName}]
  /\ tries \in [Threads -> 0 .. crash_reproduce_retries]
  /\ duplicates \in [Threads -> 0 .. MAX_IDENTICAL_CRASHES]
  /\ unique_crashes \in [Fuzzers -> [Names -> 0 .. MAX_IDENTICAL_CRASHES]]
  /\ crash_dir \in [Fuzzers -> Dirs(MAX_IDENTICAL_CRASHES)]
  /\ reports \in Seq([sample : Nat, name : Names])
  /\ server_crashes \in [Names -> 0 .. MAX_SERVER_IDENTICAL_CRASHES]
  /\ server_dir \in Dirs(MAX_SERVER_IDENTICAL_CRASHES)
  /\ {crashes, faults, restarts} \subseteq Nat

\* No crash is written over, whichever threads and processes report crashes of the
\* same name at once: on the server also when fuzzers are restarted, in a fuzzer's
\* directory as long as it is not (its counts are not saved).
Kept(dir, new) == \A file \in DOMAIN dir : dir[file] # 0 => new[file] = dir[file]
CrashesKept ==
  [][/\ Kept(server_dir, server_dir')
     /\ restarts = 0 => \A f \in Fuzzers : Kept(crash_dir[f], crash_dir'[f])]_vars

\* Of every name the server has all the crashes the fuzzers have counted, or as many
\* as it keeps, but for those about to be sent and those on their way.  Crashes are
\* counted as pairs of a fuzzer and a number.
Reporting(n) == Cardinality({ t \in Threads : pc[t] \in {"save", "report"} /\ crash_desc[t] = n })
OnTheWay(n) == Cardinality({ i \in 1 .. Len(reports) : reports[i].name = n })
Counted(n) == { c \in Fuzzers \X (1 .. MAX_IDENTICAL_CRASHES) : c[2] <= unique_crashes[c[1]][n] }
Served(n) == Cardinality(Counted(n)) - Reporting(n) - OnTheWay(n)
ServerHasWhatItKeeps ==
  faults = 0 /\ restarts = 0 =>
    \A n \in Names : Valid(n) =>
      server_crashes[n] = IF Served(n) < MAX_SERVER_IDENTICAL_CRASHES
                            THEN Served(n) ELSE MAX_SERVER_IDENTICAL_CRASHES

\* A crash that one fuzzer counts gets to the server, unless its report is lost or a
\* fuzzer is restarted.
EveryCrashReachesServer ==
  \A n \in { m \in Names : Valid(m) } :
    (\E f \in Fuzzers : unique_crashes[f][n] > 0)
      ~> (server_crashes[n] > 0 \/ faults > 0 \/ restarts > 0)
=============================================================================
