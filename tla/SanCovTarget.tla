----------------------------- MODULE SanCovTarget -----------------------------
(***************************************************************************)
(* One fuzzer thread and its target under Sanitizer Coverage: the control  *)
(* protocol of SanCovInstrumentation (sancovinstrumentation.cpp) with      *)
(* __pre_fuzz and __post_fuzz (sancovclient.cpp) over two pipes, timeouts, *)
(* restarts of the target, and the coverage in shared memory.              *)
(*                                                                         *)
(* A target process loops as in JACKALOPE_FUZZ_LOOP; it may run any edge,  *)
(* hang (take no more steps), or die at any time, also between samples.    *)
(* Bits of cov_shm->edges and of virgin_bits are sets of edge indices; the *)
(* 8 and 64 bits of a byte and of a word are the code's.                   *)
(***************************************************************************)
EXTENDS Integers, Sequences

CONSTANTS Procs,          \* process slots, used again once a process is reaped
          NoProc,
          NumEdges,       \* guards in the target, numbered from 1
          Edges,          \* the edges its runs may reach
          NumIterations   \* -iterations

ASSUME TargetAssumption ==
  /\ NoProc \notin Procs
  /\ NumEdges \in Nat \ {0} /\ Edges \subseteq 1 .. NumEdges
  /\ NumIterations \in Nat \ {0}

VARIABLES
  \* SanCovInstrumentation
  pc, pid, cur_iteration, virgin_bits, result,
  \* the pipes: bytes to the fuzzer (ctrl_in), 'c's to the target (ctrl_out)
  toFuzzer, toTarget,
  \* shared memory
  cov_shm,
  \* target processes
  at, guards,
  \* history: the samples a process has finished; the edges the target ran, in all
  \* and between __pre_fuzz and __post_fuzz, since Run was called; what GetCoverage
  \* then returned, and what could be new
  finished, ran, body, reported, expected

fuzzer  == << pid, cur_iteration, virgin_bits, result >>
pipes   == << toFuzzer, toTarget >>
targets == << at, guards, finished >>
history == << ran, body >>
outcome == << reported, expected >>
vars == << pc, fuzzer, pipes, cov_shm, targets, history, outcome >>

Gone == {"free", "dead"}   \* no process in this slot, or a zombie

Init ==
  /\ pc = "idle" /\ pid = NoProc /\ cur_iteration = 0
  /\ virgin_bits = Edges /\ result = "OK"
  /\ toFuzzer = << >> /\ toTarget = 0
  /\ cov_shm = {}
  /\ at = [p \in Procs |-> "free"] /\ guards = [p \in Procs |-> {}]
  /\ finished = [p \in Procs |-> 0]
  /\ ran = {} /\ body = {} /\ reported = {} /\ expected = {}
-----------------------------------------------------------------------------
(* Processes and pipes.                                                    *)

\* Kill: SIGKILL and waitpid, then CleanupChild closes the pipes.
Abandoned(processes) == processes   \* mutant of Killed: CleanupChild alone
Killed(processes) ==
  IF pid = NoProc THEN processes ELSE [processes EXCEPT ![pid] = "free"]

Kill == /\ at' = Killed(at) /\ pid' = NoProc
        /\ toFuzzer' = << >> /\ toTarget' = 0

\* cur_iteration of a new process.
FirstIteration == 0

\* StartTarget: fork and exec, with new pipes, after the old process was killed.
StartTarget ==
  \E p \in Procs :
    /\ Killed(at)[p] = "free"
    /\ pid' = p /\ at' = [Killed(at) EXCEPT ![p] = "loop"]
    /\ guards' = [guards EXCEPT ![p] = Edges]
    /\ finished' = [finished EXCEPT ![p] = 0]
    /\ cur_iteration' = FirstIteration
    /\ toFuzzer' = << >> /\ toTarget' = 0

\* write(ctrl_out, "c", 1).  Without a reader the signal SIGPIPE, which the fuzzer
\* does not handle, ends it.
Continue(label) ==
  \/ /\ at[pid] # "dead"
     /\ toTarget' = toTarget + 1 /\ pc' = label
  \/ /\ at[pid] = "dead"
     /\ pc' = "sigpipe" /\ UNCHANGED toTarget
-----------------------------------------------------------------------------
(* SanCovInstrumentation::Run.                                             *)

\* Whether this process has run enough samples.
IterationsDone == cur_iteration = NumIterations

\* The sample was delivered, and Run is called: with a process that waits in
\* __post_fuzz, or with a new one.
Run ==
  /\ pc = "idle"
  /\ ran' = {} /\ body' = {}
  /\ \/ /\ pid = NoProc \/ IterationsDone
        /\ StartTarget /\ pc' = "started"
     \/ /\ pid # NoProc /\ ~IterationsDone
        /\ Continue("started")
        /\ UNCHANGED << pid, cur_iteration, toFuzzer, targets >>
  /\ UNCHANGED << virgin_bits, result, cov_shm, outcome >>

\* GetStatus: the expected byte, or another one; no byte before the poll times out,
\* or ever, as the target's end is closed.
Receives(byte) == toFuzzer # << >> /\ Head(toFuzzer) = byte
Fails(byte)    == toFuzzer # << >> => Head(toFuzzer) # byte
NeverTimesOut == FALSE   \* mutant of TimesOut: poll without a timeout
TimesOut == toFuzzer = << >> /\ at[pid] # "dead"
Closed   == toFuzzer = << >> /\ at[pid] = "dead"

\* 'k': the target is in __pre_fuzz, and may go on.
TargetReached ==
  /\ pc \in {"started", "restarted"} /\ Receives("k")
  /\ toFuzzer' = Tail(toFuzzer)
  /\ Continue("running")
  /\ UNCHANGED << fuzzer, cov_shm, targets, history, outcome >>

\* No 'k': a second try with a clean process.
RetryClean ==
  /\ pc = "started" /\ Fails("k")
  /\ StartTarget /\ pc' = "restarted"
  /\ UNCHANGED << virgin_bits, result, cov_shm, history, outcome >>

\* ... which must succeed: FATAL.
NotReached ==
  /\ pc = "restarted" /\ Fails("k")
  /\ pc' = "fatal"
  /\ UNCHANGED << fuzzer, pipes, cov_shm, targets, history, outcome >>

\* Run returns.
Returns(res) == result' = res /\ pc' = "ran"

\* 'd': the return value follows.
Done ==
  /\ pc = "running" /\ Receives("d")
  /\ toFuzzer' = Tail(toFuzzer)
  /\ pc' = "value"
  /\ UNCHANGED << fuzzer, toTarget, cov_shm, targets, history, outcome >>

\* What is left in the pipe when the return value has been read.
ValueLeft == toFuzzer   \* mutant of ValueRead
ValueRead == Tail(toFuzzer)

ReturnValue ==
  /\ pc = "value" /\ Receives("v")
  /\ toFuzzer' = ValueRead
  /\ cur_iteration' = cur_iteration + 1
  /\ Returns("OK")
  /\ UNCHANGED << pid, virgin_bits, toTarget, cov_shm, targets, history, outcome >>

\* The sample takes too long, or GetStatus has another error (reported as a crash):
\* the process is killed.
Hang ==
  /\ pc = "running" /\ TimesOut
  /\ Kill /\ Returns("HANG")
  /\ UNCHANGED << cur_iteration, virgin_bits, cov_shm, guards, finished, history, outcome >>

OtherError ==
  /\ pc \in {"running", "value"}
  /\ pc = "running" => toFuzzer # << >> /\ Fails("d")
  /\ pc = "value" => Fails("v")
  /\ Kill /\ Returns("CRASH")
  /\ UNCHANGED << cur_iteration, virgin_bits, cov_shm, guards, finished, history, outcome >>

\* The pipe is closed: the target died.  waitpid is tried for the timeout, then
\* the process is killed and reaped; either way it is gone.
Crash ==
  /\ pc = "running" /\ Closed
  /\ Kill /\ Returns("CRASH")
  /\ UNCHANGED << cur_iteration, virgin_bits, cov_shm, guards, finished, history, outcome >>
-----------------------------------------------------------------------------
(* Coverage.                                                               *)

Bytes == (NumEdges + 7) \div 8

\* The bits ClearCoverage clears, and the ones GetCoverage looks at, a word at a
\* time.  (An index starts at 1, so the last edge may be outside of both.)
ClearedBits == 0 .. 8 * Bytes - 1
ScannedBits == 0 .. 64 * ((Bytes + 7) \div 8) - 1

NewOffsets == cov_shm \cap virgin_bits \cap ScannedBits

\* GetCoverage(coverage, true), after every Run: it clears only what it reports.
GetCoverage ==
  /\ pc = "ran"
  /\ reported' = NewOffsets
  /\ expected' = body \cap virgin_bits
  /\ cov_shm' = IF NewOffsets = {} THEN cov_shm ELSE cov_shm \ ClearedBits
  /\ pc' = "idle"
  /\ UNCHANGED << fuzzer, pipes, targets, history >>

\* TryReproduceCrash only clears the coverage of its runs.
ClearCoverage ==
  /\ pc = "ran"
  /\ cov_shm' = cov_shm \ ClearedBits
  /\ reported' = {} /\ expected' = {}
  /\ pc' = "idle"
  /\ UNCHANGED << fuzzer, pipes, targets, history >>

\* IgnoreCoverage: RunSample has dealt with this coverage.
IgnoreCoverage ==
  /\ pc = "idle"
  /\ \E coverage \in SUBSET Edges :
       coverage # {} /\ virgin_bits' = virgin_bits \ coverage
  /\ reported' = {} /\ expected' = {}
  /\ UNCHANGED << pc, pid, cur_iteration, result, pipes, cov_shm, targets, history >>

\* CleanTarget, before coverage is reproduced or a sample is delivered again.
CleanTarget ==
  /\ pc = "idle" /\ pid # NoProc
  /\ Kill
  /\ UNCHANGED << pc, cur_iteration, virgin_bits, result, cov_shm, guards, finished,
                  history, outcome >>
-----------------------------------------------------------------------------
(* The target.                                                             *)

Moves(p, label) == at' = [at EXCEPT ![p] = label]

\* __sanitizer_cov_trace_pc_guard: an edge sets its bit once per sample.
TraceEdge(p) ==
  /\ at[p] \in {"loop", "body"}
  /\ \E e \in Edges :
       /\ \/ e \in guards[p] /\ cov_shm' = cov_shm \cup {e}
          \/ e \notin guards[p] /\ UNCHANGED cov_shm
       /\ guards' = [guards EXCEPT ![p] = @ \ {e}]
       /\ ran' = IF p = pid THEN ran \cup {e} ELSE ran
       /\ body' = IF p = pid /\ at[p] = "body" THEN body \cup {e} ELSE body
  /\ UNCHANGED << pc, fuzzer, pipes, at, finished, outcome >>

\* __sanitizer_cov_reset_edgeguards.
GuardsKept(p) == guards[p]   \* mutant of GuardsReset
GuardsReset(p) == Edges

\* __pre_fuzz, up to its read.  (A process the fuzzer has given up has no pipe to
\* write to and exits.)
PreFuzz(p) ==
  /\ at[p] = "loop" /\ p = pid
  /\ guards' = [guards EXCEPT ![p] = GuardsReset(p)]
  /\ toFuzzer' = Append(toFuzzer, "k")
  /\ Moves(p, "pre")
  /\ UNCHANGED << pc, fuzzer, toTarget, cov_shm, finished, history, outcome >>

\* The 'c' both functions wait for.
TargetContinues(p) ==
  /\ p = pid /\ toTarget > 0
  /\ \/ at[p] = "pre" /\ Moves(p, "body")
     \/ at[p] = "post" /\ Moves(p, "loop")
  /\ toTarget' = toTarget - 1
  /\ UNCHANGED << pc, fuzzer, toFuzzer, cov_shm, guards, finished, history, outcome >>

\* __post_fuzz: 'd', then the return value.
PostFuzz(p) ==
  /\ at[p] = "body" /\ p = pid
  /\ toFuzzer' = Append(toFuzzer, "d")
  /\ finished' = [finished EXCEPT ![p] = @ + 1]
  /\ Moves(p, "done")
  /\ UNCHANGED << pc, fuzzer, toTarget, cov_shm, guards, history, outcome >>

WriteValue(p) ==
  /\ at[p] = "done" /\ p = pid
  /\ toFuzzer' = Append(toFuzzer, "v")
  /\ Moves(p, "post")
  /\ UNCHANGED << pc, fuzzer, toTarget, cov_shm, guards, finished, history, outcome >>

\* A crash, an exit, or a signal from outside: the process is a zombie until it is
\* waited for.
Dies(p) ==
  /\ at[p] \notin Gone
  /\ Moves(p, "dead")
  /\ UNCHANGED << pc, fuzzer, pipes, cov_shm, guards, finished, history, outcome >>
-----------------------------------------------------------------------------
Fuzzer ==
  \/ Run \/ TargetReached \/ RetryClean \/ NotReached \/ Done \/ ReturnValue
  \/ Hang \/ OtherError \/ Crash
  \/ GetCoverage \/ ClearCoverage \/ IgnoreCoverage \/ CleanTarget

Target(p) ==
  \/ TraceEdge(p) \/ PreFuzz(p) \/ TargetContinues(p) \/ PostFuzz(p) \/ WriteValue(p)
  \/ Dies(p)

Next == Fuzzer \/ \E p \in Procs : Target(p)

Spec == Init /\ [][Next]_vars

\* The fuzzer thread runs, and every poll times out at last.  Nothing is assumed
\* of the target.
FairSpec == Spec /\ WF_vars(Fuzzer)
-----------------------------------------------------------------------------
TypeOK ==
  /\ pc \in {"idle", "started", "restarted", "running", "value", "ran", "fatal", "sigpipe"}
  /\ pid \in Procs \cup {NoProc} /\ cur_iteration \in 0 .. NumIterations
  /\ result \in {"OK", "CRASH", "HANG"}
  /\ virgin_bits \in SUBSET Edges /\ cov_shm \in SUBSET Edges
  /\ toFuzzer \in Seq({"k", "d", "v"}) /\ toTarget \in Nat
  /\ at \in [Procs -> {"loop", "pre", "body", "done", "post"} \cup Gone]
  /\ guards \in [Procs -> SUBSET Edges] /\ finished \in [Procs -> Nat]
  /\ {ran, body, reported, expected} \subseteq SUBSET Edges

\* No process outlives the run that gave it up, and none is left unreaped.
OneTarget == \A p \in Procs : at[p] # "free" => p = pid

\* Between runs, while coverage is read and cleared and the next sample is
\* delivered, no target process is on its way through code: it waits in
\* __post_fuzz, or there is none.
QuietBetweenRuns ==
  pc \in {"idle", "ran"} => \A p \in Procs : at[p] \in {"post"} \cup Gone

\* Fuzzer and target never get out of step, however timeouts and late answers
\* race: a byte that arrives is the one the fuzzer waits for.
InStep ==
  toFuzzer # << >> =>
    CASE pc \in {"started", "restarted"} -> Head(toFuzzer) = "k"
      [] pc = "running" -> Head(toFuzzer) = "d"
      [] pc = "value" -> Head(toFuzzer) = "v"
      [] OTHER -> pc \in {"fatal", "sigpipe"}

\* The coverage of a run is its own, and all of it: what earlier samples, killed
\* processes and ignored coverage left in the shared memory is not in it.
CoverageIsOwn == pc = "idle" => reported \subseteq ran
CoverageIsComplete == pc = "idle" => expected \subseteq reported
CoverageIsExact == CoverageIsOwn /\ CoverageIsComplete

\* A process runs at most -iterations samples.
IterationsBounded == \A p \in Procs : finished[p] <= NumIterations

\* Run always returns, whatever the target does.
RunReturns == (pc \notin {"idle", "ran"}) ~> (pc \in {"ran", "fatal", "sigpipe"})
=============================================================================
