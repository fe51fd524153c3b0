-------------------------- MODULE SanCovTargetProofs --------------------------
(***************************************************************************)
(* The safety properties of SanCovTarget, for any number of edges, process *)
(* slots and iterations.                                                   *)
(***************************************************************************)
EXTENDS SanCovTarget, SequenceTheorems, TLAPS

\* Where the current target may be, and what the pipes then hold, for every step of
\* the fuzzer thread.
Pipes ==
  /\ pid = NoProc => pc \in {"idle", "ran"} /\ toFuzzer = << >> /\ toTarget = 0
  /\ pid # NoProc =>
       /\ pc \in {"idle", "ran"} =>
            at[pid] \in {"post", "dead"} /\ toFuzzer = << >> /\ toTarget = 0
       /\ pc \in {"started", "restarted"} =>
            \/ at[pid] = "loop" /\ toFuzzer = << >> /\ toTarget = 0
            \/ at[pid] = "pre" /\ toFuzzer = << "k" >> /\ toTarget = 0
            \/ pc = "started" /\ at[pid] = "post" /\ toFuzzer = << >> /\ toTarget = 1
            \/ at[pid] = "dead" /\ toFuzzer \in {<< >>, << "k" >>}
       /\ pc = "running" =>
            \/ at[pid] = "pre" /\ toFuzzer = << >> /\ toTarget = 1
            \/ at[pid] = "body" /\ toFuzzer = << >> /\ toTarget = 0
            \/ at[pid] = "done" /\ toFuzzer = << "d" >> /\ toTarget = 0
            \/ at[pid] = "post" /\ toFuzzer = << "d", "v" >> /\ toTarget = 0
            \/ at[pid] = "dead" /\ toFuzzer = << >>
            \/ at[pid] = "dead" /\ toFuzzer \in {<< "d" >>, << "d", "v" >>} /\ toTarget = 0
       /\ pc = "value" =>
            \/ at[pid] = "done" /\ toFuzzer = << >> /\ toTarget = 0
            \/ at[pid] = "post" /\ toFuzzer = << "v" >> /\ toTarget = 0
            \/ at[pid] = "dead" /\ toFuzzer \in {<< >>, << "v" >>} /\ toTarget = 0
       /\ pc = "fatal" => at[pid] = "dead" \/ (at[pid] \in {"loop", "pre"} /\ toTarget = 0)
       /\ pc = "sigpipe" => at[pid] = "dead"

\* cur_iteration counts the samples of the current process, and a sample is only
\* started when one more is allowed.
Iterations ==
  /\ IterationsBounded
  /\ pid # NoProc =>
       /\ pc \in {"idle", "ran", "started", "restarted"} => finished[pid] <= cur_iteration
       /\ pc \in {"running", "value"} => finished[pid] <= cur_iteration + 1
       /\ pc = "running" /\ at[pid] \in {"pre", "body"} => finished[pid] <= cur_iteration
       /\ pc \in {"started", "restarted", "running", "value"} => cur_iteration < NumIterations

IInv == TypeOK /\ OneTarget /\ Pipes /\ Iterations

\* Coverage that is new and in the bitmap is the current run's.
OwnInv ==
  /\ pc = "idle" => NewOffsets = {} /\ reported \subseteq ran
  /\ pc # "idle" => NewOffsets \subseteq ran

\* What the current sample ran is in the bitmap, although its guards only fire once.
CompleteInv ==
  /\ pc # "idle" => body \subseteq cov_shm
  /\ pid # NoProc /\ at[pid] \in {"pre", "body"} => Edges \ guards[pid] \subseteq cov_shm
  /\ pc = "idle" => expected \subseteq reported
-----------------------------------------------------------------------------

\* The contents the pipe to the fuzzer ever has.
LEMMA PipeContents ==
  /\ Append(<< >>, "k") = << "k" >> /\ Append(<< >>, "d") = << "d" >>
  /\ Append(<< >>, "v") = << "v" >> /\ Append(<< "d" >>, "v") = << "d", "v" >>
  /\ Head(<< "k" >>) = "k" /\ Tail(<< "k" >>) = << >>
  /\ Head(<< "d" >>) = "d" /\ Tail(<< "d" >>) = << >>
  /\ Head(<< "v" >>) = "v" /\ Tail(<< "v" >>) = << >>
  /\ Head(<< "d", "v" >>) = "d" /\ Tail(<< "d", "v" >>) = << "v" >>
  /\ << "k" >> # << >> /\ << "d" >> # << >> /\ << "v" >> # << >> /\ << "d", "v" >> # << >>
  /\ {<< >>, << "k" >>, << "d" >>, << "v" >>, << "d", "v" >>} \subseteq Seq({"k", "d", "v"})
<1>1. Append(<< >>, "k") = << "k" >> /\ Append(<< >>, "d") = << "d" >>
  OBVIOUS
<1>2. Append(<< >>, "v") = << "v" >> /\ Append(<< "d" >>, "v") = << "d", "v" >>
  <2>1. Append(<< >>, "v") = << "v" >>
    OBVIOUS
  <2>2. << "d" >> \in Seq({"d", "v"}) /\ << "d", "v" >> \in Seq({"d", "v"})
    OBVIOUS
  <2>3. /\ Append(<< "d" >>, "v") \in Seq({"d", "v"}) /\ Len(Append(<< "d" >>, "v")) = 2
        /\ Append(<< "d" >>, "v")[1] = "d" /\ Append(<< "d" >>, "v")[2] = "v"
    BY <2>2, AppendProperties
  <2>4. Append(<< "d" >>, "v") = << "d", "v" >>
    <3>1. Len(<< "d", "v" >>) = 2 /\ << "d", "v" >>[1] = "d" /\ << "d", "v" >>[2] = "v"
      OBVIOUS
    <3>2. \A i \in 1 .. 2 : Append(<< "d" >>, "v")[i] = << "d", "v" >>[i]
      BY <2>3, <3>1
    <3> QED BY <2>2, <2>3, <3>1, <3>2, SeqEqual
  <2> QED BY <2>1, <2>4
<1>3. Head(<< "k" >>) = "k" /\ Tail(<< "k" >>) = << >>
  OBVIOUS
<1>4. Head(<< "d" >>) = "d" /\ Tail(<< "d" >>) = << >>
  OBVIOUS
<1>5. Head(<< "v" >>) = "v" /\ Tail(<< "v" >>) = << >>
  OBVIOUS
<1>6. Head(<< "d", "v" >>) = "d" /\ Tail(<< "d", "v" >>) = << "v" >>
  OBVIOUS
<1>7. << "k" >> # << >> /\ << "d" >> # << >> /\ << "v" >> # << >> /\ << "d", "v" >> # << >>
  OBVIOUS
<1>8. {<< >>, << "k" >>, << "d" >>, << "v" >>, << "d", "v" >>} \subseteq Seq({"k", "d", "v"})
  OBVIOUS
<1> QED BY <1>1, <1>2, <1>3, <1>4, <1>5, <1>6, <1>7, <1>8

\* A new process is the only one.
LEMMA NewTarget ==
  ASSUME IInv, StartTarget
  PROVE  /\ pid' \in Procs /\ at' \in [Procs -> {"loop", "pre", "body", "done", "post"} \cup Gone]
         /\ guards' \in [Procs -> SUBSET Edges] /\ finished' \in [Procs -> Nat]
         /\ OneTarget' /\ IterationsBounded'
         /\ at'[pid'] = "loop" /\ finished'[pid'] = 0 /\ cur_iteration' = 0
         /\ toFuzzer' = << >> /\ toTarget' = 0
<1> USE TargetAssumption
<1>1. PICK p \in Procs :
        /\ Killed(at)[p] = "free"
        /\ pid' = p /\ at' = [Killed(at) EXCEPT ![p] = "loop"]
        /\ guards' = [guards EXCEPT ![p] = Edges]
        /\ finished' = [finished EXCEPT ![p] = 0]
        /\ cur_iteration' = 0
        /\ toFuzzer' = << >> /\ toTarget' = 0
  BY DEF StartTarget, FirstIteration
<1>2. /\ at \in [Procs -> {"loop", "pre", "body", "done", "post"} \cup Gone]
      /\ guards \in [Procs -> SUBSET Edges] /\ finished \in [Procs -> Nat]
      /\ pid \in Procs \cup {NoProc}
  BY DEF IInv, TypeOK
<1>3. Killed(at) \in [Procs -> {"loop", "pre", "body", "done", "post"} \cup Gone]
  BY <1>2 DEF Killed, Gone
<1>4. \A q \in Procs : Killed(at)[q] = "free"
  BY <1>2 DEF Killed, IInv, OneTarget
<1>5. OneTarget'
  BY <1>1, <1>3, <1>4 DEF OneTarget
<1>6. IterationsBounded'
  BY <1>1, <1>2 DEF IInv, Iterations, IterationsBounded
<1> QED BY <1>1, <1>2, <1>3, <1>5, <1>6

\* Every step preserves the invariant.
LEMMA NextIInv ==
  ASSUME IInv, [Next]_vars
  PROVE  IInv'
<1> USE TargetAssumption
<1>0. IInv
  OBVIOUS
<1>1. ASSUME Run PROVE IInv'
  <2>1. TypeOK'
    BY <1>1, <1>0, NewTarget DEF Run, Continue, IterationsDone, IInv, TypeOK, Pipes,
                                 targets, outcome
  <2>2. OneTarget'
    BY <1>1, <1>0, NewTarget DEF Run, Continue, IterationsDone, IInv, OneTarget, targets
  <2>3. Pipes'
    BY <1>1, <1>0, NewTarget DEF Run, Continue, IterationsDone, IInv, Pipes, targets
  <2>4. Iterations'
    BY <1>1, <1>0, NewTarget DEF Run, Continue, IterationsDone, IInv, TypeOK, Iterations,
                                 IterationsBounded, targets
  <2> QED BY <2>1, <2>2, <2>3, <2>4 DEF IInv
<1>2. ASSUME TargetReached PROVE IInv'
  <2>1. TypeOK'
    BY <1>2, <1>0 DEF TargetReached, Receives, Continue, IInv, TypeOK, fuzzer, targets,
                      history, outcome
  <2>2. OneTarget'
    BY <1>2, <1>0 DEF TargetReached, Receives, Continue, IInv, OneTarget, fuzzer, targets
  <2>3. Pipes'
    BY <1>2, <1>0 DEF TargetReached, Receives, Continue, IInv, TypeOK, Pipes, fuzzer,
                      targets
  <2>4. Iterations'
    BY <1>2, <1>0 DEF TargetReached, Receives, Continue, IInv, TypeOK, Iterations,
                      IterationsBounded, fuzzer, targets
  <2> QED BY <2>1, <2>2, <2>3, <2>4 DEF IInv
<1>3. ASSUME RetryClean PROVE IInv'
  <2>1. TypeOK'
    BY <1>3, <1>0, NewTarget DEF RetryClean, Fails, IInv, TypeOK, Pipes, history, outcome
  <2>2. OneTarget'
    BY <1>3, <1>0, NewTarget DEF RetryClean, Fails
  <2>3. Pipes'
    BY <1>3, <1>0, NewTarget DEF RetryClean, Fails, Pipes
  <2>4. Iterations'
    BY <1>3, <1>0, NewTarget DEF RetryClean, Fails, Iterations
  <2> QED BY <2>1, <2>2, <2>3, <2>4 DEF IInv
<1>4. ASSUME NotReached PROVE IInv'
  <2>1. TypeOK'
    BY <1>4, <1>0 DEF NotReached, Fails, IInv, TypeOK, fuzzer, pipes, targets, history,
                      outcome
  <2>2. OneTarget'
    BY <1>4, <1>0 DEF NotReached, Fails, IInv, OneTarget, fuzzer, targets
  <2>3. Pipes'
    BY <1>4, <1>0 DEF NotReached, Fails, IInv, Pipes, fuzzer, pipes, targets
  <2>4. Iterations'
    BY <1>4, <1>0 DEF NotReached, Fails, IInv, Iterations, IterationsBounded, targets
  <2> QED BY <2>1, <2>2, <2>3, <2>4 DEF IInv
<1>5. ASSUME Done PROVE IInv'
  <2>1. TypeOK'
    BY <1>5, <1>0 DEF Done, Receives, IInv, TypeOK, fuzzer, targets, history, outcome
  <2>2. OneTarget'
    BY <1>5, <1>0 DEF Done, Receives, IInv, OneTarget, fuzzer, targets
  <2>3. Pipes'
    BY <1>5, <1>0, PipeContents DEF Done, Receives, IInv, Pipes, fuzzer, targets
  <2>4. Iterations'
    BY <1>5, <1>0 DEF Done, Receives, IInv, Iterations, IterationsBounded, fuzzer, targets
  <2> QED BY <2>1, <2>2, <2>3, <2>4 DEF IInv
<1>6. ASSUME ReturnValue PROVE IInv'
  <2>1. TypeOK'
    BY <1>6, <1>0 DEF ReturnValue, Receives, ValueRead, Returns, IInv, TypeOK, Pipes,
                      Iterations, targets, history, outcome
  <2>2. OneTarget'
    BY <1>6, <1>0 DEF ReturnValue, Receives, ValueRead, Returns, IInv, OneTarget, targets
  <2>3. Pipes'
    BY <1>6, <1>0 DEF ReturnValue, Receives, ValueRead, Returns, IInv, Pipes, targets
  <2>4. Iterations'
    BY <1>6, <1>0 DEF ReturnValue, Receives, ValueRead, Returns, IInv, Iterations,
                      IterationsBounded, targets
  <2> QED BY <2>1, <2>2, <2>3, <2>4 DEF IInv
<1>7. ASSUME Hang PROVE IInv'
  <2>1. TypeOK'
    BY <1>7, <1>0 DEF Hang, TimesOut, Kill, Killed, Returns, IInv, TypeOK, Gone, history,
                      outcome
  <2>2. OneTarget'
    BY <1>7, <1>0 DEF Hang, TimesOut, Kill, Killed, Returns, IInv, TypeOK, OneTarget
  <2>3. Pipes'
    BY <1>7, <1>0 DEF Hang, TimesOut, Kill, Killed, Returns, Pipes
  <2>4. Iterations'
    BY <1>7, <1>0 DEF Hang, TimesOut, Kill, Killed, Returns, IInv, Iterations,
                      IterationsBounded
  <2> QED BY <2>1, <2>2, <2>3, <2>4 DEF IInv
<1>8. ASSUME OtherError PROVE IInv'
  <2>1. TypeOK'
    BY <1>8, <1>0 DEF OtherError, Fails, Kill, Killed, Returns, IInv, TypeOK, Gone,
                      history, outcome
  <2>2. OneTarget'
    BY <1>8, <1>0 DEF OtherError, Fails, Kill, Killed, Returns, IInv, TypeOK, OneTarget
  <2>3. Pipes'
    BY <1>8, <1>0 DEF OtherError, Fails, Kill, Killed, Returns, Pipes
  <2>4. Iterations'
    BY <1>8, <1>0 DEF OtherError, Fails, Kill, Killed, Returns, IInv, Iterations,
                      IterationsBounded
  <2> QED BY <2>1, <2>2, <2>3, <2>4 DEF IInv
<1>9. ASSUME Crash PROVE IInv'
  <2>1. TypeOK'
    BY <1>9, <1>0 DEF Crash, Closed, Kill, Killed, Returns, IInv, TypeOK, Gone, history,
                      outcome
  <2>2. OneTarget'
    BY <1>9, <1>0 DEF Crash, Closed, Kill, Killed, Returns, IInv, TypeOK, OneTarget
  <2>3. Pipes'
    BY <1>9, <1>0 DEF Crash, Closed, Kill, Killed, Returns, Pipes
  <2>4. Iterations'
    BY <1>9, <1>0 DEF Crash, Closed, Kill, Killed, Returns, IInv, Iterations,
                      IterationsBounded
  <2> QED BY <2>1, <2>2, <2>3, <2>4 DEF IInv
<1>10. ASSUME GetCoverage PROVE IInv'
  <2>1. TypeOK'
    BY <1>10, <1>0 DEF GetCoverage, NewOffsets, IInv, TypeOK, fuzzer, pipes, targets,
                       history
  <2>2. OneTarget'
    BY <1>10, <1>0 DEF GetCoverage, NewOffsets, IInv, OneTarget, fuzzer, targets
  <2>3. Pipes'
    BY <1>10, <1>0 DEF GetCoverage, NewOffsets, IInv, Pipes, fuzzer, pipes, targets
  <2>4. Iterations'
    BY <1>10, <1>0 DEF GetCoverage, NewOffsets, IInv, Iterations, IterationsBounded,
                       fuzzer, targets
  <2> QED BY <2>1, <2>2, <2>3, <2>4 DEF IInv
<1>11. ASSUME ClearCoverage PROVE IInv'
  <2>1. TypeOK'
    BY <1>11, <1>0 DEF ClearCoverage, IInv, TypeOK, fuzzer, pipes, targets, history
  <2>2. OneTarget'
    BY <1>11, <1>0 DEF ClearCoverage, IInv, OneTarget, fuzzer, targets
  <2>3. Pipes'
    BY <1>11, <1>0 DEF ClearCoverage, IInv, Pipes, fuzzer, pipes, targets
  <2>4. Iterations'
    BY <1>11, <1>0 DEF ClearCoverage, IInv, Iterations, IterationsBounded, fuzzer, targets
  <2> QED BY <2>1, <2>2, <2>3, <2>4 DEF IInv
<1>12. ASSUME IgnoreCoverage PROVE IInv'
  <2>1. TypeOK'
    BY <1>12, <1>0 DEF IgnoreCoverage, IInv, TypeOK, pipes, targets, history
  <2>2. OneTarget'
    BY <1>12, <1>0 DEF IgnoreCoverage, IInv, OneTarget, targets
  <2>3. Pipes'
    BY <1>12, <1>0 DEF IgnoreCoverage, IInv, Pipes, pipes, targets
  <2>4. Iterations'
    BY <1>12, <1>0 DEF IgnoreCoverage, IInv, Iterations, IterationsBounded, targets
  <2> QED BY <2>1, <2>2, <2>3, <2>4 DEF IInv
<1>13. ASSUME CleanTarget PROVE IInv'
  <2>1. TypeOK'
    BY <1>13, <1>0 DEF CleanTarget, Kill, Killed, IInv, TypeOK, Gone, history, outcome
  <2>2. OneTarget'
    BY <1>13, <1>0 DEF CleanTarget, Kill, Killed, IInv, TypeOK, OneTarget
  <2>3. Pipes'
    BY <1>13, <1>0 DEF CleanTarget, Kill, Killed, Pipes
  <2>4. Iterations'
    BY <1>13, <1>0 DEF CleanTarget, Kill, Killed, IInv, Iterations, IterationsBounded
  <2> QED BY <2>1, <2>2, <2>3, <2>4 DEF IInv
<1>14. ASSUME NEW p \in Procs, TraceEdge(p) PROVE IInv'
  <2>1. TypeOK'
    <3>1. PICK e \in Edges :
            /\ cov_shm' = cov_shm \/ cov_shm' = cov_shm \cup {e}
            /\ guards' = [guards EXCEPT ![p] = guards[p] \ {e}]
            /\ ran' = ran \/ ran' = ran \cup {e}
            /\ body' = body \/ body' = body \cup {e}
      BY <1>14 DEF TraceEdge
    <3>2. cov_shm' \in SUBSET Edges /\ ran' \in SUBSET Edges /\ body' \in SUBSET Edges
      BY <1>0, <3>1 DEF IInv, TypeOK
    <3>3. guards' \in [Procs -> SUBSET Edges]
      BY <1>0, <3>1 DEF IInv, TypeOK
    <3> QED BY <1>14, <1>0, <3>2, <3>3 DEF TraceEdge, IInv, TypeOK, fuzzer, pipes, outcome
  <2>2. OneTarget'
    BY <1>14, <1>0 DEF TraceEdge, IInv, OneTarget, fuzzer
  <2>3. Pipes'
    BY <1>14, <1>0 DEF TraceEdge, IInv, Pipes, fuzzer, pipes
  <2>4. Iterations'
    BY <1>14, <1>0 DEF TraceEdge, IInv, Iterations, IterationsBounded, fuzzer
  <2> QED BY <2>1, <2>2, <2>3, <2>4 DEF IInv
<1>15. ASSUME NEW p \in Procs, PreFuzz(p) PROVE IInv'
  <2>1. TypeOK'
    BY <1>15, <1>0 DEF PreFuzz, GuardsReset, Moves, IInv, TypeOK, fuzzer, history, outcome
  <2>2. OneTarget'
    BY <1>15, <1>0 DEF PreFuzz, GuardsReset, Moves, IInv, OneTarget, fuzzer
  <2>3. Pipes'
    BY <1>15, <1>0, PipeContents DEF PreFuzz, GuardsReset, Moves, IInv, TypeOK, Pipes,
                                     fuzzer
  <2>4. Iterations'
    BY <1>15, <1>0 DEF PreFuzz, GuardsReset, Moves, IInv, Pipes, Iterations,
                       IterationsBounded, fuzzer
  <2> QED BY <2>1, <2>2, <2>3, <2>4 DEF IInv
<1>16. ASSUME NEW p \in Procs, TargetContinues(p) PROVE IInv'
  <2>1. TypeOK'
    <3>1. toTarget' \in Nat
      BY <1>16, <1>0 DEF TargetContinues, IInv, TypeOK
    <3>2. at' \in [Procs -> {"loop", "pre", "body", "done", "post"} \cup Gone]
      BY <1>16, <1>0 DEF TargetContinues, Moves, IInv, TypeOK
    <3> QED BY <1>16, <1>0, <3>1, <3>2 DEF TargetContinues, IInv, TypeOK, fuzzer, history, outcome
  <2>2. OneTarget'
    BY <1>16, <1>0 DEF TargetContinues, Moves, IInv, TypeOK, OneTarget, fuzzer
  <2>3. Pipes'
    BY <1>16, <1>0 DEF TargetContinues, Moves, IInv, TypeOK, Pipes, fuzzer
  <2>4. Iterations'
    BY <1>16, <1>0 DEF TargetContinues, Moves, IInv, TypeOK, Iterations, IterationsBounded,
                       fuzzer
  <2> QED BY <2>1, <2>2, <2>3, <2>4 DEF IInv
<1>17. ASSUME NEW p \in Procs, PostFuzz(p) PROVE IInv'
  <2>1. TypeOK'
    BY <1>17, <1>0 DEF PostFuzz, Moves, IInv, TypeOK, fuzzer, history, outcome
  <2>2. OneTarget'
    BY <1>17, <1>0 DEF PostFuzz, Moves, IInv, OneTarget, fuzzer
  <2>3. Pipes'
    BY <1>17, <1>0, PipeContents DEF PostFuzz, Moves, IInv, TypeOK, Pipes, fuzzer
  <2>4. Iterations'
    BY <1>17, <1>0 DEF PostFuzz, Moves, IInv, TypeOK, Pipes, Iterations, IterationsBounded,
                       fuzzer
  <2> QED BY <2>1, <2>2, <2>3, <2>4 DEF IInv
<1>18. ASSUME NEW p \in Procs, WriteValue(p) PROVE IInv'
  <2>1. TypeOK'
    BY <1>18, <1>0 DEF WriteValue, Moves, IInv, TypeOK, fuzzer, history, outcome
  <2>2. OneTarget'
    BY <1>18, <1>0 DEF WriteValue, Moves, IInv, OneTarget, fuzzer
  <2>3. Pipes'
    BY <1>18, <1>0, PipeContents DEF WriteValue, Moves, IInv, TypeOK, Pipes, fuzzer
  <2>4. Iterations'
    BY <1>18, <1>0 DEF WriteValue, Moves, IInv, Iterations, IterationsBounded, fuzzer
  <2> QED BY <2>1, <2>2, <2>3, <2>4 DEF IInv
<1>19. ASSUME NEW p \in Procs, Dies(p) PROVE IInv'
  <2>1. TypeOK'
    BY <1>19, <1>0 DEF Dies, Moves, IInv, TypeOK, Gone, fuzzer, pipes, history, outcome
  <2>2. OneTarget'
    BY <1>19, <1>0 DEF Dies, Moves, IInv, TypeOK, OneTarget, fuzzer
  <2>3. Pipes'
    BY <1>19, <1>0 DEF Dies, Moves, IInv, Pipes, fuzzer, pipes
  <2>4. Iterations'
    BY <1>19, <1>0 DEF Dies, Moves, IInv, Iterations, IterationsBounded, fuzzer
  <2> QED BY <2>1, <2>2, <2>3, <2>4 DEF IInv
<1>20. CASE UNCHANGED vars
  BY <1>20, <1>0 DEF IInv, TypeOK, OneTarget, Pipes, Iterations, IterationsBounded, vars,
                     fuzzer, pipes, targets, history, outcome
<1> QED BY <1>1, <1>2, <1>3, <1>4, <1>5, <1>6, <1>7, <1>8, <1>9, <1>10, <1>11, <1>12,
        <1>13, <1>14, <1>15, <1>16, <1>17, <1>18, <1>19, <1>20 DEF Next, Fuzzer, Target

\* No process runs, and nothing is in the pipes, when the fuzzer starts.
LEMMA InitIInv == Init => IInv
<1> SUFFICES ASSUME Init PROVE IInv
  OBVIOUS
<1> USE TargetAssumption
<1>1. << >> \in Seq({"k", "d", "v"})
  BY PipeContents
<1>2. TypeOK
  BY <1>1 DEF Init, TypeOK, Gone
<1>3. OneTarget /\ Pipes /\ Iterations
  BY DEF Init, OneTarget, Pipes, Iterations, IterationsBounded
<1> QED BY <1>2, <1>3 DEF IInv

\* The inductive invariant: targets, pipes and iterations fit together at every step
\* of fuzzer and target.
THEOREM TargetInvariant == Spec => []IInv
<1>1. Init => IInv
  BY InitIInv
<1>2. IInv /\ [Next]_vars => IInv'
  BY NextIInv
<1> QED BY <1>1, <1>2, PTL DEF Spec

\* Kill never leaves a target behind, and no two targets exist.
THEOREM OnlyOneTarget == Spec => []OneTarget
<1>1. IInv => OneTarget
  BY DEF IInv
<1> QED BY <1>1, TargetInvariant, PTL

\* While coverage is read and cleared and a sample is delivered, no target runs code.
THEOREM QuietTargets == Spec => []QuietBetweenRuns
<1>1. IInv => QuietBetweenRuns
  <2> SUFFICES ASSUME IInv, pc \in {"idle", "ran"}, NEW p \in Procs
               PROVE  at[p] \in {"post"} \cup Gone
    BY DEF QuietBetweenRuns
  <2>1. CASE p = pid
    BY <2>1, TargetAssumption DEF IInv, Pipes, Gone
  <2>2. CASE p # pid
    BY <2>2 DEF IInv, OneTarget, Gone
  <2> QED BY <2>1, <2>2
<1> QED BY <1>1, TargetInvariant, PTL

\* However timeouts race late answers, the byte that arrives is the one GetStatus
\* expects.
THEOREM AlwaysInStep == Spec => []InStep
<1>1. IInv => InStep
  <2> SUFFICES ASSUME IInv, toFuzzer # << >>
               PROVE  CASE pc \in {"started", "restarted"} -> Head(toFuzzer) = "k"
                        [] pc = "running" -> Head(toFuzzer) = "d"
                        [] pc = "value" -> Head(toFuzzer) = "v"
                        [] OTHER -> pc \in {"fatal", "sigpipe"}
    BY DEF InStep
  <2>1. CASE pid = NoProc
    BY <2>1 DEF IInv, Pipes
  <2>2. CASE pid # NoProc
    <3>1. pc \in {"idle", "started", "restarted", "running", "value", "ran", "fatal", "sigpipe"}
      BY DEF IInv, TypeOK
    <3>2. pc \notin {"idle", "ran"}
      BY <2>2 DEF IInv, Pipes
    <3>3. pc \in {"started", "restarted"} => Head(toFuzzer) = "k"
      BY <2>2, PipeContents DEF IInv, Pipes
    <3>4. pc = "running" => Head(toFuzzer) = "d"
      BY <2>2, PipeContents DEF IInv, Pipes
    <3>5. pc = "value" => Head(toFuzzer) = "v"
      BY <2>2, PipeContents DEF IInv, Pipes
    <3> QED BY <3>1, <3>2, <3>3, <3>4, <3>5
  <2> QED BY <2>1, <2>2
<1> QED BY <1>1, TargetInvariant, PTL

\* No process runs more than -iterations samples, also when it was started by a retry.
THEOREM IterationsLimited == Spec => []IterationsBounded
<1>1. IInv => IterationsBounded
  BY DEF IInv, Iterations
<1> QED BY <1>1, TargetInvariant, PTL
-----------------------------------------------------------------------------
\* Coverage.  Indexes start at 1: what the loops of GetCoverage and ClearCoverage
\* miss is the last edge, when the number of edges is a multiple of 64, or of 8.

\* Every edge is in a word that GetCoverage scans.
LEMMA EdgesScanned ==
  ASSUME NumEdges % 64 # 0
  PROVE  Edges \subseteq ScannedBits
<1> USE TargetAssumption
<1> DEFINE Words == (Bytes + 7) \div 8
<1>1. Bytes \in Nat /\ 8 * Bytes >= NumEdges
  BY DEF Bytes
<1>2. Words \in Nat /\ 8 * Words >= Bytes
  BY <1>1
<1>3. 64 * Words >= NumEdges
  BY <1>1, <1>2
<1>4. 64 * Words # NumEdges
  BY <1>2
<1>5. \A e \in 1 .. NumEdges : e \in 0 .. 64 * Words - 1
  BY <1>2, <1>3, <1>4
<1> QED BY <1>5 DEF ScannedBits

\* ... and in a byte that ClearCoverage clears.
LEMMA EdgesCleared ==
  ASSUME NumEdges % 8 # 0
  PROVE  Edges \subseteq ClearedBits
<1> USE TargetAssumption
<1>1. Bytes \in Nat /\ 8 * Bytes >= NumEdges
  BY DEF Bytes
<1>2. 8 * Bytes # NumEdges
  BY <1>1
<1>3. \A e \in 1 .. NumEdges : e \in 0 .. 8 * Bytes - 1
  BY <1>1, <1>2
<1> QED BY <1>3 DEF ClearedBits

\* Only the current target writes the bitmap, and not between runs.
LEMMA TracedByTarget ==
  ASSUME IInv, NEW p \in Procs, TraceEdge(p)
  PROVE  p = pid /\ pc \notin {"idle", "ran"}
<1>1. p = pid
  BY DEF TraceEdge, IInv, OneTarget
<1>2. pid # NoProc
  BY <1>1, TargetAssumption
<1> QED BY <1>1, <1>2 DEF TraceEdge, IInv, Pipes

\* No step brings a bit of an earlier sample into the coverage of the current one.
LEMMA NextOwn ==
  ASSUME NumEdges % 8 # 0, IInv, OwnInv, [Next]_vars
  PROVE  OwnInv'
<1>0. NumEdges % 8 # 0 /\ IInv /\ OwnInv /\ cov_shm \subseteq Edges /\ Edges \subseteq ClearedBits
  BY EdgesCleared DEF IInv, TypeOK
<1>1. ASSUME Run PROVE OwnInv'
  BY <1>0, <1>1 DEF Run, OwnInv, NewOffsets, StartTarget, Continue, outcome
<1>2. ASSUME \/ TargetReached \/ RetryClean \/ NotReached \/ Done \/ ReturnValue
             \/ Hang \/ OtherError \/ Crash \/ CleanTarget
      PROVE  OwnInv'
  <2>1. UNCHANGED << virgin_bits, cov_shm, history, outcome >>
    BY <1>2 DEF TargetReached, RetryClean, NotReached, Done, ReturnValue, Hang, OtherError,
                Crash, CleanTarget, fuzzer, pipes, history, outcome
  <2>2. (UNCHANGED pc /\ pc = "idle") \/ (pc # "idle" /\ pc' # "idle")
    BY <1>2 DEF TargetReached, RetryClean, NotReached, Done, ReturnValue, Hang, OtherError,
                Crash, CleanTarget, Continue, Returns
  <2> QED BY <1>0, <2>1, <2>2 DEF OwnInv, NewOffsets, history, outcome
<1>3. ASSUME GetCoverage PROVE OwnInv'
  <2>1. NewOffsets \subseteq ran
    BY <1>0, <1>3 DEF GetCoverage, OwnInv
  <2>2. NewOffsets' = {}
    BY <1>0, <1>3 DEF GetCoverage, NewOffsets, fuzzer, pipes
  <2> QED BY <1>3, <2>1, <2>2 DEF GetCoverage, OwnInv, history
<1>4. ASSUME ClearCoverage PROVE OwnInv'
  BY <1>0, <1>4 DEF ClearCoverage, OwnInv, NewOffsets, fuzzer
<1>5. ASSUME IgnoreCoverage PROVE OwnInv'
  BY <1>0, <1>5 DEF IgnoreCoverage, OwnInv, NewOffsets
<1>6. ASSUME NEW p \in Procs, TraceEdge(p) PROVE OwnInv'
  <2>1. p = pid /\ pc # "idle"
    BY <1>0, <1>6, TracedByTarget
  <2>2. PICK e \in Edges : (cov_shm' = cov_shm \cup {e} \/ cov_shm' = cov_shm) /\ ran' = ran \cup {e}
    BY <1>6, <2>1 DEF TraceEdge
  <2>3. pc' = pc /\ virgin_bits' = virgin_bits
    BY <1>6 DEF TraceEdge, fuzzer
  <2> QED BY <1>0, <2>1, <2>2, <2>3 DEF OwnInv, NewOffsets
<1>7. ASSUME NEW p \in Procs,
             PreFuzz(p) \/ TargetContinues(p) \/ PostFuzz(p) \/ WriteValue(p) \/ Dies(p)
      PROVE  OwnInv'
  <2>1. UNCHANGED << pc, virgin_bits, cov_shm, history, outcome >>
    BY <1>7 DEF PreFuzz, TargetContinues, PostFuzz, WriteValue, Dies, fuzzer
  <2> QED BY <1>0, <2>1 DEF OwnInv, NewOffsets, history, outcome
<1>8. CASE UNCHANGED vars
  BY <1>0, <1>8 DEF OwnInv, NewOffsets, vars, fuzzer, history, outcome
<1> QED BY <1>1, <1>2, <1>3, <1>4, <1>5, <1>6, <1>7, <1>8 DEF Next, Fuzzer, Target

\* The coverage of a run is its own: what earlier samples and killed processes left in
\* the bitmap is never taken for it, unless the number of edges is a multiple of 8.
THEOREM CoverageOwned ==
  ASSUME NumEdges % 8 # 0
  PROVE  Spec => []CoverageIsOwn
<1>1. Init => OwnInv
  BY DEF Init, OwnInv, NewOffsets
<1>2. IInv /\ OwnInv /\ [Next]_vars => OwnInv'
  BY NextOwn
<1>3. OwnInv => CoverageIsOwn
  BY DEF OwnInv, CoverageIsOwn
<1> QED BY <1>1, <1>2, <1>3, TargetInvariant, PTL DEF Spec

\* No step loses a bit of the current sample.
LEMMA NextComplete ==
  ASSUME NumEdges % 64 # 0, IInv, CompleteInv, [Next]_vars
  PROVE  CompleteInv'
<1>0. NumEdges % 64 # 0 /\ IInv /\ CompleteInv /\ TypeOK /\ Edges \subseteq ScannedBits
  BY EdgesScanned DEF IInv
<1>1. ASSUME StartTarget, UNCHANGED cov_shm,
             (pc # "idle" /\ UNCHANGED body) \/ body' = {}, pc' # "idle"
      PROVE  CompleteInv'
  BY <1>0, <1>1, NewTarget DEF CompleteInv
<1>2. ASSUME Run PROVE CompleteInv'
  <2>1. body' = {} /\ UNCHANGED cov_shm /\ pc' # "idle"
    BY <1>2 DEF Run, Continue
  <2>2. CASE StartTarget
    BY <1>1, <2>1, <2>2
  <2>3. CASE UNCHANGED << pid, targets >>
    BY <1>0, <2>1, <2>3 DEF CompleteInv, targets
  <2> QED BY <1>2, <2>2, <2>3 DEF Run
<1>3. ASSUME RetryClean PROVE CompleteInv'
  BY <1>1, <1>3 DEF RetryClean, history
<1>4. ASSUME \/ TargetReached \/ NotReached \/ Done \/ ReturnValue
      PROVE  CompleteInv'
  <2>1. UNCHANGED << pid, cov_shm, at, guards, body >> /\ pc # "idle" /\ pc' # "idle"
    BY <1>4 DEF TargetReached, NotReached, Done, ReturnValue, Returns, Continue, fuzzer,
                targets,
                history
  <2> QED BY <1>0, <2>1 DEF CompleteInv
<1>5. ASSUME Hang \/ OtherError \/ Crash PROVE CompleteInv'
  <2>1. pid' = NoProc /\ UNCHANGED << cov_shm, body >> /\ pc # "idle" /\ pc' # "idle"
    BY <1>5 DEF Hang, OtherError, Crash, Returns, Kill, history
  <2> QED BY <1>0, <2>1 DEF CompleteInv
<1>6. ASSUME CleanTarget PROVE CompleteInv'
  BY <1>0, <1>6 DEF CleanTarget, Kill, CompleteInv, outcome
<1>7. ASSUME GetCoverage PROVE CompleteInv'
  <2>1. pc = "ran" /\ pc' = "idle" /\ UNCHANGED << pid, at, guards >>
    BY <1>7 DEF GetCoverage, fuzzer, targets
  <2>2. pid # NoProc => at[pid] \notin {"pre", "body"}
    BY <1>0, <2>1 DEF IInv, Pipes
  <2>3. body \cap virgin_bits \subseteq NewOffsets
    BY <1>0, <2>1 DEF CompleteInv, NewOffsets, TypeOK
  <2> QED BY <1>7, <2>1, <2>2, <2>3 DEF GetCoverage, CompleteInv
<1>8. ASSUME ClearCoverage PROVE CompleteInv'
  <2>1. pc = "ran" /\ pc' = "idle" /\ UNCHANGED << pid, at, guards >> /\ expected' = {}
    BY <1>8 DEF ClearCoverage, fuzzer, targets
  <2>2. pid # NoProc => at[pid] \notin {"pre", "body"}
    BY <1>0, <2>1 DEF IInv, Pipes
  <2> QED BY <2>1, <2>2 DEF CompleteInv
<1>9. ASSUME IgnoreCoverage PROVE CompleteInv'
  BY <1>0, <1>9 DEF IgnoreCoverage, CompleteInv, targets
<1>10. ASSUME NEW p \in Procs, TraceEdge(p) PROVE CompleteInv'
  <2>1. p = pid /\ pc # "idle"
    BY <1>0, <1>10, TracedByTarget
  <2>2. PICK e \in Edges :
          /\ \/ e \in guards[p] /\ cov_shm' = cov_shm \cup {e}
             \/ e \notin guards[p] /\ UNCHANGED cov_shm
          /\ guards' = [guards EXCEPT ![p] = guards[p] \ {e}]
          /\ body' = IF at[p] = "body" THEN body \cup {e} ELSE body
    BY <1>10, <2>1 DEF TraceEdge
  <2>3. pc' = pc /\ pid' = pid /\ at' = at
    BY <1>10 DEF TraceEdge, fuzzer
  <2>4. at[p] = "body" => e \in cov_shm'
    BY <1>0, <2>1, <2>2, TargetAssumption DEF CompleteInv
  <2>5. cov_shm \subseteq cov_shm' /\ (e \in guards[p] => e \in cov_shm')
    BY <2>2
  <2>6. guards'[p] = guards[p] \ {e}
    BY <1>0, <2>2 DEF TypeOK
  <2>7. at[p] \in {"pre", "body"} => Edges \ guards'[p] \subseteq cov_shm'
    BY <1>0, <2>1, <2>5, <2>6, TargetAssumption DEF CompleteInv
  <2>8. body' \subseteq cov_shm'
    BY <1>0, <2>1, <2>2, <2>4, <2>5 DEF CompleteInv
  <2> QED BY <2>1, <2>3, <2>7, <2>8 DEF CompleteInv
<1>11. ASSUME NEW p \in Procs, PreFuzz(p) PROVE CompleteInv'
  <2>1. p = pid /\ UNCHANGED << pc, pid, cov_shm, history, outcome >> /\ guards'[p] = Edges
    BY <1>0, <1>11 DEF PreFuzz, GuardsReset, TypeOK, fuzzer
  <2> QED BY <1>0, <2>1 DEF CompleteInv, history, outcome
<1>12. ASSUME NEW p \in Procs, TargetContinues(p) \/ PostFuzz(p) \/ WriteValue(p) \/ Dies(p)
       PROVE  CompleteInv'
  <2>1. UNCHANGED << pc, pid, cov_shm, guards, history, outcome >>
    BY <1>12 DEF TargetContinues, PostFuzz, WriteValue, Dies, fuzzer
  <2>2. pid \in Procs /\ at'[pid] \in {"pre", "body"} => at[pid] \in {"pre", "body"}
    BY <1>0, <1>12 DEF TargetContinues, PostFuzz, WriteValue, Dies, Moves, TypeOK
  <2> QED BY <1>0, <2>1, <2>2 DEF CompleteInv, TypeOK, history, outcome
<1>13. CASE UNCHANGED vars
  BY <1>0, <1>13 DEF CompleteInv, vars, fuzzer, targets, history, outcome
<1> QED BY <1>2, <1>3, <1>4, <1>5, <1>6, <1>7, <1>8, <1>9, <1>10, <1>11, <1>12, <1>13
        DEF Next, Fuzzer, Target

\* The coverage of a run is complete: edges disable their guards, are cleared and
\* ignored, and still none is missed, unless the number of edges is a multiple of 64.
THEOREM CoverageCompleted ==
  ASSUME NumEdges % 64 # 0
  PROVE  Spec => []CoverageIsComplete
<1>1. Init => CompleteInv
  BY DEF Init, CompleteInv
<1>2. IInv /\ CompleteInv /\ [Next]_vars => CompleteInv'
  BY NextComplete
<1>3. CompleteInv => CoverageIsComplete
  BY DEF CompleteInv, CoverageIsComplete
<1> QED BY <1>1, <1>2, <1>3, TargetInvariant, PTL DEF Spec

\* Both together: the coverage of a run is exact, unless the number of edges is a
\* multiple of 8 (and so perhaps of 64).
THEOREM CoverageExact ==
  ASSUME NumEdges % 8 # 0
  PROVE  Spec => []CoverageIsExact
<1>1. NumEdges % 64 # 0
  BY TargetAssumption
<1>2. Spec => []CoverageIsOwn
  BY CoverageOwned
<1>3. Spec => []CoverageIsComplete
  BY <1>1, CoverageCompleted
<1>4. CoverageIsOwn /\ CoverageIsComplete => CoverageIsExact
  BY DEF CoverageIsExact
<1> QED BY <1>2, <1>3, <1>4, PTL
=============================================================================
