------------------------------- MODULE FuzzerLocks -------------------------------
(***************************************************************************)
(* Which mutexes the threads of fuzzers and of the coverage server hold    *)
(* while they wait for another: every section of fuzzer.cpp, client.cpp    *)
(* and server.cpp that a mutex guards, and how sections nest.  What they   *)
(* do inside is in the other modules.                                      *)
(*                                                                         *)
(* A client waits for the answer to its request, so the locks its server   *)
(* thread takes are taken inside the client's sections.  Sections that     *)
(* follow each other with nothing held in between are operations of their  *)
(* own, taken in any order.                                                *)
(***************************************************************************)
EXTENDS Naturals, Sequences

CONSTANTS Threads,        \* fuzz threads, and the main thread of each fuzzer ...
          FuzzThreads,    \* ... of which these fuzz
          Fuzzer,         \* the process of each thread: fuzzers share no mutex
          StatusThread    \* the thread of the server that saves its state

ASSUME LocksAssumption == FuzzThreads \subseteq Threads /\ StatusThread \notin Threads

VARIABLE todo   \* per thread: what is left of its operation

Agents == Threads \cup {StatusThread}

\* Lock and Unlock of a mutex, LockRead and LockWrite of a ReadWriteMutex; "choose"
\* stands before a section of that many steps that a condition can leave out.
Lock(mutex, mode) == [do |-> "lock", mutex |-> mutex, mode |-> mode, steps |-> 0]
Unlock(mutex, mode) == [do |-> "unlock", mutex |-> mutex, mode |-> mode, steps |-> 0]

Section(mutex, body) == << Lock(mutex, "write") >> \o body \o << Unlock(mutex, "write") >>
ReadSection(mutex, body) == << Lock(mutex, "read") >> \o body \o << Unlock(mutex, "read") >>
Optional(body) ==
  << [do |-> "choose", mutex |-> "none", mode |-> "none", steps |-> Len(body)] >> \o body
Nothing == << >>
-----------------------------------------------------------------------------
\* The server's side of a request: the connection is counted before and after.
Served(body) == Section("connections", Nothing) \o body \o Section("connections", Nothing)

\* ReportNewCoverage reads what is new, and looks again to add it; ServeUpdates sends
\* all samples under the read lock.
NewCoverage == Served(ReadSection("corpus", Nothing) \o Optional(Section("corpus", Nothing)))
Updates == Served(ReadSection("corpus", Nothing))
CrashReport == Served(Section("server crashes", Nothing))
SaveServerState == ReadSection("corpus", Nothing)

\* SaveState and RestoreState of a fuzzer: the contexts of all entries, and the
\* statistics of the RepeatMutator.
StateSection ==
  Section("output", Section("coverage", Section("context", Nothing) \o Section("stats", Nothing)))

\* The first synchronisation reports all coverage before it gets samples.
SynchronizeAndGetJob ==
  Section("queue",
    Optional(StateSection) \o Optional(Section("coverage", Nothing)) \o
      Optional(Section("server", Optional(Section("coverage", NewCoverage)) \o Updates)))

\* RunSample and what it calls: a crash or a hang is saved, coverage is claimed and
\* reported; TrackHotOffsets takes the mutex of a context or of the trie.
SaveCrash ==
  {Section("crash", Nothing), Section("output", Nothing), Section("server", CrashReport)}
ReportCoverage == Section("server", NewCoverage)
ClaimCoverage == Section("coverage", Nothing)

\* Mutant of SaveSample: num_samples is read and the entry queued under output_mutex.
SaveSampleAtOnce == {Section("output", Section("trie", Nothing) \o Section("queue", Nothing))}
SaveSample ==
  {Section("output", Nothing), Section("trie", Nothing), Section("context", Nothing),
   Section("queue", Nothing)}

JobDone == Section("queue", Nothing)
NotifyResult == {Section("stats", Nothing), Section("context", Nothing)}

Operations(t) ==
  IF t = StatusThread THEN {SaveServerState}
  ELSE IF t \in FuzzThreads
    THEN {SynchronizeAndGetJob, ClaimCoverage, ReportCoverage, JobDone}
           \cup SaveCrash \cup SaveSample \cup NotifyResult
    ELSE {Section("coverage", Nothing)}   \* the statistics Fuzzer::Run prints
-----------------------------------------------------------------------------
ServerMutexes == {"connections", "corpus", "server crashes"}
Shares(t, u, mutex) ==
  mutex \in ServerMutexes \/ (t # StatusThread /\ u # StatusThread /\ Fuzzer[t] = Fuzzer[u])

\* t has the mutex: it unlocks it before it locks it (again).
Holds(t, mutex, mode) ==
  \E i \in 1 .. Len(todo[t]) :
    /\ todo[t][i] = Unlock(mutex, mode)
    /\ \A j \in 1 .. i - 1 : todo[t][j].mutex # mutex

Locking(t) == todo[t] # << >> /\ Head(todo[t]).do = "lock"

\* u has the mutex t wants; readers do not exclude each other.
Blocks(u, t) ==
  LET wanted == Head(todo[t]) IN
  /\ Shares(t, u, wanted.mutex)
  /\ \/ Holds(u, wanted.mutex, "write")
     \/ wanted.mode = "write" /\ Holds(u, wanted.mutex, "read")

Init == todo = [t \in Agents |-> << >>]

Begin(t) ==
  /\ todo[t] = << >>
  /\ \E operation \in Operations(t) : todo' = [todo EXCEPT ![t] = operation]

LockOrUnlock(t) ==
  /\ todo[t] # << >> /\ Head(todo[t]).do # "choose"
  /\ Locking(t) => \A u \in Agents : ~Blocks(u, t)
  /\ todo' = [todo EXCEPT ![t] = Tail(@)]

Choose(t) ==
  /\ todo[t] # << >> /\ Head(todo[t]).do = "choose"
  /\ \E skipped \in {0, Head(todo[t]).steps} :
       todo' = [todo EXCEPT ![t] = SubSeq(@, skipped + 2, Len(@))]

Next == \E t \in Agents : Begin(t) \/ LockOrUnlock(t) \/ Choose(t)
Spec == Init /\ [][Next]_todo
-----------------------------------------------------------------------------
\* A std::shared_mutex may let a waiting writer go before a new reader.
WaitsBehind(t, u) ==
  /\ Locking(u) /\ Head(todo[t]).mode = "read"
  /\ Head(todo[u]) = [Head(todo[t]) EXCEPT !.mode = "write"]
WaitsFor(t, u) == Locking(t) /\ (Blocks(u, t) \/ WaitsBehind(t, u))

\* No threads wait for each other in a circle, in one fuzzer or through the server,
\* while others go on: the order in which SynchronizeAndGetJob nests its sections
\* fits all others, and no section is entered again from within.
NoDeadlock ==
  \A waiting \in (SUBSET Agents) \ {{}} :
    \E t \in waiting : \A u \in waiting : ~WaitsFor(t, u)
=============================================================================
