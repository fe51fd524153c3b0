----------------------------- MODULE CoverageServer -----------------------------
(***************************************************************************)
(* The coverage server (server.cpp) and the fuzzer processes' side of its  *)
(* protocol (client.cpp): reporting new coverage with a sample ('S'),      *)
(* fetching the samples added since the last update ('U'), the limit on    *)
(* connections, saving the state, and a crash followed by -restore.        *)
(* Crash reports ('X') are in CrashStore.                                  *)
(*                                                                         *)
(* A connection slot k carries at most one message to the server (the      *)
(* protocol alternates) and a sequence of messages to the client.  It has  *)
(* a server thread (pc[k] # "none") and a client (sock[c] = k) until each  *)
(* side leaves; a report's last message is still delivered after its       *)
(* client has closed the socket.                                           *)
(*                                                                         *)
(* A sample is named by the client that reports it and the coverage it is  *)
(* reported for: a fuzzer reports an offset once (known), as its           *)
(* InterestingSample removes what it already claimed.  A report without a  *)
(* sample is the one a restored session begins with: the coverage of its   *)
(* state.dat.                                                              *)
(***************************************************************************)
EXTENDS TimestampIndex, FiniteSets

CONSTANTS Clients,         \* fuzzer processes
          Restored,        \* those that also report coverage they have no sample for
          Edges,           \* coverage offsets
          Conns,           \* connection slots that exist at a time
          MaxConnections,  \* MAX_CONNECTIONS
          NoMessage, NoConn,
          MaxFaults,       \* bound: lost connections and timeouts
          MaxRestarts      \* bound: crashes of the server

ASSUME ServerAssumption ==
  /\ IsFiniteSet(Conns) /\ NoConn \notin Conns /\ Restored \subseteq Clients
  /\ MaxConnections \in Nat /\ MaxFaults \in Nat /\ MaxRestarts \in Nat

Sample == [by : Clients, cov : SUBSET Edges]

VARIABLES
  \* the server process
  up, server_timestamp, total_coverage, corpus, timestamps, num_connections,
  pc, fresh,        \* per connection thread: where it is, new_client_coverage
  saving,           \* SaveState is writing the file, under the read lock
  \* the server's output directory
  state_dat, files,
  \* the sockets
  toServer, toClient, broken,
  \* the fuzzer processes' CoverageClient
  at, request, sock, update_stamp, last_timestamp,
  got,              \* the samples a client's GetUpdates calls appended
  known,            \* the offsets a client already claimed
  \* what happened so far, for the bounds
  faults, restarts

memory  == << server_timestamp, total_coverage, corpus, timestamps >>
disk    == << state_dat, files >>
server  == << up, memory, num_connections, pc, fresh, saving >>
wires   == << toServer, toClient, broken >>
clients == << at, request, sock, update_stamp, last_timestamp, got, known >>
counts  == << faults, restarts >>
vars == << server, disk, wires, clients, counts >>

NoState == [complete |-> FALSE, server_timestamp |-> 0, coverage |-> {},
            size |-> 0, timestamps |-> << >>]

NoRequest == [command |-> "U", coverage |-> {}, samples |-> << >>]

Init ==
  /\ up = TRUE /\ saving = FALSE
  /\ server_timestamp = 0 /\ total_coverage = {}
  /\ corpus = << >> /\ timestamps = << >>
  /\ num_connections = 0
  /\ pc = [k \in Conns |-> "none"] /\ fresh = [k \in Conns |-> {}]
  /\ state_dat = NoState /\ files = << >>
  /\ toServer = [k \in Conns |-> NoMessage]
  /\ toClient = [k \in Conns |-> << >>]
  /\ broken = [k \in Conns |-> FALSE]
  /\ at = [c \in Clients |-> "idle"]
  /\ request = [c \in Clients |-> NoRequest]
  /\ sock = [c \in Clients |-> NoConn]
  /\ update_stamp = [c \in Clients |-> 0] /\ last_timestamp = [c \in Clients |-> 0]
  /\ got = [c \in Clients |-> {}] /\ known = [c \in Clients |-> {}]
  /\ faults = 0 /\ restarts = 0
-----------------------------------------------------------------------------
(* The sockets.                                                            *)

Attached(k) == \E c \in Clients : sock[c] = k

\* A write to a socket whose other end is gone is lost without notice.
ServerSends(k, msgs) ==
  toClient' = IF Attached(k) /\ ~broken[k]
                THEN [toClient EXCEPT ![k] = @ \o msgs] ELSE toClient

ClientSends(k, msg) ==
  toServer' = IF pc[k] # "none" /\ ~broken[k]
                THEN [toServer EXCEPT ![k] = msg] ELSE toServer

ClientReads(c) == toClient' = [toClient EXCEPT ![sock[c]] = Tail(@)]
Arrives(c, type) == /\ sock[c] # NoConn
                    /\ toClient[sock[c]] # << >>
                    /\ Head(toClient[sock[c]]).type = type

\* DisconnectFromServer: what was sent to this client is dropped.
Disconnect(c) == /\ toClient' = [toClient EXCEPT ![sock[c]] = << >>]
                 /\ sock' = [sock EXCEPT ![c] = NoConn]

\* The client's call returns: its parameters and locals are gone.
Returns(c) == /\ Disconnect(c)
              /\ at' = [at EXCEPT ![c] = "idle"]
              /\ request' = [request EXCEPT ![c] = NoRequest]
              /\ update_stamp' = [update_stamp EXCEPT ![c] = 0]

\* The network loses the connection: what is on the way is lost, to the
\* client from some point on.
Break(k) ==
  /\ faults < MaxFaults /\ ~broken[k]
  /\ Attached(k) \/ pc[k] # "none"
  /\ broken' = [broken EXCEPT ![k] = TRUE]
  /\ toServer' = [toServer EXCEPT ![k] = NoMessage]
  /\ \E n \in 0 .. Len(toClient[k]) :
       toClient' = [toClient EXCEPT ![k] = SubSeq(@, 1, n)]
  /\ faults' = faults + 1
  /\ UNCHANGED << server, disk, clients, restarts >>
-----------------------------------------------------------------------------
(* The client: each operation runs under Fuzzer::server_mutex, so a fuzzer *)
(* process has at most one at a time.                                      *)

\* CoverageClient::ReportNewCoverage(new_coverage, new_sample) is called.
ReportNewCoverage(c) ==
  /\ at[c] = "idle"
  /\ \E cov \in SUBSET (Edges \ known[c]) :
       /\ cov # {}
       /\ \E new_samples \in {<< >>, << [by |-> c, cov |-> cov] >>} :
            /\ new_samples = << >> => c \in Restored
            /\ request' = [request EXCEPT ![c] =
                            [command |-> "S", coverage |-> cov, samples |-> new_samples]]
       /\ known' = [known EXCEPT ![c] = @ \cup cov]
  /\ at' = [at EXCEPT ![c] = "connect"]
  /\ UNCHANGED << server, disk, wires, sock, update_stamp, last_timestamp, got, counts >>

\* CoverageClient::GetUpdates is called.
GetUpdates(c) ==
  /\ at[c] = "idle"
  /\ request' = [request EXCEPT ![c] = NoRequest]
  /\ at' = [at EXCEPT ![c] = "connect"]
  /\ UNCHANGED << server, disk, wires, sock, update_stamp, last_timestamp, got, known, counts >>

\* ConnectToServer: the connection is accepted and given a thread, and the
\* command byte is sent.  While the server is down this is retried for ever.
Connect(c, k) ==
  /\ at[c] = "connect" /\ up
  /\ pc[k] = "none" /\ ~Attached(k)
  /\ pc' = [pc EXCEPT ![k] = "command"]
  /\ broken' = [broken EXCEPT ![k] = FALSE]
  /\ toServer' = [toServer EXCEPT ![k] = [type |-> "command", command |-> request[c].command]]
  /\ sock' = [sock EXCEPT ![c] = k]
  /\ at' = [at EXCEPT ![c] = "waiting"]
  /\ UNCHANGED << up, memory, num_connections, fresh, saving, disk, toClient, request,
                  update_stamp, last_timestamp, got, known, counts >>

\* The reply 'K': the body of the request follows.
Accepted(c) ==
  /\ at[c] = "waiting" /\ Arrives(c, "K")
  /\ ClientReads(c)
  /\ \/ /\ request[c].command = "S"
        /\ ClientSends(sock[c], [type |-> "coverage", coverage |-> request[c].coverage])
        /\ at' = [at EXCEPT ![c] = "answer"]
     \/ /\ request[c].command = "U"
        /\ ClientSends(sock[c], [type |-> "stamp", stamp |-> last_timestamp[c]])
        /\ at' = [at EXCEPT ![c] = "stamp"]
  /\ UNCHANGED << server, disk, broken, request, sock, update_stamp, last_timestamp,
                  got, known, counts >>

\* The reply 'W', or no reply: disconnect, sleep and connect again.
Retry(c) ==
  /\ at[c] = "waiting"
  /\ \/ Arrives(c, "W")
     \/ toClient[sock[c]] = << >> /\ (broken[sock[c]] \/ pc[sock[c]] = "none")
  /\ Disconnect(c)
  /\ at' = [at EXCEPT ![c] = "connect"]
  /\ UNCHANGED << server, disk, toServer, broken, request, update_stamp, last_timestamp,
                  got, known, counts >>

\* The answer to reported coverage: 'N' ends the call, 'Y' asks for the sample,
\* which is sent without waiting for what the server does with it.
Answered(c) ==
  /\ at[c] = "answer"
  /\ \/ Arrives(c, "N") /\ UNCHANGED toServer
     \/ /\ Arrives(c, "Y")
        /\ ClientSends(sock[c], [type |-> "samples", samples |-> request[c].samples])
  /\ Returns(c)
  /\ UNCHANGED << server, disk, broken, last_timestamp, got, known, counts >>

RecvStamp(c) ==
  /\ at[c] = "stamp" /\ Arrives(c, "stamp")
  /\ update_stamp' = [update_stamp EXCEPT ![c] = Head(toClient[sock[c]]).stamp]
  /\ ClientReads(c)
  /\ at' = [at EXCEPT ![c] = "samples"]
  /\ UNCHANGED << server, disk, toServer, broken, request, sock, last_timestamp, got, known, counts >>

RecvSample(c) ==
  /\ at[c] = "samples" /\ Arrives(c, "sample")
  /\ got' = [got EXCEPT ![c] = @ \cup {Head(toClient[sock[c]]).sample}]
  /\ ClientReads(c)
  /\ UNCHANGED << server, disk, toServer, broken, at, request, sock, update_stamp,
                  last_timestamp, known, counts >>

\* 'N' after the samples: only now does the client remember the timestamp.
EndUpdates(c) ==
  /\ at[c] = "samples" /\ Arrives(c, "N")
  /\ last_timestamp' = [last_timestamp EXCEPT ![c] = update_stamp[c]]
  /\ Returns(c)
  /\ UNCHANGED << server, disk, toServer, broken, got, known, counts >>

\* Mutant of ClientReadFails: the timestamp of the update that broke off is
\* remembered.
ClientReadFailsRemembering(c) ==
  /\ at[c] \in {"answer", "stamp", "samples"}
  /\ toClient[sock[c]] = << >> /\ (broken[sock[c]] \/ pc[sock[c]] = "none")
  /\ last_timestamp' = [last_timestamp EXCEPT ![c] = update_stamp[c]]
  /\ Returns(c)
  /\ UNCHANGED << server, disk, toServer, broken, got, known, counts >>

\* A failed Read in the middle of an operation: the call returns 0, and its
\* caller does not look at the result.
ClientReadFails(c) ==
  /\ at[c] \in {"answer", "stamp", "samples"}
  /\ toClient[sock[c]] = << >> /\ (broken[sock[c]] \/ pc[sock[c]] = "none")
  /\ Returns(c)
  /\ UNCHANGED << server, disk, toServer, broken, last_timestamp,
                  got, known, counts >>
-----------------------------------------------------------------------------
(* The server: one thread per connection.                                  *)

Received(k, type) == toServer[k] # NoMessage /\ toServer[k].type = type
ServerReads(k) == toServer' = [toServer EXCEPT ![k] = NoMessage]

\* Whether the n-th counted connection is served.
ServesOneMore(n) == n <= MaxConnections + 1   \* mutant of Serves
Serves(n) == n <= MaxConnections

\* HandleConnection: count the connection, refuse it or dispatch the command.
HandleConnection(k) ==
  /\ pc[k] = "command" /\ Received(k, "command")
  /\ ServerReads(k)
  /\ num_connections' = num_connections + 1
  /\ \/ /\ ~Serves(num_connections')
        /\ ServerSends(k, << [type |-> "W"] >>)
        /\ pc' = [pc EXCEPT ![k] = "close"]
     \/ /\ Serves(num_connections')
        /\ ServerSends(k, << [type |-> "K"] >>)
        /\ pc' = [pc EXCEPT ![k] = IF toServer[k].command = "S" THEN "coverage" ELSE "updates"]
  /\ UNCHANGED << up, memory, fresh, saving, disk, broken, clients, counts >>

\* HasNewCoverage, under the read lock.
HasNewCoverage(k) ==
  /\ pc[k] = "coverage" /\ Received(k, "coverage")
  /\ ServerReads(k)
  /\ LET new_client_coverage == toServer[k].coverage \ total_coverage
     IN \/ /\ new_client_coverage = {}
           /\ ServerSends(k, << [type |-> "N"] >>)
           /\ pc' = [pc EXCEPT ![k] = "close"]
           /\ UNCHANGED fresh
        \/ /\ new_client_coverage # {}
           /\ ServerSends(k, << [type |-> "Y"] >>)
           /\ pc' = [pc EXCEPT ![k] = "samples"]
           /\ fresh' = [fresh EXCEPT ![k] = new_client_coverage]
  /\ UNCHANGED << up, memory, num_connections, saving, disk, broken, clients, counts >>

\* The sample files a commit writes: sample_%05zu for each new corpus index.
FilesAfter(new_samples) ==
  [i \in 1 .. (IF Len(files) > Len(corpus) + Len(new_samples)
                 THEN Len(files) ELSE Len(corpus) + Len(new_samples)) |->
     IF i \in Len(corpus) + 1 .. Len(corpus) + Len(new_samples)
       THEN new_samples[i - Len(corpus)] ELSE files[i]]

\* The write lock is free: the only reader that holds its lock across steps of
\* this model is SaveState.
NoLock == TRUE        \* mutant of LockWrite
LockWrite == ~saving

\* OnNewCoverage's own test, for what was new when HasNewCoverage looked.
NotRechecked(k) == TRUE   \* mutant of StillNew
StillNew(k) == fresh[k] \ total_coverage # {}

\* corpus.timestamps after a commit at time now.
EntryForEveryReport(now, new_samples) ==   \* mutant of TimestampsAfter
  Append(timestamps, [timestamp |-> now, index |-> Len(corpus)])
TimestampsAfter(now, new_samples) ==
  IF new_samples = << >> THEN timestamps
  ELSE Append(timestamps, [timestamp |-> now, index |-> Len(corpus)])

\* The samples have arrived: under the write lock, OnNewCoverage checks the
\* coverage a second time and the samples join the corpus.
OnNewCoverage(k) ==
  /\ pc[k] = "samples" /\ Received(k, "samples")
  /\ LockWrite
  /\ ServerReads(k)
  /\ LET new_samples == toServer[k].samples
     IN \/ /\ ~StillNew(k)
           /\ UNCHANGED << memory, files >>
        \/ /\ StillNew(k)
           /\ server_timestamp' = server_timestamp + 1
           /\ total_coverage' = total_coverage \cup fresh[k]
           /\ timestamps' = TimestampsAfter(server_timestamp', new_samples)
           /\ corpus' = corpus \o new_samples
           /\ files' = FilesAfter(new_samples)
  /\ fresh' = [fresh EXCEPT ![k] = {}]
  /\ pc' = [pc EXCEPT ![k] = "close"]
  /\ UNCHANGED << up, num_connections, saving, state_dat, toClient, broken, clients, counts >>

\* The first sample ServeUpdates sends for a client at timestamp t.
FirstIndexOffByOne(t) ==   \* mutant of FirstIndex
  IF t + 1 >= server_timestamp THEN Len(corpus) ELSE GetIndex(timestamps, t, Len(corpus))
FirstIndex(t) ==
  IF t >= server_timestamp THEN Len(corpus) ELSE GetIndex(timestamps, t, Len(corpus))

\* What ServeUpdates sends a client whose last update was at timestamp t.
UpdatesSince(t) ==
  LET first == FirstIndex(t)
  IN << [type |-> "stamp", stamp |-> server_timestamp] >>
       \o [i \in 1 .. (Len(corpus) - first) |-> [type |-> "sample", sample |-> corpus[first + i]]]
       \o << [type |-> "N"] >>

\* ServeUpdates, under the read lock.
ServeUpdates(k) ==
  /\ pc[k] = "updates" /\ Received(k, "stamp")
  /\ ServerReads(k)
  /\ ServerSends(k, UpdatesSince(toServer[k].stamp))
  /\ pc' = [pc EXCEPT ![k] = "close"]
  /\ UNCHANGED << up, memory, num_connections, fresh, saving, disk, broken, clients, counts >>

\* The thread ends: the connection is no longer counted, its socket is closed.
CloseConnection(k) ==
  /\ pc[k] = "close"
  /\ num_connections' = num_connections - 1
  /\ pc' = [pc EXCEPT ![k] = "none"]
  /\ toServer' = [toServer EXCEPT ![k] = NoMessage]
  /\ UNCHANGED << up, memory, fresh, saving, disk, toClient, broken, clients, counts >>

\* Where a thread goes when its Read fails.
AfterFailure(p) == IF p = "command" THEN "none" ELSE "close"

\* A failed Read: the other end is gone, or nothing came for ten seconds
\* (SO_RCVTIMEO).  What the thread had received is dropped.  A connection
\* without a command was not counted yet.
ServerReadFails(k) ==
  /\ pc[k] \in {"command", "coverage", "samples", "updates"}
  /\ toServer[k] = NoMessage
  /\ \/ (broken[k] \/ ~Attached(k)) /\ UNCHANGED faults
     \/ faults < MaxFaults /\ ~broken[k] /\ Attached(k) /\ faults' = faults + 1
  /\ pc' = [pc EXCEPT ![k] = AfterFailure(@)]
  /\ fresh' = [fresh EXCEPT ![k] = {}]
  /\ UNCHANGED << up, memory, num_connections, saving, disk, wires, clients, restarts >>

\* SaveState opens server_state.dat, which empties it, and writes the timestamp
\* and the coverage; then the size of the corpus and its timestamps.
BeginSave ==
  /\ up /\ ~saving /\ restarts < MaxRestarts
  /\ saving' = TRUE
  /\ state_dat' = [NoState EXCEPT !.server_timestamp = server_timestamp,
                                  !.coverage = total_coverage]
  /\ UNCHANGED << up, memory, num_connections, pc, fresh, files, wires, clients, counts >>

EndSave ==
  /\ saving
  /\ saving' = FALSE
  /\ state_dat' = [state_dat EXCEPT !.complete = TRUE, !.size = Len(corpus),
                                    !.timestamps = timestamps]
  /\ UNCHANGED << up, memory, num_connections, pc, fresh, files, wires, clients, counts >>

\* The server process dies: its memory and its threads are gone, the clients
\* still read what it had sent.
Crash ==
  /\ up /\ restarts < MaxRestarts
  /\ up' = FALSE /\ saving' = FALSE
  /\ server_timestamp' = 0 /\ total_coverage' = {}
  /\ corpus' = << >> /\ timestamps' = << >> /\ num_connections' = 0
  /\ pc' = [k \in Conns |-> "none"] /\ fresh' = [k \in Conns |-> {}]
  /\ toServer' = [k \in Conns |-> NoMessage]
  /\ restarts' = restarts + 1
  /\ UNCHANGED << disk, toClient, broken, clients, faults >>

\* Init with -restore.  A file cut short by a crash cannot be restored.
RestoreState ==
  /\ ~up /\ state_dat.complete
  /\ up' = TRUE
  /\ server_timestamp' = state_dat.server_timestamp
  /\ total_coverage' = state_dat.coverage
  /\ corpus' = [i \in 1 .. state_dat.size |-> files[i]]
  /\ timestamps' = state_dat.timestamps
  /\ UNCHANGED << num_connections, pc, fresh, saving, disk, wires, clients, counts >>
-----------------------------------------------------------------------------
Client(c) ==
  \/ ReportNewCoverage(c) \/ GetUpdates(c)
  \/ \E k \in Conns : Connect(c, k)
  \/ Accepted(c) \/ Retry(c) \/ Answered(c)
  \/ RecvStamp(c) \/ RecvSample(c) \/ EndUpdates(c) \/ ClientReadFails(c)

Thread(k) ==
  \/ HandleConnection(k) \/ HasNewCoverage(k) \/ OnNewCoverage(k)
  \/ ServeUpdates(k) \/ CloseConnection(k) \/ ServerReadFails(k)

Next == \/ \E c \in Clients : Client(c)
        \/ \E k \in Conns : Thread(k) \/ Break(k)
        \/ BeginSave \/ EndSave \/ Crash \/ RestoreState

Spec == Init /\ [][Next]_vars

\* Fuzzer threads keep running and poll for updates, so a client's calls
\* proceed, and the server's threads are scheduled.  The operating system always
\* has room for one more connection, where the model has slots that may all be
\* taken for a while: hence SF for Connect.
Fairness ==
  /\ \A c \in Clients : WF_vars(Client(c)) /\ SF_vars(\E k \in Conns : Connect(c, k))
  /\ \A k \in Conns : WF_vars(Thread(k))
FairSpec == Spec /\ Fairness
-----------------------------------------------------------------------------
Payloads == {<< >>} \cup { << s >> : s \in Sample }
Requests == [type : {"command"}, command : {"S", "U"}]
              \cup [type : {"coverage"}, coverage : SUBSET Edges]
              \cup [type : {"samples"}, samples : Payloads]
              \cup [type : {"stamp"}, stamp : Nat]
Replies  == [type : {"K", "W", "Y", "N"}]
              \cup [type : {"stamp"}, stamp : Nat] \cup [type : {"sample"}, sample : Sample]
States   == [complete : BOOLEAN, server_timestamp : Nat, coverage : SUBSET Edges,
             size : Nat, timestamps : Seq(Entry)]

TypeOK ==
  /\ up \in BOOLEAN /\ saving \in BOOLEAN
  /\ server_timestamp \in Nat /\ total_coverage \in SUBSET Edges
  /\ corpus \in Seq(Sample) /\ timestamps \in Seq(Entry)
  /\ num_connections \in Nat
  /\ pc \in [Conns -> {"none", "command", "coverage", "samples", "updates", "close"}]
  /\ fresh \in [Conns -> SUBSET Edges]
  /\ state_dat \in States /\ files \in Seq(Sample)
  /\ toServer \in [Conns -> Requests \cup {NoMessage}]
  /\ toClient \in [Conns -> Seq(Replies)]
  /\ broken \in [Conns -> BOOLEAN]
  /\ at \in [Clients -> {"idle", "connect", "waiting", "answer", "stamp", "samples"}]
  /\ request \in [Clients -> [command : {"S", "U"}, coverage : SUBSET Edges,
                              samples : Payloads]]
  /\ sock \in [Clients -> Conns \cup {NoConn}]
  /\ update_stamp \in [Clients -> Nat] /\ last_timestamp \in [Clients -> Nat]
  /\ got \in [Clients -> SUBSET Sample] /\ known \in [Clients -> SUBSET Edges]
  /\ faults \in Nat /\ restarts \in Nat

\* The update index and the corpus agree, however reports, saves, crashes and
\* restores interleave: GetIndex is only ever called on a vector it works for.
IndexMatchesCorpus ==
  /\ WellFormed(timestamps, Len(corpus))
  /\ \A i \in 1 .. Len(timestamps) : timestamps[i].timestamp <= server_timestamp

\* Two clients that find the same offset at the same time both pass
\* HasNewCoverage, but only one of their samples joins the corpus: every
\* sample brought an offset that none before it had.
NoRedundantSample ==
  \A n \in 1 .. Len(corpus) :
    ~ (corpus[n].cov \subseteq UNION { corpus[j].cov : j \in 1 .. n - 1 })

\* MAX_CONNECTIONS holds for the connections being served, although the
\* refused ones are counted too while their threads end.
Serving == { k \in Conns : pc[k] \in {"coverage", "samples", "updates"} }
ConnectionLimit ==
  /\ Cardinality(Serving) <= MaxConnections
  /\ num_connections = Cardinality({ k \in Conns : pc[k] \notin {"none", "command"} })

\* The samples stamped t or earlier have all reached client c.
HasAllUntil(c, t) ==
  \A i \in 1 .. Len(timestamps) : timestamps[i].timestamp <= t =>
    \A n \in timestamps[i].index + 1 .. EntryEnd(timestamps, i, Len(corpus)) :
      corpus[n] \in got[c]

\* A client that remembers a timestamp has every sample up to it, even when
\* updates broke off halfway: GetUpdates moves last_timestamp only at the end.
NoSampleMissed == \A c \in Clients : HasAllUntil(c, last_timestamp[c])

\* A complete server_state.dat can be restored: its index fits its corpus, the
\* sample files it counts are there, their coverage is in the saved coverage,
\* and later commits never wrote over them.
SavedStateConsistent ==
  state_dat.complete =>
    /\ WellFormed(state_dat.timestamps, state_dat.size)
    /\ \A i \in 1 .. Len(state_dat.timestamps) :
         state_dat.timestamps[i].timestamp <= state_dat.server_timestamp
    /\ state_dat.size <= Len(files)
    /\ \A n \in 1 .. state_dat.size : files[n].cov \subseteq state_dat.coverage
    /\ up => \A n \in 1 .. state_dat.size : corpus[n] = files[n]

\* The server implements SampleFeed: its corpus is the log, and a client has
\* acknowledged the samples stamped with its last_timestamp or earlier.
Acknowledged(t) ==
  LET old == { i \in 1 .. Len(timestamps) : timestamps[i].timestamp <= t }
  IN IF old = {} THEN 0
     ELSE EntryEnd(timestamps, Cardinality(old), Len(corpus))

Feed == INSTANCE SampleFeed WITH
          Samples <- Sample, log <- corpus,
          acked <- [c \in Clients |-> Acknowledged(last_timestamp[c])]

\* However two clients' reports and updates interleave, each client receives
\* the corpus in order, and GetUpdates moves last_timestamp only over samples
\* the client has.
FeedsInOrder == Feed!Spec

\* The same while connections break and time out in the middle of a report or
\* an update, up to the first restart of the server.
FeedsUntilRestart == Feed!Init /\ [][restarts' = 0 => Feed!Next]_Feed!vars

\* A client that keeps polling catches up with the corpus again and again, so
\* every sample gets to every client.
EveryoneGetsEverySample ==
  \A c \in Clients : []<>(\A n \in 1 .. Len(corpus) : corpus[n] \in got[c])
=============================================================================
