------------------------- MODULE CoverageServerProofs -------------------------
(***************************************************************************)
(* CoverageServer keeps its corpus, its update index and its state file    *)
(* consistent, limits its connections, and implements SampleFeed until it  *)
(* is restarted: for any number of clients, offsets and connections, and   *)
(* any bounds on faults and restarts.                                      *)
(***************************************************************************)
EXTENDS CoverageServer, FiniteSetTheorems, SequenceTheorems, WellFoundedInduction, TLAPS

(* corpus.timestamps and GetIndex.                                         *)

\* Every nonempty set of naturals has a least element.
LEMMA LeastNatural ==
  ASSUME NEW T, T \subseteq Nat, T # {}
  PROVE  \E x \in T : \A y \in T : x <= y
<1>1. \E x \in T : \A y \in T : ~ (<< y, x >> \in OpToRel(<, Nat))
  BY NatLessThanWellFounded, WFMin
<1>2. PICK x \in T : \A y \in T : ~ (<< y, x >> \in OpToRel(<, Nat))
  BY <1>1
<1>3. ASSUME NEW y \in T PROVE x <= y
  <2>1. ~ (<< y, x >> \in OpToRel(<, Nat))
    BY <1>2
  <2>2. ~ (y < x)
    BY <2>1, SMT DEF OpToRel
  <2> QED BY <2>2, SMT
<1> QED BY <1>3

\* What a well-formed vector gives its reader.
LEMMA WellFormedFacts ==
  ASSUME NEW ts, NEW last, WellFormed(ts, last)
  PROVE  /\ Len(ts) \in Nat
         /\ ts # << >> => Len(ts) > 0
         /\ \A j \in 1 .. Len(ts) : ts[j].timestamp \in Nat /\ ts[j].index \in Nat
         /\ \A j \in 1 .. Len(ts) : ts[j].timestamp > 0 /\ ts[j].index < last
         /\ \A j, k \in 1 .. Len(ts) :
              j < k => ts[j].timestamp < ts[k].timestamp /\ ts[j].index < ts[k].index
<1>1. ts \in Seq(Entry)
  BY DEF WellFormed
<1>2. \A j \in 1 .. Len(ts) : ts[j] \in Entry
  BY <1>1
<1>3. \A j \in 1 .. Len(ts) : ts[j].timestamp \in Nat /\ ts[j].index \in Nat
  BY <1>2, Zenon DEF Entry
<1>4. Len(ts) \in Nat /\ (ts # << >> => Len(ts) > 0)
  BY <1>1
<1> QED BY <1>3, <1>4, Zenon DEF WellFormed

\* There is an entry newer than t, and a first one, when the last entry is newer.
LEMMA FirstAfterExists ==
  ASSUME NEW ts, NEW last \in Nat, NEW t \in Nat, WellFormed(ts, last),
         ts # << >>, t < ts[Len(ts)].timestamp
  PROVE  /\ FirstAfter(ts, t) \in 1 .. Len(ts)
         /\ ts[FirstAfter(ts, t)].timestamp > t
         /\ \A j \in 1 .. (FirstAfter(ts, t) - 1) : ts[j].timestamp <= t
<1> DEFINE T == { m \in 1 .. Len(ts) : ts[m].timestamp > t }
<1>1. Len(ts) \in Nat /\ Len(ts) > 0
  BY WellFormedFacts
<1>2. \A j \in 1 .. Len(ts) : ts[j].timestamp \in Nat
  BY WellFormedFacts, Zenon
<1>3. T \subseteq Nat /\ Len(ts) \in T
  BY <1>1
<1>4. PICK m \in T : \A y \in T : m <= y
  BY <1>3, LeastNatural
<1>5. \A j \in 1 .. (m - 1) : ts[j].timestamp <= t
  BY <1>1, <1>2, <1>4
<1>6. \E k \in 1 .. Len(ts) :
        ts[k].timestamp > t /\ \A j \in 1 .. (k - 1) : ts[j].timestamp <= t
  BY <1>4, <1>5
<1> QED BY <1>6, Zenon DEF FirstAfter

\* There is only one such entry.
LEMMA FirstAfterUnique ==
  ASSUME NEW ts, NEW last \in Nat, NEW t \in Nat, WellFormed(ts, last),
         NEW m \in 1 .. Len(ts), ts[m].timestamp > t,
         m = 1 \/ ts[m - 1].timestamp <= t
  PROVE  FirstAfter(ts, t) = m
<1>1. Len(ts) \in Nat
  BY WellFormedFacts
<1>2. \A j \in 1 .. Len(ts) : ts[j].timestamp \in Nat
  BY WellFormedFacts, Zenon
<1>3. \A j, k \in 1 .. Len(ts) : j < k => ts[j].timestamp < ts[k].timestamp
  BY WellFormedFacts, Zenon
<1>4. ts # << >> /\ t < ts[Len(ts)].timestamp
  BY <1>1, <1>2, <1>3
<1>5. /\ FirstAfter(ts, t) \in 1 .. Len(ts)
      /\ ts[FirstAfter(ts, t)].timestamp > t
      /\ \A j \in 1 .. (FirstAfter(ts, t) - 1) : ts[j].timestamp <= t
  BY <1>4, FirstAfterExists
<1>6. ~ (m < FirstAfter(ts, t))
  BY <1>1, <1>2, <1>5
<1>7. ~ (FirstAfter(ts, t) < m)
  BY <1>1, <1>2, <1>3, <1>5
<1> QED BY <1>1, <1>5, <1>6, <1>7

-----------------------------------------------------------------------------
(* The parts of the inductive invariant.                                   *)

\* A client has a connection while a call waits for the server, a connection has
\* one client, and nothing is on the way to a client that left.
Sockets ==
  /\ \A c \in Clients : (sock[c] = NoConn) = (at[c] \in {"idle", "connect"})
  /\ \A c, d \in Clients : sock[c] # NoConn /\ sock[c] = sock[d] => c = d
  /\ \A k \in Conns : ~Attached(k) => toClient[k] = << >>

\* After a crash the server has nothing in memory until it is restored.
Down == ~up => /\ restarts > 0 /\ ~saving /\ server_timestamp = 0 /\ total_coverage = {}
               /\ corpus = << >> /\ timestamps = << >>
               /\ pc = [k \in Conns |-> "none"]

\* What fresh[k] is for a report of cov: its offsets, but for some the server has.
FreshOf(k, cov) == fresh[k] \subseteq cov /\ cov \subseteq fresh[k] \cup total_coverage

\* A report's sample was found with the coverage that was reported.
SampleOfRequest == \A c \in Clients : \A i \in 1 .. Len(request[c].samples) :
                     request[c].samples[i].cov = request[c].coverage

\* Where the server's thread may be, and what it may be sent, while its client waits
\* for the reply to the command, to the coverage, and for an update.
Waiting(c, k) ==
  /\ toServer[k] # NoMessage =>
       toServer[k] = [type |-> "command", command |-> request[c].command]
  /\ Len(toClient[k]) \in {0, 1}
  /\ pc[k] \in {"command", "coverage", "updates", "close", "none"}
  /\ pc[k] = "command" => toClient[k] = << >>
  /\ pc[k] # "command" => toServer[k] = NoMessage
  /\ pc[k] = "coverage" => request[c].command = "S"
  /\ pc[k] = "updates" => request[c].command = "U"
Answering(c, k) ==
  /\ toServer[k] # NoMessage =>
       toServer[k] = [type |-> "coverage", coverage |-> request[c].coverage]
  /\ pc[k] \in {"coverage", "samples", "close", "none"}
  /\ pc[k] = "samples" => FreshOf(k, request[c].coverage)
Updating(c, k) ==
  /\ toServer[k] # NoMessage =>
       toServer[k] = [type |-> "stamp", stamp |-> last_timestamp[c]]
  /\ pc[k] \in {"updates", "close", "none"}
  /\ pc[k] = "updates" => toClient[k] = << >>
InStepOf(c) ==
  /\ at[c] = "waiting" => Waiting(c, sock[c])
  /\ at[c] = "answer" => Answering(c, sock[c])
  /\ at[c] = "stamp" => Updating(c, sock[c])
  /\ at[c] = "samples" => pc[sock[c]] \in {"close", "none"}
InStep == \A c \in Clients : InStepOf(c)

\* A thread that got its samples, its client gone, still knows what was new in them.
FreshIsReported == \A k \in Conns :
  pc[k] = "samples" /\ Received(k, "samples") =>
    \A i \in 1 .. Len(toServer[k].samples) : FreshOf(k, toServer[k].samples[i].cov)

\* The corpus, its coverage and its files agree.
CorpusKept ==
  /\ \A n \in 1 .. Len(corpus) : corpus[n].cov \subseteq total_coverage
  /\ Len(corpus) <= Len(files)
  /\ \A n \in 1 .. Len(corpus) : corpus[n] = files[n]

\* While the state is written, what was written first is still so.
SavingInv == saving => /\ up
                       /\ state_dat.server_timestamp = server_timestamp
                       /\ state_dat.coverage = total_coverage

\* A complete state counts samples the running server still has, none redundant.
SavedInv ==
  state_dat.complete =>
    /\ up => state_dat.size <= Len(corpus)
    /\ \A n \in 1 .. state_dat.size :
         ~ (files[n].cov \subseteq UNION { files[j].cov : j \in 1 .. n - 1 })

IInv == /\ TypeOK /\ Sockets /\ Down /\ SampleOfRequest /\ InStep /\ FreshIsReported
        /\ IndexMatchesCorpus /\ CorpusKept /\ NoRedundantSample
        /\ SavingInv /\ SavedStateConsistent /\ SavedInv /\ ConnectionLimit
-----------------------------------------------------------------------------
(* What holds until the first restart, for the refinement.                 *)

\* From the o-th on, msgs are the samples after the j-th up to the m-th, then 'N', as far
\* as they were not lost.
Stream(msgs, o, j, m) ==
  \A i \in 1 .. Len(msgs) - o :
    msgs[o + i] = IF j + i <= m THEN [type |-> "sample", sample |-> corpus[j + i]]
                                ELSE [type |-> "N"]

\* An update to timestamp s: a client that has the first j samples is sent the rest
\* of those stamped s or earlier.
UpdateTo(c, s, msgs, o) ==
  /\ last_timestamp[c] <= s /\ s <= server_timestamp
  /\ \E j \in 0 .. Acknowledged(s) : /\ Feed!Prefix(j) \subseteq got[c]
                                     /\ Stream(msgs, o, j, Acknowledged(s))

UpdateOf(c) ==
  /\ last_timestamp[c] <= server_timestamp
  /\ at[c] = "stamp" /\ toClient[sock[c]] # << >> =>
       /\ toClient[sock[c]][1].type = "stamp"
       /\ UpdateTo(c, toClient[sock[c]][1].stamp, toClient[sock[c]], 1)
  /\ at[c] = "samples" => UpdateTo(c, update_stamp[c], toClient[sock[c]], 0)

FeedInv == restarts = 0 => Feed!InOrder /\ \A c \in Clients : UpdateOf(c)
-----------------------------------------------------------------------------
(* Types.                                                                  *)

\* The messages of each type, told apart by the type.
LEMMA ReplyTypes ==
  ASSUME NEW msg \in Replies
  PROVE  /\ msg.type = "stamp" => msg.stamp \in Nat
         /\ msg.type = "sample" => msg.sample \in Sample
  BY DEF Replies

(* What a request carries. *)
LEMMA RequestTypes ==
  ASSUME NEW msg \in Requests
  PROVE  /\ msg.type = "coverage" => msg.coverage \in SUBSET Edges
         /\ msg.type = "samples" => msg.samples \in Payloads
         /\ msg.type = "stamp" => msg.stamp \in Nat
         /\ msg.type = "command" => msg.command \in {"S", "U"}
  BY DEF Requests

(* A report carries its sample, or none. *)
LEMMA PayloadTypes ==
  ASSUME NEW samples \in Payloads
  PROVE  samples \in Seq(Sample) /\ Len(samples) \in {0, 1}
<1>1. CASE samples = << >>
  BY <1>1, EmptySeq
<1>2. ASSUME NEW s \in Sample, samples = << s >> PROVE samples \in Seq(Sample) /\ Len(samples) = 1
  BY <1>2
<1> QED BY <1>1, <1>2 DEF Payloads

(* A message the server sends leaves the connections well typed. *)
LEMMA ServerSendsType ==
  ASSUME TypeOK, NEW k \in Conns, NEW msgs \in Seq(Replies), ServerSends(k, msgs)
  PROVE  toClient' \in [Conns -> Seq(Replies)]
<1>1. toClient[k] \in Seq(Replies)
  BY DEF TypeOK
<1>2. toClient[k] \o msgs \in Seq(Replies)
  BY <1>1, ConcatProperties
<1> QED BY <1>2 DEF TypeOK, ServerSends

(* So does one a client sends ... *)
LEMMA ClientSendsType ==
  ASSUME TypeOK, NEW k, NEW msg \in Requests, ClientSends(k, msg)
  PROVE  toServer' \in [Conns -> Requests \cup {NoMessage}]
  BY DEF TypeOK, ClientSends

(* ... and so does the end of a connection. *)
LEMMA DisconnectType ==
  ASSUME TypeOK, NEW c \in Clients, Disconnect(c)
  PROVE  /\ toClient' \in [Conns -> Seq(Replies)]
         /\ sock' \in [Clients -> Conns \cup {NoConn}]
<1>1. << >> \in Seq(Replies)
  BY EmptySeq
<1> QED BY <1>1 DEF TypeOK, Disconnect

\* A client reads the first message.
LEMMA ClientReadsType ==
  ASSUME TypeOK, NEW c \in Clients, NEW type, Arrives(c, type)
  PROVE  /\ sock[c] \in Conns
         /\ Head(toClient[sock[c]]) \in Replies /\ Head(toClient[sock[c]]).type = type
         /\ ClientReads(c) => toClient' \in [Conns -> Seq(Replies)]
<1>1. sock[c] \in Conns /\ toClient[sock[c]] \in Seq(Replies) /\ toClient[sock[c]] # << >>
  BY DEF TypeOK, Arrives
<1>2. /\ Head(toClient[sock[c]]) \in Replies
      /\ Tail(toClient[sock[c]]) \in Seq(Replies)
  BY <1>1, HeadTailProperties
<1> QED BY <1>1, <1>2 DEF TypeOK, Arrives, ClientReads

(* The initial state satisfies the invariant. *)
LEMMA InitInv == Init => IInv
<1> SUFFICES ASSUME Init PROVE IInv
  OBVIOUS
<1>1. /\ << >> \in Seq(Sample) /\ << >> \in Seq(Entry) /\ << >> \in Seq(Replies)
      /\ Len(<< >>) = 0
  BY EmptySeq
<1>2. TypeOK
  BY <1>1 DEF Init, TypeOK, NoState, States, NoRequest, Payloads
<1>3. Sockets /\ Down /\ SampleOfRequest /\ InStep /\ FreshIsReported
  BY <1>1, ServerAssumption
     DEF Init, Sockets, Attached, Down, SampleOfRequest, NoRequest, InStep, InStepOf, FreshIsReported
<1>4. IndexMatchesCorpus /\ CorpusKept /\ NoRedundantSample
  BY <1>1 DEF Init, IndexMatchesCorpus, WellFormed, CorpusKept, NoRedundantSample
<1>5. SavingInv /\ SavedStateConsistent /\ SavedInv
  BY DEF Init, SavingInv, SavedStateConsistent, SavedInv, NoState
<1>6. ConnectionLimit
  <2>1. Serving = {} /\ { k \in Conns : pc[k] \notin {"none", "command"} } = {}
    BY DEF Init, Serving
  <2>2. num_connections = 0 /\ Cardinality({}) = 0
    BY FS_EmptySet DEF Init
  <2> QED BY <2>1, <2>2, ServerAssumption DEF ConnectionLimit
<1> QED BY <1>2, <1>3, <1>4, <1>5, <1>6 DEF IInv

\* A commit writes the files of the new samples and keeps all others.
LEMMA FilesAfterFacts ==
  ASSUME TypeOK, NEW new_samples \in Seq(Sample), Len(corpus) <= Len(files)
  PROVE  /\ FilesAfter(new_samples) \in Seq(Sample)
         /\ Len(FilesAfter(new_samples)) >= Len(files)
         /\ Len(FilesAfter(new_samples)) >= Len(corpus) + Len(new_samples)
         /\ \A i \in 1 .. Len(corpus) : FilesAfter(new_samples)[i] = files[i]
         /\ \A i \in 1 .. Len(new_samples) : FilesAfter(new_samples)[Len(corpus) + i] = new_samples[i]
<1> DEFINE n == IF Len(files) > Len(corpus) + Len(new_samples)
                  THEN Len(files) ELSE Len(corpus) + Len(new_samples)
<1>1. /\ n \in Nat /\ Len(corpus) \in Nat /\ Len(files) \in Nat /\ Len(new_samples) \in Nat
      /\ n >= Len(files) /\ n >= Len(corpus) + Len(new_samples)
      /\ n = Len(files) \/ n = Len(corpus) + Len(new_samples)
  BY DEF TypeOK
<1> DEFINE file(i) == IF i \in Len(corpus) + 1 .. Len(corpus) + Len(new_samples)
                        THEN new_samples[i - Len(corpus)] ELSE files[i]
<1>2. FilesAfter(new_samples) = [i \in 1 .. n |-> file(i)]
  BY DEF FilesAfter
<1> HIDE DEF n
<1>3. \A i \in 1 .. n : file(i) \in Sample
  BY <1>1 DEF TypeOK
<1>4. [i \in 1 .. n |-> file(i)] \in Seq(Sample) /\ Len([i \in 1 .. n |-> file(i)]) = n
  BY <1>1, <1>3
<1> QED BY <1>1, <1>2, <1>4

\* Acknowledged as a function of the index and the number of samples.
AcknowledgedIn(ts, last, t) ==
  LET old == { i \in 1 .. Len(ts) : ts[i].timestamp <= t }
  IN IF old = {} THEN 0 ELSE EntryEnd(ts, Cardinality(old), last)

(* Acknowledged, as a function of the vector and of the size of the corpus. *)
LEMMA AcknowledgedIsIn ==
  ASSUME NEW t
  PROVE  /\ Acknowledged(t) = AcknowledgedIn(timestamps, Len(corpus), t)
         /\ Acknowledged(t)' = AcknowledgedIn(timestamps', Len(corpus'), t)
BY DEF Acknowledged, AcknowledgedIn

\* As timestamps grow, the entries stamped t or earlier are the first ones.
LEMMA AcknowledgedInFacts ==
  ASSUME NEW ts, NEW last \in Nat, WellFormed(ts, last), NEW t \in Nat
  PROVE  \E n \in 0 .. Len(ts) :
           /\ \A i \in 1 .. Len(ts) : ts[i].timestamp <= t <=> i <= n
           /\ AcknowledgedIn(ts, last, t) = IF n = 0 THEN 0 ELSE EntryEnd(ts, n, last)
<1> DEFINE size == Len(ts)
           old == { i \in 1 .. size : ts[i].timestamp <= t }
           later == { i \in 1 .. size + 1 : \A j \in i .. size : ts[j].timestamp > t }
<1>1. /\ size \in Nat
      /\ \A i \in 1 .. size : ts[i].timestamp \in Nat
      /\ \A i, j \in 1 .. size : i < j => ts[i].timestamp < ts[j].timestamp
  BY WellFormedFacts
<1>2. size + 1 \in later /\ later \subseteq Nat
  BY <1>1
<1>3. PICK m \in later : \A i \in later : m <= i
  BY <1>2, LeastNatural
<1>4. m - 1 \in 0 .. size /\ \A i \in m .. size : ts[i].timestamp > t
  BY <1>1, <1>3
<1>5. \A i \in 1 .. m - 1 : ts[i].timestamp <= t
  <2>1. SUFFICES ASSUME m - 1 >= 1 PROVE ts[m - 1].timestamp <= t
    BY <1>1, <1>4
  <2>2. m - 1 \notin later
    <3>1. m - 1 \in later => m <= m - 1
      BY <1>3
    <3>2. m \in Nat
      BY <1>2, <1>3
    <3> HIDE DEF later
    <3> QED BY <3>1, <3>2
  <2> QED BY <1>1, <1>4, <2>1, <2>2
<1>6. old = 1 .. m - 1
  BY <1>1, <1>4, <1>5
<1>7. Cardinality(old) = m - 1 /\ (old = {} <=> m - 1 = 0)
  <2>1. m - 1 \in Int /\ Cardinality(1 .. m - 1) = IF 1 > m - 1 THEN 0 ELSE (m - 1) - 1 + 1
    BY <1>4, FS_Interval
  <2>2. Cardinality(1 .. m - 1) = m - 1 /\ (1 .. m - 1 = {} <=> m - 1 = 0)
    BY <1>4, <2>1
  <2> HIDE DEF old
  <2> QED BY <1>6, <2>2, Zenon
<1>8. AcknowledgedIn(ts, last, t) = IF m - 1 = 0 THEN 0 ELSE EntryEnd(ts, m - 1, last)
  BY <1>7 DEF AcknowledgedIn
<1>9. \A i \in 1 .. Len(ts) : ts[i].timestamp <= t <=> i <= m - 1
  <2> SUFFICES ASSUME NEW i \in 1 .. size PROVE ts[i].timestamp <= t <=> i <= m - 1
    OBVIOUS
  <2>1. i \in 1 .. m - 1 \/ i \in m .. size
    BY <1>1, <1>4
  <2> QED BY <1>1, <1>4, <1>5, <2>1
<1> QED BY <1>4, <1>8, <1>9

\* A later timestamp acknowledges no less, the latest everything.
LEMMA AcknowledgedInGrows ==
  ASSUME NEW ts, NEW last \in Nat, WellFormed(ts, last), NEW s \in Nat, NEW t \in Nat, s <= t
  PROVE  /\ AcknowledgedIn(ts, last, s) \in 0 .. last
         /\ AcknowledgedIn(ts, last, s) <= AcknowledgedIn(ts, last, t)
         /\ (\A i \in 1 .. Len(ts) : ts[i].timestamp <= t) => AcknowledgedIn(ts, last, t) = last
<1>1. /\ Len(ts) \in Nat /\ (ts # << >> => Len(ts) > 0)
      /\ \A i \in 1 .. Len(ts) : /\ ts[i].timestamp \in Nat /\ ts[i].index \in Nat
                                 /\ ts[i].index < last
      /\ \A i, j \in 1 .. Len(ts) : i < j => ts[i].index < ts[j].index
  BY WellFormedFacts
<1>2. PICK n \in 0 .. Len(ts) :
        /\ \A i \in 1 .. Len(ts) : ts[i].timestamp <= s <=> i <= n
        /\ AcknowledgedIn(ts, last, s) = IF n = 0 THEN 0 ELSE EntryEnd(ts, n, last)
  BY AcknowledgedInFacts
<1>3. PICK m \in 0 .. Len(ts) :
        /\ \A i \in 1 .. Len(ts) : ts[i].timestamp <= t <=> i <= m
        /\ AcknowledgedIn(ts, last, t) = IF m = 0 THEN 0 ELSE EntryEnd(ts, m, last)
  BY AcknowledgedInFacts
<1>4. n <= m
  <2> SUFFICES ASSUME n > m PROVE FALSE
    BY <1>1
  <2>1. n \in 1 .. Len(ts) /\ ts[n].timestamp <= s /\ ~ (ts[n].timestamp <= t)
    BY <1>1, <1>2, <1>3
  <2> QED BY <1>1, <2>1
<1>5. \A i \in 1 .. Len(ts) : EntryEnd(ts, i, last) \in 0 .. last
  BY <1>1 DEF EntryEnd
<1>6. n # 0 => EntryEnd(ts, n, last) <= EntryEnd(ts, m, last)
  <2>1. CASE n = m \/ n = 0
    BY <1>1, <1>5, <2>1
  <2>2. CASE n # 0 /\ n < m /\ m = Len(ts)
    BY <1>1, <1>2, <2>2 DEF EntryEnd
  <2>3. CASE n # 0 /\ n < m /\ m # Len(ts)
    <3>1. n + 1 \in 1 .. Len(ts) /\ m + 1 \in 1 .. Len(ts) /\ n + 1 < m + 1
      BY <1>1, <1>3, <2>3
    <3> QED BY <1>1, <2>3, <3>1 DEF EntryEnd
  <2> QED BY <1>1, <1>4, <2>1, <2>2, <2>3
<1>7. (\A i \in 1 .. Len(ts) : ts[i].timestamp <= t) => AcknowledgedIn(ts, last, t) = last
  <2> SUFFICES ASSUME \A i \in 1 .. Len(ts) : ts[i].timestamp <= t
               PROVE  AcknowledgedIn(ts, last, t) = last
    OBVIOUS
  <2>1. m = Len(ts)
    BY <1>1, <1>3
  <2>2. CASE ts = << >>
    <3>1. Len(ts) = 0 /\ last = 0
      BY <2>2, EmptySeq DEF WellFormed
    <3> QED BY <1>3, <2>1, <3>1
  <2>3. CASE ts # << >>
    BY <1>1, <1>3, <2>1, <2>3 DEF EntryEnd
  <2> QED BY <2>2, <2>3
<1>8. AcknowledgedIn(ts, last, s) \in 0 .. last
  BY <1>1, <1>2, <1>5
<1>9. AcknowledgedIn(ts, last, s) <= AcknowledgedIn(ts, last, t)
  BY <1>1, <1>2, <1>3, <1>4, <1>5, <1>6
<1> QED BY <1>7, <1>8, <1>9

(* The samples acknowledged by t are those of the entries stamped t or earlier. *)
LEMMA AcknowledgedFacts ==
  ASSUME TypeOK, IndexMatchesCorpus, NEW t \in Nat
  PROVE  \E n \in 0 .. Len(timestamps) :
           /\ \A i \in 1 .. Len(timestamps) : timestamps[i].timestamp <= t <=> i <= n
           /\ Acknowledged(t) = IF n = 0 THEN 0 ELSE EntryEnd(timestamps, n, Len(corpus))
<1>1. Len(corpus) \in Nat
  BY DEF TypeOK
<1> QED BY <1>1, AcknowledgedIsIn, AcknowledgedInFacts DEF IndexMatchesCorpus

(* A later timestamp acknowledges no less, and the server's own all. *)
LEMMA AcknowledgedGrows ==
  ASSUME TypeOK, IndexMatchesCorpus, NEW s \in Nat, NEW t \in Nat, s <= t
  PROVE  /\ Acknowledged(s) \in 0 .. Len(corpus)
         /\ Acknowledged(s) <= Acknowledged(t)
         /\ Acknowledged(server_timestamp) = Len(corpus)
<1>1. Len(corpus) \in Nat /\ server_timestamp \in Nat
  BY DEF TypeOK
<1>2. /\ Acknowledged(s) \in 0 .. Len(corpus)
      /\ Acknowledged(s) <= Acknowledged(t)
  BY <1>1, AcknowledgedIsIn, AcknowledgedInGrows DEF IndexMatchesCorpus
<1>3. Acknowledged(server_timestamp) = Len(corpus)
  <2>1. server_timestamp <= server_timestamp
    BY <1>1
  <2>2. /\ WellFormed(timestamps, Len(corpus))
        /\ \A i \in 1 .. Len(timestamps) : timestamps[i].timestamp <= server_timestamp
    BY DEF IndexMatchesCorpus
  <2>3. AcknowledgedIn(timestamps, Len(corpus), server_timestamp) = Len(corpus)
    BY <1>1, <2>1, <2>2, AcknowledgedInGrows
  <2> QED BY <2>3, AcknowledgedIsIn
<1> QED BY <1>2, <1>3

(* Acknowledged samples are in the corpus. *)
LEMMA AcknowledgedType ==
  ASSUME TypeOK, IndexMatchesCorpus, NEW t \in Nat
  PROVE  Acknowledged(t) \in 0 .. Len(corpus)
<1>1. t <= t
  OBVIOUS
<1> QED BY <1>1, AcknowledgedGrows

\* The first sample ServeUpdates sends is the first that the client did not acknowledge.
LEMMA FirstIndexIsAcknowledged ==
  ASSUME TypeOK, IndexMatchesCorpus, NEW t \in Nat
  PROVE  FirstIndex(t) = Acknowledged(t)
<1>0. /\ Len(timestamps) \in Nat /\ Len(corpus) \in Nat /\ server_timestamp \in Nat
      /\ timestamps # << >> => Len(timestamps) > 0
      /\ WellFormed(timestamps, Len(corpus))
      /\ \A i \in 1 .. Len(timestamps) :
           /\ timestamps[i].timestamp \in Nat /\ timestamps[i].timestamp > 0
           /\ timestamps[i].timestamp <= server_timestamp
  BY WellFormedFacts DEF IndexMatchesCorpus, TypeOK
<1>1. PICK n \in 0 .. Len(timestamps) :
        /\ \A i \in 1 .. Len(timestamps) : timestamps[i].timestamp <= t <=> i <= n
        /\ Acknowledged(t) = IF n = 0 THEN 0 ELSE EntryEnd(timestamps, n, Len(corpus))
  BY AcknowledgedFacts
<1>2. CASE timestamps = << >>
  <2>1. n = 0 /\ Len(corpus) = 0
    BY <1>0, <1>1, <1>2 DEF WellFormed
  <2> QED BY <1>1, <1>2, <2>1 DEF FirstIndex, GetIndex
<1>3. CASE timestamps # << >> /\ n = Len(timestamps)
  <2>1. t >= timestamps[Len(timestamps)].timestamp /\ t # 0
    BY <1>0, <1>1, <1>3
  <2>2. FirstIndex(t) = Len(corpus)
    BY <1>3, <2>1 DEF FirstIndex, GetIndex
  <2> QED BY <1>0, <1>1, <1>3, <2>2 DEF EntryEnd
<1>4. CASE timestamps # << >> /\ n < Len(timestamps)
  <2>1. /\ n + 1 \in 1 .. Len(timestamps) /\ timestamps[n + 1].timestamp > t
        /\ n + 1 = 1 \/ timestamps[n + 1 - 1].timestamp <= t
        /\ ~ (t >= timestamps[Len(timestamps)].timestamp) /\ ~ (t >= server_timestamp)
    BY <1>0, <1>1, <1>4
  <2>2. FirstAfter(timestamps, t) = n + 1
    BY <1>0, <2>1, FirstAfterUnique
  <2>3. CASE n = 0
    <3>1. timestamps[1].index = 0
      BY <1>0, <1>4 DEF WellFormed
    <3> QED BY <1>1, <1>4, <2>1, <2>2, <2>3, <3>1 DEF FirstIndex, GetIndex
  <2>4. CASE n # 0
    <3>1. t # 0
      BY <1>0, <1>1, <2>1, <2>4
    <3> QED BY <1>1, <1>4, <2>1, <2>2, <2>4, <3>1 DEF FirstIndex, GetIndex, EntryEnd
  <2> QED BY <2>3, <2>4
<1> QED BY <1>0, <1>1, <1>2, <1>3, <1>4

\* What the messages of an update are: the time, the samples from FirstIndex on, 'N'.
LEMMA UpdateFacts ==
  ASSUME TypeOK, IndexMatchesCorpus, NEW t \in Nat
  PROVE  /\ FirstIndex(t) \in 0 .. Len(corpus)
         /\ UpdatesSince(t) \in Seq(Replies)
         /\ Len(UpdatesSince(t)) = Len(corpus) - FirstIndex(t) + 2
         /\ UpdatesSince(t)[1] = [type |-> "stamp", stamp |-> server_timestamp]
         /\ \A i \in 1 .. Len(corpus) - FirstIndex(t) + 1 :
              UpdatesSince(t)[i + 1] =
                IF FirstIndex(t) + i <= Len(corpus)
                  THEN [type |-> "sample", sample |-> corpus[FirstIndex(t) + i]]
                  ELSE [type |-> "N"]
<1> DEFINE first == FirstIndex(t)
           item(i) == [type |-> "sample", sample |-> corpus[first + i]]
           n == Len(corpus) - first
           samples == [i \in 1 .. n |-> item(i)]
           stamp == << [type |-> "stamp", stamp |-> server_timestamp] >>
           end == << [type |-> "N"] >>
<1>1. first \in 0 .. Len(corpus)
  BY FirstIndexIsAcknowledged, AcknowledgedType
<1>2. n \in Nat /\ Len(corpus) \in Nat /\ corpus \in Seq(Sample) /\ server_timestamp \in Nat
  BY <1>1 DEF TypeOK
<1>3. stamp \in Seq(Replies) /\ end \in Seq(Replies)
  BY <1>2 DEF Replies
<1>4. UpdatesSince(t) = stamp \o samples \o end
  BY DEF UpdatesSince
<1> HIDE DEF first, n
<1>5. \A i \in 1 .. n : item(i) \in Replies
  BY <1>1, <1>2 DEF Replies, n
<1>6. samples \in Seq(Replies) /\ Len(samples) = n
  BY <1>2, <1>5
<1>7. \A i \in 1 .. n : samples[i] = item(i)
  OBVIOUS
<1>8. stamp[1] = [type |-> "stamp", stamp |-> server_timestamp] /\ Len(stamp) = 1
      /\ end[1] = [type |-> "N"] /\ Len(end) = 1
  OBVIOUS
<1> HIDE DEF samples, stamp, end, item
<1>9. /\ stamp \o samples \in Seq(Replies) /\ Len(stamp \o samples) = n + 1
      /\ (stamp \o samples)[1] = stamp[1]
      /\ \A i \in 1 .. n : (stamp \o samples)[i + 1] = samples[i]
  <2>1. /\ stamp \o samples \in Seq(Replies) /\ Len(stamp \o samples) = n + 1
        /\ \A i \in 1 .. n + 1 : (stamp \o samples)[i] =
             IF i <= 1 THEN stamp[i] ELSE samples[i - 1]
    <3>1. /\ stamp \o samples \in Seq(Replies)
          /\ Len(stamp \o samples) = Len(stamp) + Len(samples)
          /\ \A i \in 1 .. Len(stamp) + Len(samples) : (stamp \o samples)[i] =
               IF i <= Len(stamp) THEN stamp[i] ELSE samples[i - Len(stamp)]
      BY <1>3, <1>6, ConcatProperties
    <3>2. Len(stamp) + Len(samples) = n + 1 /\ Len(stamp) = 1
      BY <1>2, <1>6, <1>8
    <3> QED BY <3>1, <3>2
  <2> QED BY <1>2, <2>1
<1>10. /\ UpdatesSince(t) \in Seq(Replies) /\ Len(UpdatesSince(t)) = n + 2
       /\ \A i \in 1 .. n + 2 : UpdatesSince(t)[i] =
            IF i <= n + 1 THEN (stamp \o samples)[i] ELSE end[i - (n + 1)]
  <2> DEFINE front == stamp \o samples
  <2>1. front \in Seq(Replies) /\ UpdatesSince(t) = front \o end /\ Len(front) = n + 1
    BY <1>4, <1>9
  <2> HIDE DEF front
  <2>2. /\ front \o end \in Seq(Replies)
        /\ Len(front \o end) = Len(front) + Len(end)
        /\ \A i \in 1 .. Len(front) + Len(end) : (front \o end)[i] =
             IF i <= Len(front) THEN front[i] ELSE end[i - Len(front)]
    BY <1>3, <2>1, ConcatProperties
  <2>3. Len(front) + Len(end) = n + 2
    BY <1>2, <1>8, <2>1
  <2>4. /\ UpdatesSince(t) \in Seq(Replies) /\ Len(UpdatesSince(t)) = n + 2
        /\ \A i \in 1 .. n + 2 : UpdatesSince(t)[i] =
             IF i <= n + 1 THEN front[i] ELSE end[i - (n + 1)]
    BY <2>1, <2>2, <2>3
  <2> QED BY <2>4 DEF front
<1>11. UpdatesSince(t)[1] = [type |-> "stamp", stamp |-> server_timestamp]
  BY <1>2, <1>8, <1>9, <1>10
<1>12. \A i \in 1 .. n : UpdatesSince(t)[i + 1] = item(i)
  <2> SUFFICES ASSUME NEW i \in 1 .. n PROVE UpdatesSince(t)[i + 1] = item(i)
    OBVIOUS
  <2>1. i + 1 \in 1 .. n + 2 /\ i + 1 <= n + 1
    BY <1>2
  <2> QED BY <1>7, <1>9, <1>10, <2>1
<1>13. UpdatesSince(t)[n + 2] = [type |-> "N"]
  BY <1>2, <1>8, <1>10
<1> QED
  <2>1. n = Len(corpus) - first /\ first = FirstIndex(t)
    BY DEF n, first
  <2>2. \A i \in 1 .. n + 1 : UpdatesSince(t)[i + 1] =
          IF first + i <= Len(corpus) THEN [type |-> "sample", sample |-> corpus[first + i]]
                                      ELSE [type |-> "N"]
    BY <1>1, <1>2, <1>12, <1>13, <2>1 DEF item
  <2> QED BY <1>1, <1>2, <1>10, <1>11, <2>1, <2>2

\* A thread that is counted makes the count positive.
LEMMA CountedFacts ==
  ASSUME NEW T \in SUBSET Conns
  PROVE  /\ IsFiniteSet(T) /\ Cardinality(T) \in Nat
         /\ \A k \in T : Cardinality(T) - 1 \in Nat
         /\ \A k \in T : Cardinality(T \ {k}) = Cardinality(T) - 1
         /\ \A k \in Conns \ T : Cardinality(T \cup {k}) = Cardinality(T) + 1
<1>1. IsFiniteSet(T) /\ Cardinality(T) \in Nat
  BY FS_Subset, FS_CardinalityType, ServerAssumption
<1>2. ASSUME NEW k \in T PROVE Cardinality(T) # 0
  BY <1>1, FS_EmptySet
<1>3. /\ \A k \in T : Cardinality(T \ {k}) = Cardinality(T) - 1
      /\ \A k \in Conns \ T : Cardinality(T \cup {k}) = Cardinality(T) + 1
  BY <1>1, FS_AddElement, FS_RemoveElement
<1> QED BY <1>1, <1>2, <1>3

\* MAX_CONNECTIONS: a thread that is counted beyond it is not served.
LEMMA LimitStep == TypeOK /\ ConnectionLimit /\ [Next]_vars => ConnectionLimit'
<1> DEFINE Counted == { k \in Conns : pc[k] \notin {"none", "command"} }
<1> SUFFICES ASSUME TypeOK, ConnectionLimit, [Next]_vars PROVE ConnectionLimit'
  OBVIOUS
<1> USE DEF server, memory, disk, wires, clients, counts
<1>0. /\ pc \in [Conns -> {"none", "command", "coverage", "samples", "updates", "close"}]
      /\ Cardinality(Serving) <= MaxConnections /\ num_connections = Cardinality(Counted)
      /\ Serving \subseteq Counted
      /\ IsFiniteSet(Serving) /\ IsFiniteSet(Counted) /\ Cardinality(Serving) \in Nat
      /\ IsFiniteSet(Serving') /\ IsFiniteSet(Counted')
  BY CountedFacts DEF TypeOK, ConnectionLimit, Serving
<1>1. ASSUME NEW k \in Conns, HandleConnection(k) PROVE ConnectionLimit'
  <2>1. Counted' = Counted \cup {k} /\ k \notin Counted
    BY <1>0, <1>1 DEF HandleConnection
  <2>2. num_connections' = Cardinality(Counted')
    BY <1>0, <1>1, <2>1, CountedFacts DEF HandleConnection
  <2>3. CASE Serves(num_connections')
    <3>1. Serving' \subseteq Counted'
      BY DEF Serving
    <3>2. Cardinality(Serving') <= Cardinality(Counted')
      BY <1>0, <3>1, FS_Subset
    <3> QED BY <2>2, <2>3, <3>2, CountedFacts, ServerAssumption DEF ConnectionLimit, Serves, Serving
  <2>4. CASE ~Serves(num_connections')
    <3>1. Serving' = Serving
      BY <1>0, <1>1, <2>4 DEF HandleConnection, Serving
    <3> QED BY <1>0, <2>2, <3>1 DEF ConnectionLimit
  <2> QED BY <2>3, <2>4
<1>2. ASSUME NEW k \in Conns, CloseConnection(k) PROVE ConnectionLimit'
  <2>1. Counted' = Counted \ {k} /\ k \in Counted /\ Serving' = Serving
    BY <1>0, <1>2 DEF CloseConnection, Serving
  <2> QED BY <1>0, <1>2, <2>1, CountedFacts DEF CloseConnection, ConnectionLimit
\* The other steps of a thread let it be served no more and counted the same.
<1>3. ASSUME Counted' = Counted, Serving' \subseteq Serving, num_connections' = num_connections
      PROVE  ConnectionLimit'
  <2>1. Cardinality(Serving') <= Cardinality(Serving) /\ Cardinality(Serving') \in Nat
    BY <1>0, <1>3, FS_Subset, FS_CardinalityType
  <2> QED BY <1>0, <1>3, <2>1, ServerAssumption DEF ConnectionLimit
<1>4. ASSUME NEW k \in Conns, HasNewCoverage(k) \/ OnNewCoverage(k) \/ ServeUpdates(k)
             \/ ServerReadFails(k) \/ Break(k)
      PROVE  ConnectionLimit'
  <2>1. /\ num_connections' = num_connections
        /\ pc' \in [Conns -> {"none", "command", "coverage", "samples", "updates", "close"}]
        /\ \A j \in Conns \ {k} : pc'[j] = pc[j]
        /\ \/ pc'[k] = pc[k]
           \/ pc[k] = "command" /\ pc'[k] = "none"
           \/ pc[k] = "coverage" /\ pc'[k] = "samples"
           \/ pc[k] \in {"coverage", "samples", "updates"} /\ pc'[k] = "close"
    BY <1>0, <1>4
       DEF HasNewCoverage, OnNewCoverage, ServeUpdates, ServerReadFails, Break, AfterFailure
  <2> QED BY <1>3, <2>1 DEF Serving
<1>5. ASSUME NEW c \in Clients, NEW k \in Conns, Connect(c, k) PROVE ConnectionLimit'
  BY <1>0, <1>3, <1>5 DEF Connect, Serving
<1>6. CASE Crash
  <2>1. Counted' = {} /\ Serving' = {} /\ num_connections' = 0
    BY <1>6 DEF Crash, Serving
  <2> QED BY <2>1, FS_EmptySet, ServerAssumption DEF ConnectionLimit
<1>7. CASE UNCHANGED << num_connections, pc >>
  BY <1>3, <1>7 DEF Serving
<1> QED
  BY <1>1, <1>2, <1>4, <1>5, <1>6, <1>7
     DEF Next, Client, Thread, ReportNewCoverage, GetUpdates, Accepted, Retry, Answered, RecvStamp,
         RecvSample, EndUpdates, ClientReadFails, BeginSave, EndSave, RestoreState, vars

(* Every step keeps the types. *)
LEMMA TypeStep == IInv /\ [Next]_vars => TypeOK'
<1> SUFFICES ASSUME IInv, [Next]_vars PROVE TypeOK'
  OBVIOUS
<1>0. TypeOK
  BY DEF IInv
<1> USE DEF server, memory, disk, wires, clients, counts
<1>1. ASSUME NEW k \in Conns, Break(k) PROVE TypeOK'
  <2>1. PICK n \in 0 .. Len(toClient[k]) :
          toClient' = [toClient EXCEPT ![k] = SubSeq(@, 1, n)]
    BY <1>1 DEF Break
  <2>2. toClient[k] \in Seq(Replies) /\ \A i \in 1 .. n : toClient[k][i] \in Replies
    BY <1>0, <2>1 DEF TypeOK
  <2>3. SubSeq(toClient[k], 1, n) \in Seq(Replies)
    BY <2>2, SubSeqProperties
  <2> QED BY <1>0, <1>1, <2>1, <2>3 DEF TypeOK, Break
<1>2. ASSUME NEW c \in Clients, ReportNewCoverage(c) PROVE TypeOK'
  <2>1. PICK cov \in SUBSET Edges, new_samples \in Payloads :
          /\ request' = [request EXCEPT ![c] =
                          [command |-> "S", coverage |-> cov, samples |-> new_samples]]
          /\ known' = [known EXCEPT ![c] = @ \cup cov]
    <3>1. PICK cov \in SUBSET (Edges \ known[c]) :
            /\ \E new_samples \in {<< >>, << [by |-> c, cov |-> cov] >>} :
                 request' = [request EXCEPT ![c] =
                              [command |-> "S", coverage |-> cov, samples |-> new_samples]]
            /\ known' = [known EXCEPT ![c] = @ \cup cov]
      BY <1>2 DEF ReportNewCoverage
    <3>2. [by |-> c, cov |-> cov] \in Sample
      BY <3>1 DEF Sample
    <3>3. << >> \in Payloads /\ << [by |-> c, cov |-> cov] >> \in Payloads
      BY <3>2 DEF Payloads
    <3> QED BY <3>1, <3>3
  <2> QED BY <1>0, <1>2, <2>1 DEF TypeOK, ReportNewCoverage
<1>3. ASSUME NEW c \in Clients, GetUpdates(c) PROVE TypeOK'
  BY <1>0, <1>3 DEF TypeOK, GetUpdates, NoRequest, Payloads
<1>4. ASSUME NEW c \in Clients, NEW k \in Conns, Connect(c, k) PROVE TypeOK'
  <2>1. request[c].command \in {"S", "U"}
    BY <1>0 DEF TypeOK
  <2>2. [type |-> "command", command |-> request[c].command] \in Requests
    BY <2>1 DEF Requests
  <2> QED BY <1>0, <1>4, <2>2 DEF TypeOK, Connect
<1>5. ASSUME NEW c \in Clients, Accepted(c) PROVE TypeOK'
  <2>1. toClient' \in [Conns -> Seq(Replies)]
    BY <1>0, <1>5, ClientReadsType DEF Accepted
  <2>2. /\ [type |-> "coverage", coverage |-> request[c].coverage] \in Requests
        /\ [type |-> "stamp", stamp |-> last_timestamp[c]] \in Requests
    BY <1>0 DEF TypeOK, Requests
  <2>3. toServer' \in [Conns -> Requests \cup {NoMessage}]
    BY <1>0, <1>5, <2>2, ClientSendsType DEF Accepted
  <2> QED BY <1>0, <1>5, <2>1, <2>3 DEF TypeOK, Accepted
<1>6. ASSUME NEW c \in Clients, Retry(c) PROVE TypeOK'
  <2>1. /\ toClient' \in [Conns -> Seq(Replies)]
        /\ sock' \in [Clients -> Conns \cup {NoConn}]
    BY <1>0, <1>6, DisconnectType DEF Retry
  <2> QED BY <1>0, <1>6, <2>1 DEF TypeOK, Retry
<1>7. ASSUME NEW c \in Clients, Answered(c) \/ EndUpdates(c) \/ ClientReadFails(c) PROVE TypeOK'
  <2>1. Returns(c)
    BY <1>7 DEF Answered, EndUpdates, ClientReadFails
  <2>2. /\ toClient' \in [Conns -> Seq(Replies)]
        /\ sock' \in [Clients -> Conns \cup {NoConn}]
    BY <1>0, <2>1, DisconnectType DEF Returns
  <2>3. [type |-> "samples", samples |-> request[c].samples] \in Requests
    BY <1>0 DEF TypeOK, Requests
  <2>4. toServer' \in [Conns -> Requests \cup {NoMessage}]
    BY <1>0, <1>7, <2>3, ClientSendsType DEF TypeOK, Answered, EndUpdates, ClientReadFails
  <2>5. last_timestamp' \in [Clients -> Nat]
    BY <1>0, <1>7 DEF TypeOK, Answered, EndUpdates, ClientReadFails
  <2>6. /\ at' \in [Clients -> {"idle", "connect", "waiting", "answer", "stamp", "samples"}]
        /\ request' \in [Clients -> [command : {"S", "U"}, coverage : SUBSET Edges,
                                     samples : Payloads]]
        /\ update_stamp' \in [Clients -> Nat]
    BY <1>0, <2>1 DEF TypeOK, Returns, NoRequest, Payloads
  <2> QED BY <1>0, <1>7, <2>2, <2>4, <2>5, <2>6 DEF TypeOK, Answered, EndUpdates, ClientReadFails
<1>8. ASSUME NEW c \in Clients, RecvStamp(c) PROVE TypeOK'
  <2>1. toClient' \in [Conns -> Seq(Replies)] /\ Head(toClient[sock[c]]).stamp \in Nat
    BY <1>0, <1>8, ClientReadsType, ReplyTypes DEF RecvStamp
  <2> QED BY <1>0, <1>8, <2>1 DEF TypeOK, RecvStamp
<1>9. ASSUME NEW c \in Clients, RecvSample(c) PROVE TypeOK'
  <2>1. toClient' \in [Conns -> Seq(Replies)] /\ Head(toClient[sock[c]]).sample \in Sample
    BY <1>0, <1>9, ClientReadsType, ReplyTypes DEF RecvSample
  <2> QED BY <1>0, <1>9, <2>1 DEF TypeOK, RecvSample
<1>10. ASSUME NEW k \in Conns, HandleConnection(k) PROVE TypeOK'
  <2>1. << [type |-> "W"] >> \in Seq(Replies) /\ << [type |-> "K"] >> \in Seq(Replies)
    BY DEF Replies
  <2>2. toClient' \in [Conns -> Seq(Replies)]
    BY <1>0, <1>10, <2>1, ServerSendsType DEF HandleConnection
  <2>3. pc' \in [Conns -> {"none", "command", "coverage", "samples", "updates", "close"}]
    BY <1>0, <1>10 DEF TypeOK, HandleConnection
  <2>4. toServer' \in [Conns -> Requests \cup {NoMessage}] /\ num_connections' \in Nat
    BY <1>0, <1>10 DEF TypeOK, HandleConnection, ServerReads
  <2> QED BY <1>0, <1>10, <2>2, <2>3, <2>4 DEF TypeOK, HandleConnection
<1>11. ASSUME NEW k \in Conns, HasNewCoverage(k) PROVE TypeOK'
  <2>1. << [type |-> "N"] >> \in Seq(Replies) /\ << [type |-> "Y"] >> \in Seq(Replies)
    BY DEF Replies
  <2>2. toClient' \in [Conns -> Seq(Replies)]
    BY <1>0, <1>11, <2>1, ServerSendsType DEF HasNewCoverage
  <2>3. toServer[k].coverage \in SUBSET Edges
    BY <1>0, <1>11, RequestTypes DEF TypeOK, HasNewCoverage, Received
  <2>4. fresh' \in [Conns -> SUBSET Edges]
    <3>1. toServer[k].coverage \ total_coverage \in SUBSET Edges
      BY <2>3
    <3> QED BY <1>0, <1>11, <3>1 DEF TypeOK, HasNewCoverage
  <2>5. pc' \in [Conns -> {"none", "command", "coverage", "samples", "updates", "close"}]
    BY <1>0, <1>11 DEF TypeOK, HasNewCoverage
  <2>6. toServer' \in [Conns -> Requests \cup {NoMessage}]
    BY <1>0, <1>11 DEF TypeOK, HasNewCoverage, ServerReads
  <2> QED BY <1>0, <1>11, <2>2, <2>4, <2>5, <2>6 DEF TypeOK, HasNewCoverage
<1>12. ASSUME NEW k \in Conns, OnNewCoverage(k) PROVE TypeOK'
  <2> DEFINE new_samples == toServer[k].samples
  <2>1. new_samples \in Seq(Sample) /\ Len(new_samples) \in {0, 1}
    BY <1>0, <1>12, RequestTypes, PayloadTypes DEF TypeOK, OnNewCoverage, Received
  <2>2. CASE ~StillNew(k)
    BY <1>0, <1>12, <2>2 DEF TypeOK, OnNewCoverage, ServerReads
  <2>3. CASE StillNew(k)
    <3>1. /\ server_timestamp' = server_timestamp + 1
          /\ total_coverage' = total_coverage \cup fresh[k]
          /\ timestamps' = TimestampsAfter(server_timestamp', new_samples)
          /\ corpus' = corpus \o new_samples
          /\ files' = FilesAfter(new_samples)
      BY <1>12, <2>3 DEF OnNewCoverage
    <3> HIDE DEF new_samples
    <3>2. corpus' \in Seq(Sample)
      BY <1>0, <2>1, <3>1, ConcatProperties DEF TypeOK
    <3>3. timestamps' \in Seq(Entry)
      <4>1. [timestamp |-> server_timestamp', index |-> Len(corpus)] \in Entry
        BY <1>0, <3>1 DEF TypeOK, Entry
      <4> QED BY <1>0, <3>1, <4>1 DEF TypeOK, TimestampsAfter
    <3>4. files' \in Seq(Sample)
      BY <1>0, <2>1, <3>1, FilesAfterFacts DEF IInv, CorpusKept
    <3>5. server_timestamp' \in Nat /\ total_coverage' \in SUBSET Edges
      BY <1>0, <3>1 DEF TypeOK
    <3> QED BY <1>0, <1>12, <3>2, <3>3, <3>4, <3>5 DEF TypeOK, OnNewCoverage, ServerReads
  <2> QED BY <2>2, <2>3
<1>13. ASSUME NEW k \in Conns, ServeUpdates(k) PROVE TypeOK'
  <2>1. toServer[k].stamp \in Nat
    BY <1>0, <1>13, RequestTypes DEF TypeOK, ServeUpdates, Received
  <2>2. UpdatesSince(toServer[k].stamp) \in Seq(Replies)
    BY <2>1, UpdateFacts DEF IInv
  <2>3. toClient' \in [Conns -> Seq(Replies)]
    BY <1>0, <1>13, <2>2, ServerSendsType DEF ServeUpdates
  <2> QED BY <1>0, <1>13, <2>3 DEF TypeOK, ServeUpdates, ServerReads
<1>14. ASSUME NEW k \in Conns, CloseConnection(k) PROVE TypeOK'
  <2>1. k \in { j \in Conns : pc[j] \notin {"none", "command"} }
    BY <1>14 DEF CloseConnection
  <2>2. num_connections - 1 \in Nat
    BY <1>0, <2>1, CountedFacts DEF IInv, ConnectionLimit, TypeOK
  <2> QED BY <1>0, <1>14, <2>2 DEF TypeOK, CloseConnection
<1>15. ASSUME NEW k \in Conns, ServerReadFails(k) PROVE TypeOK'
  BY <1>0, <1>15 DEF TypeOK, ServerReadFails, AfterFailure
<1>16. CASE BeginSave
  <2>1. NoState \in States
    BY EmptySeq DEF NoState, States
  <2>2. state_dat' \in States
    BY <1>0, <1>16, <2>1 DEF TypeOK, BeginSave, States
  <2> QED BY <1>0, <1>16, <2>2 DEF TypeOK, BeginSave
<1>17. CASE EndSave
  <2>1. state_dat \in States /\ Len(corpus) \in Nat /\ timestamps \in Seq(Entry)
    BY <1>0 DEF TypeOK
  <2>2. state_dat' \in States
    BY <1>17, <2>1 DEF EndSave, States
  <2> QED BY <1>0, <1>17, <2>2 DEF TypeOK, EndSave
<1>18. CASE Crash
  <2>1. << >> \in Seq(Sample) /\ << >> \in Seq(Entry)
    BY EmptySeq
  <2>2. /\ pc' \in [Conns -> {"none", "command", "coverage", "samples", "updates", "close"}]
        /\ fresh' \in [Conns -> SUBSET Edges]
        /\ toServer' \in [Conns -> Requests \cup {NoMessage}]
    BY <1>18 DEF Crash
  <2>3. corpus' \in Seq(Sample) /\ timestamps' \in Seq(Entry) /\ total_coverage' \in SUBSET Edges
    BY <1>18, <2>1 DEF Crash
  <2>4. up' \in BOOLEAN /\ saving' \in BOOLEAN
    BY <1>18 DEF Crash
  <2>5. server_timestamp' \in Nat /\ num_connections' \in Nat /\ restarts' \in Nat
    BY <1>0, <1>18 DEF TypeOK, Crash
  <2>6. UNCHANGED << disk, toClient, broken, clients, faults >>
    BY <1>18 DEF Crash
  <2> QED BY <1>0, <2>2, <2>3, <2>4, <2>5, <2>6 DEF TypeOK
<1>19. CASE RestoreState
  <2>1. state_dat.size \in 0 .. Len(files) /\ state_dat \in States
    BY <1>0, <1>19 DEF IInv, TypeOK, SavedStateConsistent, RestoreState, States
  <2>2. corpus' \in Seq(Sample)
    <3>1. corpus' = [i \in 1 .. state_dat.size |-> files[i]]
      BY <1>19 DEF RestoreState
    <3>2. \A i \in 1 .. state_dat.size : files[i] \in Sample
      BY <1>0, <2>1 DEF TypeOK
    <3> QED BY <2>1, <3>1, <3>2
  <2> QED BY <1>0, <1>19, <2>1, <2>2 DEF TypeOK, RestoreState, States
<1>20. CASE UNCHANGED vars
  BY <1>0, <1>20 DEF TypeOK, vars
<1> QED BY <1>1, <1>2, <1>3, <1>4, <1>5, <1>6, <1>7, <1>8, <1>9, <1>10, <1>11, <1>12, <1>13, <1>14,
           <1>15, <1>16, <1>17, <1>18, <1>19, <1>20 DEF Next, Client, Thread
-----------------------------------------------------------------------------
(* Sockets and messages.                                                   *)

\* Reading, and leaving, empties only the client's own connection; the server sends
\* only to a client that is there.
LEMMA SocketsStep == TypeOK /\ Sockets /\ [Next]_vars => Sockets'
<1> SUFFICES ASSUME TypeOK, Sockets, [Next]_vars PROVE Sockets'
  OBVIOUS
<1> USE DEF server, memory, disk, wires, clients, counts
<1>0. /\ sock \in [Clients -> Conns \cup {NoConn}] /\ NoConn \notin Conns
      /\ toClient \in [Conns -> Seq(Replies)]
      /\ at \in [Clients -> {"idle", "connect", "waiting", "answer", "stamp", "samples"}]
  BY ServerAssumption DEF TypeOK
<1>1. ASSUME NEW k \in Conns, Break(k) PROVE Sockets'
  <2>1. PICK n \in 0 .. Len(toClient[k]) :
          toClient' = [toClient EXCEPT ![k] = SubSeq(@, 1, n)]
    BY <1>1 DEF Break
  <2>2. toClient[k] = << >> => SubSeq(toClient[k], 1, n) = << >>
    <3>1. toClient[k] = << >> => n = 0
      BY <1>0
    <3> QED BY <3>1, SubSeqEmpty
  <2> QED BY <1>0, <1>1, <2>1, <2>2 DEF Sockets, Attached, Break
<1>2. ASSUME NEW c \in Clients, NEW k \in Conns, Connect(c, k) PROVE Sockets'
  BY <1>0, <1>2 DEF Sockets, Attached, Connect
<1>3. ASSUME NEW c \in Clients, Accepted(c) \/ RecvStamp(c) \/ RecvSample(c) PROVE Sockets'
  <2>1. /\ sock[c] # NoConn /\ sock' = sock /\ ClientReads(c)
        /\ at[c] \in {"waiting", "stamp", "samples"}
        /\ \E l \in {"answer", "stamp", "samples"} : at' = [at EXCEPT ![c] = l]
    BY <1>0, <1>3 DEF Accepted, RecvStamp, RecvSample, Arrives
  <2> QED BY <1>0, <2>1 DEF Sockets, Attached, ClientReads
<1>4. ASSUME NEW c \in Clients, Disconnect(c), at[c] \notin {"idle", "connect"},
             \E l \in {"idle", "connect"} : at' = [at EXCEPT ![c] = l]
      PROVE  Sockets'
  BY <1>0, <1>4 DEF Sockets, Attached, Disconnect
<1>5. ASSUME NEW c \in Clients, Retry(c) PROVE Sockets'
  BY <1>4, <1>5 DEF Retry
<1>6. ASSUME NEW c \in Clients, Answered(c) \/ EndUpdates(c) \/ ClientReadFails(c) PROVE Sockets'
  BY <1>4, <1>6 DEF Answered, EndUpdates, ClientReadFails, Returns
<1>7. ASSUME NEW k \in Conns, NEW msgs, ServerSends(k, msgs), sock' = sock, at' = at
      PROVE  Sockets'
  BY <1>0, <1>7 DEF Sockets, Attached, ServerSends
<1>8. ASSUME NEW k \in Conns, HandleConnection(k) \/ HasNewCoverage(k) \/ ServeUpdates(k)
      PROVE Sockets'
  BY <1>7, <1>8 DEF HandleConnection, HasNewCoverage, ServeUpdates
<1>9. ASSUME NEW c \in Clients, ReportNewCoverage(c) \/ GetUpdates(c) PROVE Sockets'
  <2>1. /\ at[c] = "idle" /\ at' = [at EXCEPT ![c] = "connect"]
        /\ sock' = sock /\ toClient' = toClient
    BY <1>9 DEF ReportNewCoverage, GetUpdates
  <2> QED BY <1>0, <2>1 DEF Sockets, Attached
<1>10. CASE UNCHANGED << sock, at, toClient >>
  BY <1>10 DEF Sockets, Attached
<1> QED
  BY <1>1, <1>2, <1>3, <1>5, <1>6, <1>8, <1>9, <1>10
     DEF Next, Client, Thread, OnNewCoverage, CloseConnection, ServerReadFails, BeginSave,
         EndSave, Crash, RestoreState, vars

(* Every step keeps Down. *)
LEMMA DownStep == TypeOK /\ Down /\ [Next]_vars => Down'
<1> SUFFICES ASSUME TypeOK, Down, [Next]_vars PROVE Down'
  OBVIOUS
<1> USE DEF server, memory, disk, wires, clients, counts
<1>1. CASE Crash
  BY <1>1 DEF Crash, Down, TypeOK
<1>2. CASE RestoreState
  BY <1>2 DEF RestoreState, Down
<1>3. CASE BeginSave \/ EndSave
  BY <1>3 DEF BeginSave, EndSave, Down
<1>4. ASSUME NEW k \in Conns, Thread(k) PROVE Down'
  <2>1. pc[k] # "none" /\ up' = up
    BY <1>4 DEF Thread, HandleConnection, HasNewCoverage, OnNewCoverage, ServeUpdates,
                CloseConnection, ServerReadFails
  <2>2. up
    BY <2>1 DEF Down
  <2> QED BY <2>1, <2>2 DEF Down
<1>5. ASSUME NEW c \in Clients, NEW k \in Conns, Connect(c, k) PROVE Down'
  BY <1>5 DEF Connect, Down
<1>6. CASE UNCHANGED << up, restarts, saving, memory, pc >>
  BY <1>6 DEF Down
<1> QED
  BY <1>1, <1>2, <1>3, <1>4, <1>5, <1>6
     DEF Next, Client, Break, ReportNewCoverage, GetUpdates, Accepted, Retry, Answered, RecvStamp,
         RecvSample, EndUpdates, ClientReadFails, vars

(* Every step keeps SampleOfRequest. *)
LEMMA SampleOfRequestStep == TypeOK /\ SampleOfRequest /\ [Next]_vars => SampleOfRequest'
<1> SUFFICES ASSUME TypeOK, SampleOfRequest, [Next]_vars PROVE SampleOfRequest'
  OBVIOUS
<1> USE DEF server, memory, disk, wires, clients, counts
<1>1. ASSUME NEW c \in Clients, ReportNewCoverage(c) PROVE SampleOfRequest'
  <2>1. PICK cov : \E new_samples \in {<< >>, << [by |-> c, cov |-> cov] >>} :
          request' = [request EXCEPT ![c] =
                       [command |-> "S", coverage |-> cov, samples |-> new_samples]]
    BY <1>1 DEF ReportNewCoverage
  <2>2. PICK new_samples \in {<< >>, << [by |-> c, cov |-> cov] >>} :
          request' = [request EXCEPT ![c] =
                       [command |-> "S", coverage |-> cov, samples |-> new_samples]]
    BY <2>1
  <2>3. \A i \in 1 .. Len(new_samples) : new_samples[i].cov = cov
    BY EmptySeq
  <2> QED BY <2>2, <2>3 DEF TypeOK, SampleOfRequest
<1>2. ASSUME NEW c \in Clients, request' = [request EXCEPT ![c] = NoRequest]
      PROVE  SampleOfRequest'
  <2>1. Len(NoRequest.samples) = 0
    BY EmptySeq DEF NoRequest
  <2> QED BY <1>2, <2>1 DEF TypeOK, SampleOfRequest
<1>3. ASSUME NEW c \in Clients, GetUpdates(c) \/ Answered(c) \/ EndUpdates(c) \/ ClientReadFails(c)
      PROVE  SampleOfRequest'
  BY <1>2, <1>3 DEF GetUpdates, Answered, EndUpdates, ClientReadFails, Returns
<1>4. CASE UNCHANGED request
  BY <1>4 DEF SampleOfRequest
<1> QED
  BY <1>1, <1>3, <1>4
     DEF Next, Client, Thread, Break, Connect, Accepted, Retry, RecvStamp, RecvSample,
         HandleConnection, HasNewCoverage, OnNewCoverage, ServeUpdates, CloseConnection,
         ServerReadFails, BeginSave, EndSave, Crash, RestoreState, vars

(* Steps that do not concern a client's call, nor its connection.          *)
Undisturbed(c) ==
  /\ at'[c] = at[c] /\ request'[c] = request[c] /\ sock'[c] = sock[c]
  /\ last_timestamp'[c] = last_timestamp[c] /\ update_stamp'[c] = update_stamp[c]
  /\ got'[c] = got[c]
  /\ total_coverage \subseteq total_coverage'
  /\ sock[c] # NoConn => /\ pc'[sock[c]] = pc[sock[c]] /\ fresh'[sock[c]] = fresh[sock[c]]
                         /\ toServer'[sock[c]] = toServer[sock[c]]
                         /\ toClient'[sock[c]] = toClient[sock[c]]

(* A client and its thread stay in step when neither of them moves ... *)
LEMMA UndisturbedInStep ==
  ASSUME NEW c \in Clients, Sockets, InStepOf(c), Undisturbed(c)
  PROVE  InStepOf(c)'
<1>1. CASE sock[c] = NoConn
  BY <1>1 DEF Sockets, Undisturbed, InStepOf
<1>2. CASE sock[c] # NoConn
  <2>1. Waiting(c, sock[c]) /\ at[c] = "waiting" => Waiting(c, sock[c])'
    BY <1>2 DEF Undisturbed, Waiting
  <2>2. Answering(c, sock[c]) /\ at[c] = "answer" => Answering(c, sock[c])'
    BY <1>2 DEF Undisturbed, Answering, FreshOf
  <2>3. Updating(c, sock[c]) /\ at[c] = "stamp" => Updating(c, sock[c])'
    BY <1>2 DEF Undisturbed, Updating
  <2> QED BY <1>2, <2>1, <2>2, <2>3 DEF Undisturbed, InStepOf
<1> QED BY <1>1, <1>2

\* A client's step disturbs no other client ...
LEMMA ClientsApart ==
  ASSUME TypeOK, Sockets, NEW c \in Clients, Client(c), NEW d \in Clients \ {c}
  PROVE  Undisturbed(d)
<1> USE DEF server, memory, disk, wires, clients, counts
<1>0. /\ sock[d] # NoConn => sock[d] \in Conns /\ sock[d] # sock[c]
      /\ request \in [Clients -> [command : {"S", "U"}, coverage : SUBSET Edges, samples : Payloads]]
  BY DEF TypeOK, Sockets
<1>1. CASE ReportNewCoverage(c)
  BY <1>0, <1>1 DEF ReportNewCoverage, Undisturbed, TypeOK
<1>2. CASE GetUpdates(c)
  BY <1>0, <1>2 DEF GetUpdates, Undisturbed, TypeOK
<1>3. ASSUME NEW k \in Conns, Connect(c, k) PROVE Undisturbed(d)
  BY <1>0, <1>3 DEF Connect, Attached, Undisturbed, TypeOK
<1>4. CASE Accepted(c)
  BY <1>0, <1>4 DEF Accepted, ClientReads, ClientSends, Undisturbed, TypeOK
<1>5. CASE Retry(c)
  BY <1>0, <1>5 DEF Retry, Disconnect, Undisturbed, TypeOK
<1>6. CASE Answered(c)
  BY <1>0, <1>6 DEF Answered, ClientSends, Returns, Disconnect, Undisturbed, TypeOK
<1>7. CASE RecvStamp(c) \/ RecvSample(c)
  BY <1>0, <1>7 DEF RecvStamp, RecvSample, ClientReads, Undisturbed, TypeOK
<1>8. CASE EndUpdates(c) \/ ClientReadFails(c)
  BY <1>0, <1>8 DEF EndUpdates, ClientReadFails, Returns, Disconnect, Undisturbed, TypeOK
<1> QED BY <1>1, <1>2, <1>3, <1>4, <1>5, <1>6, <1>7, <1>8 DEF Client

\* ... and a thread's step, or the loss of a connection, only the client connected to it.
LEMMA ThreadsApart ==
  ASSUME TypeOK, NEW k \in Conns, Thread(k) \/ Break(k), NEW d \in Clients, sock[d] # k
  PROVE  Undisturbed(d)
<1> USE DEF server, memory, disk, wires, clients, counts
<1>0. sock[d] # NoConn => sock[d] \in Conns
  BY DEF TypeOK
<1>1. CASE Break(k)
  BY <1>0, <1>1 DEF Break, Undisturbed, TypeOK
<1>2. CASE HandleConnection(k)
  BY <1>0, <1>2 DEF HandleConnection, ServerReads, ServerSends, Undisturbed, TypeOK
<1>3. CASE HasNewCoverage(k)
  BY <1>0, <1>3 DEF HasNewCoverage, ServerReads, ServerSends, Undisturbed, TypeOK
<1>4. CASE OnNewCoverage(k)
  BY <1>0, <1>4 DEF OnNewCoverage, ServerReads, Undisturbed, TypeOK
<1>5. CASE ServeUpdates(k)
  BY <1>0, <1>5 DEF ServeUpdates, ServerReads, ServerSends, Undisturbed, TypeOK
<1>6. CASE CloseConnection(k)
  BY <1>0, <1>6 DEF CloseConnection, Undisturbed, TypeOK
<1>7. CASE ServerReadFails(k)
  BY <1>0, <1>7 DEF ServerReadFails, Undisturbed, TypeOK
<1> QED BY <1>1, <1>2, <1>3, <1>4, <1>5, <1>6, <1>7 DEF Thread

\* A client that was accepted has read all it was sent.
LEMMA AcceptedReadsAll ==
  ASSUME TypeOK, Sockets, NEW c \in Clients, InStepOf(c), Accepted(c)
  PROVE  /\ Waiting(c, sock[c]) /\ sock[c] \in Conns
         /\ toClient[sock[c]] # << >> /\ toClient'[sock[c]] = << >>
<1> DEFINE k == sock[c]
<1>1. k \in Conns /\ Waiting(c, k) /\ toClient[k] # << >>
  BY DEF Accepted, Arrives, InStepOf, TypeOK
<1>2. toClient[k] \in Seq(Replies) /\ toClient'[k] = Tail(toClient[k])
  BY <1>1 DEF Accepted, ClientReads, TypeOK
<1>3. Len(toClient[k]) \in Nat \ {0}
  BY <1>1, <1>2, EmptySeq
<1>4. Len(toClient[k]) = 1
  BY <1>1, <1>3, Zenon DEF Waiting
<1>5. Tail(toClient[k]) \in Seq(Replies) /\ Len(Tail(toClient[k])) = 0
  BY <1>1, <1>2, <1>4, HeadTailProperties
<1> QED BY <1>1, <1>2, <1>5, EmptySeq

(* ... when the client moves ... *)
LEMMA ClientInStep ==
  ASSUME TypeOK, Sockets, InStep, NEW c \in Clients, Client(c)
  PROVE  InStepOf(c)'
<1> USE DEF server, memory, disk, wires, clients, counts
<1>0. /\ sock[c] # NoConn => sock[c] \in Conns
      /\ NoConn \notin Conns
      /\ request \in [Clients -> [command : {"S", "U"}, coverage : SUBSET Edges, samples : Payloads]]
      /\ (sock[c] = NoConn) = (at[c] \in {"idle", "connect"})
      /\ InStepOf(c)
  BY ServerAssumption DEF TypeOK, Sockets, InStep
<1>1. CASE ReportNewCoverage(c) \/ GetUpdates(c)
  <2>1. at'[c] = "connect"
    BY <1>1 DEF ReportNewCoverage, GetUpdates, TypeOK
  <2> QED BY <2>1 DEF InStepOf
<1>2. ASSUME NEW k \in Conns, Connect(c, k) PROVE InStepOf(c)'
  <2>1. /\ sock'[c] = k /\ at'[c] = "waiting" /\ pc'[k] = "command" /\ toClient' = toClient
        /\ toServer'[k] = [type |-> "command", command |-> request[c].command]
        /\ request' = request
    BY <1>2 DEF Connect, TypeOK
  <2>2. toClient[k] = << >> /\ Len(<< >>) = 0
    BY <1>2, EmptySeq DEF Connect, Sockets
  <2> QED BY <2>1, <2>2 DEF InStepOf, Waiting
<1>3. CASE Accepted(c)
  <2> DEFINE k == sock[c]
  <2>1. k \in Conns /\ sock' = sock /\ pc' = pc /\ request' = request /\ last_timestamp' = last_timestamp
    BY <1>0, <1>3 DEF Accepted, Arrives
  <2>2. Waiting(c, k) /\ toClient[k] # << >>
    BY <1>0, <1>3, AcceptedReadsAll
  <2>3. toClient'[k] = << >>
    BY <1>0, <1>3, AcceptedReadsAll
  <2>4. CASE request[c].command = "S" /\ at'[c] = "answer"
             /\ ClientSends(k, [type |-> "coverage", coverage |-> request[c].coverage])
    <3>1. Answering(c, k)'
      BY <2>1, <2>2, <2>4 DEF Answering, Waiting, ClientSends, TypeOK
    <3> QED BY <2>1, <2>4, <3>1 DEF InStepOf
  <2>5. CASE request[c].command = "U" /\ at'[c] = "stamp"
             /\ ClientSends(k, [type |-> "stamp", stamp |-> last_timestamp[c]])
    <3>1. Updating(c, k)'
      BY <2>1, <2>2, <2>3, <2>5 DEF Updating, Waiting, ClientSends, TypeOK
    <3> QED BY <2>1, <2>5, <3>1 DEF InStepOf
  <2> QED BY <1>3, <2>4, <2>5 DEF Accepted, TypeOK
<1>4. CASE Retry(c)
  <2>1. at'[c] = "connect"
    BY <1>4 DEF Retry, TypeOK
  <2> QED BY <2>1 DEF InStepOf
<1>5. CASE Answered(c) \/ EndUpdates(c) \/ ClientReadFails(c)
  <2>1. at'[c] = "idle"
    BY <1>5 DEF Answered, EndUpdates, ClientReadFails, Returns, TypeOK
  <2> QED BY <2>1 DEF InStepOf
<1>6. CASE RecvStamp(c)
  <2>1. at'[c] = "samples" /\ sock' = sock /\ pc' = pc
    BY <1>6 DEF RecvStamp, TypeOK
  <2>2. Updating(c, sock[c]) /\ toClient[sock[c]] # << >>
    BY <1>0, <1>6 DEF RecvStamp, Arrives, InStepOf
  <2> QED BY <2>1, <2>2 DEF InStepOf, Updating
<1>7. CASE RecvSample(c)
  BY <1>0, <1>7 DEF RecvSample, InStepOf
<1> QED BY <1>1, <1>2, <1>3, <1>4, <1>5, <1>6, <1>7 DEF Client

(* ... and when the thread does. *)
LEMMA ThreadInStep ==
  ASSUME TypeOK, Sockets, InStep, NEW k \in Conns, Thread(k) \/ Break(k),
         NEW c \in Clients, sock[c] = k
  PROVE  InStepOf(c)'
<1> USE DEF server, memory, disk, wires, clients, counts
<1>0. /\ at[c] \in {"waiting", "answer", "stamp", "samples"} /\ sock[c] # NoConn
      /\ Attached(k) /\ InStepOf(c)
      /\ toClient[k] \in Seq(Replies)
  BY ServerAssumption DEF TypeOK, Sockets, InStep, Attached
<1>1. /\ at' = at /\ sock' = sock /\ request' = request /\ last_timestamp' = last_timestamp
  BY DEF Thread, HandleConnection, HasNewCoverage, OnNewCoverage, ServeUpdates,
         CloseConnection, ServerReadFails, Break
<1>2. CASE Break(k)
  <2>1. PICK n \in 0 .. Len(toClient[k]) :
          toClient' = [toClient EXCEPT ![k] = SubSeq(@, 1, n)]
    BY <1>2 DEF Break
  <2>2. n \in Nat /\ n <= Len(toClient[k]) /\ \A i \in 1 .. n : toClient[k][i] \in Replies
    BY <1>0
  <2>3. /\ Len(SubSeq(toClient[k], 1, n)) <= Len(toClient[k])
        /\ toClient[k] = << >> => SubSeq(toClient[k], 1, n) = << >>
    BY <1>0, <2>2, SubSeqProperties, SubSeqEmpty
  <2>4. /\ toServer'[k] = NoMessage /\ toClient'[k] = SubSeq(toClient[k], 1, n)
        /\ pc' = pc /\ fresh' = fresh /\ total_coverage' = total_coverage
    BY <1>2, <2>1 DEF Break, TypeOK
  <2>5. /\ at[c] = "waiting" => Waiting(c, k)'
        /\ at[c] = "answer" => Answering(c, k)'
        /\ at[c] = "stamp" => Updating(c, k)'
    <3>1. SubSeq(toClient[k], 1, n) \in Seq(Replies)
      BY <2>2, SubSeqProperties
    <3> QED BY <1>0, <1>1, <2>3, <2>4, <3>1 DEF InStepOf, Waiting, Answering, Updating, FreshOf
  <2> QED BY <1>0, <1>1, <2>4, <2>5 DEF InStepOf
<1>3. CASE HandleConnection(k)
  <2>1. at[c] = "waiting" /\ Waiting(c, k) /\ toClient[k] = << >>
    BY <1>0, <1>3 DEF HandleConnection, InStepOf, Waiting, Answering, Updating
  <2>2. toServer'[k] = NoMessage /\ Len(toClient'[k]) \in {0, 1}
    <3>1. PICK msgs \in {<< [type |-> "W"] >>, << [type |-> "K"] >>} : ServerSends(k, msgs)
      BY <1>3 DEF HandleConnection
    <3>2. Len(msgs) = 1 /\ msgs \in Seq({[type |-> "W"], [type |-> "K"]})
      <4>1. CASE msgs = << [type |-> "W"] >>
        BY <4>1
      <4>2. CASE msgs = << [type |-> "K"] >>
        BY <4>2
      <4> QED BY <3>1, <4>1, <4>2
    <3>3. << >> \o msgs = msgs
      BY <3>2, ConcatEmptySeq
    <3>4. toClient'[k] = << >> \/ toClient'[k] = msgs
      BY <1>0, <2>1, <3>1, <3>3 DEF ServerSends, TypeOK
    <3>5. Len(<< >>) = 0 /\ toServer'[k] = NoMessage
      BY <1>3, EmptySeq DEF HandleConnection, ServerReads, TypeOK
    <3>6. Len(toClient'[k]) = 0 \/ Len(toClient'[k]) = 1
      BY <3>2, <3>4, <3>5, Zenon
    <3> QED BY <3>5, <3>6, Zenon
  <2>3. /\ pc'[k] \in {"close", "coverage", "updates"}
        /\ pc'[k] = "coverage" => toServer[k].command = "S"
        /\ pc'[k] = "updates" => toServer[k].command # "S"
    BY <1>3 DEF HandleConnection, TypeOK
  <2>4. toServer[k].command = request[c].command /\ request[c].command \in {"S", "U"}
    BY <1>3, <2>1 DEF HandleConnection, Received, Waiting, TypeOK
  <2>5. Waiting(c, k)'
    BY <1>1, <2>2, <2>3, <2>4 DEF Waiting
  <2> QED BY <1>1, <2>1, <2>5 DEF InStepOf
<1>4. CASE HasNewCoverage(k)
  <2>1. at[c] = "answer" /\ Answering(c, k)
    BY <1>0, <1>4 DEF HasNewCoverage, Received, InStepOf, Waiting, Updating
  <2>2. toServer[k].coverage = request[c].coverage
    BY <1>4, <2>1 DEF HasNewCoverage, Received, Answering
  <2>3. /\ toServer'[k] = NoMessage /\ pc'[k] \in {"close", "samples"}
        /\ total_coverage' = total_coverage
        /\ pc'[k] = "samples" => fresh'[k] = toServer[k].coverage \ total_coverage
    BY <1>4 DEF HasNewCoverage, ServerReads, TypeOK
  <2>4. Answering(c, k)'
    BY <1>1, <2>2, <2>3 DEF Answering, FreshOf
  <2> QED BY <1>1, <2>1, <2>4 DEF InStepOf
<1>5. CASE OnNewCoverage(k) \/ ServeUpdates(k) \/ CloseConnection(k) \/ ServerReadFails(k)
  <2>1. pc'[k] \in {"close", "none"} /\ toServer'[k] = NoMessage
    BY <1>5 DEF OnNewCoverage, ServeUpdates, CloseConnection, ServerReadFails, ServerReads,
                AfterFailure, TypeOK
  <2>2. at[c] = "waiting" => Len(toClient'[k]) \in {0, 1}
    BY <1>0, <1>5 DEF OnNewCoverage, ServeUpdates, CloseConnection, ServerReadFails, InStepOf, Waiting,
                      Received
  <2>3. /\ at[c] = "waiting" => Waiting(c, k)'
        /\ at[c] = "answer" => Answering(c, k)'
        /\ at[c] = "stamp" => Updating(c, k)'
    BY <2>1, <2>2 DEF Waiting, Answering, Updating
  <2> QED BY <1>1, <2>1, <2>3 DEF InStepOf
<1> QED BY <1>2, <1>3, <1>4, <1>5 DEF Thread

(* Hence every step keeps them in step. *)
LEMMA InStepStep ==
  TypeOK /\ Sockets /\ Down /\ InStep /\ [Next]_vars => InStep'
<1> SUFFICES ASSUME TypeOK, Sockets, Down, InStep, [Next]_vars, NEW c \in Clients
             PROVE  InStepOf(c)'
  BY DEF InStep
<1> USE DEF server, memory, disk, wires, clients, counts
<1>0. InStepOf(c)
  BY DEF InStep
<1>1. ASSUME NEW d \in Clients, Client(d) PROVE InStepOf(c)'
  <2>1. CASE d = c
    BY <1>1, <2>1, ClientInStep
  <2>2. CASE d # c
    BY <1>0, <1>1, <2>2, ClientsApart, UndisturbedInStep
  <2> QED BY <2>1, <2>2
<1>2. ASSUME NEW k \in Conns, Thread(k) \/ Break(k) PROVE InStepOf(c)'
  <2>1. CASE sock[c] = k
    BY <1>2, <2>1, ThreadInStep
  <2>2. CASE sock[c] # k
    BY <1>0, <1>2, <2>2, ThreadsApart, UndisturbedInStep
  <2> QED BY <2>1, <2>2
<1>3. CASE BeginSave \/ EndSave \/ UNCHANGED vars
  <2>1. Undisturbed(c)
    BY <1>3 DEF BeginSave, EndSave, vars, Undisturbed
  <2> QED BY <1>0, <2>1, UndisturbedInStep
<1>4. CASE Crash \/ RestoreState
  <2>1. /\ UNCHANGED << toClient, clients >>
        /\ \A k \in Conns : pc'[k] = "none" /\ (toServer'[k] = toServer[k] \/ toServer'[k] = NoMessage)
    BY <1>4 DEF Crash, RestoreState, Down
  <2>2. \A k \in Conns : /\ at[c] = "waiting" /\ Waiting(c, k) => Waiting(c, k)'
                         /\ at[c] = "answer" /\ Answering(c, k) => Answering(c, k)'
                         /\ at[c] = "stamp" /\ Updating(c, k) => Updating(c, k)'
    BY <1>4, <2>1 DEF Waiting, Answering, Updating, Crash, RestoreState, Down
  <2>3. at[c] \in {"waiting", "answer", "stamp", "samples"} => sock[c] \in Conns
    BY DEF Sockets, TypeOK
  <2> QED BY <1>0, <2>1, <2>2, <2>3 DEF InStepOf
<1> QED BY <1>1, <1>2, <1>3, <1>4 DEF Next

\* What a thread's step leaves of FreshOf: the coverage of the server only grows.
LEMMA FreshStays ==
  ASSUME NEW k \in Conns, NEW cov, FreshOf(k, cov), fresh'[k] = fresh[k],
         total_coverage \subseteq total_coverage'
  PROVE  FreshOf(k, cov)'
BY DEF FreshOf

(* Every step keeps FreshIsReported. *)
LEMMA FreshIsReportedStep == IInv /\ [Next]_vars => FreshIsReported'
<1> SUFFICES ASSUME IInv, [Next]_vars, NEW k \in Conns, pc'[k] = "samples",
                    Received(k, "samples")', NEW i \in 1 .. Len(toServer'[k].samples),
                    NEW cov, cov = toServer'[k].samples[i].cov
             PROVE  FreshOf(k, cov)'
  BY DEF FreshIsReported
<1> USE DEF server, memory, disk, wires, clients, counts
<1>0. TypeOK /\ Sockets /\ Down /\ SampleOfRequest /\ InStep
  BY DEF IInv
\* All steps but Answered leave what the thread knows, and what it has received.
<1>1. CASE /\ pc[k] = "samples" /\ toServer'[k] = toServer[k] /\ fresh'[k] = fresh[k]
           /\ total_coverage \subseteq total_coverage'
  <2>1. Received(k, "samples") /\ i \in 1 .. Len(toServer[k].samples)
    BY <1>1 DEF Received
  <2>2. FreshOf(k, toServer[k].samples[i].cov)
    BY <1>1, <2>1 DEF IInv, FreshIsReported
  <2> QED BY <1>1, <2>2, FreshStays
<1>2. ASSUME NEW c \in Clients, Answered(c) PROVE FreshOf(k, cov)'
  <2>1. pc' = pc /\ fresh' = fresh /\ total_coverage' = total_coverage
    BY <1>2 DEF Answered
  <2>2. CASE toServer'[k] = toServer[k]
    BY <1>1, <2>1, <2>2
  <2>3. CASE toServer'[k] # toServer[k]
    <3>1. /\ sock[c] = k /\ toServer'[k] = [type |-> "samples", samples |-> request[c].samples]
          /\ at[c] = "answer"
      BY <1>0, <1>2, <2>3 DEF Answered, ClientSends, TypeOK
    <3>2. FreshOf(k, request[c].coverage)
      BY <1>0, <2>1, <3>1 DEF InStep, InStepOf, Answering
    <3>3. toServer'[k].samples[i].cov = request[c].coverage
      BY <1>0, <3>1 DEF SampleOfRequest
    <3> QED BY <2>1, <3>2, <3>3 DEF FreshOf
  <2> QED BY <2>2, <2>3
<1>3. ASSUME NEW c \in Clients, NEW j \in Conns, Connect(c, j)
      PROVE  FreshOf(k, cov)'
  BY <1>0, <1>1, <1>3 DEF Connect, TypeOK
<1>4. ASSUME NEW c \in Clients, Accepted(c) PROVE FreshOf(k, cov)'
  <2>1. /\ toServer'[k] = toServer[k] \/ toServer'[k].type \in {"coverage", "stamp"}
        /\ pc' = pc /\ fresh' = fresh /\ total_coverage' = total_coverage
    BY <1>0, <1>4 DEF Accepted, ClientSends, TypeOK
  <2> QED BY <1>1, <2>1 DEF Received
<1>5. ASSUME NEW j \in Conns, Thread(j) PROVE FreshOf(k, cov)'
  <2>1. CASE j = k
    <3>1. pc'[k] # "samples" \/ toServer'[k] = NoMessage
      BY <1>0, <1>5, <2>1
         DEF Thread, HandleConnection, HasNewCoverage, OnNewCoverage, ServeUpdates, CloseConnection,
             ServerReadFails, ServerReads, AfterFailure, TypeOK
    <3> QED BY <3>1 DEF Received
  <2>2. CASE j # k
    <3>1. /\ pc'[k] = pc[k] /\ toServer'[k] = toServer[k] /\ fresh'[k] = fresh[k]
          /\ total_coverage \subseteq total_coverage'
      BY <1>0, <1>5, <2>2
         DEF Thread, HandleConnection, HasNewCoverage, OnNewCoverage, ServeUpdates, CloseConnection,
             ServerReadFails, ServerReads, AfterFailure, TypeOK
    <3> QED BY <1>1, <3>1
  <2> QED BY <2>1, <2>2
<1>6. ASSUME NEW j \in Conns, Break(j) PROVE FreshOf(k, cov)'
  <2>1. /\ toServer'[k] = toServer[k] \/ toServer'[k] = NoMessage
        /\ pc' = pc /\ fresh' = fresh /\ total_coverage' = total_coverage
    BY <1>0, <1>6 DEF Break, TypeOK
  <2> QED BY <1>1, <2>1 DEF Received
<1>7. ~Crash /\ ~RestoreState
  BY <1>0 DEF Crash, RestoreState, Down
<1>8. CASE UNCHANGED << pc, toServer, fresh, total_coverage >>
  BY <1>1, <1>8
<1> QED
  BY <1>2, <1>3, <1>4, <1>5, <1>6, <1>7, <1>8
     DEF Next, Client, ReportNewCoverage, GetUpdates, Retry, RecvStamp, RecvSample, EndUpdates,
         ClientReadFails, BeginSave, EndSave, vars
-----------------------------------------------------------------------------
(* The corpus, its index and its files.                                    *)

CorpusInv == /\ IndexMatchesCorpus /\ CorpusKept /\ NoRedundantSample
             /\ SavingInv /\ SavedStateConsistent /\ SavedInv

\* What a report that is still new adds: at most one sample, with coverage that no
\* sample of the corpus has.
LEMMA CommitFacts ==
  ASSUME IInv, NEW k \in Conns, OnNewCoverage(k), StillNew(k)
  PROVE  LET new_samples == toServer[k].samples
         IN /\ up /\ ~saving /\ fresh[k] \in SUBSET Edges
            /\ UNCHANGED << up, saving, state_dat >>
            /\ server_timestamp' = server_timestamp + 1
            /\ total_coverage' = total_coverage \cup fresh[k]
            /\ timestamps' = TimestampsAfter(server_timestamp + 1, new_samples)
            /\ corpus' = corpus \o new_samples /\ files' = FilesAfter(new_samples)
            /\ \/ new_samples = << >>
               \/ \E s \in Sample : new_samples = << s >> /\ FreshOf(k, s.cov)
<1>1. /\ TypeOK /\ Down /\ FreshIsReported
      /\ pc[k] = "samples" /\ Received(k, "samples")
  BY DEF IInv, OnNewCoverage
<1>2. up /\ ~saving /\ fresh[k] \in SUBSET Edges /\ UNCHANGED << up, saving, state_dat >>
  BY <1>1 DEF Down, TypeOK, OnNewCoverage, LockWrite
<1>3. toServer[k].samples \in Payloads
  BY <1>1, RequestTypes DEF TypeOK, Received
<1>4. ASSUME NEW s \in Sample, toServer[k].samples = << s >> PROVE FreshOf(k, s.cov)
  <2>1. 1 \in 1 .. Len(toServer[k].samples) /\ toServer[k].samples[1] = s
    BY <1>4
  <2>2. \A i \in 1 .. Len(toServer[k].samples) : FreshOf(k, toServer[k].samples[i].cov)
    BY <1>1 DEF FreshIsReported
  <2> QED BY <2>1, <2>2
<1> QED BY <1>2, <1>3, <1>4 DEF OnNewCoverage, Payloads, memory

\* The corpus after a commit without a sample: more coverage, later timestamps.
LEMMA CommitCoverage ==
  ASSUME IInv, NEW k \in Conns, OnNewCoverage(k), StillNew(k), toServer[k].samples = << >>
  PROVE  CorpusInv'
<1>0. /\ TypeOK /\ IndexMatchesCorpus /\ CorpusKept /\ NoRedundantSample /\ SavedStateConsistent /\ SavedInv
  BY DEF IInv
<1>1. /\ up /\ ~saving /\ UNCHANGED << up, saving, state_dat, timestamps >>
      /\ server_timestamp' = server_timestamp + 1
      /\ total_coverage \subseteq total_coverage'
      /\ corpus' = corpus \o << >> /\ files' = FilesAfter(<< >>)
  BY CommitFacts DEF TimestampsAfter
<1>2. corpus' = corpus
  BY <1>0, <1>1, ConcatEmptySeq DEF TypeOK
<1>3. /\ Len(files') >= Len(files) /\ files' \in Seq(Sample)
      /\ \A i \in 1 .. Len(corpus) : files'[i] = files[i]
  BY <1>0, <1>1, EmptySeq, FilesAfterFacts DEF CorpusKept
<1>4. Len(corpus) \in Nat /\ Len(files) \in Nat /\ Len(files') \in Nat /\ server_timestamp \in Nat
  BY <1>0, <1>3 DEF TypeOK
<1>5. IndexMatchesCorpus'
  <2>1. \A i \in 1 .. Len(timestamps) : timestamps[i].timestamp \in Nat
    BY <1>0, WellFormedFacts DEF IndexMatchesCorpus
  <2> QED BY <1>0, <1>1, <1>2, <1>4, <2>1 DEF IndexMatchesCorpus
<1>6. CorpusKept'
  BY <1>0, <1>1, <1>2, <1>3, <1>4 DEF CorpusKept
<1>7. NoRedundantSample'
  BY <1>0, <1>2 DEF NoRedundantSample
<1>8. SavingInv'
  BY <1>1 DEF SavingInv
<1>9. SavedStateConsistent' /\ SavedInv'
  <2>1. SUFFICES ASSUME state_dat.complete PROVE SavedStateConsistent' /\ SavedInv'
    BY <1>1 DEF SavedStateConsistent, SavedInv
  <2>2. state_dat.size \in Nat /\ state_dat.size <= Len(corpus)
    BY <1>0, <1>1, <2>1 DEF SavedInv, TypeOK, States
  <2>3. \A n \in 1 .. state_dat.size : files'[n] = files[n] /\ n \in 1 .. Len(corpus)
    BY <1>3, <1>4, <2>2
  <2>4. state_dat.size <= Len(files')
    BY <1>0, <1>3, <1>4, <2>1, <2>2 DEF SavedStateConsistent
  <2>5. SavedStateConsistent'
    BY <1>0, <1>1, <1>2, <2>1, <2>3, <2>4 DEF SavedStateConsistent
  <2>6. \A n \in 1 .. state_dat.size :
          ~ (files'[n].cov \subseteq UNION { files'[j].cov : j \in 1 .. n - 1 })
    <3> SUFFICES ASSUME NEW n \in 1 .. state_dat.size
                 PROVE ~ (files'[n].cov \subseteq UNION { files'[j].cov : j \in 1 .. n - 1 })
      OBVIOUS
    <3>1. \A j \in 1 .. n - 1 : files'[j] = files[j]
      BY <2>2, <2>3
    <3>2. { files'[j].cov : j \in 1 .. n - 1 } = { files[j].cov : j \in 1 .. n - 1 }
      BY <3>1
    <3> QED BY <1>0, <2>1, <2>3, <3>2 DEF SavedInv
  <2> QED BY <1>1, <1>2, <2>1, <2>2, <2>5, <2>6 DEF SavedInv
<1> QED BY <1>5, <1>6, <1>7, <1>8, <1>9 DEF CorpusInv

\* A commit with a sample: it brings an offset the server did not have, as StillNew
\* looked under the lock that the commit is made with.
LEMMA CommitSample ==
  ASSUME IInv, NEW k \in Conns, OnNewCoverage(k), StillNew(k),
         NEW s \in Sample, toServer[k].samples = << s >>
  PROVE  CorpusInv'
<1> DEFINE size == Len(corpus)
           entries == Len(timestamps)
           entry == [timestamp |-> server_timestamp + 1, index |-> size]
<1>0. /\ TypeOK /\ IndexMatchesCorpus /\ CorpusKept /\ NoRedundantSample /\ SavedStateConsistent /\ SavedInv
  BY DEF IInv
<1>1. << s >> # << >> /\ << s >> \in Seq(Sample) /\ Len(<< s >>) = 1 /\ << s >>[1] = s
  OBVIOUS
<1>2. /\ up /\ ~saving /\ UNCHANGED << up, saving, state_dat >>
      /\ server_timestamp' = server_timestamp + 1
      /\ total_coverage' = total_coverage \cup fresh[k]
      /\ timestamps' = Append(timestamps, entry)
      /\ corpus' = corpus \o << s >> /\ files' = FilesAfter(<< s >>)
      /\ FreshOf(k, s.cov)
  <2>1. /\ up /\ ~saving /\ UNCHANGED << up, saving, state_dat >>
        /\ server_timestamp' = server_timestamp + 1
        /\ total_coverage' = total_coverage \cup fresh[k]
        /\ timestamps' = TimestampsAfter(server_timestamp + 1, << s >>)
        /\ corpus' = corpus \o << s >> /\ files' = FilesAfter(<< s >>)
    BY CommitFacts
  <2>2. PICK r \in Sample : << s >> = << r >> /\ FreshOf(k, r.cov)
    BY <1>1, CommitFacts
  <2>3. s = r
    BY <1>1, <2>2
  <2> QED BY <1>1, <2>1, <2>2, <2>3 DEF TimestampsAfter
<1>3. /\ size \in Nat /\ entries \in Nat /\ Len(files) \in Nat /\ server_timestamp \in Nat
      /\ size <= Len(files)
      /\ corpus \in Seq(Sample) /\ timestamps \in Seq(Entry)
  BY <1>0 DEF TypeOK, CorpusKept
<1>4. /\ Len(corpus') = size + 1 /\ corpus'[size + 1] = s
      /\ \A i \in 1 .. size : corpus'[i] = corpus[i]
  BY <1>1, <1>2, <1>3
<1>5. /\ Len(files') \in Nat /\ Len(files') >= Len(files) /\ Len(files') >= size + 1
      /\ files'[size + 1] = s
      /\ \A i \in 1 .. size : files'[i] = files[i]
  <2> DEFINE new_samples == << s >>
  <2>1. new_samples \in Seq(Sample) /\ Len(new_samples) = 1 /\ new_samples[1] = s
    BY <1>1
  <2>2. files' = FilesAfter(new_samples)
    BY <1>2
  <2> HIDE DEF new_samples
  <2>3. /\ files' \in Seq(Sample) /\ Len(files') >= Len(files)
        /\ Len(files') >= size + Len(new_samples)
        /\ \A i \in 1 .. size : files'[i] = files[i]
        /\ \A i \in 1 .. Len(new_samples) : files'[size + i] = new_samples[i]
    BY <1>0, <1>3, <2>1, <2>2, FilesAfterFacts
  <2>4. files'[size + 1] = s
    BY <2>1, <2>3
  <2> QED BY <2>1, <2>3, <2>4
<1>6. IndexMatchesCorpus'
  <2>1. entry \in Entry
    BY <1>3 DEF Entry
  <2>2. /\ timestamps' \in Seq(Entry) /\ Len(timestamps') = entries + 1
        /\ \A i \in 1 .. entries : timestamps'[i] = timestamps[i]
        /\ timestamps'[entries + 1] = entry
    BY <1>2, <1>3, <2>1, AppendProperties
  <2>3. /\ \A i \in 1 .. entries :
             /\ timestamps[i].timestamp \in Nat /\ timestamps[i].index \in Nat
             /\ timestamps[i].timestamp > 0 /\ timestamps[i].timestamp <= server_timestamp
             /\ timestamps[i].index < size
        /\ \A i, j \in 1 .. entries : i < j => /\ timestamps[i].timestamp < timestamps[j].timestamp
                                               /\ timestamps[i].index < timestamps[j].index
        /\ IF timestamps = << >> THEN size = 0 ELSE timestamps[1].index = 0
    BY <1>0, WellFormedFacts DEF IndexMatchesCorpus, WellFormed
  <2>4. entry.timestamp = server_timestamp + 1 /\ entry.index = size
    OBVIOUS
  <2>5. timestamps' # << >> /\ timestamps'[1].index = 0
    <3>1. CASE timestamps = << >>
      <4>1. entries = 0
        BY <3>1, EmptySeq
      <4>2. timestamps'[1] = entry
        <5> HIDE DEF entries, entry
        <5> QED BY <2>2, <4>1
      <4>3. timestamps' # << >>
        <5> HIDE DEF entries, entry
        <5>1. Len(timestamps') = 1
          BY <2>2, <4>1
        <5> QED BY <5>1, EmptySeq
      <4> QED BY <2>3, <2>4, <3>1, <4>2, <4>3
    <3>2. CASE timestamps # << >>
      BY <1>3, <2>2, <2>3, <3>2, EmptySeq
    <3> QED BY <3>1, <3>2
  <2> HIDE DEF entry, entries, size
  <2>6. ASSUME NEW i \in 1 .. entries + 1
        PROVE  /\ timestamps'[i].timestamp > 0 /\ timestamps'[i].index < size + 1
               /\ timestamps'[i].timestamp <= server_timestamp + 1
    <3>1. CASE i = entries + 1
      BY <1>3, <2>2, <2>4, <3>1
    <3>2. CASE i # entries + 1
      <4>1. i \in 1 .. entries
        BY <1>3, <3>2
      <4>2. timestamps'[i] = timestamps[i]
        BY <2>2, <4>1
      <4> QED BY <1>3, <2>3, <4>1, <4>2
    <3> QED BY <3>1, <3>2
  <2>7. ASSUME NEW i \in 1 .. entries + 1, NEW j \in 1 .. entries + 1, i < j
        PROVE  /\ timestamps'[i].timestamp < timestamps'[j].timestamp
               /\ timestamps'[i].index < timestamps'[j].index
    <3>1. CASE j = entries + 1
      <4>1. i \in 1 .. entries
        BY <1>3, <2>7, <3>1
      <4>2. timestamps'[j] = entry /\ timestamps'[i] = timestamps[i]
        BY <2>2, <3>1, <4>1
      <4> QED BY <1>3, <2>3, <2>4, <4>1, <4>2
    <3>2. CASE j # entries + 1
      <4>1. i \in 1 .. entries /\ j \in 1 .. entries
        BY <1>3, <2>7, <3>2
      <4> QED BY <2>2, <2>3, <2>7, <4>1
    <3> QED BY <3>1, <3>2
  <2> QED BY <1>2, <1>4, <2>2, <2>5, <2>6, <2>7 DEF IndexMatchesCorpus, WellFormed
<1> HIDE DEF size
<1>7. CorpusKept'
  <2>1. \A i \in 1 .. size : corpus[i].cov \subseteq total_coverage /\ corpus[i] = files[i]
    BY <1>0 DEF CorpusKept, size
  <2>2. s.cov \subseteq total_coverage'
    BY <1>2 DEF FreshOf
  <2>3. ASSUME NEW i \in 1 .. size + 1
        PROVE  corpus'[i].cov \subseteq total_coverage' /\ corpus'[i] = files'[i]
    <3>1. CASE i = size + 1
      BY <1>4, <1>5, <2>2, <3>1
    <3>2. CASE i # size + 1
      <4>1. i \in 1 .. size
        BY <1>3, <3>2
      <4> QED BY <1>2, <1>4, <1>5, <2>1, <4>1
    <3> QED BY <3>1, <3>2
  <2> QED BY <1>3, <1>4, <1>5, <2>3 DEF CorpusKept
<1>8. NoRedundantSample'
  <2>1. ~ (s.cov \subseteq total_coverage)
    BY <1>2 DEF StillNew, FreshOf
  <2> SUFFICES ASSUME NEW n \in 1 .. size + 1
               PROVE ~ (corpus'[n].cov \subseteq UNION { corpus'[j].cov : j \in 1 .. n - 1 })
    BY <1>4 DEF NoRedundantSample
  <2>2. \A j \in 1 .. n - 1 : corpus'[j] = corpus[j]
    BY <1>3, <1>4
  <2>3. { corpus'[j].cov : j \in 1 .. n - 1 } = { corpus[j].cov : j \in 1 .. n - 1 }
    BY <2>2
  <2>4. CASE n = size + 1
    <3>1. \A j \in 1 .. n - 1 : corpus[j].cov \subseteq total_coverage
      BY <1>0, <1>3, <2>4 DEF CorpusKept, size
    <3>2. UNION { corpus[j].cov : j \in 1 .. n - 1 } \subseteq total_coverage
      BY <3>1
    <3>3. corpus'[n] = s
      BY <1>4, <2>4
    <3> QED BY <2>1, <2>3, <3>2, <3>3
  <2>5. CASE n # size + 1
    <3>1. n \in 1 .. size
      BY <1>3, <2>5
    <3> QED BY <1>0, <1>4, <2>3, <3>1 DEF NoRedundantSample, size
  <2> QED BY <2>4, <2>5
<1>9. SavingInv'
  BY <1>2 DEF SavingInv
<1>10. SavedStateConsistent' /\ SavedInv'
  <2>1. SUFFICES ASSUME state_dat.complete PROVE SavedStateConsistent' /\ SavedInv'
    BY <1>2 DEF SavedStateConsistent, SavedInv
  <2>2. state_dat.size \in Nat /\ state_dat.size <= size
    BY <1>0, <1>2, <2>1 DEF SavedInv, TypeOK, States, size
  <2>3. \A n \in 1 .. state_dat.size :
          files'[n] = files[n] /\ corpus'[n] = corpus[n] /\ n \in 1 .. size
    BY <1>3, <1>4, <1>5, <2>2
  <2>4. state_dat.size <= Len(files') /\ state_dat.size <= Len(corpus')
    BY <1>3, <1>4, <1>5, <2>2
  <2>5. SavedStateConsistent'
    BY <1>0, <1>2, <2>1, <2>3, <2>4 DEF SavedStateConsistent
  <2>6. \A n \in 1 .. state_dat.size :
          ~ (files'[n].cov \subseteq UNION { files'[j].cov : j \in 1 .. n - 1 })
    <3> SUFFICES ASSUME NEW n \in 1 .. state_dat.size
                 PROVE ~ (files'[n].cov \subseteq UNION { files'[j].cov : j \in 1 .. n - 1 })
      OBVIOUS
    <3>1. \A j \in 1 .. n - 1 : files'[j] = files[j]
      BY <2>2, <2>3
    <3>2. { files'[j].cov : j \in 1 .. n - 1 } = { files[j].cov : j \in 1 .. n - 1 }
      BY <3>1
    <3> QED BY <1>0, <2>1, <2>3, <3>2 DEF SavedInv
  <2> QED BY <1>2, <2>1, <2>4, <2>5, <2>6 DEF SavedInv
<1> QED BY <1>6, <1>7, <1>8, <1>9, <1>10 DEF CorpusInv

(* Every step keeps the facts about the corpus and its copies on disk. *)
LEMMA CorpusStep == IInv /\ [Next]_vars => CorpusInv'
<1> SUFFICES ASSUME IInv, [Next]_vars PROVE CorpusInv'
  OBVIOUS
<1>0. /\ TypeOK /\ IndexMatchesCorpus /\ CorpusKept /\ NoRedundantSample
      /\ SavingInv /\ SavedStateConsistent /\ SavedInv
  BY DEF IInv
<1>1. CASE UNCHANGED << up, memory, disk, saving >>
  <2>1. /\ IndexMatchesCorpus' /\ CorpusKept' /\ NoRedundantSample'
    BY <1>0, <1>1 DEF memory, disk, IndexMatchesCorpus, CorpusKept, NoRedundantSample
  <2>2. /\ SavingInv' /\ SavedStateConsistent' /\ SavedInv'
    BY <1>0, <1>1 DEF memory, disk, SavingInv, SavedStateConsistent, SavedInv
  <2> QED BY <2>1, <2>2 DEF CorpusInv
<1> USE DEF server, memory, disk, wires, clients, counts
<1>2. ASSUME NEW k \in Conns, OnNewCoverage(k) PROVE CorpusInv'
  <2>1. CASE ~StillNew(k)
    BY <1>1, <1>2, <2>1 DEF OnNewCoverage
  <2>2. CASE StillNew(k)
    BY <1>2, <2>2, CommitFacts, CommitCoverage, CommitSample
  <2> QED BY <2>1, <2>2
<1>3. CASE BeginSave
  <2>1. /\ IndexMatchesCorpus' /\ CorpusKept' /\ NoRedundantSample'
    BY <1>0, <1>3 DEF BeginSave, IndexMatchesCorpus, CorpusKept, NoRedundantSample
  <2>2. SavingInv'
    BY <1>3 DEF BeginSave, SavingInv, NoState
  <2>3. SavedStateConsistent' /\ SavedInv'
    BY <1>3 DEF BeginSave, NoState, SavedStateConsistent, SavedInv
  <2> QED BY <2>1, <2>2, <2>3 DEF CorpusInv
<1>4. CASE EndSave
  <2>1. /\ IndexMatchesCorpus' /\ CorpusKept' /\ NoRedundantSample'
    BY <1>0, <1>4 DEF EndSave, IndexMatchesCorpus, CorpusKept, NoRedundantSample
  <2>2. /\ UNCHANGED << up, server_timestamp, corpus, files >>
        /\ state_dat'.size = Len(corpus) /\ state_dat'.timestamps = timestamps
        /\ state_dat'.server_timestamp = server_timestamp
        /\ state_dat'.coverage = total_coverage
    BY <1>0, <1>4 DEF EndSave, SavingInv, TypeOK, States
  <2>3. SavedStateConsistent'
    BY <1>0, <2>2 DEF SavedStateConsistent, IndexMatchesCorpus, CorpusKept
  <2>4. SavedInv'
    <3>1. Len(corpus) \in Nat
      BY <1>0 DEF TypeOK
    <3> SUFFICES ASSUME NEW n \in 1 .. Len(corpus)
                 PROVE ~ (files[n].cov \subseteq UNION { files[j].cov : j \in 1 .. n - 1 })
      BY <2>2, <3>1 DEF SavedInv
    <3>2. \A j \in 1 .. n - 1 : j \in 1 .. Len(corpus)
      BY <3>1
    <3>3. { files[j].cov : j \in 1 .. n - 1 } = { corpus[j].cov : j \in 1 .. n - 1 }
      BY <1>0, <3>2 DEF CorpusKept
    <3> QED BY <1>0, <3>3 DEF CorpusKept, NoRedundantSample
  <2>5. SavingInv'
    BY <1>4 DEF EndSave, SavingInv
  <2> QED BY <2>1, <2>3, <2>4, <2>5 DEF CorpusInv
<1>5. CASE Crash
  <2>1. Len(<< >>) = 0 /\ << >> \in Seq(Entry)
    BY EmptySeq
  <2>2. /\ ~up' /\ ~saving' /\ corpus' = << >> /\ timestamps' = << >>
        /\ state_dat' = state_dat /\ files' = files
    BY <1>5 DEF Crash
  <2>3. Len(files) \in Nat
    BY <1>0 DEF TypeOK
  <2>4. IndexMatchesCorpus' /\ CorpusKept' /\ NoRedundantSample'
    BY <2>1, <2>2, <2>3 DEF IndexMatchesCorpus, WellFormed, CorpusKept, NoRedundantSample
  <2>5. SavingInv' /\ SavedStateConsistent' /\ SavedInv'
    BY <1>0, <2>2 DEF SavingInv, SavedStateConsistent, SavedInv
  <2> QED BY <2>4, <2>5 DEF CorpusInv
<1>6. CASE RestoreState
  <2> DEFINE size == state_dat.size
  <2>1. /\ state_dat.complete /\ ~saving' /\ state_dat' = state_dat /\ files' = files
        /\ server_timestamp' = state_dat.server_timestamp
        /\ total_coverage' = state_dat.coverage
        /\ corpus' = [i \in 1 .. size |-> files[i]]
        /\ timestamps' = state_dat.timestamps
    BY <1>0, <1>6 DEF RestoreState, SavingInv
  <2>2. /\ size \in Nat /\ size <= Len(files)
    BY <1>0, <2>1 DEF TypeOK, States, SavedStateConsistent
  <2>3. Len(corpus') = size /\ \A i \in 1 .. size : corpus'[i] = files[i]
    <3>1. \A i \in 1 .. size : files[i] \in Sample
      BY <1>0, <2>2 DEF TypeOK
    <3> QED BY <2>1, <2>2, <3>1
  <2> HIDE DEF size
  <2>4. IndexMatchesCorpus'
    BY <1>0, <2>1, <2>3 DEF SavedStateConsistent, IndexMatchesCorpus, size
  <2>5. CorpusKept'
    BY <1>0, <2>1, <2>2, <2>3 DEF SavedStateConsistent, CorpusKept, size
  <2>6. NoRedundantSample'
    <3> SUFFICES ASSUME NEW n \in 1 .. size
                 PROVE ~ (corpus'[n].cov \subseteq UNION { corpus'[j].cov : j \in 1 .. n - 1 })
      BY <2>3 DEF NoRedundantSample
    <3>1. \A j \in 1 .. n - 1 : j \in 1 .. size
      BY <2>2
    <3>2. { corpus'[j].cov : j \in 1 .. n - 1 } = { files[j].cov : j \in 1 .. n - 1 }
      BY <2>3, <3>1
    <3> QED BY <1>0, <2>1, <2>3, <3>2 DEF SavedInv, size
  <2>7. SavingInv'
    BY <2>1 DEF SavingInv
  <2>8. SavedStateConsistent' /\ SavedInv'
    <3>1. size <= Len(corpus')
      BY <2>2, <2>3
    <3>2. SavedStateConsistent'
      BY <1>0, <2>1, <2>3 DEF SavedStateConsistent, size
    <3>3. SavedInv'
      <4>1. \A n \in 1 .. state_dat.size :
              ~ (files[n].cov \subseteq UNION { files[j].cov : j \in 1 .. n - 1 })
        BY <1>0, <2>1 DEF SavedInv
      <4>2. state_dat'.size <= Len(corpus')
        BY <2>1, <3>1 DEF size
      <4>3. \A n \in 1 .. state_dat'.size :
              ~ (files'[n].cov \subseteq UNION { files'[j].cov : j \in 1 .. n - 1 })
        <5>1. state_dat' = state_dat /\ files' = files
          BY <2>1
        <5> QED BY <4>1, <5>1, Zenon
      <4> QED BY <4>2, <4>3, Zenon DEF SavedInv
    <3> QED BY <3>2, <3>3
  <2> QED BY <2>4, <2>5, <2>6, <2>7, <2>8 DEF CorpusInv
<1> QED
  BY <1>1, <1>2, <1>3, <1>4, <1>5, <1>6
     DEF Next, Client, Thread, ReportNewCoverage, GetUpdates, Connect, Accepted, Retry, Answered,
         RecvStamp, RecvSample, EndUpdates, ClientReadFails, HandleConnection, HasNewCoverage,
         ServeUpdates, CloseConnection, ServerReadFails, Break, vars

(* Every step keeps the invariant. *)
LEMMA InvStep == IInv /\ [Next]_vars => IInv'
BY TypeStep, SocketsStep, DownStep, SampleOfRequestStep, InStepStep, FreshIsReportedStep, CorpusStep,
   LimitStep DEF IInv, CorpusInv

\* The server's state stays in the invariant, with clients that come and go, connections
\* that break, saves, crashes and restores.
THEOREM InductiveInvariant == Spec => []IInv
<1> QED BY InitInv, InvStep, PTL DEF Spec

\* Every variable of the server and of its clients keeps its type, the messages on
\* their way and the saved state included.
THEOREM TypeCorrect == Spec => []TypeOK
<1>1. IInv => TypeOK
  BY DEF IInv
<1> QED BY <1>1, InductiveInvariant, PTL

\* MAX_CONNECTIONS holds for the connections that are served.
THEOREM ConnectionsLimited == Spec => []ConnectionLimit
<1>1. IInv => ConnectionLimit
  BY DEF IInv
<1> QED BY <1>1, InductiveInvariant, PTL

\* GetIndex is only called on a vector it works for: GetIndexSplits (ProceduresProofs) applies to every
\* call of ServeUpdates.
THEOREM IndexStaysWellFormed == Spec => []IndexMatchesCorpus
<1>1. IInv => IndexMatchesCorpus
  BY DEF IInv
<1> QED BY <1>1, InductiveInvariant, PTL

\* OnNewCoverage's second look at the coverage keeps out what another client brought
\* meanwhile.
THEOREM NoSampleRedundant == Spec => []NoRedundantSample
<1>1. IInv => NoRedundantSample
  BY DEF IInv
<1> QED BY <1>1, InductiveInvariant, PTL

\* Commits during SaveState are held off by its lock, and commits after it leave the
\* files it counts alone: server_state.dat can be restored.
THEOREM SavedStateRestorable == Spec => []SavedStateConsistent
<1>1. IInv => SavedStateConsistent
  BY DEF IInv
<1> QED BY <1>1, InductiveInvariant, PTL
-----------------------------------------------------------------------------
(* Until it is restarted, the server implements SampleFeed.                *)

FP == INSTANCE SampleFeedProofs WITH
        Samples <- Sample, log <- corpus,
        acked <- [c \in Clients |-> Acknowledged(last_timestamp[c])]

\* The corpus only grows, and new samples are acknowledged only by later timestamps.
Grows ==
  /\ server_timestamp <= server_timestamp'
  /\ Len(corpus) <= Len(corpus')
  /\ \A i \in 1 .. Len(corpus) : corpus'[i] = corpus[i]
  /\ \A t \in 0 .. server_timestamp : Acknowledged(t)' = Acknowledged(t)

(* A step that leaves the corpus alone keeps what is acknowledged ... *)
LEMMA SameMemoryGrows ==
  ASSUME TypeOK, UNCHANGED memory
  PROVE  Grows
<1>1. Len(corpus) \in Nat /\ server_timestamp \in Nat
  BY DEF TypeOK
<1> QED BY <1>1, AcknowledgedIsIn DEF memory, Grows

(* ... and so does one that adds a sample. *)
LEMMA CommitGrows ==
  ASSUME IInv, IInv', NEW k \in Conns, OnNewCoverage(k), StillNew(k)
  PROVE  Grows
<1> DEFINE size == Len(corpus)
           entries == Len(timestamps)
           new_samples == toServer[k].samples
<1>0. /\ TypeOK /\ IndexMatchesCorpus /\ TypeOK' /\ IndexMatchesCorpus'
      /\ size \in Nat /\ entries \in Nat /\ server_timestamp \in Nat /\ Len(corpus') \in Nat
      /\ corpus \in Seq(Sample) /\ timestamps \in Seq(Entry)
  <2>1. TypeOK /\ IndexMatchesCorpus /\ TypeOK' /\ IndexMatchesCorpus'
    BY DEF IInv
  <2>2. corpus' \in Seq(Sample)
    BY <2>1 DEF TypeOK
  <2>3. corpus \in Seq(Sample) /\ timestamps \in Seq(Entry) /\ server_timestamp \in Nat
    BY <2>1 DEF TypeOK
  <2> QED BY <2>1, <2>2, <2>3
<1>1. /\ server_timestamp' = server_timestamp + 1
      /\ timestamps' = TimestampsAfter(server_timestamp + 1, new_samples)
      /\ corpus' = corpus \o new_samples
  BY CommitFacts
<1>2. CASE new_samples = << >>
  <2>1. corpus' = corpus /\ timestamps' = timestamps
    BY <1>0, <1>1, <1>2, ConcatEmptySeq DEF TimestampsAfter
  <2> QED BY <1>0, <1>1, <2>1, AcknowledgedIsIn DEF Grows
<1>3. ASSUME NEW s \in Sample, new_samples = << s >> PROVE Grows
  <2> DEFINE entry == [timestamp |-> server_timestamp + 1, index |-> size]
  <2>1. timestamps' = Append(timestamps, entry) /\ corpus' = corpus \o << s >>
    BY <1>1, <1>3 DEF TimestampsAfter
  <2>2. Len(corpus') = size + 1 /\ \A i \in 1 .. size : corpus'[i] = corpus[i]
    BY <1>0, <2>1
  <2>3. entry \in Entry /\ entry.timestamp = server_timestamp + 1 /\ entry.index = size
    BY <1>0 DEF Entry
  <2>4. /\ Len(timestamps') = entries + 1
        /\ \A i \in 1 .. entries : timestamps'[i] = timestamps[i]
        /\ timestamps'[entries + 1] = entry
    BY <1>0, <2>1, <2>3, AppendProperties
  <2> HIDE DEF entry, entries, size
  <2>5. ASSUME NEW t \in 0 .. server_timestamp PROVE Acknowledged(t)' = Acknowledged(t)
    <3>0. t \in Nat /\ t <= server_timestamp
      BY <1>0
    <3>1. PICK n \in 0 .. entries :
            /\ \A i \in 1 .. entries : timestamps[i].timestamp <= t <=> i <= n
            /\ Acknowledged(t) = IF n = 0 THEN 0 ELSE EntryEnd(timestamps, n, size)
      BY <1>0, <3>0, AcknowledgedFacts DEF entries, size
    <3>2. PICK m \in 0 .. Len(timestamps') :
            /\ \A i \in 1 .. Len(timestamps') : timestamps'[i].timestamp <= t <=> i <= m
            /\ Acknowledged(t)' = IF m = 0 THEN 0 ELSE EntryEnd(timestamps', m, Len(corpus'))
      <4>1. WellFormed(timestamps', Len(corpus'))
        BY <1>0 DEF IndexMatchesCorpus
      <4>2. Acknowledged(t)' = AcknowledgedIn(timestamps', Len(corpus'), t)
        BY AcknowledgedIsIn
      <4> QED BY <1>0, <3>0, <4>1, <4>2, AcknowledgedInFacts
    <3>3. ~ (timestamps'[entries + 1].timestamp <= t)
      BY <1>0, <2>3, <2>4, <3>0
    <3>4. m \in 0 .. entries
      BY <1>0, <2>4, <3>2, <3>3
    <3>5. \A i \in 1 .. entries : i <= m <=> i <= n
      <4> SUFFICES ASSUME NEW i \in 1 .. entries PROVE i <= m <=> i <= n
        OBVIOUS
      <4>1. i \in 1 .. Len(timestamps') /\ timestamps'[i] = timestamps[i]
        BY <1>0, <2>4
      <4> QED BY <3>1, <3>2, <4>1
    <3>6. m = n
      <4>1. n \in Nat /\ m \in Nat
        BY <1>0, <3>1, <3>4
      <4>2. m <= n
        <5>1. m \in 1 .. entries => (m <= m <=> m <= n)
          BY <3>5
        <5> QED BY <1>0, <3>4, <4>1, <5>1
      <4>3. n <= m
        <5>1. n \in 1 .. entries => (n <= m <=> n <= n)
          BY <3>5
        <5> QED BY <1>0, <3>1, <4>1, <5>1
      <4> QED BY <4>1, <4>2, <4>3
    <3>7. CASE n = 0
      BY <3>1, <3>2, <3>6, <3>7
    <3>8. CASE n # 0
      <4>1. CASE n = entries
        BY <1>0, <2>3, <2>4, <3>1, <3>2, <3>6, <3>8, <4>1 DEF EntryEnd, entries, size
      <4>2. CASE n # entries
        <5>1. n + 1 \in 1 .. entries
          BY <1>0, <3>1, <4>2
        <5>2. EntryEnd(timestamps, n, size) = timestamps[n + 1].index
          BY <4>2 DEF EntryEnd, entries
        <5>3. EntryEnd(timestamps', n, Len(corpus')) = timestamps'[n + 1].index
          BY <1>0, <2>4, <3>1 DEF EntryEnd
        <5> QED BY <2>4, <3>1, <3>2, <3>6, <3>8, <5>1, <5>2, <5>3
      <4> QED BY <4>1, <4>2
    <3> QED BY <3>7, <3>8
  <2> QED BY <1>0, <1>1, <2>2, <2>5 DEF Grows, size
<1> QED BY <1>2, <1>3, CommitFacts

\* Every step before a restart lets the corpus grow.
LEMMA GrowsStep == IInv /\ IInv' /\ [Next]_vars /\ restarts' = 0 => Grows
<1> SUFFICES ASSUME IInv, IInv', [Next]_vars, restarts' = 0 PROVE Grows
  OBVIOUS
<1> USE DEF server, memory, disk, wires, clients, counts
<1>0. TypeOK /\ Down
  BY DEF IInv
<1>1. CASE UNCHANGED memory
  BY <1>0, <1>1, SameMemoryGrows
<1>2. ASSUME NEW k \in Conns, OnNewCoverage(k) PROVE Grows
  <2>1. CASE ~StillNew(k)
    BY <1>1, <1>2, <2>1 DEF OnNewCoverage
  <2>2. CASE StillNew(k)
    BY <1>2, <2>2, CommitGrows
  <2> QED BY <2>1, <2>2
<1>3. ~Crash
  BY <1>0 DEF Crash, TypeOK
<1>4. ~RestoreState
  BY <1>0 DEF RestoreState, Down, TypeOK
<1> QED
  BY <1>1, <1>2, <1>3, <1>4
     DEF Next, Client, Thread, ReportNewCoverage, GetUpdates, Connect, Accepted, Retry, Answered,
         RecvStamp, RecvSample, EndUpdates, ClientReadFails, HandleConnection, HasNewCoverage,
         ServeUpdates, CloseConnection, ServerReadFails, Break, BeginSave, EndSave, vars

\* Samples do not leave a prefix of the corpus that grows.
LEMMA PrefixGrown ==
  ASSUME TypeOK, Grows, NEW n \in 0 .. Len(corpus)
  PROVE  Feed!Prefix(n)' = Feed!Prefix(n)
<1>1. Len(corpus) \in Nat
  BY DEF TypeOK
<1>2. \A i \in 1 .. n : corpus'[i] = corpus[i]
  BY <1>1 DEF Grows
<1> QED BY <1>2 DEF Feed!Prefix

\* An update that is under way stays one while the corpus grows.
LEMMA UpdateToKept ==
  ASSUME TypeOK, IndexMatchesCorpus, Grows, NEW c \in Clients, NEW s \in Nat, NEW msgs, NEW o,
         TypeOK', UpdateTo(c, s, msgs, o), last_timestamp'[c] = last_timestamp[c], got[c] \subseteq got'[c]
  PROVE  UpdateTo(c, s, msgs, o)'
<1>0. Len(corpus) \in Nat /\ server_timestamp \in Nat
  BY DEF TypeOK
<1>1. Acknowledged(s) \in 0 .. Len(corpus)
  BY AcknowledgedType
<1>2. PICK m \in 0 .. Len(corpus) : m = Acknowledged(s)
  BY <1>1
<1>3. PICK j \in 0 .. m : Feed!Prefix(j) \subseteq got[c] /\ Stream(msgs, o, j, m)
  BY <1>2 DEF UpdateTo
<1>4. last_timestamp[c] <= s /\ s <= server_timestamp
  BY DEF UpdateTo
<1>5. last_timestamp'[c] <= s /\ s <= server_timestamp'
  <2>1. server_timestamp' \in Nat /\ server_timestamp <= server_timestamp'
    BY DEF TypeOK, Grows
  <2> QED BY <1>0, <1>4, <2>1
<1>6. Acknowledged(s)' = m
  BY <1>0, <1>2, <1>4 DEF Grows
<1>7. Feed!Prefix(j)' = Feed!Prefix(j)
  BY <1>0, PrefixGrown
<1>8. Stream(msgs, o, j, m)'
  <2> SUFFICES ASSUME NEW i \in 1 .. Len(msgs) - o
               PROVE msgs[o + i] = IF j + i <= m
                                     THEN [type |-> "sample", sample |-> corpus'[j + i]]
                                     ELSE [type |-> "N"]
    BY DEF Stream
  <2>1. j + i <= m => corpus'[j + i] = corpus[j + i]
    BY <1>0 DEF Grows
  <2> QED BY <1>3, <2>1 DEF Stream
<1> QED BY <1>3, <1>5, <1>6, <1>7, <1>8 DEF UpdateTo

(* Steps that leave what a client received, or is sent, of an update.       *)
UpdateKept(c) ==
  /\ at'[c] = at[c] /\ sock'[c] = sock[c] /\ got'[c] = got[c]
  /\ last_timestamp'[c] = last_timestamp[c] /\ update_stamp'[c] = update_stamp[c]
  /\ at[c] \in {"stamp", "samples"} => toClient'[sock[c]] = toClient[sock[c]]

\* The types of what an update is made of.
LEMMA UpdateTypes ==
  ASSUME TypeOK, Sockets, NEW c \in Clients, at[c] \in {"stamp", "samples"}
  PROVE  /\ sock[c] \in Conns /\ toClient[sock[c]] \in Seq(Replies)
         /\ update_stamp[c] \in Nat /\ last_timestamp[c] \in Nat
         /\ toClient[sock[c]] # << >> =>
              /\ Len(toClient[sock[c]]) \in Nat \ {0}
              /\ toClient[sock[c]][1] \in Replies
              /\ Head(toClient[sock[c]]) = toClient[sock[c]][1]
              /\ toClient[sock[c]][1].type = "stamp" => toClient[sock[c]][1].stamp \in Nat
<1>1. /\ sock[c] \in Conns /\ toClient[sock[c]] \in Seq(Replies)
      /\ update_stamp[c] \in Nat /\ last_timestamp[c] \in Nat
  BY DEF TypeOK, Sockets
<1>2. ASSUME toClient[sock[c]] # << >>
      PROVE  /\ Len(toClient[sock[c]]) \in Nat \ {0}
             /\ toClient[sock[c]][1] \in Replies
             /\ Head(toClient[sock[c]]) = toClient[sock[c]][1]
  <2>1. Len(toClient[sock[c]]) \in Nat \ {0}
    BY <1>1, <1>2, EmptySeq
  <2> QED BY <1>1, <1>2, <2>1
<1> QED BY <1>1, <1>2, ReplyTypes

(* An update under way stays what it is when others move. *)
LEMMA UpdateOfKept ==
  ASSUME TypeOK, TypeOK', Sockets, IndexMatchesCorpus, Grows, NEW c \in Clients,
         UpdateOf(c), UpdateKept(c)
  PROVE  UpdateOf(c)'
<1>1. last_timestamp'[c] <= server_timestamp'
  <2>1. /\ last_timestamp[c] \in Nat /\ server_timestamp \in Nat /\ server_timestamp' \in Nat
        /\ last_timestamp[c] <= server_timestamp /\ server_timestamp <= server_timestamp'
        /\ last_timestamp'[c] = last_timestamp[c]
    BY DEF TypeOK, UpdateOf, Grows, UpdateKept
  <2> QED BY <2>1
<1>2. PICK msgs : msgs = toClient[sock[c]]
  OBVIOUS
<1>3. ASSUME at[c] = "stamp", msgs # << >>
      PROVE  msgs[1].type = "stamp" /\ UpdateTo(c, msgs[1].stamp, msgs, 1)'
  <2>1. msgs[1].type = "stamp" /\ UpdateTo(c, msgs[1].stamp, msgs, 1)
    BY <1>2, <1>3 DEF UpdateOf
  <2>2. msgs[1].stamp \in Nat
    BY <1>2, <1>3, <2>1, UpdateTypes
  <2> QED BY <2>1, <2>2, UpdateToKept DEF UpdateKept
<1>4. ASSUME at[c] = "samples" PROVE UpdateTo(c, update_stamp[c], toClient[sock[c]], 0)'
  <2>1. PICK s \in Nat : s = update_stamp[c]
    BY <1>4, UpdateTypes
  <2>2. UpdateTo(c, s, msgs, 0)
    BY <1>2, <1>4, <2>1 DEF UpdateOf
  <2>3. UpdateTo(c, s, msgs, 0)'
    BY <2>2, UpdateToKept DEF UpdateKept
  <2> QED BY <1>2, <1>4, <2>1, <2>3 DEF UpdateKept
<1> QED BY <1>1, <1>2, <1>3, <1>4 DEF UpdateOf, UpdateKept

\* The next message of an update is the first sample after those the client had before,
\* or 'N' if it has them all.
LEMMA NextOfUpdate ==
  ASSUME TypeOK, Sockets, IndexMatchesCorpus, NEW c \in Clients, UpdateOf(c),
         at[c] = "samples", toClient[sock[c]] # << >>
  PROVE  \E m \in 0 .. Len(corpus) : \E j \in 0 .. m :
           /\ m = Acknowledged(update_stamp[c])
           /\ last_timestamp[c] <= update_stamp[c] /\ update_stamp[c] <= server_timestamp
           /\ Feed!Prefix(j) \subseteq got[c]
           /\ Head(toClient[sock[c]]).type = "N" => j = m
           /\ Head(toClient[sock[c]]).type = "sample" =>
                /\ j < m /\ Head(toClient[sock[c]]).sample = corpus[j + 1]
                /\ Stream(Tail(toClient[sock[c]]), 0, j + 1, m)
<1>1. PICK msgs : msgs = toClient[sock[c]]
  OBVIOUS
<1>2. /\ msgs \in Seq(Replies) /\ msgs # << >> /\ Len(msgs) \in Nat \ {0} /\ Head(msgs) = msgs[1]
      /\ update_stamp[c] \in Nat
  BY <1>1, UpdateTypes
<1>3. PICK m \in 0 .. Len(corpus) : m = Acknowledged(update_stamp[c])
  BY <1>2, AcknowledgedType
<1>4. /\ last_timestamp[c] <= update_stamp[c] /\ update_stamp[c] <= server_timestamp
      /\ \E j \in 0 .. m : Feed!Prefix(j) \subseteq got[c] /\ Stream(msgs, 0, j, m)
  BY <1>1, <1>3 DEF UpdateOf, UpdateTo
<1>5. PICK j \in 0 .. m : Feed!Prefix(j) \subseteq got[c] /\ Stream(msgs, 0, j, m)
  BY <1>4
<1>6. Len(corpus) \in Nat /\ m \in Nat /\ j \in Nat /\ j <= m
  BY <1>3, <1>5 DEF TypeOK
<1>7. \A i \in 1 .. Len(msgs) :
        msgs[i] = IF j + i <= m THEN [type |-> "sample", sample |-> corpus[j + i]]
                                ELSE [type |-> "N"]
  <2> SUFFICES ASSUME NEW i \in 1 .. Len(msgs)
               PROVE msgs[i] = IF j + i <= m THEN [type |-> "sample", sample |-> corpus[j + i]]
                                             ELSE [type |-> "N"]
    OBVIOUS
  <2>1. i \in 1 .. Len(msgs) - 0 /\ 0 + i = i
    BY <1>2
  <2>2. msgs[0 + i] = IF j + i <= m THEN [type |-> "sample", sample |-> corpus[j + i]]
                                    ELSE [type |-> "N"]
    BY <1>5, <2>1 DEF Stream
  <2> QED BY <2>1, <2>2
<1>8. Head(msgs) = IF j + 1 <= m THEN [type |-> "sample", sample |-> corpus[j + 1]]
                                 ELSE [type |-> "N"]
  <2>1. 1 \in 1 .. Len(msgs)
    BY <1>2
  <2> QED BY <1>2, <1>7, <2>1
<1>9. /\ Head(msgs).type = "N" => ~ (j + 1 <= m)
      /\ Head(msgs).type = "sample" => j + 1 <= m /\ Head(msgs).sample = corpus[j + 1]
  BY <1>8
<1>10. Stream(Tail(msgs), 0, j + 1, m)
  <2>1. Len(Tail(msgs)) = Len(msgs) - 1 /\ \A i \in 1 .. Len(msgs) - 1 : Tail(msgs)[i] = msgs[i + 1]
    BY <1>2
  <2> SUFFICES ASSUME NEW i \in 1 .. Len(msgs) - 1
               PROVE Tail(msgs)[i] = IF j + i + 1 <= m
                                       THEN [type |-> "sample", sample |-> corpus[j + i + 1]]
                                       ELSE [type |-> "N"]
    BY <1>2, <1>6, <2>1 DEF Stream
  <2>2. i + 1 \in 1 .. Len(msgs) /\ j + (i + 1) = j + i + 1
    BY <1>2, <1>6
  <2> QED BY <1>7, <2>1, <2>2
<1>11. /\ Head(msgs).type = "N" => j = m
       /\ Head(msgs).type = "sample" => j < m /\ Head(msgs).sample = corpus[j + 1]
  BY <1>6, <1>9
<1> QED BY <1>1, <1>3, <1>4, <1>5, <1>10, <1>11

\* What ServeUpdates sends is an update for a client that has what it acknowledged.
LEMMA ServedUpdate ==
  ASSUME TypeOK, IndexMatchesCorpus, NEW c \in Clients, last_timestamp[c] <= server_timestamp,
         Feed!HasAcked(c), NEW msgs, msgs = UpdatesSince(last_timestamp[c])
  PROVE  /\ msgs[1].type = "stamp" /\ msgs[1].stamp = server_timestamp
         /\ UpdateTo(c, server_timestamp, msgs, 1)
<1> DEFINE t == last_timestamp[c]
           first == FirstIndex(t)
<1>0. t \in Nat /\ server_timestamp \in Nat /\ Len(corpus) \in Nat /\ t <= server_timestamp
  BY DEF TypeOK
<1>1. /\ first \in 0 .. Len(corpus) /\ Len(msgs) = Len(corpus) - first + 2
      /\ msgs[1] = [type |-> "stamp", stamp |-> server_timestamp]
      /\ \A i \in 1 .. Len(corpus) - first + 1 : msgs[i + 1] =
           IF first + i <= Len(corpus) THEN [type |-> "sample", sample |-> corpus[first + i]]
                                       ELSE [type |-> "N"]
  BY <1>0, UpdateFacts
<1>2. first = Acknowledged(t) /\ Acknowledged(server_timestamp) = Len(corpus)
  BY <1>0, FirstIndexIsAcknowledged, AcknowledgedGrows
<1>3. Feed!Prefix(first) \subseteq got[c]
  BY <1>2 DEF Feed!HasAcked
<1> HIDE DEF first, t
<1>4. Stream(msgs, 1, first, Len(corpus))
  <2> SUFFICES ASSUME NEW i \in 1 .. Len(msgs) - 1
               PROVE msgs[1 + i] = IF first + i <= Len(corpus)
                                     THEN [type |-> "sample", sample |-> corpus[first + i]]
                                     ELSE [type |-> "N"]
    BY DEF Stream
  <2>1. i \in 1 .. Len(corpus) - first + 1 /\ 1 + i = i + 1
    BY <1>0, <1>1
  <2> QED BY <1>1, <2>1
<1>5. UpdateTo(c, server_timestamp, msgs, 1)
  BY <1>0, <1>1, <1>2, <1>3, <1>4 DEF UpdateTo, t
<1> QED BY <1>1, <1>5

\* A client that reads an update has one sample more of it, or its timestamp.
LEMMA ClientUpdate ==
  ASSUME IInv, IInv', NEW c \in Clients, UpdateOf(c), Client(c)
  PROVE  UpdateOf(c)'
<1> USE DEF server, memory, disk, wires, clients, counts
<1>0. /\ TypeOK /\ TypeOK' /\ Sockets /\ IndexMatchesCorpus /\ InStep
      /\ last_timestamp[c] <= server_timestamp
  BY DEF IInv, UpdateOf
<1>1. UNCHANGED memory
  BY DEF Client, ReportNewCoverage, GetUpdates, Connect, Accepted, Retry, Answered, RecvStamp,
         RecvSample, EndUpdates, ClientReadFails
<1>2. Grows
  BY <1>0, <1>1, SameMemoryGrows
<1>3. ASSUME last_timestamp'[c] <= server_timestamp, at'[c] \notin {"stamp", "samples"}
      PROVE  UpdateOf(c)'
  BY <1>1, <1>3 DEF UpdateOf
<1>4. CASE ReportNewCoverage(c) \/ GetUpdates(c) \/ Retry(c) \/ Answered(c) \/ ClientReadFails(c)
           \/ \E k \in Conns : Connect(c, k)
  <2>1. last_timestamp' = last_timestamp /\ at'[c] \in {"idle", "connect", "waiting"}
    BY <1>0, <1>4 DEF ReportNewCoverage, GetUpdates, Retry, Answered, ClientReadFails, Connect, Returns, TypeOK
  <2> QED BY <1>0, <1>3, <2>1
<1>5. CASE Accepted(c)
  <2>1. /\ toClient'[sock'[c]] = << >> /\ last_timestamp' = last_timestamp
        /\ at'[c] \in {"answer", "stamp"}
    BY <1>0, <1>5, AcceptedReadsAll DEF InStep, Accepted, TypeOK
  <2> QED BY <1>0, <1>1, <2>1 DEF UpdateOf
<1>6. CASE RecvStamp(c)
  <2>1. PICK msgs : msgs = toClient[sock[c]]
    OBVIOUS
  <2>2. /\ at[c] = "stamp" /\ msgs # << >> /\ at'[c] = "samples" /\ sock' = sock /\ got' = got
        /\ last_timestamp' = last_timestamp
        /\ update_stamp'[c] = Head(msgs).stamp /\ toClient'[sock[c]] = Tail(msgs)
    BY <1>0, <1>6, <2>1 DEF RecvStamp, Arrives, ClientReads, TypeOK
  <2>3. /\ msgs \in Seq(Replies) /\ Len(msgs) \in Nat \ {0} /\ Head(msgs) = msgs[1]
        /\ msgs[1].type = "stamp" /\ msgs[1].stamp \in Nat
        /\ UpdateTo(c, msgs[1].stamp, msgs, 1)
    BY <1>0, <2>1, <2>2, UpdateTypes DEF UpdateOf
  <2>4. PICK s \in Nat : s = msgs[1].stamp
    BY <2>3
  <2>5. UpdateTo(c, s, Tail(msgs), 0)
    <3>1. Len(Tail(msgs)) = Len(msgs) - 1 /\ \A i \in 1 .. Len(msgs) - 1 : Tail(msgs)[i] = msgs[i + 1]
      BY <2>2, <2>3
    <3>2. ASSUME NEW j, NEW m, Stream(msgs, 1, j, m) PROVE Stream(Tail(msgs), 0, j, m)
      <4> SUFFICES ASSUME NEW i \in 1 .. Len(msgs) - 1
                   PROVE Tail(msgs)[i] = IF j + i <= m
                                           THEN [type |-> "sample", sample |-> corpus[j + i]]
                                           ELSE [type |-> "N"]
        BY <2>3, <3>1 DEF Stream
      <4>1. 1 + i = i + 1
        BY <2>3
      <4> QED BY <3>1, <3>2, <4>1 DEF Stream
    <3> QED BY <2>3, <2>4, <3>2 DEF UpdateTo
  <2>6. PICK rest : rest = Tail(msgs)
    OBVIOUS
  <2>7. UpdateTo(c, s, rest, 0)'
    BY <1>0, <1>2, <2>2, <2>5, <2>6, UpdateToKept
  <2>8. update_stamp'[c] = s /\ toClient'[sock'[c]] = rest
    BY <2>2, <2>3, <2>4, <2>6
  <2> QED BY <1>0, <1>1, <2>2, <2>7, <2>8 DEF UpdateOf
<1>7. CASE RecvSample(c)
  <2>1. PICK msgs, rest : msgs = toClient[sock[c]] /\ rest = Tail(msgs)
    OBVIOUS
  <2>2. /\ at[c] = "samples" /\ msgs # << >> /\ at' = at /\ sock' = sock
        /\ last_timestamp' = last_timestamp /\ update_stamp' = update_stamp
        /\ Head(msgs).type = "sample" /\ got'[c] = got[c] \cup {Head(msgs).sample}
        /\ toClient'[sock[c]] = rest
    BY <1>0, <1>7, <2>1 DEF RecvSample, Arrives, ClientReads, TypeOK
  <2>3. PICK m \in 0 .. Len(corpus), j \in Nat :
           /\ m = Acknowledged(update_stamp[c]) /\ j \in 0 .. m
           /\ last_timestamp[c] <= update_stamp[c] /\ update_stamp[c] <= server_timestamp
           /\ Feed!Prefix(j) \subseteq got[c]
           /\ j < m /\ Head(msgs).sample = corpus[j + 1]
           /\ Stream(rest, 0, j + 1, m)
    BY <1>0, <2>1, <2>2, NextOfUpdate
  <2>4. m \in Nat /\ j \in Nat /\ j + 1 \in 0 .. m
    <3>1. Len(corpus) \in Nat
      BY <1>0 DEF TypeOK
    <3>2. m \in Nat /\ j \in Nat /\ j < m
      BY <2>3, <3>1
    <3> QED BY <3>2
  <2>5. Feed!Prefix(j + 1) \subseteq got'[c]
    <3>1. 1 .. j + 1 = 1 .. j \cup {j + 1}
      BY <2>4
    <3>2. \A i \in 1 .. j : corpus[i] \in got[c]
      BY <2>3 DEF Feed!Prefix
    <3> QED BY <2>2, <2>3, <3>1, <3>2 DEF Feed!Prefix
  <2>6. /\ Feed!Prefix(j + 1)' = Feed!Prefix(j + 1) /\ Stream(rest, 0, j + 1, m)'
        /\ Acknowledged(update_stamp[c])' = m
    BY <1>1, <2>2, <2>3, AcknowledgedIsIn DEF Feed!Prefix, Stream
  <2>7. UpdateTo(c, update_stamp[c], toClient[sock[c]], 0)'
    BY <1>1, <2>2, <2>3, <2>4, <2>5, <2>6 DEF UpdateTo
  <2> QED BY <1>0, <1>1, <2>2, <2>7 DEF UpdateOf
<1>8. CASE EndUpdates(c)
  <2>1. at[c] = "samples" /\ at'[c] = "idle" /\ last_timestamp'[c] = update_stamp[c]
    BY <1>0, <1>8 DEF EndUpdates, Returns, TypeOK
  <2> QED BY <1>3, <2>1 DEF UpdateOf, UpdateTo
<1> QED BY <1>4, <1>5, <1>6, <1>7, <1>8 DEF Client

\* What a connection loses is the end of an update.
LEMMA BreakUpdate ==
  ASSUME IInv, IInv', NEW k \in Conns, NEW c \in Clients, sock[c] = k, UpdateOf(c), Break(k)
  PROVE  UpdateOf(c)'
<1> USE DEF server, memory, disk, wires, clients, counts
<1>0. /\ TypeOK /\ TypeOK' /\ Sockets /\ IndexMatchesCorpus
  BY DEF IInv
<1>1. UNCHANGED << memory, clients >>
  BY DEF Break
<1>2. Grows
  BY <1>0, <1>1, SameMemoryGrows
<1>3. PICK n \in 0 .. Len(toClient[k]) : toClient' = [toClient EXCEPT ![k] = SubSeq(@, 1, n)]
  BY DEF Break
<1>4. PICK msgs, rest : msgs = toClient[k] /\ rest = SubSeq(msgs, 1, n)
  OBVIOUS
<1>5. CASE at[c] \in {"stamp", "samples"}
  <2>1. /\ msgs \in Seq(Replies) /\ Len(msgs) \in Nat /\ n \in 0 .. Len(msgs)
        /\ toClient'[k] = rest
    BY <1>0, <1>3, <1>4, <1>5, UpdateTypes DEF TypeOK
  <2>2. Len(rest) = n /\ \A i \in 1 .. n : rest[i] = msgs[i]
    BY <1>4, <2>1
  <2>3. ASSUME NEW o \in {0, 1}, NEW j, NEW m, Stream(msgs, o, j, m) PROVE Stream(rest, o, j, m)
    <3> SUFFICES ASSUME NEW i \in 1 .. n - o
                 PROVE rest[o + i] = IF j + i <= m
                                       THEN [type |-> "sample", sample |-> corpus[j + i]]
                                       ELSE [type |-> "N"]
      BY <2>2 DEF Stream
    <3>1. i \in 1 .. Len(msgs) - o /\ o + i \in 1 .. n
      BY <2>1, <2>2
    <3> QED BY <2>2, <2>3, <3>1 DEF Stream
  <2>4. ASSUME NEW o \in {0, 1}, NEW s \in Nat, UpdateTo(c, s, msgs, o) PROVE UpdateTo(c, s, rest, o)'
    <3>1. UpdateTo(c, s, rest, o)
      BY <2>3, <2>4 DEF UpdateTo
    <3> QED BY <1>0, <1>1, <1>2, <3>1, UpdateToKept
  <2>5. CASE at[c] = "stamp" /\ rest # << >>
    <3>1. msgs # << >> /\ rest[1] = msgs[1]
      <4>1. rest \in Seq(Replies)
        BY <1>4, <2>1
      <4>2. Len(rest) \in Nat \ {0}
        BY <2>5, <4>1, EmptySeq
      <4>3. n \in 1 .. Len(msgs)
        BY <2>1, <2>2, <4>2
      <4> QED BY <2>1, <2>2, <4>3, EmptySeq
    <3>2. msgs[1].type = "stamp" /\ msgs[1].stamp \in Nat /\ UpdateTo(c, msgs[1].stamp, msgs, 1)
      BY <1>0, <1>4, <1>5, <2>5, <3>1, UpdateTypes DEF UpdateOf
    <3>3. PICK s \in Nat : s = msgs[1].stamp
      BY <3>2
    <3>4. UpdateTo(c, s, rest, 1)'
      BY <2>4, <3>2, <3>3
    <3> QED BY <1>1, <2>1, <2>5, <3>1, <3>2, <3>3, <3>4 DEF UpdateOf
  <2>6. CASE at[c] = "stamp" /\ rest = << >>
    BY <1>1, <2>1, <2>6 DEF UpdateOf
  <2>7. CASE at[c] = "samples"
    <3>1. PICK s \in Nat : s = update_stamp[c]
      BY <1>0 DEF TypeOK
    <3>2. UpdateTo(c, s, rest, 0)'
      BY <1>4, <2>4, <2>7, <3>1 DEF UpdateOf
    <3> QED BY <1>1, <2>1, <2>7, <3>1, <3>2 DEF UpdateOf
  <2> QED BY <1>5, <2>5, <2>6, <2>7
<1>6. CASE at[c] \notin {"stamp", "samples"}
  BY <1>1, <1>6 DEF UpdateOf
<1> QED BY <1>5, <1>6

\* ServeUpdates sends an update, and other threads nothing to a client that waits for one.
LEMMA ThreadUpdate ==
  ASSUME IInv, IInv', Grows, NEW k \in Conns, NEW c \in Clients, sock[c] = k, UpdateOf(c),
         Feed!HasAcked(c), Thread(k)
  PROVE  UpdateOf(c)'
<1> USE DEF server, memory, disk, wires, clients, counts
<1>0. /\ TypeOK /\ TypeOK' /\ Sockets /\ IndexMatchesCorpus
      /\ InStepOf(c) /\ last_timestamp[c] <= server_timestamp
  BY DEF IInv, InStep, UpdateOf
<1>1. UNCHANGED clients
  BY DEF Thread, HandleConnection, HasNewCoverage, OnNewCoverage, ServeUpdates, CloseConnection,
         ServerReadFails
<1>2. CASE HandleConnection(k) \/ HasNewCoverage(k)
  <2>1. at[c] \notin {"stamp", "samples"} /\ UNCHANGED memory
    BY <1>0, <1>2 DEF InStepOf, Updating, HandleConnection, HasNewCoverage
  <2> QED BY <1>0, <1>1, <2>1 DEF UpdateOf
<1>3. CASE OnNewCoverage(k) \/ CloseConnection(k) \/ ServerReadFails(k)
  <2>1. UpdateKept(c)
    BY <1>1, <1>3 DEF UpdateKept, OnNewCoverage, CloseConnection, ServerReadFails
  <2> QED BY <1>0, <2>1, UpdateOfKept
<1>4. CASE ServeUpdates(k) /\ at[c] # "stamp"
  <2>1. at[c] # "samples" /\ UNCHANGED memory
    BY <1>0, <1>4 DEF InStepOf, ServeUpdates
  <2> QED BY <1>0, <1>1, <1>4, <2>1 DEF UpdateOf
<1>5. CASE ServeUpdates(k) /\ at[c] = "stamp"
  <2>1. PICK msgs : msgs = UpdatesSince(last_timestamp[c])
    OBVIOUS
  <2>2. toClient[k] = << >> /\ toServer[k].stamp = last_timestamp[c] /\ UNCHANGED memory
    BY <1>0, <1>5 DEF InStepOf, Updating, ServeUpdates, Received
  <2>3. msgs \in Seq(Replies)
    BY <1>0, <2>1, UpdateFacts DEF TypeOK
  <2>4. toClient'[k] = << >> \/ toClient'[k] = msgs
    <3>1. << >> \o msgs = msgs
      BY <2>3, ConcatEmptySeq
    <3> QED BY <1>0, <1>5, <2>1, <2>2, <3>1 DEF ServeUpdates, ServerSends, TypeOK
  <2>5. /\ msgs[1].type = "stamp" /\ msgs[1].stamp = server_timestamp
        /\ UpdateTo(c, server_timestamp, msgs, 1)
    BY <1>0, <2>1, ServedUpdate
  <2>6. PICK s \in Nat : s = server_timestamp
    BY <1>0 DEF TypeOK
  <2>7. UpdateTo(c, s, msgs, 1)'
    BY <1>0, <1>1, <2>5, <2>6, UpdateToKept
  <2> QED BY <1>0, <1>1, <1>5, <2>2, <2>4, <2>5, <2>6, <2>7 DEF UpdateOf
<1> QED BY <1>2, <1>3, <1>4, <1>5 DEF Thread

(* Before a restart every step keeps UpdateOf, for every client. *)
LEMMA UpdateStep ==
  ASSUME IInv, IInv', [Next]_vars, restarts' = 0, Feed!InOrder, \A c \in Clients : UpdateOf(c)
  PROVE  \A c \in Clients : UpdateOf(c)'
<1> SUFFICES ASSUME NEW c \in Clients PROVE UpdateOf(c)'
  OBVIOUS
<1> USE DEF server, memory, disk, wires, clients, counts
<1>0. /\ TypeOK /\ TypeOK' /\ Sockets /\ IndexMatchesCorpus /\ Down
      /\ UpdateOf(c) /\ Feed!HasAcked(c)
  BY DEF IInv, Feed!InOrder
<1>1. Grows
  BY GrowsStep
<1>2. ASSUME UpdateKept(c) PROVE UpdateOf(c)'
  BY <1>0, <1>1, <1>2, UpdateOfKept
<1>3. ASSUME Undisturbed(c) PROVE UpdateOf(c)'
  <2>1. at[c] \in {"stamp", "samples"} => sock[c] # NoConn
    BY <1>0 DEF Sockets
  <2>2. UpdateKept(c)
    BY <1>3, <2>1 DEF Undisturbed, UpdateKept
  <2> QED BY <1>2, <2>2
<1>4. ASSUME NEW d \in Clients, Client(d) PROVE UpdateOf(c)'
  <2>1. CASE d = c
    BY <1>0, <1>4, <2>1, ClientUpdate
  <2>2. CASE d # c
    BY <1>0, <1>3, <1>4, <2>2, ClientsApart
  <2> QED BY <2>1, <2>2
<1>5. ASSUME NEW k \in Conns, Thread(k) \/ Break(k) PROVE UpdateOf(c)'
  <2>1. CASE sock[c] = k
    BY <1>0, <1>1, <1>5, <2>1, ThreadUpdate, BreakUpdate
  <2>2. CASE sock[c] # k
    BY <1>0, <1>3, <1>5, <2>2, ThreadsApart
  <2> QED BY <2>1, <2>2
<1>6. CASE BeginSave \/ EndSave \/ UNCHANGED vars
  <2>1. UpdateKept(c)
    BY <1>6 DEF BeginSave, EndSave, vars, UpdateKept
  <2> QED BY <1>2, <2>1
<1>7. ~Crash /\ ~RestoreState
  BY <1>0 DEF Crash, RestoreState, Down, TypeOK
<1> QED BY <1>4, <1>5, <1>6, <1>7 DEF Next

\* What a client acknowledged stays so while its timestamp does.
LEMMA AckedStays ==
  ASSUME TypeOK, Grows, NEW c \in Clients, UpdateOf(c), last_timestamp'[c] = last_timestamp[c]
  PROVE  Acknowledged(last_timestamp[c])' = Acknowledged(last_timestamp[c])
<1>1. PICK t \in Nat : t = last_timestamp[c]
  BY DEF TypeOK
<1>2. t \in 0 .. server_timestamp
  BY <1>1 DEF UpdateOf, TypeOK
<1>3. Acknowledged(t)' = Acknowledged(t)
  BY <1>2 DEF Grows
<1> QED BY <1>1, <1>3 DEF Acknowledged

\* OnNewCoverage admits a sample, or none.
LEMMA CommitAdmits ==
  ASSUME IInv, Grows, \A c \in Clients : UpdateOf(c), NEW k \in Conns, OnNewCoverage(k), StillNew(k)
  PROVE  Feed!Admit \/ UNCHANGED Feed!vars
<1> USE DEF clients
<1>0. /\ TypeOK /\ CorpusKept
  BY DEF IInv
<1>1. UNCHANGED << got, last_timestamp >>
  BY DEF OnNewCoverage
<1>2. [c \in Clients |-> Acknowledged(last_timestamp[c])]'
        = [c \in Clients |-> Acknowledged(last_timestamp[c])]
  BY <1>0, <1>1, AckedStays
<1>3. CASE toServer[k].samples = << >>
  <2>1. corpus' = corpus
    BY <1>0, <1>3, CommitFacts, ConcatEmptySeq DEF TypeOK
  <2> QED BY <1>1, <1>2, <2>1 DEF Feed!vars
<1>4. ASSUME NEW s \in Sample, toServer[k].samples = << s >>, FreshOf(k, s.cov) PROVE Feed!Admit
  <2>1. corpus' = Append(corpus, s)
    <3>1. corpus' = corpus \o << s >>
      BY <1>4, CommitFacts
    <3>2. corpus \in Seq(Sample)
      BY <1>0 DEF TypeOK
    <3> QED BY <3>1, <3>2
  <2>2. ~ (s.cov \subseteq total_coverage)
    BY <1>4 DEF StillNew, FreshOf
  <2>3. s \notin Feed!Prefix(Len(corpus))
    BY <1>0, <2>2 DEF CorpusKept, Feed!Prefix
  <2> QED BY <1>1, <1>2, <2>1, <2>3 DEF Feed!Admit
<1> QED BY <1>3, <1>4, CommitFacts

\* A client that reads a sample receives the next of the log, unless it had it from an
\* update that broke off.
LEMMA ReadDelivers ==
  ASSUME IInv, Feed!InOrder, Grows, \A c \in Clients : UpdateOf(c),
         NEW c \in Clients, RecvSample(c)
  PROVE  Feed!Deliver(c) \/ UNCHANGED Feed!vars
<1> USE DEF server, memory, clients
<1>0. /\ TypeOK /\ Sockets /\ IndexMatchesCorpus /\ UpdateOf(c) /\ Feed!HasPrefix(c)
      /\ Len(corpus) \in Nat
  BY DEF IInv, Feed!InOrder, TypeOK
<1>1. PICK sample : sample = Head(toClient[sock[c]]).sample
  OBVIOUS
<1>2. /\ got' = [got EXCEPT ![c] = @ \cup {sample}]
      /\ UNCHANGED << corpus, last_timestamp >>
      /\ at[c] = "samples" /\ toClient[sock[c]] # << >> /\ Head(toClient[sock[c]]).type = "sample"
  BY <1>1 DEF RecvSample, Arrives
<1>3. [d \in Clients |-> Acknowledged(last_timestamp[d])]'
        = [d \in Clients |-> Acknowledged(last_timestamp[d])]
  BY <1>0, <1>2, AckedStays
<1>4. PICK m \in 0 .. Len(corpus), j \in Nat :
        /\ j \in 0 .. m /\ Feed!Prefix(j) \subseteq got[c] /\ j < m /\ sample = corpus[j + 1]
  BY <1>0, <1>1, <1>2, NextOfUpdate
<1>5. PICK n \in 0 .. Len(corpus) : got[c] = Feed!Prefix(n)
  BY <1>0 DEF Feed!HasPrefix
<1>6. j \in Nat /\ n \in Nat /\ j + 1 \in 1 .. Len(corpus)
  BY <1>0, <1>4, <1>5
<1>7. CASE n > j
  <2>1. sample \in got[c]
    BY <1>4, <1>5, <1>6, <1>7 DEF Feed!Prefix
  <2>2. got' = got
    BY <1>0, <1>2, <2>1 DEF TypeOK
  <2> QED BY <1>2, <1>3, <2>2 DEF Feed!vars
<1>8. CASE n <= j
  <2>1. got[c] = Feed!Prefix(j)
    <3>1. 1 .. n \subseteq 1 .. j
      BY <1>6, <1>8
    <3>2. Feed!Prefix(n) \subseteq Feed!Prefix(j)
      BY <3>1 DEF Feed!Prefix
    <3> QED BY <1>4, <1>5, <3>2
  <2>2. (j + 1) - 1 = j
    BY <1>6
  <2> QED BY <1>2, <1>3, <1>4, <1>6, <2>1, <2>2 DEF Feed!Deliver
<1> QED BY <1>6, <1>7, <1>8

\* 'N' acknowledges the samples of the update, which the client has.
LEMMA EndAcknowledges ==
  ASSUME IInv, Grows, \A c \in Clients : UpdateOf(c), NEW c \in Clients, EndUpdates(c)
  PROVE  Feed!Acknowledge(c)
<1> USE DEF server, memory, clients
<1>0. /\ TypeOK /\ Sockets /\ IndexMatchesCorpus /\ UpdateOf(c) /\ Len(corpus) \in Nat
      /\ last_timestamp[c] \in Nat /\ update_stamp[c] \in Nat /\ server_timestamp \in Nat
  BY DEF IInv, TypeOK
<1>1. /\ last_timestamp' = [last_timestamp EXCEPT ![c] = update_stamp[c]]
      /\ UNCHANGED << corpus, got >>
      /\ at[c] = "samples" /\ toClient[sock[c]] # << >> /\ Head(toClient[sock[c]]).type = "N"
  BY DEF EndUpdates, Arrives
<1>2. PICK m \in 0 .. Len(corpus) :
        /\ m = Acknowledged(update_stamp[c]) /\ Feed!Prefix(m) \subseteq got[c]
        /\ last_timestamp[c] <= update_stamp[c] /\ update_stamp[c] <= server_timestamp
  BY <1>0, <1>1, NextOfUpdate
<1>3. Acknowledged(last_timestamp[c]) \in 0 .. Len(corpus) /\ Acknowledged(last_timestamp[c]) <= m
  BY <1>0, <1>2, AcknowledgedGrows
<1>4. m \in Acknowledged(last_timestamp[c]) .. Len(corpus)
  BY <1>0, <1>2, <1>3
<1>5. ASSUME NEW d \in Clients, d # c
      PROVE  Acknowledged(last_timestamp[d])' = Acknowledged(last_timestamp[d])
  BY <1>0, <1>1, <1>5, AckedStays DEF TypeOK
<1>6. Acknowledged(last_timestamp[c])' = m
  <2>1. PICK s \in 0 .. server_timestamp : s = update_stamp[c]
    BY <1>0, <1>2
  <2>2. Acknowledged(s)' = m
    BY <1>2, <2>1 DEF Grows
  <2>3. last_timestamp'[c] = s
    BY <1>0, <1>1, <2>1 DEF TypeOK
  <2> QED BY <2>2, <2>3 DEF Acknowledged
<1>7. [d \in Clients |-> Acknowledged(last_timestamp[d])]'
        = [[d \in Clients |-> Acknowledged(last_timestamp[d])] EXCEPT ![c] = m]
  BY <1>5, <1>6
<1> QED BY <1>1, <1>2, <1>4, <1>7 DEF Feed!Acknowledge

(* Before a restart every step is one of SampleFeed, or leaves it alone. *)
LEMMA RefinementStep ==
  ASSUME IInv, IInv', [Next]_vars, restarts' = 0, Feed!InOrder, \A c \in Clients : UpdateOf(c)
  PROVE  [Feed!Next]_(Feed!vars)
<1> USE DEF server, memory, disk, wires, clients, counts
<1>0. TypeOK /\ Down
  BY DEF IInv
<1>1. Grows
  BY GrowsStep
<1>2. CASE UNCHANGED << corpus, got, last_timestamp >>
  <2>1. [c \in Clients |-> Acknowledged(last_timestamp[c])]'
          = [c \in Clients |-> Acknowledged(last_timestamp[c])]
    BY <1>0, <1>1, <1>2, AckedStays
  <2> QED BY <1>2, <2>1 DEF Feed!vars
<1>3. ASSUME NEW k \in Conns, OnNewCoverage(k) PROVE [Feed!Next]_(Feed!vars)
  <2>1. CASE StillNew(k)
    BY <1>1, <1>3, <2>1, CommitAdmits DEF Feed!Next
  <2>2. CASE ~StillNew(k)
    BY <1>2, <1>3, <2>2 DEF OnNewCoverage
  <2> QED BY <2>1, <2>2
<1>4. ASSUME NEW c \in Clients, RecvSample(c) PROVE [Feed!Next]_(Feed!vars)
  BY <1>1, <1>4, ReadDelivers DEF Feed!Next
<1>5. ASSUME NEW c \in Clients, EndUpdates(c) PROVE [Feed!Next]_(Feed!vars)
  BY <1>1, <1>5, EndAcknowledges DEF Feed!Next
<1>6. ~Crash /\ ~RestoreState
  BY <1>0 DEF Crash, RestoreState, Down, TypeOK
<1> QED
  BY <1>2, <1>3, <1>4, <1>5, <1>6
     DEF Next, Client, Thread, ReportNewCoverage, GetUpdates, Connect, Accepted, Retry, Answered,
         RecvStamp, ClientReadFails, HandleConnection, HasNewCoverage, ServeUpdates,
         CloseConnection, ServerReadFails, Break, BeginSave, EndSave, vars

(* The initial state is one of SampleFeed. *)
LEMMA InitFeed == Init => FeedInv /\ Feed!Init
<1> SUFFICES ASSUME Init PROVE FeedInv /\ Feed!Init
  OBVIOUS
<1>1. TypeOK
  BY InitInv DEF IInv
<1>2. Acknowledged(0) = 0
  <2>1. timestamps = << >> /\ Len(<< >>) = 0
    BY EmptySeq DEF Init
  <2> QED BY <2>1 DEF Acknowledged
<1>3. Feed!Init
  <2>1. \A c \in Clients : Acknowledged(last_timestamp[c]) = 0
    BY <1>2 DEF Init
  <2> QED BY <2>1 DEF Init, Feed!Init
<1>4. Feed!InOrder
  <2>1. FP!FeedInv
    BY <1>3, FP!InitFeed DEF Feed!Init, FP!Init
  <2> QED BY <2>1 DEF FP!FeedInv, FP!InOrder, FP!HasPrefix, FP!HasAcked, FP!Prefix,
                      Feed!InOrder, Feed!HasPrefix, Feed!HasAcked, Feed!Prefix
<1>5. ASSUME NEW c \in Clients PROVE UpdateOf(c)
  BY <1>5 DEF Init, UpdateOf
<1> QED BY <1>3, <1>4, <1>5 DEF FeedInv

\* What SampleFeed promises is kept by its steps.
LEMMA FeedStep ==
  ASSUME TypeOK, IndexMatchesCorpus, Feed!InOrder, [Feed!Next]_(Feed!vars)
  PROVE  Feed!InOrder'
<1>1. FP!TypeOK
  <2>1. ASSUME NEW c \in Clients PROVE Acknowledged(last_timestamp[c]) \in Nat
    <3>1. last_timestamp[c] \in Nat /\ Len(corpus) \in Nat
      BY DEF TypeOK
    <3>2. Acknowledged(last_timestamp[c]) \in 0 .. Len(corpus)
      BY <3>1, AcknowledgedType
    <3> QED BY <3>1, <3>2
  <2> QED BY <2>1 DEF TypeOK, FP!TypeOK
<1>2. FP!FeedInv
  BY <1>1 DEF FP!FeedInv, FP!InOrder, FP!HasPrefix, FP!HasAcked, FP!Prefix,
              Feed!InOrder, Feed!HasPrefix, Feed!HasAcked, Feed!Prefix
<1>3. [FP!Next]_(FP!vars)
  BY DEF FP!Next, FP!Admit, FP!Deliver, FP!Acknowledge, FP!Prefix, FP!vars,
         Feed!Next, Feed!Admit, Feed!Deliver, Feed!Acknowledge, Feed!Prefix, Feed!vars
<1>4. FP!FeedInv'
  BY <1>2, <1>3, FP!NextFeed
<1> QED BY <1>4 DEF FP!FeedInv, FP!InOrder, FP!HasPrefix, FP!HasAcked, FP!Prefix,
                    Feed!InOrder, Feed!HasPrefix, Feed!HasAcked, Feed!Prefix

(* Restarts are counted one by one. *)
LEMMA RestartsCount == TypeOK /\ [Next]_vars => restarts' = restarts \/ restarts' = restarts + 1
BY DEF Next, Client, Thread, ReportNewCoverage, GetUpdates, Connect, Accepted, Retry, Answered,
       RecvStamp, RecvSample, EndUpdates, ClientReadFails, HandleConnection, HasNewCoverage,
       OnNewCoverage, ServeUpdates, CloseConnection, ServerReadFails, Break, BeginSave, EndSave,
       Crash, RestoreState, vars, counts

(* Every step keeps what is known of updates before a restart. *)
LEMMA FeedInvStep ==
  IInv /\ IInv' /\ FeedInv /\ [Next]_vars =>
    FeedInv' /\ (restarts' = 0 => [Feed!Next]_(Feed!vars))
<1> SUFFICES ASSUME IInv, IInv', FeedInv, [Next]_vars, restarts' = 0
             PROVE  [Feed!Next]_(Feed!vars) /\ Feed!InOrder' /\ \A c \in Clients : UpdateOf(c)'
  BY DEF FeedInv
<1>1. TypeOK /\ IndexMatchesCorpus /\ restarts = 0
  BY RestartsCount DEF IInv, TypeOK
<1>2. Feed!InOrder /\ \A c \in Clients : UpdateOf(c)
  BY <1>1 DEF FeedInv
<1>3. [Feed!Next]_(Feed!vars) /\ \A c \in Clients : UpdateOf(c)'
  BY <1>2, RefinementStep, UpdateStep
<1> QED BY <1>1, <1>2, <1>3, FeedStep

\* However reports, updates, lost connections and timeouts interleave, the server feeds
\* its clients as SampleFeed says until it is restarted.
THEOREM FeedRefined == Spec => FeedsUntilRestart
<1>1. IInv /\ IInv' /\ FeedInv /\ [Next]_vars => FeedInv' /\ [restarts' = 0 => Feed!Next]_(Feed!vars)
  BY FeedInvStep
<1> QED BY <1>1, InitFeed, InductiveInvariant, PTL DEF Spec, FeedsUntilRestart

\* A server that is never restarted implements SampleFeed.
THEOREM FeedImplemented == ASSUME MaxRestarts = 0 PROVE Spec => FeedsInOrder
<1>1. Init => restarts = 0
  BY DEF Init
<1>2. TypeOK /\ restarts = 0 /\ [Next]_vars => (restarts = 0)'
  <2> SUFFICES ASSUME TypeOK, restarts = 0, [Next]_vars PROVE (restarts = 0)'
    OBVIOUS
  <2>1. ~Crash
    BY DEF Crash
  <2> QED BY <2>1
    DEF Next, Client, Thread, ReportNewCoverage, GetUpdates, Connect, Accepted, Retry, Answered,
        RecvStamp, RecvSample, EndUpdates, ClientReadFails, HandleConnection, HasNewCoverage,
        OnNewCoverage, ServeUpdates, CloseConnection, ServerReadFails, Break, BeginSave, EndSave,
        RestoreState, vars, counts
<1>3. Spec => [](restarts = 0)
  BY <1>1, <1>2, TypeCorrect, PTL DEF Spec
<1>4. FeedsUntilRestart => Feed!Init /\ [][restarts' = 0 => Feed!Next]_(Feed!vars)
  BY DEF FeedsUntilRestart
<1>5. (restarts = 0)' /\ [restarts' = 0 => Feed!Next]_(Feed!vars) => [Feed!Next]_(Feed!vars)
  OBVIOUS
<1> QED BY <1>3, <1>4, <1>5, FeedRefined, PTL DEF FeedsInOrder, Feed!Spec

\* last_timestamp never passes a sample a client lacks, until the server is restarted
\* with a corpus it had not saved.
THEOREM NoneMissedBeforeRestart == Spec => [](restarts = 0 => NoSampleMissed)
<1>1. IInv /\ FeedInv => (restarts = 0 => NoSampleMissed)
  <2> SUFFICES ASSUME IInv, FeedInv, restarts = 0, NEW c \in Clients,
                      NEW i \in 1 .. Len(timestamps), timestamps[i].timestamp <= last_timestamp[c],
                      NEW n \in timestamps[i].index + 1 .. EntryEnd(timestamps, i, Len(corpus))
               PROVE  corpus[n] \in got[c]
    BY DEF NoSampleMissed, HasAllUntil
  <2>1. /\ TypeOK /\ IndexMatchesCorpus /\ Feed!HasAcked(c)
        /\ last_timestamp[c] \in Nat /\ Len(timestamps) \in Nat /\ Len(corpus) \in Nat
    BY DEF IInv, FeedInv, Feed!InOrder, TypeOK
  <2>2. PICK m \in 0 .. Len(timestamps) :
          /\ \A j \in 1 .. Len(timestamps) : timestamps[j].timestamp <= last_timestamp[c] <=> j <= m
          /\ Acknowledged(last_timestamp[c]) =
               IF m = 0 THEN 0 ELSE EntryEnd(timestamps, m, Len(corpus))
    BY <2>1, AcknowledgedFacts
  <2>3. /\ \A j \in 1 .. Len(timestamps) : timestamps[j].index \in Nat /\ timestamps[j].index < Len(corpus)
        /\ \A j, k \in 1 .. Len(timestamps) : j < k => timestamps[j].index < timestamps[k].index
    BY <2>1, WellFormedFacts DEF IndexMatchesCorpus
  <2>4. i <= m /\ m # 0 /\ m \in 1 .. Len(timestamps)
    BY <2>1, <2>2
  <2>5. EntryEnd(timestamps, i, Len(corpus)) <= EntryEnd(timestamps, m, Len(corpus))
    <3>1. CASE i = m
      BY <2>1, <2>3, <3>1 DEF EntryEnd
    <3>2. CASE i # m /\ m = Len(timestamps)
      BY <2>1, <2>3, <2>4, <3>2 DEF EntryEnd
    <3>3. CASE i # m /\ m # Len(timestamps)
      <4>1. i + 1 \in 1 .. Len(timestamps) /\ m + 1 \in 1 .. Len(timestamps) /\ i + 1 < m + 1
        BY <2>1, <2>4, <3>3
      <4> QED BY <2>1, <2>3, <3>3, <4>1 DEF EntryEnd
    <3> QED BY <3>1, <3>2, <3>3
  <2>6. /\ timestamps[i].index \in Nat /\ EntryEnd(timestamps, i, Len(corpus)) \in Nat
        /\ EntryEnd(timestamps, m, Len(corpus)) \in Nat
    BY <2>1, <2>3, <2>4 DEF EntryEnd
  <2>7. n \in 1 .. Acknowledged(last_timestamp[c])
    BY <2>2, <2>4, <2>5, <2>6
  <2> QED BY <2>1, <2>7 DEF Feed!HasAcked, Feed!Prefix
<1>2. IInv /\ IInv' /\ FeedInv /\ [Next]_vars => FeedInv'
  BY FeedInvStep
<1> QED BY <1>1, <1>2, InitFeed, InductiveInvariant, PTL DEF Spec
=============================================================================
