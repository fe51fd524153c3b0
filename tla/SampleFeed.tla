------------------------------- MODULE SampleFeed -------------------------------
(***************************************************************************)
(* What the coverage server promises to fuzzer processes, without its      *)
(* sockets, threads, locks and timestamps: one log of samples that only    *)
(* grows, of which every client receives longer and longer prefixes, and a *)
(* position that a client never moves past what it has.  CoverageServer    *)
(* implements it as long as the server is not restarted.                   *)
(***************************************************************************)
EXTENDS Naturals, Sequences

CONSTANTS Clients, Samples

VARIABLES log,     \* the samples the server admitted, in order
          got,     \* the samples each client has received
          acked    \* how many of them a client will not be sent again
vars == << log, got, acked >>

Prefix(n) == { log[i] : i \in 1 .. n }

Init == /\ log = << >>
        /\ got = [c \in Clients |-> {}]
        /\ acked = [c \in Clients |-> 0]

\* The server takes a sample nobody reported before.
Admit == /\ \E s \in Samples : s \notin Prefix(Len(log)) /\ log' = Append(log, s)
         /\ UNCHANGED << got, acked >>

\* A client receives the first sample it lacks.
Deliver(c) == /\ \E n \in 1 .. Len(log) :
                   /\ got[c] = Prefix(n - 1)
                   /\ got' = [got EXCEPT ![c] = @ \cup {log[n]}]
              /\ UNCHANGED << log, acked >>

\* A client has all of an update, and asks for later samples from now on.
Acknowledge(c) == /\ \E n \in acked[c] .. Len(log) :
                       /\ Prefix(n) \subseteq got[c]
                       /\ acked' = [acked EXCEPT ![c] = n]
                  /\ UNCHANGED << log, got >>

Next == Admit \/ \E c \in Clients : Deliver(c) \/ Acknowledge(c)

Spec == Init /\ [][Next]_vars
-----------------------------------------------------------------------------
TypeOK == /\ log \in Seq(Samples)
          /\ got \in [Clients -> SUBSET Samples]
          /\ acked \in [Clients -> Nat]

\* A client has the samples up to some point of the log and none after it ...
HasPrefix(c) == \E n \in 0 .. Len(log) : got[c] = Prefix(n)

\* ... and everything it acknowledged.
HasAcked(c) == acked[c] <= Len(log) /\ Prefix(acked[c]) \subseteq got[c]

\* No sample is skipped and none is received out of order.
InOrder == \A c \in Clients : HasPrefix(c) /\ HasAcked(c)
=============================================================================
