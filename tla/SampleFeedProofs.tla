--------------------------- MODULE SampleFeedProofs ---------------------------
(***************************************************************************)
(* What a client can rely on if the server implements SampleFeed: the      *)
(* samples it has are the log up to some point, and it acknowledges none   *)
(* it lacks.                                                               *)
(***************************************************************************)
EXTENDS SampleFeed, TLAPS

FeedInv == TypeOK /\ InOrder

\* Admitting a sample leaves every prefix of the log as it is.
LEMMA PrefixesStay ==
  ASSUME NEW s \in Samples, log \in Seq(Samples), log' = Append(log, s),
         NEW n \in 0 .. Len(log)
  PROVE  n \in 0 .. Len(log') /\ Prefix(n)' = Prefix(n)
<1>1. Len(log') = Len(log) + 1 /\ \A i \in 1 .. n : log'[i] = log[i]
  OBVIOUS
<1> QED BY <1>1 DEF Prefix

\* A prefix and the next sample are a prefix.
LEMMA PrefixGrows ==
  ASSUME log \in Seq(Samples), NEW n \in 1 .. Len(log)
  PROVE  Prefix(n) = Prefix(n - 1) \cup {log[n]}
<1>1. 1 .. n = 1 .. (n - 1) \cup {n}
  OBVIOUS
<1> QED BY <1>1 DEF Prefix

LEMMA InitFeed == Init => FeedInv
<1> SUFFICES ASSUME Init PROVE FeedInv
  OBVIOUS
<1>1. TypeOK
  BY DEF Init, TypeOK
<1>2. Len(log) = 0 /\ Prefix(0) = {}
  BY DEF Init, Prefix
<1>3. ASSUME NEW c \in Clients PROVE HasPrefix(c) /\ HasAcked(c)
  BY <1>2 DEF Init, HasPrefix, HasAcked
<1> QED BY <1>1, <1>3 DEF FeedInv, InOrder

LEMMA NextFeed == FeedInv /\ [Next]_vars => FeedInv'
<1> SUFFICES ASSUME FeedInv, [Next]_vars PROVE FeedInv'
  OBVIOUS
<1>0. TypeOK /\ \A c \in Clients : HasPrefix(c) /\ HasAcked(c)
  BY DEF FeedInv, InOrder
<1>1. CASE Admit
  <2>1. PICK s \in Samples : log' = Append(log, s)
    BY <1>1 DEF Admit
  <2>2. TypeOK'
    BY <1>0, <1>1, <2>1 DEF Admit, TypeOK
  <2>3. ASSUME NEW c \in Clients PROVE HasPrefix(c)'
    <3>1. PICK n \in 0 .. Len(log) : got[c] = Prefix(n)
      BY <1>0 DEF HasPrefix
    <3>2. n \in 0 .. Len(log') /\ Prefix(n)' = Prefix(n)
      BY <1>0, <2>1, PrefixesStay DEF TypeOK
    <3> QED BY <1>1, <3>1, <3>2 DEF Admit, HasPrefix
  <2>4. ASSUME NEW c \in Clients PROVE HasAcked(c)'
    <3>1. acked[c] \in 0 .. Len(log) /\ Prefix(acked[c]) \subseteq got[c]
      BY <1>0 DEF HasAcked, TypeOK
    <3>2. PICK n \in 0 .. Len(log) : n = acked[c]
      BY <3>1
    <3>3. n \in 0 .. Len(log') /\ Prefix(n)' = Prefix(n)
      BY <1>0, <2>1, PrefixesStay DEF TypeOK
    <3>4. acked'[c] = n /\ got'[c] = got[c]
      BY <1>1, <3>2 DEF Admit
    <3> QED BY <3>1, <3>2, <3>3, <3>4 DEF HasAcked, Prefix
  <2> QED BY <2>2, <2>3, <2>4 DEF FeedInv, InOrder
<1>2. ASSUME NEW c \in Clients, Deliver(c) PROVE FeedInv'
  <2>1. PICK n \in 1 .. Len(log) : /\ got[c] = Prefix(n - 1)
                                   /\ got' = [got EXCEPT ![c] = @ \cup {log[n]}]
    BY <1>2 DEF Deliver
  <2>2. log' = log /\ acked' = acked
    BY <1>2 DEF Deliver
  <2>3. TypeOK'
    BY <1>0, <2>1, <2>2 DEF TypeOK
  <2>4. \A m : Prefix(m)' = Prefix(m)
    BY <2>2 DEF Prefix
  <2>5. got'[c] = Prefix(n)
    BY <1>0, <2>1, PrefixGrows DEF TypeOK
  <2>6. ASSUME NEW d \in Clients PROVE HasPrefix(d)'
    BY <1>0, <2>1, <2>2, <2>4, <2>5 DEF HasPrefix, TypeOK
  <2>7. ASSUME NEW d \in Clients PROVE HasAcked(d)'
    <3>1. got[d] \subseteq got'[d]
      BY <1>0, <2>1 DEF TypeOK
    <3> QED BY <1>0, <2>2, <2>4, <3>1 DEF HasAcked
  <2> QED BY <2>3, <2>6, <2>7 DEF FeedInv, InOrder
<1>3. ASSUME NEW c \in Clients, Acknowledge(c) PROVE FeedInv'
  <2>1. PICK n \in acked[c] .. Len(log) : /\ Prefix(n) \subseteq got[c]
                                          /\ acked' = [acked EXCEPT ![c] = n]
    BY <1>3 DEF Acknowledge
  <2>2. log' = log /\ got' = got
    BY <1>3 DEF Acknowledge
  <2>3. TypeOK'
    BY <1>0, <2>1, <2>2 DEF TypeOK
  <2>4. \A m : Prefix(m)' = Prefix(m)
    BY <2>2 DEF Prefix
  <2>5. ASSUME NEW d \in Clients PROVE HasPrefix(d)' /\ HasAcked(d)'
    BY <1>0, <2>1, <2>2, <2>4 DEF HasPrefix, HasAcked, TypeOK
  <2> QED BY <2>3, <2>5 DEF FeedInv, InOrder
<1>4. CASE UNCHANGED vars
  BY <1>4 DEF vars, FeedInv, TypeOK, InOrder, HasPrefix, HasAcked, Prefix
<1> QED BY <1>1, <1>2, <1>3, <1>4 DEF Next

\* A client that receives samples one by one and acknowledges what it has (GetUpdates and
\* last_timestamp) skips none, has none out of order, and is never past what it has.
THEOREM FeedInOrder == Spec => []InOrder
<1>1. FeedInv => InOrder
  BY DEF FeedInv
<1> QED BY <1>1, InitFeed, NextFeed, PTL DEF Spec
=============================================================================
