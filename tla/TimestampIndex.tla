---------------------------- MODULE TimestampIndex ----------------------------
(***************************************************************************)
(* The incremental-update index of the coverage server: corpus.timestamps, *)
(* a vector of {timestamp, index} pairs (server.h, struct TimestampIndex). *)
(* Entry i says: the samples from entry i's index up to the next entry's   *)
(* index were added to the corpus at entry i's timestamp.  The vector is a *)
(* sequence here, so the C++ element timestamps[m] is ts[m + 1].           *)
(***************************************************************************)
EXTENDS Integers, Sequences

Entry == [timestamp : Nat, index : Nat]

\* The shape every corpus.timestamps of a running server has for a corpus of
\* last_index samples: it starts at sample 0 and both fields grow strictly.
WellFormed(ts, last_index) ==
  /\ ts \in Seq(Entry)
  /\ \A i \in 1 .. Len(ts) : ts[i].timestamp > 0 /\ ts[i].index < last_index
  /\ \A i, j \in 1 .. Len(ts) :
       i < j => ts[i].timestamp < ts[j].timestamp /\ ts[i].index < ts[j].index
  /\ IF ts = << >> THEN last_index = 0 ELSE ts[1].index = 0

\* The first entry stamped after t (there is one when t is below the last stamp).
FirstAfter(ts, t) ==
  CHOOSE m \in 1 .. Len(ts) :
    ts[m].timestamp > t /\ \A j \in 1 .. (m - 1) : ts[j].timestamp <= t

\* What CoverageServer::GetIndex returns; GetIndexSearch has its two loops.
GetIndex(ts, t, last_index) ==
  IF t = 0 \/ ts = << >> THEN 0
  ELSE IF t >= ts[Len(ts)].timestamp THEN last_index
  ELSE ts[FirstAfter(ts, t)].index

\* One past the last sample (counting from 0) that entry i stamps.
EntryEnd(ts, i, last_index) ==
  IF i = Len(ts) THEN last_index ELSE ts[i + 1].index

\* Samples [0, first) are exactly those stamped t or earlier.
SplitsAt(ts, t, last_index, first) ==
  \A i \in 1 .. Len(ts) :
    IF ts[i].timestamp <= t THEN EntryEnd(ts, i, last_index) <= first
                            ELSE first <= ts[i].index
=============================================================================
