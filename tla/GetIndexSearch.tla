---------------------------- MODULE GetIndexSearch ----------------------------
(***************************************************************************)
(* CoverageServer::GetIndex (server.cpp), step by step: the early returns, *)
(* the binary search over corpus.timestamps, and the linear scan from      *)
(* where it stopped to the first entry newer than the client's timestamp.  *)
(* The variables are the function's parameters and locals; the vector, the *)
(* timestamp and last_index never change.  MaxStamp, MaxEntries and        *)
(* MaxLast bound only the vectors a call may be given.                     *)
(***************************************************************************)
EXTENDS TimestampIndex

CONSTANTS MaxStamp,    \* largest timestamp in a vector
          MaxEntries,  \* longest vector
          MaxLast      \* largest corpus

VARIABLES timestamps, timestamp, last_index,  \* the parameters
          l, r, m,                            \* the locals
          pc,
          result
vars == << timestamps, timestamp, last_index, l, r, m, pc, result >>
params == << timestamps, timestamp, last_index >>

Stamp(i) == timestamps[i + 1].timestamp
Size == Len(timestamps)

Inputs == UNION { [1 .. n -> [timestamp : 1 .. MaxStamp, index : 0 .. MaxLast]]
                    : n \in 0 .. MaxEntries }

Init ==
  /\ last_index \in 0 .. MaxLast
  /\ timestamps \in { ts \in Inputs : WellFormed(ts, last_index) }
  /\ timestamp \in 0 .. MaxStamp
  /\ l = 0 /\ r = -1 /\ m = 0
  /\ pc = "entry"
  /\ result = 0

\* Where the search starts on the right, and where it goes on after an entry
\* that is too old.
LastEntry == Size - 1
Again(i) == i              \* mutant of Following
Following(i) == i + 1

Return(value) == result' = value /\ pc' = "done" /\ UNCHANGED << params, l, r, m >>

ReturnFirst == /\ pc = "entry"
               /\ timestamp = 0 \/ timestamps = << >>
               /\ Return(0)

ReturnLast == /\ pc = "entry"
              /\ timestamp # 0 /\ timestamps # << >>
              /\ timestamp >= Stamp(Size - 1)
              /\ Return(last_index)

StartSearch == /\ pc = "entry"
               /\ timestamp # 0 /\ timestamps # << >>
               /\ timestamp < Stamp(Size - 1)
               /\ l' = 0 /\ r' = LastEntry
               /\ pc' = "search"
               /\ UNCHANGED << params, m, result >>

\* One iteration of the while (l <= r) loop; equality leaves it by `break`.
Halve ==
  /\ pc = "search" /\ l <= r
  /\ m' = (l + r) \div 2
  /\ \/ /\ Stamp(m') < timestamp
        /\ l' = Following(m')
        /\ UNCHANGED << r, pc >>
     \/ /\ Stamp(m') > timestamp
        /\ r' = m' - 1
        /\ UNCHANGED << l, pc >>
     \/ /\ Stamp(m') = timestamp
        /\ pc' = "scan"
        /\ UNCHANGED << l, r >>
  /\ UNCHANGED << params, result >>

EndSearch == /\ pc = "search" /\ l > r
             /\ pc' = "scan"
             /\ UNCHANGED << params, l, r, m, result >>

\* The branch taken after the search chooses the direction of the scan.
BeginScan == /\ pc = "scan"
             /\ pc' = IF Stamp(m) > timestamp THEN "left" ELSE "right"
             /\ UNCHANGED << params, l, r, m, result >>

\* Mutant of Scanning: the right scan passes the entry that follows the client's
\* timestamp.
ScanningTooFar ==
  \/ pc = "left" /\ m > 0 /\ Stamp(m - 1) > timestamp
  \/ pc = "right" /\ m < Size - 1 /\ Stamp(m) <= timestamp + 1

\* The condition of the scan loop of either direction.  (After this search the
\* left loop is never entered: its first candidate is already the answer.)
Scanning ==
  \/ pc = "left" /\ m > 0 /\ Stamp(m - 1) > timestamp
  \/ pc = "right" /\ m < Size - 1 /\ Stamp(m) <= timestamp

Scan == /\ Scanning
        /\ m' = IF pc = "left" THEN m - 1 ELSE m + 1
        /\ UNCHANGED << params, l, r, pc, result >>

\* The check that ends in FATAL("Error in GetIndex"), and the return.
EndScan ==
  /\ pc \in {"left", "right"} /\ ~Scanning
  /\ IF Stamp(m) <= timestamp
       THEN pc' = "fatal" /\ UNCHANGED << params, l, r, m, result >>
       ELSE Return(timestamps[m + 1].index)

Next == \/ ReturnFirst \/ ReturnLast \/ StartSearch
        \/ Halve \/ EndSearch
        \/ BeginScan \/ Scan \/ EndScan

Spec == Init /\ [][Next]_vars /\ WF_vars(Next)
-----------------------------------------------------------------------------
\* Also: the search interval never leaves the vector, nor does any timestamps[m].
TypeOK ==
  /\ WellFormed(timestamps, last_index)
  /\ timestamp \in Nat /\ last_index \in Nat
  /\ pc \in {"entry", "search", "scan", "left", "right", "done", "fatal"}
  /\ l \in 0 .. Size /\ r \in -1 .. Size - 1 /\ l <= r + 1
  /\ m \in 0 .. Size
  /\ timestamps # << >> => m < Size
  /\ result \in Nat

\* What ServeUpdates relies on: the samples from the returned index on are
\* exactly those the client with this timestamp has not been sent, so no sample
\* is skipped and none is sent twice.
ReturnsFirstUnseen == pc = "done" => SplitsAt(timestamps, timestamp, last_index, result)

\* GetIndex's own consistency check never fires: the server does not abort.
NeverFatal == pc # "fatal"

\* The declarative GetIndex used by CoverageServer is what the loops compute.
ComputesGetIndex == pc = "done" => result = GetIndex(timestamps, timestamp, last_index)

\* The search and the scan end for every vector (l, r, m make progress), and the
\* call returns: GetIndex's own consistency check never fires.
Terminates == []<>(pc = "done")
=============================================================================
