------------------------------- MODULE MCProcedures -------------------------------
(***************************************************************************)
(* Two sequential procedures in one instance: a behaviour either edits     *)
(* samples, or is a call of GetIndex after edits that ended at once.       *)
(***************************************************************************)
EXTENDS SampleEdits

CONSTANTS MaxStamp, MaxEntries, MaxLast   \* of GetIndexSearch

ASSUME SearchBounds == MaxStamp \in Nat /\ MaxEntries \in Nat /\ MaxLast \in Nat

VARIABLES timestamps, timestamp, last_index, l, r, m, search_pc, result
search == << timestamps, timestamp, last_index, l, r, m, search_pc, result >>
Search == INSTANCE GetIndexSearch WITH pc <- search_pc

NoSearch ==
  /\ timestamps = << >> /\ timestamp = 0 /\ last_index = 0
  /\ l = 0 /\ r = -1 /\ m = 0 /\ search_pc = "done" /\ result = 0
NoEdits ==
  /\ pc = "none" /\ sample = << >> /\ reported = {} /\ repeats = 0
  /\ results = << >> /\ test_sample = << >> /\ trim_step = 0
  /\ all_samples = {} /\ trie = NoNodes /\ offset = 0

ProceduresInit == (Init /\ NoSearch) \/ (NoEdits /\ Search!Init)
ProceduresNext == (Next /\ UNCHANGED search) \/ (Search!Next /\ UNCHANGED vars)
Procedures ==
  ProceduresInit /\ [][ProceduresNext]_<< vars, search >> /\ WF_search(Search!Next)

ComputesGetIndex == Search!ComputesGetIndex
Terminates == Search!Terminates

Interval(from, to) == [from |-> from, to |-> to]
ReportSets == { {}, {Interval(1, 2)}, {Interval(0, 2), Interval(1, 3)},
                {Interval(0, 1), Interval(2, 3)}, {Interval(4, 5)} }
Values == { << 1, 0 >> }
=============================================================================
