---------------------------- MODULE ProceduresProofs ----------------------------
(***************************************************************************)
(* The loops of CoverageServer::GetIndex compute the declarative GetIndex, *)
(* for vectors and timestamps of any size; and samples of any size are     *)
(* mutated, trimmed and compared as SampleEdits says.                      *)
(***************************************************************************)
EXTENDS MCProcedures, SequenceTheorems, FiniteSetTheorems, WellFoundedInduction, TLAPS

(* The vector of timestamps and GetIndex.                                  *)

\* Every nonempty set of naturals has a least element.
LEMMA LeastNatural ==
  ASSUME NEW T, T \subseteq Nat, T # {}
  PROVE  \E x \in T : \A y \in T : x <= y
<1>1. \E x \in T : \A y \in T : ~ (<< y, x >> \in OpToRel(<, Nat))
  BY NatLessThanWellFounded, WFMin
<1>2. PICK x \in T : \A y \in T : ~ (<< y, x >> \in OpToRel(<, Nat))
  BY <1>1
<1>3. ASSUME NEW y \in T PROVE x <= y
  <2>1. ~ (<< y, x >> \in OpToRel(<, Nat))
    BY <1>2
  <2>2. ~ (y < x)
    BY <2>1, SMT DEF OpToRel
  <2> QED BY <2>2, SMT
<1> QED BY <1>3

\* What a well-formed vector gives its reader.
LEMMA WellFormedFacts ==
  ASSUME NEW ts, NEW last, Search!WellFormed(ts, last)
  PROVE  /\ Len(ts) \in Nat
         /\ ts # << >> => Len(ts) > 0
         /\ \A j \in 1 .. Len(ts) : ts[j].timestamp \in Nat /\ ts[j].index \in Nat
         /\ \A j \in 1 .. Len(ts) : ts[j].timestamp > 0 /\ ts[j].index < last
         /\ \A j, k \in 1 .. Len(ts) :
              j < k => ts[j].timestamp < ts[k].timestamp /\ ts[j].index < ts[k].index
<1>1. ts \in Seq(Search!Entry)
  BY DEF Search!WellFormed
<1>2. \A j \in 1 .. Len(ts) : ts[j] \in Search!Entry
  BY <1>1
<1>3. \A j \in 1 .. Len(ts) : ts[j].timestamp \in Nat /\ ts[j].index \in Nat
  BY <1>2, Zenon DEF Search!Entry
<1>4. Len(ts) \in Nat /\ (ts # << >> => Len(ts) > 0)
  BY <1>1
<1> QED BY <1>3, <1>4, Zenon DEF Search!WellFormed

\* GetIndex's return value: the index of an entry newer than t whose predecessor
\* is not newer separates the samples a client has from those it lacks.
LEMMA FirstNewerSplits ==
  ASSUME NEW ts, NEW last \in Nat, NEW t \in Nat, Search!WellFormed(ts, last),
         NEW at \in 1 .. Len(ts), ts[at].timestamp > t,
         at = 1 \/ ts[at - 1].timestamp <= t
  PROVE  Search!SplitsAt(ts, t, last, ts[at].index)
<1> SUFFICES ASSUME NEW i \in 1 .. Len(ts)
             PROVE IF ts[i].timestamp <= t THEN Search!EntryEnd(ts, i, last) <= ts[at].index
                                           ELSE ts[at].index <= ts[i].index
  BY DEF Search!SplitsAt
<1>1. Len(ts) \in Nat
  BY WellFormedFacts
<1>2. \A j \in 1 .. Len(ts) : ts[j].timestamp \in Nat /\ ts[j].index \in Nat
  BY WellFormedFacts, Zenon
<1>3. \A j, k \in 1 .. Len(ts) :
        j < k => ts[j].timestamp < ts[k].timestamp /\ ts[j].index < ts[k].index
  BY WellFormedFacts, Zenon
<1>4. CASE i < at
  <2>1. at - 1 \in 1 .. Len(ts) /\ i <= at - 1 /\ at # 1
    BY <1>1, <1>4
  <2>2. ts[i].timestamp <= t
    <3>1. ts[at - 1].timestamp <= t /\ ts[at - 1].timestamp \in Nat
      BY <1>2, <2>1
    <3>2. CASE i = at - 1
      BY <3>1, <3>2
    <3>3. CASE i < at - 1
      <4>1. ts[i].timestamp < ts[at - 1].timestamp
        BY <1>3, <2>1, <3>3
      <4> QED BY <1>2, <3>1, <4>1
    <3> QED BY <1>1, <2>1, <3>2, <3>3
  <2>3. i # Len(ts) /\ i + 1 \in 1 .. Len(ts) /\ i + 1 <= at
    BY <1>1, <1>4
  <2>4. ts[i + 1].index <= ts[at].index
    BY <1>2, <1>3, <2>3
  <2> QED BY <2>2, <2>3, <2>4 DEF Search!EntryEnd
<1>5. CASE i >= at
  BY <1>1, <1>2, <1>3, <1>5
<1> QED BY <1>1, <1>4, <1>5

\* There is an entry newer than t, and a first one, when the last entry is newer.
LEMMA FirstAfterExists ==
  ASSUME NEW ts, NEW last \in Nat, NEW t \in Nat, Search!WellFormed(ts, last),
         ts # << >>, t < ts[Len(ts)].timestamp
  PROVE  /\ Search!FirstAfter(ts, t) \in 1 .. Len(ts)
         /\ ts[Search!FirstAfter(ts, t)].timestamp > t
         /\ \A j \in 1 .. (Search!FirstAfter(ts, t) - 1) : ts[j].timestamp <= t
<1> DEFINE T == { at \in 1 .. Len(ts) : ts[at].timestamp > t }
<1>1. Len(ts) \in Nat /\ Len(ts) > 0
  BY WellFormedFacts
<1>2. \A j \in 1 .. Len(ts) : ts[j].timestamp \in Nat
  BY WellFormedFacts, Zenon
<1>3. T \subseteq Nat /\ Len(ts) \in T
  BY <1>1
<1>4. PICK at \in T : \A y \in T : at <= y
  BY <1>3, LeastNatural
<1>5. \A j \in 1 .. (at - 1) : ts[j].timestamp <= t
  BY <1>1, <1>2, <1>4
<1>6. \E k \in 1 .. Len(ts) :
        ts[k].timestamp > t /\ \A j \in 1 .. (k - 1) : ts[j].timestamp <= t
  BY <1>4, <1>5
<1> QED BY <1>6, Zenon DEF Search!FirstAfter

\* There is only one such entry.
LEMMA FirstAfterUnique ==
  ASSUME NEW ts, NEW last \in Nat, NEW t \in Nat, Search!WellFormed(ts, last),
         NEW at \in 1 .. Len(ts), ts[at].timestamp > t,
         at = 1 \/ ts[at - 1].timestamp <= t
  PROVE  Search!FirstAfter(ts, t) = at
<1>1. Len(ts) \in Nat
  BY WellFormedFacts
<1>2. \A j \in 1 .. Len(ts) : ts[j].timestamp \in Nat
  BY WellFormedFacts, Zenon
<1>3. \A j, k \in 1 .. Len(ts) : j < k => ts[j].timestamp < ts[k].timestamp
  BY WellFormedFacts, Zenon
<1>4. ts # << >> /\ t < ts[Len(ts)].timestamp
  BY <1>1, <1>2, <1>3
<1>5. /\ Search!FirstAfter(ts, t) \in 1 .. Len(ts)
      /\ ts[Search!FirstAfter(ts, t)].timestamp > t
      /\ \A j \in 1 .. (Search!FirstAfter(ts, t) - 1) : ts[j].timestamp <= t
  BY <1>4, FirstAfterExists
<1>6. ~ (at < Search!FirstAfter(ts, t))
  BY <1>1, <1>2, <1>5
<1>7. ~ (Search!FirstAfter(ts, t) < at)
  BY <1>1, <1>2, <1>3, <1>5, SMTT(20)
<1> QED BY <1>1, <1>5, <1>6, <1>7

\* CoverageServer::GetIndex is right: what it returns separates the samples
\* stamped t or earlier from those that came later, so ServeUpdates sends a client
\* at timestamp t each sample it lacks and none that it has.
THEOREM GetIndexSplits ==
  ASSUME NEW ts, NEW last \in Nat, NEW t \in Nat, Search!WellFormed(ts, last)
  PROVE  Search!SplitsAt(ts, t, last, Search!GetIndex(ts, t, last))
<1>1. Len(ts) \in Nat
  BY WellFormedFacts
<1>2. \A j \in 1 .. Len(ts) : ts[j].timestamp \in Nat /\ ts[j].index \in Nat
  BY WellFormedFacts, Zenon
<1>3. \A j, k \in 1 .. Len(ts) :
        j < k => ts[j].timestamp < ts[k].timestamp /\ ts[j].index < ts[k].index
  BY WellFormedFacts, Zenon
<1>4. \A j \in 1 .. Len(ts) : ts[j].timestamp > 0 /\ ts[j].index < last
  BY WellFormedFacts, Zenon
<1>5. CASE t = 0 \/ ts = << >>
  <2>1. Search!GetIndex(ts, t, last) = 0
    BY <1>5 DEF Search!GetIndex
  <2>2. \A j \in 1 .. Len(ts) : ~ (ts[j].timestamp <= t)
    BY <1>1, <1>2, <1>4, <1>5
  <2> QED BY <1>2, <2>1, <2>2 DEF Search!SplitsAt
<1>6. CASE ~ (t = 0 \/ ts = << >>) /\ t >= ts[Len(ts)].timestamp
  <2>1. Search!GetIndex(ts, t, last) = last
    BY <1>6 DEF Search!GetIndex
  <2>2. \A j \in 1 .. Len(ts) : ts[j].timestamp <= t
    BY <1>1, <1>2, <1>3, <1>6
  <2>3. \A j \in 1 .. Len(ts) : Search!EntryEnd(ts, j, last) <= last
    BY <1>1, <1>2, <1>4 DEF Search!EntryEnd
  <2> QED BY <2>1, <2>2, <2>3 DEF Search!SplitsAt
<1>7. CASE ~ (t = 0 \/ ts = << >>) /\ ~ (t >= ts[Len(ts)].timestamp)
  <2>1. Search!GetIndex(ts, t, last) = ts[Search!FirstAfter(ts, t)].index
    BY <1>7 DEF Search!GetIndex
  <2>2. t < ts[Len(ts)].timestamp
    BY <1>1, <1>2, <1>7
  <2>3. /\ Search!FirstAfter(ts, t) \in 1 .. Len(ts)
        /\ ts[Search!FirstAfter(ts, t)].timestamp > t
        /\ \A j \in 1 .. (Search!FirstAfter(ts, t) - 1) : ts[j].timestamp <= t
    BY <1>7, <2>2, FirstAfterExists
  <2>4. Search!FirstAfter(ts, t) = 1 \/ ts[Search!FirstAfter(ts, t) - 1].timestamp <= t
    BY <1>1, <2>3
  <2> QED BY <2>1, <2>3, <2>4, FirstNewerSplits
<1> QED BY <1>5, <1>6, <1>7
-----------------------------------------------------------------------------
(* The search of GetIndex.                                                 *)

\* What is known at each point of the function.
InSearch == /\ timestamps # << >>
            /\ timestamp # 0
            /\ timestamp < Search!Stamp(Search!Size - 1)

ScanInv ==
  /\ search_pc \in {"search", "scan", "left", "right"} => InSearch
  /\ search_pc = "left" => Search!Stamp(m) > timestamp
  /\ search_pc = "right" =>
       Search!Stamp(m) <= timestamp \/ (m > 0 /\ Search!Stamp(m - 1) <= timestamp)

SearchInv ==
  /\ Search!TypeOK /\ ScanInv
  /\ Search!ReturnsFirstUnseen /\ Search!NeverFatal /\ Search!ComputesGetIndex

LEMMA InitSearch == ASSUME Search!Init PROVE SearchInv
<1>1. Search!WellFormed(timestamps, last_index)
  BY DEF Search!Init
<1>2. Len(timestamps) \in Nat
  BY <1>1, WellFormedFacts
<1>3. timestamp \in Nat /\ last_index \in Nat
  BY SearchBounds, SMT DEF Search!Init
<1> QED
  BY <1>1, <1>2, <1>3
  DEF Search!Init, SearchInv, Search!TypeOK, ScanInv, Search!ReturnsFirstUnseen,
      Search!NeverFatal, Search!ComputesGetIndex, Search!Size

\* A return with the value of the declarative GetIndex establishes the result
\* properties.
LEMMA ReturnRight ==
  ASSUME SearchInv, NEW value \in Nat, Search!Return(value),
         value = Search!GetIndex(timestamps, timestamp, last_index)
  PROVE  SearchInv'
<1>1. Search!SplitsAt(timestamps, timestamp, last_index,
                      Search!GetIndex(timestamps, timestamp, last_index))
  BY GetIndexSplits DEF SearchInv, Search!TypeOK
<1>2. Search!TypeOK'
  BY DEF SearchInv, Search!TypeOK, Search!Return, Search!params, Search!Size
<1>3. Search!ReturnsFirstUnseen' /\ Search!ComputesGetIndex'
  BY <1>1 DEF Search!Return, Search!params, Search!ReturnsFirstUnseen, Search!ComputesGetIndex
<1>4. ScanInv' /\ Search!NeverFatal'
  BY DEF Search!Return, ScanInv, Search!NeverFatal
<1> QED BY <1>2, <1>3, <1>4 DEF SearchInv

LEMMA NextSearch == ASSUME SearchInv, [Search!Next]_Search!vars PROVE SearchInv'
<1> USE DEF SearchInv
<1>0. /\ Search!WellFormed(timestamps, last_index)
      /\ timestamp \in Nat /\ last_index \in Nat /\ Search!Size \in Nat
      /\ timestamps # << >> => Search!Size > 0
      /\ \A j \in 1 .. Search!Size :
           timestamps[j].timestamp \in Nat /\ timestamps[j].index \in Nat
      /\ \A j, k \in 1 .. Search!Size : j < k => timestamps[j].timestamp < timestamps[k].timestamp
  BY WellFormedFacts DEF Search!TypeOK, Search!Size
<1>1. CASE Search!ReturnFirst
  <2>1. Search!Return(0) /\ 0 = Search!GetIndex(timestamps, timestamp, last_index)
    BY <1>1 DEF Search!ReturnFirst, Search!GetIndex
  <2> QED BY <2>1, ReturnRight
<1>2. CASE Search!ReturnLast
  <2>1. /\ Search!Return(last_index)
        /\ last_index = Search!GetIndex(timestamps, timestamp, last_index)
    BY <1>0, <1>2 DEF Search!ReturnLast, Search!GetIndex, Search!Stamp, Search!Size
  <2> QED BY <1>0, <2>1, ReturnRight
<1>3. CASE Search!StartSearch
  BY <1>0, <1>3
  DEF Search!StartSearch, Search!params, Search!LastEntry, Search!TypeOK, ScanInv, InSearch,
      Search!Stamp, Search!Size, Search!ReturnsFirstUnseen, Search!NeverFatal,
      Search!ComputesGetIndex
<1>4. CASE Search!Halve
  <2>1. l <= m' /\ m' <= r /\ m' \in Nat /\ search_pc = "search"
    BY <1>4 DEF Search!Halve, Search!TypeOK
  <2>2. Search!TypeOK'
    <3>1. /\ l' \in {l, m' + 1} /\ r' \in {r, m' - 1} /\ ~ (l' = m' + 1 /\ r' = m' - 1)
          /\ search_pc' \in {"search", "scan"}
          /\ UNCHANGED << timestamps, timestamp, last_index, result >>
      BY <1>4, <2>1 DEF Search!Halve, Search!params, Search!Following, Search!TypeOK
    <3>2. /\ m' \in 0 .. Search!Size - 1 /\ l' \in 0 .. Search!Size
          /\ r' \in -1 .. Search!Size - 1 /\ l' <= r' + 1
      <4>1. /\ l \in Nat /\ r \in Int /\ l <= Search!Size /\ r <= Search!Size - 1 /\ l <= r
            /\ Search!Size \in Nat
        BY <1>0, <2>1 DEF Search!TypeOK
      <4> HIDE DEF Search!Size
      <4>2. m' <= Search!Size - 1 /\ l <= r + 1
        BY ONLY <2>1, <4>1
      <4>3. \/ l' = l /\ r' = r
            \/ l' = m' + 1 /\ r' = r
            \/ l' = l /\ r' = m' - 1
        BY ONLY <3>1
      <4>4. l' \in Nat /\ l' <= Search!Size /\ r' \in Int /\ -1 <= r' /\ r' <= Search!Size - 1
        BY ONLY <2>1, <4>1, <4>2, <4>3
      <4>5. l' <= r' + 1
        BY ONLY <2>1, <4>1, <4>2, <4>3
      <4>6. m' \in 0 .. Search!Size - 1
        BY ONLY <2>1, <4>1, <4>2
      <4>7. l' \in 0 .. Search!Size
        BY ONLY <4>1, <4>4
      <4>8. r' \in -1 .. Search!Size - 1
        BY ONLY <4>1, <4>4
      <4> QED BY ONLY <4>5, <4>6, <4>7, <4>8
    <3>3. Search!Size' = Search!Size /\ (timestamps' # << >> => m' < Search!Size)
      <4>1. Search!Size' = Search!Size /\ Search!Size \in Nat
        BY <1>0, <3>1 DEF Search!Size
      <4> QED BY ONLY <2>1, <3>2, <4>1
    <3>4. /\ Search!WellFormed(timestamps, last_index)'
          /\ timestamp' \in Nat /\ last_index' \in Nat /\ result' \in Nat
      <4>1. result \in Nat
        BY DEF Search!TypeOK
      <4> QED BY ONLY <1>0, <3>1, <4>1
    <3>5. m' \in 0 .. Search!Size
      BY <1>0, <3>2
    <3> QED BY ONLY <3>1, <3>2, <3>3, <3>4, <3>5 DEF Search!TypeOK
  <2>3. ScanInv' /\ Search!ReturnsFirstUnseen' /\ Search!NeverFatal' /\ Search!ComputesGetIndex'
    BY <1>4, <2>1
    DEF Search!Halve, Search!params, ScanInv, InSearch, Search!Stamp, Search!Size,
        Search!ReturnsFirstUnseen, Search!NeverFatal, Search!ComputesGetIndex
  <2> QED BY <2>2, <2>3
<1>5. CASE Search!EndSearch
  <2>1. InSearch /\ m < Search!Size
    BY <1>0, <1>5 DEF Search!EndSearch, ScanInv, InSearch, Search!TypeOK
  <2> QED
    BY <1>5, <2>1
    DEF Search!EndSearch, Search!params, Search!TypeOK, ScanInv, InSearch, Search!Stamp,
        Search!Size, Search!ReturnsFirstUnseen, Search!NeverFatal, Search!ComputesGetIndex
<1>6. CASE Search!BeginScan
  BY <1>0, <1>6
  DEF Search!BeginScan, Search!params, Search!TypeOK, ScanInv, InSearch, Search!Stamp,
      Search!Size, Search!ReturnsFirstUnseen, Search!NeverFatal, Search!ComputesGetIndex
<1>7. CASE Search!Scan
  <2>1. InSearch /\ m \in 0 .. Search!Size - 1
    BY <1>0, <1>7 DEF Search!Scan, Search!Scanning, ScanInv, InSearch, Search!TypeOK
  <2>2. CASE search_pc = "left"
    <3>1. m' = m - 1 /\ m' \in 0 .. Search!Size - 1 /\ Search!Stamp(m') > timestamp
      BY <1>0, <1>7, <2>1, <2>2 DEF Search!Scan, Search!Scanning, Search!Stamp
    <3> QED
      BY <1>0, <1>7, <2>1, <2>2, <3>1
      DEF Search!Scan, Search!params, Search!TypeOK, ScanInv, InSearch, Search!Stamp,
          Search!Size, Search!ReturnsFirstUnseen, Search!NeverFatal, Search!ComputesGetIndex
  <2>3. CASE search_pc = "right"
    <3>1. m' = m + 1 /\ m' \in 0 .. Search!Size - 1 /\ Search!Stamp(m) <= timestamp
      BY <1>0, <1>7, <2>1, <2>3 DEF Search!Scan, Search!Scanning
    <3>2. Search!Stamp(m' - 1) <= timestamp /\ m' > 0
      BY <2>1, <3>1 DEF Search!Stamp
    <3> QED
      BY <1>0, <1>7, <2>1, <2>3, <3>1, <3>2
      DEF Search!Scan, Search!params, Search!TypeOK, ScanInv, InSearch, Search!Stamp,
          Search!Size, Search!ReturnsFirstUnseen, Search!NeverFatal, Search!ComputesGetIndex
  <2>4. search_pc = "left" \/ search_pc = "right"
    BY <1>7, Zenon DEF Search!Scan, Search!Scanning
  <2> QED BY <2>2, <2>3, <2>4
<1>8. CASE Search!EndScan
  <2>1. InSearch /\ m \in 0 .. Search!Size - 1 /\ m + 1 \in 1 .. Search!Size
    BY <1>0, <1>8 DEF Search!EndScan, ScanInv, InSearch, Search!TypeOK
  <2>2. Search!Stamp(m) > timestamp
    BY <1>0, <1>8, <2>1 DEF Search!EndScan, Search!Scanning, ScanInv, InSearch, Search!Stamp
  <2>3. m + 1 = 1 \/ timestamps[m + 1 - 1].timestamp <= timestamp
    BY <1>0, <1>8, <2>1, <2>2 DEF Search!EndScan, Search!Scanning, ScanInv, InSearch, Search!Stamp
  <2>4. Search!FirstAfter(timestamps, timestamp) = m + 1
    BY <1>0, <2>1, <2>2, <2>3, FirstAfterUnique DEF Search!Stamp, Search!Size
  <2>5. timestamps[m + 1].index = Search!GetIndex(timestamps, timestamp, last_index)
    BY <1>0, <2>1, <2>4 DEF Search!GetIndex, InSearch, Search!Stamp, Search!Size
  <2>6. Search!Return(timestamps[m + 1].index)
    BY <1>0, <1>8, <2>1, <2>2 DEF Search!EndScan, Search!Stamp
  <2> QED BY <1>0, <2>1, <2>5, <2>6, ReturnRight
<1>9. CASE UNCHANGED Search!vars
  BY <1>9
  DEF Search!vars, Search!params, Search!TypeOK, ScanInv, InSearch, Search!Stamp,
      Search!Size, Search!ReturnsFirstUnseen, Search!NeverFatal, Search!ComputesGetIndex
<1> QED BY <1>1, <1>2, <1>3, <1>4, <1>5, <1>6, <1>7, <1>8, <1>9 DEF Search!Next

\* The whole invariant of the function: no access outside the vector, never the
\* FATAL, and the result is the declarative GetIndex, which splits the corpus.
THEOREM SearchInvariant == Search!Spec => []SearchInv
<1>1. Search!Init => SearchInv
  BY InitSearch
<1>2. SearchInv /\ [Search!Next]_Search!vars => SearchInv'
  BY NextSearch
<1> QED BY <1>1, <1>2, PTL DEF Search!Spec

\* The search interval and every timestamps[m] stay inside the vector.
THEOREM SearchTypeOK == Search!Spec => []Search!TypeOK
<1>1. SearchInv => Search!TypeOK
  BY DEF SearchInv
<1> QED BY <1>1, SearchInvariant, PTL

\* GetIndex never ends in FATAL("Error in GetIndex").
THEOREM SearchNeverFatal == Search!Spec => []Search!NeverFatal
<1>1. SearchInv => Search!NeverFatal
  BY DEF SearchInv
<1> QED BY <1>1, SearchInvariant, PTL

\* The loops compute GetIndex, so CoverageServer may use the declarative form.
THEOREM SearchComputesGetIndex == Search!Spec => []ComputesGetIndex
<1>1. SearchInv => ComputesGetIndex
  BY DEF SearchInv, ComputesGetIndex
<1> QED BY <1>1, SearchInvariant, PTL

\* The returned index is the first sample the client lacks.
THEOREM SearchReturnsFirstUnseen == Search!Spec => []Search!ReturnsFirstUnseen
<1>1. SearchInv => Search!ReturnsFirstUnseen
  BY DEF SearchInv
<1> QED BY <1>1, SearchInvariant, PTL
-----------------------------------------------------------------------------
(* Parts of samples.                                                       *)

\* The beginning and the end of a sequence; an end from behind it is empty.
LEMMA Parts ==
  ASSUME NEW S, NEW s \in Seq(S), NEW n \in Nat
  PROVE  /\ n <= Len(s) => /\ First(s, n) \in Seq(S) /\ Len(First(s, n)) = n
                           /\ \A i \in 1 .. n : First(s, n)[i] = s[i]
         /\ From(s, n) \in Seq(S)
         /\ Len(From(s, n)) = IF n <= Len(s) THEN Len(s) - n ELSE 0
         /\ \A i \in 1 .. Len(s) - n : From(s, n)[i] = s[n + i]
<1>1. Len(s) \in Nat /\ \A i \in 1 .. Len(s) : s[i] \in S
  OBVIOUS
<1>2. CASE n <= Len(s)
  <2>1. First(s, n) \in Seq(S) /\ Len(First(s, n)) = n /\ \A i \in 1 .. n : First(s, n)[i] = s[i]
    BY <1>1, <1>2 DEF First
  <2>2. From(s, n) \in Seq(S) /\ Len(From(s, n)) = Len(s) - n
        /\ \A i \in 1 .. Len(s) - n : From(s, n)[i] = s[n + i]
    BY <1>1, <1>2 DEF From
  <2> QED BY <1>2, <2>1, <2>2
<1>3. CASE ~ (n <= Len(s))
  <2>1. From(s, n) \in Seq(S) /\ Len(From(s, n)) = 0
    BY <1>1, <1>3 DEF From
  <2>2. 1 .. Len(s) - n = {}
    BY <1>1, <1>3
  <2> QED BY <1>3, <2>1, <2>2
<1> QED BY <1>2, <1>3

\* A part from the middle.
LEMMA MiddlePart ==
  ASSUME NEW S, NEW s \in Seq(S), NEW from \in Nat, NEW to \in Nat, from <= to, to <= Len(s)
  PROVE  SubSeq(s, from + 1, to) \in Seq(S) /\ Len(SubSeq(s, from + 1, to)) = to - from
<1>1. \A i \in from + 1 .. to : s[i] \in S
  OBVIOUS
<1> QED BY <1>1, SubSeqProperties

\* Two sequences one after the other.
LEMMA Concatenated ==
  ASSUME NEW S, NEW s \in Seq(S), NEW t \in Seq(S)
  PROVE  /\ s \o t \in Seq(S) /\ Len(s \o t) = Len(s) + Len(t)
         /\ \A i \in 1 .. Len(s) : (s \o t)[i] = s[i]
         /\ \A i \in 1 .. Len(t) : (s \o t)[Len(s) + i] = t[i]
OBVIOUS

\* A block written over a part of a sample leaves its size alone, and what comes before.
LEMMA OverwrittenFacts ==
  ASSUME NEW S, NEW s \in Seq(S), NEW block \in Seq(S), NEW start \in Nat,
         start + Len(block) <= Len(s)
  PROVE  /\ Overwritten(s, start, block) \in Seq(S)
         /\ Len(Overwritten(s, start, block)) = Len(s)
         /\ \A i \in 1 .. start : Overwritten(s, start, block)[i] = s[i]
<1> DEFINE n == start + Len(block)
           before == First(s, start)
           after == From(s, n)
<1>1. Len(s) \in Nat /\ Len(block) \in Nat /\ n \in Nat /\ n <= Len(s) /\ start <= Len(s)
  OBVIOUS
<1>2. /\ before \in Seq(S) /\ Len(before) = start /\ \A i \in 1 .. start : before[i] = s[i]
      /\ after \in Seq(S) /\ Len(after) = Len(s) - n
  <2> HIDE DEF n
  <2> QED BY <1>1, Parts
<1> HIDE DEF before, after
<1>3. /\ before \o block \in Seq(S) /\ Len(before \o block) = start + Len(block)
      /\ \A i \in 1 .. start : (before \o block)[i] = s[i]
  BY <1>2, Concatenated
<1>4. /\ (before \o block) \o after \in Seq(S)
      /\ Len((before \o block) \o after) = Len(s)
      /\ \A i \in 1 .. start : ((before \o block) \o after)[i] = s[i]
  <2>1. \A i \in 1 .. start : i \in 1 .. Len(before \o block)
    BY <1>1, <1>3
  <2> DEFINE both == before \o block
  <2> HIDE DEF both
  <2>2. both \in Seq(S) /\ Len(both) = n /\ \A i \in 1 .. start : both[i] = s[i]
    BY <1>3 DEF both
  <2>3. /\ both \o after \in Seq(S) /\ Len(both \o after) = Len(both) + Len(after)
        /\ \A i \in 1 .. Len(both) : (both \o after)[i] = both[i]
    BY <1>2, <2>2, Concatenated
  <2>4. \A i \in 1 .. start : i \in 1 .. Len(both)
    BY <2>1 DEF both
  <2>5. Len(both \o after) = Len(s)
    <3> HIDE DEF n
    <3> QED BY <1>1, <1>2, <2>2, <2>3
  <2>6. \A i \in 1 .. start : (both \o after)[i] = s[i]
    BY <2>2, <2>3, <2>4
  <2> QED BY <2>3, <2>5, <2>6 DEF both
<1> QED BY <1>4 DEF Overwritten, before, after

\* The smaller and the larger of two numbers.
LEMMA MinMax ==
  ASSUME NEW a \in Int, NEW b \in Int
  PROVE  /\ Min({a, b}) = IF a <= b THEN a ELSE b
         /\ Max({a, b}) = IF a <= b THEN b ELSE a
BY DEF Min, Max

\* The parameters of the mutators are numbers.
LEMMA EditsConstants ==
  /\ MaxByte \in Nat /\ MaxSampleSize \in Nat /\ BlockSize \in Nat /\ MaxDuplicates \in Nat
  /\ TRIM_STEP_INITIAL \in Nat /\ TRIM_STEP_INITIAL > 0
  /\ InterestingSamples \subseteq Seq(Bytes)
  /\ 0 \in Bytes
BY EditsAssumption DEF Bytes

\* A block of a size is a sample of this size.
LEMMA BlockFacts ==
  ASSUME NEW n \in Nat, NEW block \in Blocks(n)
  PROVE  block \in Seq(Bytes) /\ Len(block) = n
BY DEF Blocks

\* GetRandBlock returns a part of the sample.
LEMMA RandBlockFacts ==
  ASSUME NEW s \in Seq(Bytes), NEW lo \in Nat, NEW hi \in Nat, NEW b \in RandBlocks(s, lo, hi)
  PROVE  /\ b.start \in Nat /\ b.size \in Nat /\ b.size > 0
         /\ b.start + b.size <= Len(s)
         /\ b.size <= hi
<1>1. Len(s) \in Nat
  OBVIOUS
<1>2. b \in [start : 0 .. Len(s), size : lo .. hi] /\ b.size > 0 /\ b.start + b.size <= Len(s)
  BY DEF RandBlocks
<1>3. b.start \in 0 .. Len(s) /\ b.size \in lo .. hi
  BY <1>2
<1> QED BY <1>1, <1>2, <1>3

-----------------------------------------------------------------------------
(* What the mutators return.                                               *)

\* A mutated sample, not larger than Sample::max_size unless the sample was.
Fits(s, t) ==
  t \in Seq(Bytes) /\ (Len(s) <= MaxSampleSize => Len(t) <= MaxSampleSize)

\* Writing over a part of the sample.
LEMMA FlipFits ==
  ASSUME NEW s \in Seq(Bytes), NEW t \in Flip(s)
  PROVE  Fits(s, t)
<1>1. PICK b \in RandBlocks(s, 1, BlockSize) :
        t \in { Overwritten(s, b.start, block) : block \in Blocks(b.size) }
  BY DEF Flip
<1>2. PICK block \in Blocks(b.size) : t = Overwritten(s, b.start, block)
  BY <1>1
<1>3. b.start \in Nat /\ b.size \in Nat /\ b.start + b.size <= Len(s)
  BY RandBlockFacts, EditsConstants
<1>4. block \in Seq(Bytes) /\ Len(block) = b.size
  BY <1>3, BlockFacts
<1>5. t \in Seq(Bytes) /\ Len(t) = Len(s)
  BY <1>2, <1>3, <1>4, OverwrittenFacts
<1> QED BY <1>5 DEF Fits

LEMMA InterestingValueFits ==
  ASSUME NEW s \in Seq(Bytes), NEW t \in InterestingValue(s)
  PROVE  Fits(s, t)
<1>1. PICK value \in InterestingSamples :
        t \in { Overwritten(s, b.start, value) : b \in RandBlocks(s, Len(value), Len(value)) }
  BY DEF InterestingValue
<1>2. PICK b \in RandBlocks(s, Len(value), Len(value)) : t = Overwritten(s, b.start, value)
  BY <1>1
<1>3. value \in Seq(Bytes) /\ Len(value) \in Nat
  BY EditsConstants
<1>4. b \in [start : 0 .. Len(s), size : Len(value) .. Len(value)]
      /\ b.start + b.size <= Len(s)
  BY DEF RandBlocks
<1>5. b.start \in Nat /\ b.start + Len(value) <= Len(s)
  <2>1. b.start \in 0 .. Len(s) /\ b.size \in Len(value) .. Len(value)
    BY <1>4
  <2>2. b.size = Len(value) /\ b.start \in Nat
    BY <1>3, <2>1
  <2> QED BY <1>4, <2>2
<1>6. t \in Seq(Bytes) /\ Len(t) = Len(s)
  BY <1>2, <1>3, <1>5, OverwrittenFacts
<1> QED BY <1>6 DEF Fits

\* The blocks that are appended or inserted make room for themselves.
LEMMA NewBlockFacts ==
  ASSUME NEW s \in Seq(Bytes), Len(s) < MaxSampleSize, NEW block \in NewBlocks(s)
  PROVE  block \in Seq(Bytes) /\ Len(s) + Len(block) <= MaxSampleSize
<1>1. PICK n \in 1 .. BlockSize : block \in Blocks(Room(s, n))
  BY DEF NewBlocks
<1>2. Room(s, n) \in Nat /\ Len(s) + Room(s, n) <= MaxSampleSize
  BY EditsConstants DEF Room
<1>3. block \in Seq(Bytes) /\ Len(block) = Room(s, n)
  BY <1>1, <1>2, BlockFacts
<1> QED BY <1>2, <1>3

LEMMA AppendBlockFits ==
  ASSUME NEW s \in Seq(Bytes), Len(s) < MaxSampleSize, NEW t \in AppendBlock(s)
  PROVE  Fits(s, t)
<1>1. PICK block \in NewBlocks(s) : t = s \o block
  BY DEF AppendBlock
<1>2. block \in Seq(Bytes) /\ Len(s) + Len(block) <= MaxSampleSize
  BY NewBlockFacts
<1>3. t \in Seq(Bytes) /\ Len(t) = Len(s) + Len(block)
  BY <1>1, <1>2, Concatenated
<1> QED BY <1>2, <1>3 DEF Fits

\* A sample with a block put in before the n-th byte.
LEMMA InsertedFacts ==
  ASSUME NEW s \in Seq(Bytes), NEW n \in 0 .. Len(s), NEW block \in Seq(Bytes)
  PROVE  /\ Inserted(s, n, block) \in Seq(Bytes)
         /\ Len(Inserted(s, n, block)) = Len(s) + Len(block)
<1> DEFINE before == First(s, n)
           both == before \o block
           after == From(s, n)
<1>1. n \in Nat /\ n <= Len(s) /\ Len(s) \in Nat /\ Len(block) \in Nat
  OBVIOUS
<1>2. before \in Seq(Bytes) /\ Len(before) = n /\ after \in Seq(Bytes) /\ Len(after) = Len(s) - n
  BY <1>1, Parts
<1> HIDE DEF before, after
<1>3. both \in Seq(Bytes) /\ Len(both) = n + Len(block)
  BY <1>2, Concatenated
<1> HIDE DEF both
<1>4. both \o after \in Seq(Bytes) /\ Len(both \o after) = Len(both) + Len(after)
  BY <1>2, <1>3, Concatenated
<1> QED BY <1>1, <1>2, <1>3, <1>4 DEF both, before, after, Inserted

LEMMA InsertBlockFits ==
  ASSUME NEW s \in Seq(Bytes), Len(s) < MaxSampleSize, NEW t \in InsertBlock(s)
  PROVE  Fits(s, t)
<1>1. PICK where \in 0 .. Len(s), block \in NewBlocks(s) : t = Inserted(s, where, block)
  BY DEF InsertBlock
<1>2. block \in Seq(Bytes) /\ Len(s) + Len(block) <= MaxSampleSize
  BY NewBlockFacts
<1>3. t \in Seq(Bytes) /\ Len(t) = Len(s) + Len(block)
  BY <1>1, <1>2, InsertedFacts
<1> QED BY <1>2, <1>3 DEF Fits

\* DuplicateBlock inserts as many copies as there is room for: k bytes n times,
\* n no more than the room divided by k.
LEMMA CopiesThatFit ==
  ASSUME NEW k \in Nat, k > 0, NEW room \in Nat, NEW n \in Nat, n <= room \div k
  PROVE  n * k <= room
<1>1. (room \div k) \in Nat /\ k * (room \div k) <= room
  BY SMT
<1>2. n * k <= (room \div k) * k
  <2> DEFINE d == room \div k
  <2>1. d \in Nat
    BY <1>1
  <2> HIDE DEF d
  <2>2. n <= d => n * k <= d * k
    BY <2>1, SMT
  <2> QED BY <2>2 DEF d
<1>3. (room \div k) * k = k * (room \div k) /\ n * k \in Nat /\ k * (room \div k) \in Nat
  BY <1>1, SMT
<1> QED BY <1>1, <1>2, <1>3, SMT

\* A block that is repeated n times.
LEMMA RepeatedFacts ==
  ASSUME NEW block \in Seq(Bytes), block # << >>, NEW n \in Nat
  PROVE  Repeated(block, n) \in Seq(Bytes) /\ Len(Repeated(block, n)) = n * Len(block)
<1> DEFINE k == Len(block)
           size == n * k
<1>1. k \in Nat /\ k > 0 /\ \A i \in 1 .. k : block[i] \in Bytes
  OBVIOUS
<1>2. size \in Nat
  <2> HIDE DEF k
  <2> QED BY <1>1, SMT
<1>3. ASSUME NEW i \in 1 .. size
      PROVE  block[((i - 1) % k) + 1] \in Bytes
  <2> HIDE DEF k, size
  <2>1. i - 1 \in Int
    BY <1>2
  <2>2. (i - 1) % k \in 0 .. k - 1
    BY <1>1, <2>1
  <2> QED BY <1>1, <2>2
<1>4. Repeated(block, n) = [i \in 1 .. size |-> block[((i - 1) % k) + 1]]
  BY DEF Repeated
<1> HIDE DEF k, size
<1>5. [i \in 1 .. size |-> block[((i - 1) % k) + 1]] \in [1 .. size -> Bytes]
  BY <1>3
<1> DEFINE copies == Repeated(block, n)
<1>6. copies \in [1 .. size -> Bytes]
  BY <1>4, <1>5
<1> HIDE DEF copies
<1>7. copies \in Seq(Bytes) /\ Len(copies) = size
  BY <1>2, <1>6
<1> QED BY <1>7 DEF copies, k, size

LEMMA DuplicateBlockFits ==
  ASSUME NEW s \in Seq(Bytes), Len(s) < MaxSampleSize, NEW t \in DuplicateBlock(s)
  PROVE  Fits(s, t)
<1>1. PICK b \in RandBlocks(s, 1, BlockSize), n \in 1 .. MaxDuplicates : t = Duplicated(s, b, n)
  BY DEF DuplicateBlock
<1>2. /\ b.start \in Nat /\ b.size \in Nat /\ b.size > 0 /\ b.start + b.size <= Len(s)
      /\ n \in Nat
  BY RandBlockFacts, EditsConstants
<1> DEFINE end == b.start + b.size
           block == SubSeq(s, b.start + 1, end)
           times == DuplicatesThatFit(s, block, n)
           room == MaxSampleSize - Len(s)
<1>3. end \in 0 .. Len(s) /\ room \in Nat
  BY <1>2, EditsConstants
<1>4. block \in Seq(Bytes) /\ Len(block) = b.size
  <2>1. end \in Nat /\ b.start <= end /\ end <= Len(s) /\ end - b.start = b.size
    BY <1>2
  <2> HIDE DEF end
  <2>2. SubSeq(s, b.start + 1, end) \in Seq(Bytes)
        /\ Len(SubSeq(s, b.start + 1, end)) = end - b.start
    BY <1>2, <2>1, MiddlePart
  <2> QED BY <2>1, <2>2
<1>5. block # << >> /\ Len(block) \in Nat /\ Len(block) > 0
  <2> HIDE DEF block
  <2>1. Len(block) \in Nat /\ Len(block) > 0
    BY <1>2, <1>4
  <2> QED BY <2>1
<1>6. t = Inserted(s, end, Repeated(block, times))
  BY <1>1 DEF Duplicated
<1> HIDE DEF end, block
<1>7. times = IF n <= room \div Len(block) THEN n ELSE room \div Len(block)
  <2>1. room \div Len(block) \in Nat
    BY <1>3, <1>5
  <2> HIDE DEF room
  <2>2. Min({n, room \div Len(block)})
          = IF n <= room \div Len(block) THEN n ELSE room \div Len(block)
    BY <1>2, <2>1, MinMax
  <2> QED BY <2>2 DEF DuplicatesThatFit, room
<1> HIDE DEF times, room
<1>8. times \in Nat /\ times <= room \div Len(block)
  <2>1. room \div Len(block) \in Nat
    BY <1>3, <1>5
  <2> QED BY <1>2, <1>7, <2>1
<1>9. times * Len(block) <= room
  BY <1>3, <1>5, <1>8, CopiesThatFit
<1>10. Repeated(block, times) \in Seq(Bytes) /\ Len(Repeated(block, times)) = times * Len(block)
  BY <1>4, <1>5, <1>8, RepeatedFacts
<1>11. t \in Seq(Bytes) /\ Len(t) = Len(s) + times * Len(block)
  BY <1>3, <1>6, <1>10, InsertedFacts
<1>12. Len(t) <= MaxSampleSize
  <2>1. Len(s) \in Nat /\ Len(t) \in Nat
    BY <1>11
  <2> DEFINE more == times * Len(block)
  <2>2. Len(t) = Len(s) + more /\ more <= room
    BY <1>9, <1>11
  <2>3. more \in Nat
    BY <1>5, <1>8, SMT
  <2> HIDE DEF more
  <2> QED BY <2>1, <2>2, <2>3, EditsConstants DEF room
<1> QED BY <1>11, <1>12 DEF Fits

\* What does not fit is cut off.
LEMMA TrimmedFacts ==
  ASSUME NEW s \in Seq(Bytes)
  PROVE  Trimmed(s) \in Seq(Bytes) /\ Len(Trimmed(s)) <= MaxSampleSize
<1> DEFINE size == Min({Len(s), MaxSampleSize})
<1>1. Len(s) \in Nat
  OBVIOUS
<1>2. size = IF Len(s) <= MaxSampleSize THEN Len(s) ELSE MaxSampleSize
  BY <1>1, EditsConstants, MinMax
<1> HIDE DEF size
<1>3. size \in Nat /\ size <= Len(s) /\ size <= MaxSampleSize
  BY <1>1, <1>2, EditsConstants
<1>4. First(s, size) \in Seq(Bytes) /\ Len(First(s, size)) = size
  BY <1>3, Parts
<1> QED BY <1>3, <1>4 DEF Trimmed, size

LEMMA SpliceFits ==
  ASSUME NEW s \in Seq(Bytes), all_samples \subseteq Seq(Bytes),
         \A other \in all_samples : Len(other) <= MaxSampleSize,
         NEW t \in Splice(s)
  PROVE  Fits(s, t)
<1>1. PICK other \in all_samples : t \in SpliceOnePoint(s, other) \cup SpliceTwoPoints(s, other)
  BY DEF Splice
<1>2. /\ other \in Seq(Bytes) /\ Len(other) \in Nat /\ Len(other) <= MaxSampleSize
      /\ Len(s) \in Nat
  BY <1>1
<1>3. CASE t \in SpliceOnePoint(s, other)
  <2>1. PICK p \in 0 .. Len(s) - 1, q \in 0 .. Len(other) - 1 : t = Ended(s, p, other, q)
    BY <1>3 DEF SpliceOnePoint
  <2>2. p \in Nat /\ p <= Len(s) /\ q \in Nat
    BY <1>2, <2>1
  <2>3. First(s, p) \in Seq(Bytes) /\ From(other, q) \in Seq(Bytes)
    BY <1>2, <2>2, Parts
  <2>4. First(s, p) \o From(other, q) \in Seq(Bytes)
    BY <2>3, Concatenated
  <2> QED BY <2>1, <2>4, TrimmedFacts DEF Ended, Fits
<1>4. CASE t \in { Replaced(s, b, other, o)
                     : b \in RandBlocks(s, 1, Len(s)), o \in RandBlocks(other, 1, Len(other)) }
  <2>1. PICK b \in RandBlocks(s, 1, Len(s)), o \in RandBlocks(other, 1, Len(other)) :
          t = Replaced(s, b, other, o)
    BY <1>4
  <2>2. /\ b.start \in Nat /\ b.size \in Nat /\ b.start + b.size <= Len(s)
        /\ o.start \in Nat /\ o.size \in Nat /\ o.start + o.size <= Len(other)
    BY <1>2, RandBlockFacts
  <2> DEFINE before == First(s, b.start)
             block == SubSeq(other, o.start + 1, o.start + o.size)
             after == From(s, b.start + b.size)
  <2>3. before \in Seq(Bytes)
    <3>1. b.start <= Len(s)
      BY <1>2, <2>2
    <3> QED BY <2>2, <3>1, Parts
  <2>4. after \in Seq(Bytes)
    <3>1. b.start + b.size \in Nat
      BY <2>2
    <3> QED BY <3>1, Parts
  <2>5. block \in Seq(Bytes)
    <3> DEFINE end == o.start + o.size
    <3>1. end \in Nat /\ o.start <= end /\ end <= Len(other)
      BY <2>2
    <3> HIDE DEF end
    <3>2. SubSeq(other, o.start + 1, end) \in Seq(Bytes)
      BY <1>2, <2>2, <3>1, MiddlePart
    <3> QED BY <3>2 DEF end
  <2>6. t = Trimmed(before \o block \o after)
    BY <2>1 DEF Replaced
  <2> HIDE DEF before, block, after
  <2>7. before \o block \in Seq(Bytes)
    BY <2>3, <2>5, Concatenated
  <2>8. (before \o block) \o after \in Seq(Bytes)
    BY <2>4, <2>7, Concatenated
  <2> QED BY <2>6, <2>8, TrimmedFacts DEF Fits
<1>5. CASE t \in { ReplacedInPlace(s, other, o) : o \in RandBlocks(other, 2, Len(other)) }
  <2>1. PICK o \in RandBlocks(other, 2, Len(other)) : t = ReplacedInPlace(s, other, o)
    BY <1>5
  <2> DEFINE start == Min({o.start, Len(s)})
             end == o.start + o.size
             block == SubSeq(other, start + 1, end)
             before == First(s, start)
             after == From(s, end)
  <2>2. o.start \in Nat /\ o.size \in Nat /\ end <= Len(other)
    BY <1>2, RandBlockFacts
  <2>3. start \in Nat /\ start <= o.start /\ start <= Len(s)
    <3>1. start = IF o.start <= Len(s) THEN o.start ELSE Len(s)
      BY <1>2, <2>2, MinMax
    <3> HIDE DEF start
    <3> QED BY <1>2, <2>2, <3>1
  <2>4. end \in Nat /\ start <= end
    <3> HIDE DEF start
    <3> QED BY <2>2, <2>3
  <2> HIDE DEF start, end
  <2>5. block \in Seq(Bytes) /\ Len(block) = end - start
    BY <1>2, <2>2, <2>3, <2>4, MiddlePart
  <2>6. before \in Seq(Bytes) /\ Len(before) = start
    BY <2>3, Parts
  <2>7. after \in Seq(Bytes) /\ Len(after) = IF end <= Len(s) THEN Len(s) - end ELSE 0
    BY <2>4, Parts
  <2>8. t = before \o block \o after
    <3>1. t = Overwritten(s, start, block)
      BY <2>1 DEF ReplacedInPlace, start, end
    <3>2. start + Len(block) = end
      BY <2>3, <2>4, <2>5
    <3> HIDE DEF block
    <3> QED BY <3>1, <3>2 DEF Overwritten
  <2> HIDE DEF before, block, after
  <2>9. before \o block \in Seq(Bytes) /\ Len(before \o block) = end
    <3>1. before \o block \in Seq(Bytes) /\ Len(before \o block) = Len(before) + Len(block)
      BY <2>5, <2>6, Concatenated
    <3> QED BY <2>3, <2>4, <2>5, <2>6, <3>1
  <2>10. t \in Seq(Bytes) /\ Len(t) = end + Len(after)
    <3>1. (before \o block) \o after \in Seq(Bytes)
          /\ Len((before \o block) \o after) = Len(before \o block) + Len(after)
      BY <2>7, <2>9, Concatenated
    <3> QED BY <2>8, <2>9, <3>1
  <2>11. Len(s) <= MaxSampleSize => Len(t) <= MaxSampleSize
    BY <1>2, <2>2, <2>4, <2>7, <2>10, EditsConstants
  <2> QED BY <2>10, <2>11 DEF Fits
<1> QED BY <1>1, <1>3, <1>4, <1>5 DEF SpliceTwoPoints

\* Whatever mutator is chosen: the sample stays within Sample::max_size.
LEMMA MutationsFit ==
  ASSUME NEW s \in Seq(Bytes), all_samples \subseteq Seq(Bytes),
         \A other \in all_samples : Len(other) <= MaxSampleSize,
         NEW t \in Mutations(s)
  PROVE  Fits(s, t)
<1>1. Fits(s, s)
  BY DEF Fits
<1>2. ASSUME t \in OrSame(s, Flip(s)) PROVE Fits(s, t)
  BY <1>1, <1>2, FlipFits DEF OrSame
<1>3. ASSUME t \in OrSame(s, InterestingValue(s)) PROVE Fits(s, t)
  BY <1>1, <1>3, InterestingValueFits DEF OrSame
<1>4. ASSUME t \in OrSame(s, Splice(s)) PROVE Fits(s, t)
  BY <1>1, <1>4, SpliceFits DEF OrSame
<1>5. ASSUME ~ (Len(s) >= MaxSampleSize),
             t \in AppendBlock(s) \cup InsertBlock(s) \cup OrSame(s, DuplicateBlock(s))
      PROVE  Fits(s, t)
  <2>1. Len(s) < MaxSampleSize
    BY <1>5, EditsConstants
  <2> QED BY <1>1, <1>5, <2>1, AppendBlockFits, InsertBlockFits, DuplicateBlockFits DEF OrSame
<1> QED BY <1>1, <1>2, <1>3, <1>4, <1>5 DEF Mutations

-----------------------------------------------------------------------------
(* The ranges the target has read.                                         *)

\* What the range tracker of one run reports.
Report(report) ==
  /\ IsFiniteSet(report)
  /\ \A range \in report : range.from \in Nat /\ range.to \in Nat

LEMMA ReportsAreReports == \A report \in Reports \cup {{}} : Report(report)
<1>1. Report({})
  BY FS_EmptySet DEF Report
<1>2. \A report \in Reports : Report(report)
  BY EditsAssumption DEF Report
<1> QED BY <1>1, <1>2

\* Of finitely many ranges one reaches farthest: the one that fewest others surpass.
LEMMA Farthest ==
  ASSUME Report(reported), NEW J \in SUBSET reported, J # {}
  PROVE  \E far \in J : \A range \in J : range.to <= far.to
<1> DEFINE Beyond(range) == { x \in J : x.to > range.to }
           Counts == { Cardinality(Beyond(range)) : range \in J }
<1>1. \A range \in J : range.to \in Nat
  BY DEF Report
<1>2. IsFiniteSet(J)
  BY FS_Subset DEF Report
<1>3. ASSUME NEW range \in J
      PROVE  IsFiniteSet(Beyond(range)) /\ Cardinality(Beyond(range)) \in Nat
  <2>1. Beyond(range) \in SUBSET J
    OBVIOUS
  <2> HIDE DEF Beyond
  <2> QED BY <1>2, <2>1, FS_Subset, FS_CardinalityType
<1>4. \E n \in Counts : \A k \in Counts : n <= k
  <2>1. Counts \subseteq Nat /\ Counts # {}
    BY <1>3
  <2> HIDE DEF Counts
  <2> QED BY <2>1, LeastNatural
<1>5. PICK far \in J : \A range \in J : Cardinality(Beyond(far)) <= Cardinality(Beyond(range))
  <2> HIDE DEF Beyond
  <2> QED BY <1>4
<1>6. ASSUME NEW range \in J, ~ (range.to <= far.to)
      PROVE  FALSE
  <2>1. range \in Beyond(far) /\ range \notin Beyond(range)
        /\ \A x \in Beyond(range) : x \in Beyond(far)
    BY <1>1, <1>6
  <2> HIDE DEF Beyond
  <2>2. Beyond(range) \in SUBSET Beyond(far) /\ Beyond(range) # Beyond(far)
    BY <2>1
  <2>3. Cardinality(Beyond(range)) <= Cardinality(Beyond(far))
        /\ Cardinality(Beyond(range)) # Cardinality(Beyond(far))
    BY <1>3, <2>2, FS_Subset
  <2> QED BY <1>3, <1>5, <2>3
<1> QED BY <1>6

\* A consolidated range begins where some range does that the target has read.
LEMMA RangesFacts ==
  ASSUME Report(reported), NEW range \in Ranges
  PROVE  /\ \E r0 \in reported : range.from = r0.from
         /\ range.from \in Nat /\ range.to \in Nat
<1>1. PICK first \in reported :
        /\ Begins(first)
        /\ range = [from |-> first.from, to |-> Max({ x.to : x \in Joined(first) })]
  BY DEF Ranges
<1>2. Joined(first) \in SUBSET reported /\ first \in Joined(first)
  BY DEF Joined, Report
<1>3. PICK far \in Joined(first) : \A x \in Joined(first) : x.to <= far.to
  <2>1. Joined(first) # {}
    BY <1>2
  <2> QED BY <1>2, <2>1, Farthest
<1>4. \A x \in Joined(first) : x.to \in Nat
  BY <1>2 DEF Report
<1> DEFINE Ends == { x.to : x \in Joined(first) }
<1>5. /\ \E x \in Ends : \A y \in Ends : x >= y
      /\ Ends \subseteq Nat
  BY <1>3, <1>4
<1>6. range.from = first.from /\ range.to = Max(Ends)
  BY <1>1
<1> HIDE DEF Ends
<1>7. Max(Ends) \in Nat
  BY <1>5 DEF Max
<1> QED BY <1>1, <1>6, <1>7 DEF Report

LEMMA CropFacts ==
  ASSUME NEW s \in Seq(Bytes), NEW range, range.from \in Nat, range.to \in Nat
  PROVE  Crop(s, range) \in Seq(Bytes)
<1>1. CASE range.from >= range.to
  BY <1>1 DEF Crop
<1>2. CASE ~ (range.from >= range.to)
  <2> DEFINE end == Min({range.to, Len(s)})
  <2>1. Len(s) \in Nat /\ \A i \in 1 .. Len(s) : s[i] \in Bytes
    OBVIOUS
  <2>2. end = IF range.to <= Len(s) THEN range.to ELSE Len(s)
    BY <2>1, MinMax
  <2> HIDE DEF end
  <2>3. end \in Nat /\ end <= Len(s)
    BY <2>1, <2>2
  <2>4. \A i \in range.from + 1 .. end : s[i] \in Bytes
    BY <2>1, <2>3
  <2>5. range.from + 1 \in Int /\ end \in Int
    BY <2>3
  <2>6. SubSeq(s, range.from + 1, end) \in Seq(Bytes)
    BY <2>4, <2>5, SubSeqProperties
  <2> QED BY <1>2, <2>6 DEF Crop, end
<1> QED BY <1>1, <1>2

\* A sample that is made larger keeps its bytes.
LEMMA ResizedFacts ==
  ASSUME NEW s \in Seq(Bytes), NEW size \in Nat, Len(s) <= size
  PROVE  /\ Resized(s, size) \in Seq(Bytes) /\ Len(Resized(s, size)) = size
         /\ \A i \in 1 .. Len(s) : Resized(s, size)[i] = s[i]
<1> DEFINE more == [i \in 1 .. size - Len(s) |-> 0]
<1>1. Len(s) \in Nat /\ size - Len(s) \in Nat
  OBVIOUS
<1>2. more \in Seq(Bytes) /\ Len(more) = size - Len(s)
  <2> DEFINE n == size - Len(s)
  <2>1. n \in Nat
    BY <1>1
  <2> HIDE DEF n
  <2>2. [i \in 1 .. n |-> 0] \in Seq(Bytes) /\ Len([i \in 1 .. n |-> 0]) = n
    BY <2>1, EditsConstants
  <2> QED BY <2>2 DEF n
<1> HIDE DEF more
<1>3. /\ s \o more \in Seq(Bytes) /\ Len(s \o more) = Len(s) + Len(more)
      /\ \A i \in 1 .. Len(s) : (s \o more)[i] = s[i]
  BY <1>2, Concatenated
<1> QED BY <1>1, <1>2, <1>3 DEF Resized, more

\* What a RangeMutator puts back leaves alone what comes before the range, and the
\* sample gets no smaller.
LEMMA PutBackFacts ==
  ASSUME NEW s \in Seq(Bytes), NEW range, range.from \in Nat, NEW part \in Seq(Bytes)
  PROVE  /\ PutBack(s, range, part) \in Seq(Bytes)
         /\ Len(PutBack(s, range, part)) >= Len(s)
         /\ \A i \in 1 .. Len(s) : i <= range.from => PutBack(s, range, part)[i] = s[i]
<1>1. Len(s) \in Nat /\ Len(part) \in Nat
  OBVIOUS
<1> DEFINE size == Max({range.from + Len(part), Len(s)})
           larger == Resized(s, size)
<1>2. size \in Nat /\ Len(s) <= size /\ range.from + Len(part) <= size
  <2> DEFINE end == range.from + Len(part)
  <2>1. end \in Nat /\ end \in Int /\ Len(s) \in Int
    BY <1>1
  <2> HIDE DEF end
  <2>2. Max({end, Len(s)}) = IF end <= Len(s) THEN Len(s) ELSE end
    BY <2>1, MinMax, Zenon
  <2> QED BY <1>1, <2>1, <2>2 DEF end
<1> HIDE DEF size
<1>3. larger \in Seq(Bytes) /\ Len(larger) = size /\ \A i \in 1 .. Len(s) : larger[i] = s[i]
  BY <1>2, ResizedFacts
<1> HIDE DEF larger
<1>4. CASE part = << >>
  <2>1. Len(part) = 0 /\ range.from + Len(part) = range.from
    BY <1>4
  <2>2. PutBack(s, range, part) = larger
    BY <1>4, <2>1 DEF PutBack, larger, size
  <2> QED BY <1>2, <1>3, <2>2
<1>5. CASE part # << >>
  <2>1. PutBack(s, range, part) = Overwritten(larger, range.from, part)
    BY <1>5 DEF PutBack, larger, size
  <2> DEFINE new == Overwritten(larger, range.from, part)
  <2>2. /\ new \in Seq(Bytes) /\ Len(new) = size
        /\ \A i \in 1 .. range.from : new[i] = larger[i]
    BY <1>2, <1>3, OverwrittenFacts
  <2> HIDE DEF new
  <2>3. \A i \in 1 .. Len(s) : i <= range.from => new[i] = s[i]
    BY <1>1, <1>3, <2>2
  <2> QED BY <1>2, <2>1, <2>2, <2>3 DEF new
<1> QED BY <1>4, <1>5

\* Alone or inside a range, a mutator returns a sample; only inside a range it may grow
\* beyond Sample::max_size.
LEMMA RangeMutationsFacts ==
  ASSUME Report(reported), NEW s \in Seq(Bytes), all_samples \subseteq Seq(Bytes),
         \A other \in all_samples : Len(other) <= MaxSampleSize,
         NEW t \in RangeMutations(s)
  PROVE  /\ t \in Seq(Bytes)
         /\ reported = {} /\ Len(s) <= MaxSampleSize => Len(t) <= MaxSampleSize
         /\ reported # {} /\ s # << >> =>
              /\ Len(t) >= Len(s)
              /\ \E r0 \in reported : \A i \in 1 .. Len(s) : i <= r0.from => t[i] = s[i]
<1>1. CASE reported = {} \/ s = << >>
  <2>1. t \in Mutations(s)
    BY <1>1 DEF RangeMutations
  <2> QED BY <1>1, <2>1, MutationsFit DEF Fits
<1>2. CASE ~ (reported = {} \/ s = << >>)
  <2>1. PICK range \in Ranges :
          t \in { PutBack(s, range, part) : part \in Mutations(Crop(s, range)) }
    BY <1>2 DEF RangeMutations
  <2>2. PICK part \in Mutations(Crop(s, range)) : t = PutBack(s, range, part)
    BY <2>1
  <2>3. range.from \in Nat /\ range.to \in Nat /\ \E r0 \in reported : range.from = r0.from
    BY RangesFacts
  <2>4. Crop(s, range) \in Seq(Bytes)
    BY <2>3, CropFacts
  <2>5. part \in Seq(Bytes)
    BY <2>4, MutationsFit DEF Fits
  <2>6. /\ t \in Seq(Bytes) /\ Len(t) >= Len(s)
        /\ \A i \in 1 .. Len(s) : i <= range.from => t[i] = s[i]
    BY <2>2, <2>3, <2>5, PutBackFacts
  <2> QED BY <1>2, <2>3, <2>6
<1> QED BY <1>1, <1>2

-----------------------------------------------------------------------------
(* The inductive invariant of SampleEdits: where sizes come from at each   *)
(* point of a sample's life, and what a step of the trimming has still to  *)
(* try.                                                                    *)

EditsTypeOK ==
  /\ pc \in {"idle", "mutate", "found", "minimize", "test", "save"}
  /\ sample \in Seq(Bytes) /\ test_sample \in Seq(Bytes)
  /\ all_samples \subseteq Seq(Bytes)
  /\ reported \in Reports \cup {{}}
  /\ repeats \in Nat /\ trim_step \in Nat

\* Ranges are reported of the entry that is mutated only; without them it fits.
SizesOK ==
  /\ \A s \in all_samples : Len(s) <= MaxSampleSize
  /\ pc # "mutate" => reported = {}
  /\ reported = {} => Len(sample) <= MaxSampleSize

\* The last sample that ran as before is the one in sample; the step is 0 only after
\* the step of one byte has failed.
TrimmingOK ==
  /\ pc = "minimize" => test_sample = sample
  /\ pc = "test" => /\ trim_step > 0 /\ trim_step < Len(sample)
                    /\ test_sample = First(sample, Len(sample) - trim_step)
  /\ pc = "minimize" /\ trim_step = 0 =>
       Len(sample) <= 1 \/ results[Len(sample) - 1] # "same"
  /\ TrimmedIsMinimal

EditsInv == EditsTypeOK /\ SizesOK /\ TrimmingOK

LEMMA InitEdits == Init => EditsInv
<1> SUFFICES ASSUME Init PROVE EditsInv
  OBVIOUS
<1>1. sample \in Seq(Bytes) /\ Len(sample) <= MaxSampleSize
  <2>1. PICK n \in 0 .. MaxSampleSize : sample \in Blocks(n)
    BY DEF Init, Samples
  <2>2. n \in Nat /\ n <= MaxSampleSize
    BY <2>1, EditsConstants
  <2> QED BY <2>1, <2>2, BlockFacts
<1>2. << >> \in Seq(Bytes)
  OBVIOUS
<1>3. EditsTypeOK
  BY <1>1, <1>2 DEF Init, EditsTypeOK
<1>4. SizesOK
  BY <1>1 DEF Init, SizesOK
<1>5. TrimmingOK
  BY DEF Init, TrimmingOK, TrimmedIsMinimal
<1> QED BY <1>3, <1>4, <1>5 DEF EditsInv

\* A trimmed sample is smaller.
LEMMA TrimFacts ==
  ASSUME NEW s \in Seq(Bytes), NEW step \in Nat, step < Len(s)
  PROVE  First(s, Len(s) - step) \in Seq(Bytes) /\ Len(First(s, Len(s) - step)) = Len(s) - step
<1> DEFINE n == Len(s) - step
<1>1. n \in Nat /\ n <= Len(s)
  OBVIOUS
<1> HIDE DEF n
<1>2. First(s, n) \in Seq(Bytes) /\ Len(First(s, n)) = n
  BY <1>1, Parts
<1> QED BY <1>2 DEF n

LEMMA NextEdits == EditsInv /\ [Next]_vars => EditsInv'
<1> SUFFICES ASSUME EditsInv, [Next]_vars PROVE EditsInv'
  OBVIOUS
<1> USE DEF EditsInv
<1>0. /\ sample \in Seq(Bytes) /\ Len(sample) \in Nat /\ Len(test_sample) \in Nat
      /\ << >> \in Seq(Bytes) /\ Len(<< >>) = 0 /\ MaxSampleSize \in Nat
  BY EditsConstants DEF EditsTypeOK
<1>1. CASE FuzzEntry
  <2>1. EditsTypeOK'
    BY <1>1 DEF FuzzEntry, trimming, EditsTypeOK
  <2>2. SizesOK'
    BY <1>1 DEF FuzzEntry, SizesOK
  <2>3. TrimmingOK'
    BY <1>1 DEF FuzzEntry, TrimmingOK, TrimmedIsMinimal
  <2> QED BY <2>1, <2>2, <2>3
<1>2. CASE Mutate
  <2>1. Report(reported)
    BY ReportsAreReports DEF EditsTypeOK
  <2>2. sample' \in Seq(Bytes)
        /\ (reported = {} /\ Len(sample) <= MaxSampleSize => Len(sample') <= MaxSampleSize)
    BY <1>2, <2>1, RangeMutationsFacts DEF Mutate, EditsTypeOK, SizesOK
  <2>3. EditsTypeOK'
    BY <1>2, <2>2 DEF Mutate, trimming, EditsTypeOK
  <2>4. SizesOK'
    BY <1>2, <2>2 DEF Mutate, SizesOK
  <2>5. TrimmingOK'
    BY <1>2 DEF Mutate, TrimmingOK, TrimmedIsMinimal
  <2> QED BY <2>3, <2>4, <2>5
<1>3. CASE Run
  <2>1. EditsTypeOK'
    BY <1>0, <1>3 DEF Run, trimming, EditsTypeOK
  <2>2. SizesOK'
    BY <1>0, <1>3 DEF Run, SizesOK
  <2>3. TrimmingOK'
    BY <1>3 DEF Run, TrimmingOK, TrimmedIsMinimal
  <2> QED BY <2>1, <2>2, <2>3
<1>4. CASE BeginMinimize
  <2>1. EditsTypeOK'
    BY <1>4, EditsConstants DEF BeginMinimize, EditsTypeOK
  <2>2. SizesOK'
    BY <1>4 DEF BeginMinimize, SizesOK
  <2>3. TrimmingOK'
    BY <1>4, EditsConstants DEF BeginMinimize, TrimmingOK, TrimmedIsMinimal
  <2> QED BY <2>1, <2>2, <2>3
<1>5. CASE HalveStep
  <2>1. trim_step' \in Nat /\ trim_step' # 0
    <3>1. trim_step \in Nat /\ trim_step >= 2
      BY <1>0, <1>5 DEF HalveStep, EditsTypeOK
    <3> QED BY <1>5, <3>1, SMT DEF HalveStep
  <2>2. EditsTypeOK'
    BY <1>5, <2>1 DEF HalveStep, EditsTypeOK
  <2>3. SizesOK'
    BY <1>5 DEF HalveStep, SizesOK
  <2>4. TrimmingOK'
    BY <1>5, <2>1 DEF HalveStep, TrimmingOK, TrimmedIsMinimal
  <2> QED BY <2>2, <2>3, <2>4
<1>6. CASE MinimizeStep
  <2>1. test_sample = sample /\ pc = "minimize"
    BY <1>6 DEF MinimizeStep, TrimmingOK
  <2>2. CASE Len(test_sample) <= 1 \/ trim_step = 0
    <3>1. pc' = "save" /\ UNCHANGED test_sample
      BY <1>6, <2>2 DEF MinimizeStep
    <3>2. EditsTypeOK'
      BY <1>6, <3>1 DEF MinimizeStep, EditsTypeOK
    <3>3. SizesOK'
      BY <1>6, <2>1, <3>1 DEF MinimizeStep, SizesOK
    <3>4. TrimmingOK'
      BY <1>6, <2>1, <2>2, <3>1 DEF MinimizeStep, TrimmingOK, TrimmedIsMinimal
    <3> QED BY <3>2, <3>3, <3>4
  <2>3. CASE ~ (Len(test_sample) <= 1 \/ trim_step = 0)
    <3>1. /\ pc' = "test"
          /\ test_sample' = First(sample, Len(sample) - trim_step)
          /\ trim_step < Len(sample) /\ trim_step \in Nat /\ trim_step > 0
      BY <1>6, <2>1, <2>3 DEF MinimizeStep, EditsTypeOK
    <3>2. EditsTypeOK'
      BY <1>0, <1>6, <3>1, TrimFacts DEF MinimizeStep, EditsTypeOK
    <3>3. SizesOK'
      BY <1>6, <2>1, <3>1 DEF MinimizeStep, SizesOK
    <3>4. TrimmingOK'
      BY <1>6, <3>1 DEF MinimizeStep, TrimmingOK, TrimmedIsMinimal
    <3> QED BY <3>2, <3>3, <3>4
  <2> QED BY <2>2, <2>3
<1>7. CASE Test
  <2>1. /\ pc = "test" /\ reported = {} /\ trim_step \in Nat
        /\ trim_step > 0 /\ trim_step < Len(sample)
        /\ test_sample = First(sample, Len(sample) - trim_step)
    BY <1>7 DEF Test, TrimmingOK, SizesOK, EditsTypeOK
  <2>2. test_sample \in Seq(Bytes) /\ Len(test_sample) = Len(sample) - trim_step
    BY <1>0, <2>1, TrimFacts
  <2>3. CASE /\ results[Len(test_sample)] = "same"
             /\ sample' = test_sample /\ pc' = "minimize"
             /\ UNCHANGED << test_sample, trim_step >>
    <3>1. EditsTypeOK'
      BY <1>7, <2>2, <2>3 DEF Test, EditsTypeOK
    <3>2. Len(sample') <= MaxSampleSize
      BY <1>0, <2>1, <2>2, <2>3 DEF SizesOK
    <3>3. SizesOK'
      BY <1>7, <2>1, <2>3, <3>2 DEF Test, SizesOK
    <3>4. TrimmingOK'
      BY <2>1, <2>3 DEF TrimmingOK, TrimmedIsMinimal
    <3> QED BY <3>1, <3>3, <3>4
  <2>4. CASE /\ results[Len(test_sample)] = "less"
             /\ test_sample' = sample /\ trim_step' = StepAfterFail /\ pc' = "minimize"
             /\ UNCHANGED sample
    <3>1. trim_step' \in Nat /\ (trim_step' = 0 => trim_step = 1)
      BY <2>1, <2>4, SMT DEF StepAfterFail
    <3>2. EditsTypeOK'
      BY <1>0, <1>7, <2>4, <3>1 DEF Test, EditsTypeOK
    <3>3. SizesOK'
      BY <1>7, <2>1, <2>4 DEF Test, SizesOK
    <3>4. trim_step' = 0 => results'[Len(sample') - 1] # "same"
      <4>1. results' = results
        BY <1>7 DEF Test
      <4>2. trim_step' = 0 => Len(test_sample) = Len(sample) - 1
        BY <2>2, <3>1
      <4> QED BY <2>4, <4>1, <4>2
    <3>5. TrimmingOK'
      BY <2>4, <3>4 DEF TrimmingOK, TrimmedIsMinimal
    <3> QED BY <3>2, <3>3, <3>5
  <2>5. CASE /\ results[Len(test_sample)] = "crash"
             /\ pc' = "save" /\ UNCHANGED << sample, test_sample, trim_step >>
    <3>1. EditsTypeOK'
      BY <1>7, <2>5 DEF Test, EditsTypeOK
    <3>2. SizesOK'
      BY <1>7, <2>1, <2>5 DEF Test, SizesOK
    <3>3. test_sample # sample
      BY <1>0, <2>1, <2>2
    <3>4. TrimmingOK'
      BY <2>5, <3>3 DEF TrimmingOK, TrimmedIsMinimal
    <3> QED BY <3>1, <3>2, <3>4
  <2> QED BY <1>7, <2>3, <2>4, <2>5 DEF Test
<1>8. CASE SaveSample
  <2>1. EditsTypeOK'
    BY <1>0, <1>8 DEF SaveSample, EditsTypeOK
  <2>2. SizesOK'
    BY <1>0, <1>8 DEF SaveSample, SizesOK
  <2>3. TrimmingOK'
    BY <1>8 DEF SaveSample, TrimmingOK, TrimmedIsMinimal
  <2> QED BY <2>1, <2>2, <2>3
<1>9. CASE UNCHANGED vars
  BY <1>9 DEF vars, trimming, EditsTypeOK, SizesOK, TrimmingOK, TrimmedIsMinimal
<1> QED BY <1>1, <1>2, <1>3, <1>4, <1>5, <1>6, <1>7, <1>8, <1>9 DEF Next

\* The invariant holds in every state.
THEOREM EditsInvariant == Spec => []EditsInv
<1> QED BY InitEdits, NextEdits, PTL DEF Spec

\* A sample the mutators return never exceeds Sample::max_size, but inside a range the
\* target read; what is run, trimmed or saved never does.
THEOREM SizesStayLegal == Spec => []NeverTooLarge
<1>1. EditsInv => NeverTooLarge
  BY DEF EditsInv, SizesOK, NeverTooLarge
<1> QED BY <1>1, EditsInvariant, PTL

\* However steps are halved, one byte has been tried last.
THEOREM TrimmingIsMinimal == Spec => []TrimmedIsMinimal
<1>1. EditsInv => TrimmedIsMinimal
  BY DEF EditsInv, TrimmingOK
<1> QED BY <1>1, EditsInvariant, PTL

\* A mutation inside the ranges leaves alone what comes before one of them.
LEMMA MutateKeepsTheRest == EditsInv => KeepsTheRest
<1> SUFFICES ASSUME EditsInv, Mutate, reported # {}, sample # << >>
             PROVE  /\ Len(sample') >= Len(sample)
                    /\ \E range \in reported :
                         LET before == Min({range.from, Len(sample)})
                         IN First(sample', before) = First(sample, before)
  BY DEF KeepsTheRest
<1>1. /\ Report(reported) /\ sample \in Seq(Bytes) /\ Len(sample) \in Nat
      /\ sample' \in RangeMutations(sample)
  BY ReportsAreReports DEF EditsInv, EditsTypeOK, Mutate
<1>2. /\ sample' \in Seq(Bytes) /\ Len(sample') >= Len(sample)
      /\ \E range \in reported :
           \A i \in 1 .. Len(sample) : i <= range.from => sample'[i] = sample[i]
  BY <1>1, RangeMutationsFacts DEF EditsInv, EditsTypeOK, SizesOK
<1>3. PICK range \in reported :
        \A i \in 1 .. Len(sample) : i <= range.from => sample'[i] = sample[i]
  BY <1>2
<1> DEFINE before == Min({range.from, Len(sample)})
<1>4. before \in Nat /\ before <= Len(sample) /\ before <= range.from
  <2>1. range.from \in Nat
    BY <1>1 DEF Report
  <2>2. before = IF range.from <= Len(sample) THEN range.from ELSE Len(sample)
    BY <1>1, <2>1, MinMax
  <2> HIDE DEF before
  <2> QED BY <1>1, <2>1, <2>2
<1> HIDE DEF before
<1>5. /\ First(sample, before) \in Seq(Bytes) /\ Len(First(sample, before)) = before
      /\ \A i \in 1 .. before : First(sample, before)[i] = sample[i]
  BY <1>1, <1>4, Parts
<1>6. /\ First(sample', before) \in Seq(Bytes) /\ Len(First(sample', before)) = before
      /\ \A i \in 1 .. before : First(sample', before)[i] = sample'[i]
  <2>1. before <= Len(sample')
    BY <1>1, <1>2, <1>4
  <2> QED BY <1>2, <1>4, <2>1, Parts
<1>7. \A i \in 1 .. before : First(sample', before)[i] = First(sample, before)[i]
  <2>1. ASSUME NEW i \in 1 .. before PROVE i \in 1 .. Len(sample) /\ i <= range.from
    <3>1. range.from \in Nat
      BY <1>1 DEF Report
    <3> QED BY <1>1, <1>4, <3>1
  <2> QED BY <1>3, <1>5, <1>6, <2>1
<1>8. First(sample', before) = First(sample, before)
  BY <1>5, <1>6, <1>7, SeqEqual
<1> QED BY <1>2, <1>8 DEF before

\* A mutation never touches what comes before all ranges the target has read, and
\* loses nothing of the sample, in any behaviour.
THEOREM RangesProtectTheRest == Spec => OnlyTheRange
<1>1. EditsInv /\ [Next]_vars => [KeepsTheRest]_vars
  BY MutateKeepsTheRest
<1> QED BY <1>1, EditsInvariant, PTL DEF Spec, OnlyTheRange

-----------------------------------------------------------------------------
(* Prefixes.                                                               *)

\* All of a sequence is the sequence.
LEMMA FirstAll ==
  ASSUME NEW s \in Seq(Bytes)
  PROVE  First(s, Len(s)) = s
BY SubSeqFull DEF First

\* A prefix, byte by byte.
LEMMA PrefixPointwise ==
  ASSUME NEW s \in Seq(Bytes), NEW t \in Seq(Bytes)
  PROVE  IsPrefix(s, t) <=> Len(s) <= Len(t) /\ \A i \in 1 .. Len(s) : s[i] = t[i]
<1>1. Len(s) \in Nat /\ Len(t) \in Nat
  OBVIOUS
<1>2. CASE Len(s) <= Len(t)
  <2>1. First(s, Len(s)) = s
    BY FirstAll
  <2>2. First(t, Len(s)) \in Seq(Bytes) /\ Len(First(t, Len(s))) = Len(s)
        /\ \A i \in 1 .. Len(s) : First(t, Len(s))[i] = t[i]
    BY <1>1, <1>2, Parts
  <2>3. s = First(t, Len(s)) <=> \A i \in 1 .. Len(s) : s[i] = t[i]
    BY <2>2, SeqEqual
  <2>4. IsPrefix(s, t) <=> s = First(t, Len(s))
    BY <1>2, <2>1 DEF IsPrefix, First
  <2> QED BY <1>2, <2>3, <2>4
<1>3. CASE ~ (Len(s) <= Len(t))
  BY <1>3 DEF IsPrefix
<1> QED BY <1>2, <1>3

\* Prefixes are ordered, and those of one sequence by their lengths.
LEMMA PrefixReflexive ==
  ASSUME NEW s \in Seq(Bytes)
  PROVE  IsPrefix(s, s) /\ IsPrefix(<< >>, s)
<1>1. Len(s) \in Nat
  OBVIOUS
<1> DEFINE nothing == << >>
<1>2. nothing \in Seq(Bytes) /\ Len(nothing) = 0
  OBVIOUS
<1> HIDE DEF nothing
<1>3. IsPrefix(s, s)
  BY <1>1, PrefixPointwise
<1>4. IsPrefix(nothing, s)
  <2>1. Len(nothing) <= Len(s) /\ \A i \in 1 .. Len(nothing) : nothing[i] = s[i]
    BY <1>1, <1>2
  <2> QED BY <1>2, <2>1, PrefixPointwise
<1> QED BY <1>3, <1>4 DEF nothing

LEMMA PrefixTransitive ==
  ASSUME NEW s \in Seq(Bytes), NEW t \in Seq(Bytes), NEW u \in Seq(Bytes),
         IsPrefix(s, t), IsPrefix(t, u)
  PROVE  IsPrefix(s, u)
<1>1. /\ Len(s) \in Nat /\ Len(t) \in Nat /\ Len(u) \in Nat
      /\ Len(s) <= Len(t) /\ \A i \in 1 .. Len(s) : s[i] = t[i]
      /\ Len(t) <= Len(u) /\ \A i \in 1 .. Len(t) : t[i] = u[i]
  BY PrefixPointwise
<1>2. Len(s) <= Len(u) /\ \A i \in 1 .. Len(s) : s[i] = u[i]
  BY <1>1
<1> QED BY <1>2, PrefixPointwise

LEMMA PrefixesCompare ==
  ASSUME NEW s \in Seq(Bytes), NEW t \in Seq(Bytes), NEW u \in Seq(Bytes),
         IsPrefix(s, u), IsPrefix(t, u), Len(s) <= Len(t)
  PROVE  IsPrefix(s, t)
<1>1. /\ Len(s) \in Nat /\ Len(t) \in Nat
      /\ \A i \in 1 .. Len(s) : s[i] = u[i]
      /\ \A i \in 1 .. Len(t) : t[i] = u[i]
  BY PrefixPointwise
<1>2. \A i \in 1 .. Len(s) : s[i] = t[i]
  BY <1>1
<1> QED BY <1>2, PrefixPointwise

LEMMA PrefixOfItsLength ==
  ASSUME NEW s \in Seq(Bytes), NEW t \in Seq(Bytes), IsPrefix(s, t), Len(s) >= Len(t)
  PROVE  s = t
<1>1. /\ Len(s) \in Nat /\ Len(t) \in Nat /\ Len(s) <= Len(t)
      /\ \A i \in 1 .. Len(s) : s[i] = t[i]
  BY PrefixPointwise
<1>2. Len(s) = Len(t)
  BY <1>1
<1> QED BY <1>1, <1>2, SeqEqual

\* The first bytes of a sequence are its prefix, and those of all that it begins.
LEMMA FirstIsPrefix ==
  ASSUME NEW s \in Seq(Bytes), NEW n \in Nat, n <= Len(s)
  PROVE  First(s, n) \in Seq(Bytes) /\ Len(First(s, n)) = n /\ IsPrefix(First(s, n), s)
<1>1. /\ First(s, n) \in Seq(Bytes) /\ Len(First(s, n)) = n
      /\ \A i \in 1 .. n : First(s, n)[i] = s[i]
  BY Parts
<1> QED BY <1>1, PrefixPointwise

LEMMA FirstOfPrefix ==
  ASSUME NEW s \in Seq(Bytes), NEW t \in Seq(Bytes), IsPrefix(s, t),
         NEW n \in Nat, n <= Len(s)
  PROVE  First(t, n) = First(s, n)
<1>1. /\ Len(s) \in Nat /\ Len(t) \in Nat /\ Len(s) <= Len(t)
      /\ \A i \in 1 .. Len(s) : s[i] = t[i]
  BY PrefixPointwise
<1>2. /\ First(s, n) \in Seq(Bytes) /\ Len(First(s, n)) = n
      /\ \A i \in 1 .. n : First(s, n)[i] = s[i]
  BY Parts
<1>3. /\ First(t, n) \in Seq(Bytes) /\ Len(First(t, n)) = n
      /\ \A i \in 1 .. n : First(t, n)[i] = t[i]
  <2>1. n <= Len(t)
    BY <1>1
  <2> QED BY <2>1, Parts
<1>4. \A i \in 1 .. n : First(t, n)[i] = First(s, n)[i]
  <2> SUFFICES ASSUME NEW i \in 1 .. n PROVE First(t, n)[i] = First(s, n)[i]
    OBVIOUS
  <2>1. i \in 1 .. Len(s)
    BY <1>1
  <2>2. First(t, n)[i] = t[i] /\ First(s, n)[i] = s[i] /\ s[i] = t[i]
    BY <1>1, <1>2, <1>3, <2>1, Zenon
  <2> QED BY <2>2
<1> QED BY <1>2, <1>3, <1>4, SeqEqual

LEMMA PrefixIsFirst ==
  ASSUME NEW s \in Seq(Bytes), NEW t \in Seq(Bytes), IsPrefix(s, t)
  PROVE  Len(s) <= Len(t) /\ First(t, Len(s)) = s
<1>1. Len(s) \in Nat /\ Len(s) <= Len(t)
  BY PrefixPointwise
<1>2. First(s, Len(s)) = s
  BY FirstAll
<1> QED BY <1>1, <1>2, FirstOfPrefix

\* Two sequences with the same first bytes have the same shorter beginnings.
LEMMA FirstAgreeDown ==
  ASSUME NEW s \in Seq(Bytes), NEW t \in Seq(Bytes), NEW n \in Nat, NEW k \in Nat,
         n <= Len(s), n <= Len(t), First(s, n) = First(t, n), k <= n
  PROVE  First(s, k) = First(t, k)
<1>1. First(s, n) \in Seq(Bytes) /\ Len(First(s, n)) = n
      /\ IsPrefix(First(s, n), s) /\ IsPrefix(First(s, n), t)
  BY FirstIsPrefix
<1> QED BY <1>1, FirstOfPrefix

\* A sequence is its beginning and its end.
LEMMA FirstAndFrom ==
  ASSUME NEW s \in Seq(Bytes), NEW n \in Nat, n <= Len(s)
  PROVE  First(s, n) \o From(s, n) = s
<1>1. Len(s) \in Nat /\ \A i \in 1 .. Len(s) : s[i] \in Bytes
  OBVIOUS
<1>2. First(s, n) \in Seq(Bytes) /\ Len(First(s, n)) = n
      /\ \A i \in 1 .. n : First(s, n)[i] = s[i]
  BY Parts
<1>3. From(s, n) \in Seq(Bytes) /\ Len(From(s, n)) = Len(s) - n
      /\ \A i \in 1 .. Len(s) - n : From(s, n)[i] = s[n + i]
  BY Parts
<1> DEFINE before == First(s, n)
           after == From(s, n)
<1> HIDE DEF before, after
<1>4. /\ before \o after \in Seq(Bytes) /\ Len(before \o after) = Len(before) + Len(after)
      /\ \A i \in 1 .. Len(before) : (before \o after)[i] = before[i]
      /\ \A i \in 1 .. Len(after) : (before \o after)[Len(before) + i] = after[i]
  BY <1>2, <1>3, Concatenated DEF before, after
<1>5. ASSUME NEW i \in 1 .. Len(s) PROVE (before \o after)[i] = s[i]
  <2>1. CASE i <= n
    <3>1. i \in 1 .. n /\ i \in 1 .. Len(before)
      BY <1>2, <2>1 DEF before
    <3> QED BY <1>2, <1>4, <3>1 DEF before
  <2>2. CASE ~ (i <= n)
    <3> DEFINE j == i - n
    <3>1. j \in 1 .. Len(s) - n /\ i = n + j
      BY <1>1, <2>2
    <3> HIDE DEF j
    <3>2. (before \o after)[n + j] = after[j] /\ after[j] = s[n + j]
      BY <1>2, <1>3, <1>4, <3>1 DEF before, after
    <3> QED BY <3>1, <3>2
  <2> QED BY <2>1, <2>2
<1>6. Len(before \o after) = Len(s)
  BY <1>1, <1>2, <1>3, <1>4 DEF before, after
<1>7. before \o after = s
  BY <1>4, <1>5, <1>6, SeqEqual
<1> QED BY <1>7 DEF before, after

\* The beginning of two sequences one after the other.
LEMMA FirstOfBoth ==
  ASSUME NEW s \in Seq(Bytes), NEW t \in Seq(Bytes), NEW n \in Nat, n <= Len(t)
  PROVE  First(s \o t, Len(s) + n) = s \o First(t, n)
<1> DEFINE both == s \o t
           short == s \o First(t, n)
           size == Len(s) + n
<1>1. Len(s) \in Nat /\ Len(t) \in Nat
  OBVIOUS
<1>2. First(t, n) \in Seq(Bytes) /\ Len(First(t, n)) = n
      /\ \A i \in 1 .. n : First(t, n)[i] = t[i]
  BY Parts
<1>3. /\ both \in Seq(Bytes) /\ Len(both) = Len(s) + Len(t)
      /\ \A i \in 1 .. Len(s) : both[i] = s[i]
      /\ \A i \in 1 .. Len(t) : both[Len(s) + i] = t[i]
  BY Concatenated
<1> DEFINE part == First(t, n)
<1> HIDE DEF part
<1>4. /\ s \o part \in Seq(Bytes) /\ Len(s \o part) = Len(s) + n
      /\ \A i \in 1 .. Len(s) : (s \o part)[i] = s[i]
      /\ \A i \in 1 .. n : (s \o part)[Len(s) + i] = t[i]
  <2>1. part \in Seq(Bytes) /\ Len(part) = n /\ \A i \in 1 .. n : part[i] = t[i]
    BY <1>2 DEF part
  <2>2. /\ s \o part \in Seq(Bytes) /\ Len(s \o part) = Len(s) + Len(part)
        /\ \A i \in 1 .. Len(s) : (s \o part)[i] = s[i]
        /\ \A i \in 1 .. Len(part) : (s \o part)[Len(s) + i] = part[i]
    <3>1. part \in Seq(Bytes)
      BY <2>1
    <3> QED BY ONLY <3>1, s \in Seq(Bytes), Concatenated
  <2> QED BY <2>1, <2>2
<1>5. /\ short \in Seq(Bytes) /\ Len(short) = size
      /\ \A i \in 1 .. Len(s) : short[i] = s[i]
      /\ \A i \in 1 .. n : short[Len(s) + i] = t[i]
  BY <1>4 DEF part
<1>6. size \in Nat /\ size <= Len(both)
  BY <1>1, <1>3
<1> HIDE DEF both, short
<1>7. First(both, size) \in Seq(Bytes) /\ Len(First(both, size)) = size
      /\ \A i \in 1 .. size : First(both, size)[i] = both[i]
  <2> HIDE DEF size
  <2> QED BY <1>3, <1>6, Parts
<1>8. ASSUME NEW i \in 1 .. size PROVE both[i] = short[i]
  <2>1. CASE i <= Len(s)
    BY <1>1, <1>3, <1>5, <2>1
  <2>2. CASE ~ (i <= Len(s))
    <3> DEFINE j == i - Len(s)
    <3>1. j \in 1 .. n /\ j \in 1 .. Len(t) /\ i = Len(s) + j
      BY <1>1, <2>2
    <3> HIDE DEF j
    <3> QED BY <1>3, <1>5, <3>1
  <2> QED BY <2>1, <2>2
<1>9. First(both, size) = short
  <2> HIDE DEF size
  <2> QED BY <1>5, <1>7, <1>8, SeqEqual
<1> QED BY <1>9 DEF both, short

\* How far two sequences agree: CommonPrefix counts the lengths at which they do, and
\* these are all up to one.
LEMMA CommonPrefixFacts ==
  ASSUME NEW s \in Seq(Bytes), NEW t \in Seq(Bytes)
  PROVE  /\ CommonPrefix(s, t) \in Nat
         /\ CommonPrefix(s, t) <= Len(s) /\ CommonPrefix(s, t) <= Len(t)
         /\ First(s, CommonPrefix(s, t)) = First(t, CommonPrefix(s, t))
         /\ \A n \in Nat : n <= Len(s) /\ n <= Len(t) /\ First(s, n) = First(t, n) =>
                           n <= CommonPrefix(s, t)
<1> DEFINE shorter == Min({Len(s), Len(t)})
           Shared == { n \in 1 .. shorter : First(s, n) = First(t, n) }
           Ends == { k \in Nat : k + 1 <= shorter => First(s, k + 1) # First(t, k + 1) }
<1>1. Len(s) \in Nat /\ Len(t) \in Nat
  OBVIOUS
<1>2. shorter \in Nat /\ \A n \in Nat : n <= shorter <=> n <= Len(s) /\ n <= Len(t)
  <2>1. shorter = IF Len(s) <= Len(t) THEN Len(s) ELSE Len(t)
    BY <1>1, MinMax
  <2> HIDE DEF shorter
  <2> QED BY <1>1, <2>1
<1> HIDE DEF shorter
<1>3. PICK c \in Ends : \A k \in Ends : c <= k
  <2>1. shorter \in Ends /\ Ends \subseteq Nat
    BY <1>2
  <2> HIDE DEF Ends
  <2> QED BY <2>1, LeastNatural
<1>4. c \in Nat /\ (c + 1 <= shorter => First(s, c + 1) # First(t, c + 1))
  BY <1>3
<1>5. ASSUME NEW n \in 1 .. c PROVE n <= shorter /\ First(s, n) = First(t, n)
  <2> DEFINE k == n - 1
  <2>1. k \in Nat /\ k < c /\ k + 1 = n
    BY <1>4
  <2> HIDE DEF k
  <2>2. k \notin Ends
    BY <1>3, <1>4, <2>1
  <2> QED BY <2>1, <2>2
<1>6. ASSUME NEW n \in Nat, n <= shorter, First(s, n) = First(t, n) PROVE n <= c
  <2>1. SUFFICES ASSUME c + 1 <= n PROVE FALSE
    BY <1>4
  <2> DEFINE k == c + 1
  <2>2. k \in Nat /\ k <= n /\ k <= shorter
    BY <1>2, <1>4, <1>6, <2>1
  <2>3. First(s, k) # First(t, k)
    BY <1>4, <2>2
  <2> HIDE DEF k
  <2> QED BY <1>2, <1>6, <2>2, <2>3, FirstAgreeDown
<1>7. Shared = 1 .. c
  BY <1>2, <1>4, <1>5, <1>6
<1>8. CommonPrefix(s, t) = c
  <2>1. Cardinality(1 .. c) = c
    BY <1>4, FS_Interval
  <2> QED BY <1>7, <2>1 DEF CommonPrefix, shorter
<1>9. c <= shorter /\ First(s, c) = First(t, c)
  <2>1. CASE c = 0
    <3>1. First(s, 0) = << >> /\ First(t, 0) = << >>
      BY SubSeqEmpty DEF First
    <3> QED BY <1>2, <2>1, <3>1
  <2>2. CASE c # 0
    BY <1>4, <1>5, <2>2
  <2> QED BY <2>1, <2>2
<1> QED BY <1>2, <1>4, <1>6, <1>8, <1>9

\* Nothing else follows the same beginning.
LEMMA SameBeginning ==
  ASSUME NEW s \in Seq(Bytes), NEW t \in Seq(Bytes), NEW u \in Seq(Bytes), Len(t) = Len(u)
  PROVE  s \o t = s \o u <=> t = u
<1> DEFINE st == s \o t
           su == s \o u
<1>1. /\ st \in Seq(Bytes) /\ \A i \in 1 .. Len(t) : st[Len(s) + i] = t[i]
      /\ su \in Seq(Bytes) /\ \A i \in 1 .. Len(u) : su[Len(s) + i] = u[i]
  BY Concatenated
<1> HIDE DEF st, su
<1>2. ASSUME st = su PROVE t = u
  <2>1. \A i \in 1 .. Len(t) : t[i] = u[i]
    BY <1>1, <1>2
  <2> QED BY <2>1, SeqEqual
<1> QED BY <1>2 DEF st, su

\* A constant part agrees with what follows its node in a sample as far as the whole
\* path agrees with the sample.
LEMMA AgreeFromNode ==
  ASSUME NEW e \in Seq(Bytes), NEW s \in Seq(Bytes), NEW part \in Seq(Bytes),
         IsPrefix(e, s),
         NEW n \in Nat, n <= Len(part), Len(e) + n <= Len(s)
  PROVE  First(From(s, Len(e)), n) = First(part, n)
           <=> First(s, Len(e) + n) = First(e \o part, Len(e) + n)
<1> DEFINE rest == From(s, Len(e))
<1>1. Len(e) \in Nat /\ Len(e) <= Len(s) /\ First(s, Len(e)) = e /\ Len(s) \in Nat
  BY PrefixIsFirst
<1>2. rest \in Seq(Bytes) /\ Len(rest) = Len(s) - Len(e)
  <2> DEFINE k == Len(e)
  <2>1. k \in Nat /\ k <= Len(s)
    BY <1>1
  <2> HIDE DEF k
  <2>2. From(s, k) \in Seq(Bytes) /\ Len(From(s, k)) = Len(s) - k
    BY <2>1, Parts
  <2> QED BY <2>2 DEF k
<1>3. e \o rest = s
  BY <1>1, FirstAndFrom
<1> HIDE DEF rest
<1>4. n <= Len(rest)
  BY <1>1, <1>2
<1>5. First(s, Len(e) + n) = e \o First(rest, n)
  BY <1>2, <1>3, <1>4, FirstOfBoth
<1>6. First(e \o part, Len(e) + n) = e \o First(part, n)
  BY FirstOfBoth
<1>7. /\ First(rest, n) \in Seq(Bytes) /\ Len(First(rest, n)) = n
      /\ First(part, n) \in Seq(Bytes) /\ Len(First(part, n)) = n
  BY <1>2, <1>4, Parts
<1>8. e \o First(rest, n) = e \o First(part, n) <=> First(rest, n) = First(part, n)
  <2> DEFINE a == First(rest, n)
             b == First(part, n)
  <2>1. a \in Seq(Bytes) /\ b \in Seq(Bytes) /\ Len(a) = Len(b)
    BY <1>7
  <2> HIDE DEF a, b
  <2>2. e \o a = e \o b <=> a = b
    BY <2>1, SameBeginning
  <2> QED BY <2>2 DEF a, b
<1> QED BY <1>5, <1>6, <1>8 DEF rest

-----------------------------------------------------------------------------
(* The trie of the samples.                                                *)

\* The bytes a node stands for: those that lead to it and its constant part.
Whole(path) == path \o trie[path]

\* A node under another one hangs from the byte that follows its constant part.
HangsFrom(whole, path, nodes) ==
  /\ IsPrefix(whole, path) /\ Len(whole) < Len(path)
  /\ First(path, Len(whole) + 1) \in nodes

Nodes == DOMAIN trie
TrieTypeOK ==
  /\ trie = [path \in Nodes |-> trie[path]]
  /\ \A path \in Nodes : path \in Seq(Bytes) /\ trie[path] \in Seq(Bytes)
  /\ Nodes # {} => << >> \in Nodes

\* Each sample saved lies on a path of the trie, each path of the trie on a sample.
TrieHoldsSamples ==
  /\ \A s \in all_samples : s # << >> => \E path \in Nodes : IsPrefix(s, Whole(path))
  /\ \A path \in Nodes : \E s \in all_samples : IsPrefix(Whole(path), s)

\* A node below another hangs from it at the byte after its constant part.
TrieIsCompressed ==
  \A path, under \in Nodes :
    IsPrefix(path, under) /\ path # under => HangsFrom(Whole(path), under, Nodes)

TrieInv == TrieTypeOK /\ TrieHoldsSamples /\ TrieIsCompressed

\* The root exists unless only empty samples were added.
LEMMA EmptyTrie == TrieTypeOK => (trie = NoNodes <=> Nodes = {})
<1> SUFFICES ASSUME TrieTypeOK PROVE trie = NoNodes <=> Nodes = {}
  OBVIOUS
<1>1. DOMAIN NoNodes = {}
  BY DEF NoNodes
<1>2. ASSUME Nodes = {} PROVE trie = NoNodes
  <2>1. trie = [path \in {} |-> trie[path]]
    BY <1>2 DEF TrieTypeOK
  <2>2. [path \in {} |-> trie[path]] = [path \in {} |-> << >>]
    OBVIOUS
  <2> QED BY <2>1, <2>2 DEF NoNodes
<1> QED BY <1>1, <1>2 DEF Nodes

LEMMA WholeFacts ==
  ASSUME TrieTypeOK, NEW path \in Nodes
  PROVE  /\ path \in Seq(Bytes) /\ trie[path] \in Seq(Bytes)
         /\ Whole(path) \in Seq(Bytes) /\ Len(Whole(path)) = Len(path) + Len(trie[path])
         /\ IsPrefix(path, Whole(path))
         /\ Len(path) \in Nat /\ Len(trie[path]) \in Nat /\ Len(Whole(path)) \in Nat
<1>1. path \in Seq(Bytes) /\ trie[path] \in Seq(Bytes)
  BY DEF TrieTypeOK
<1> DEFINE part == trie[path]
           both == path \o part
<1>2. part \in Seq(Bytes)
  BY <1>1
<1> HIDE DEF part
<1>3. /\ both \in Seq(Bytes) /\ Len(both) = Len(path) + Len(part)
      /\ \A i \in 1 .. Len(path) : both[i] = path[i]
  BY <1>1, <1>2, Concatenated
<1> HIDE DEF both
<1>4. Len(path) \in Nat /\ Len(part) \in Nat /\ Len(both) \in Nat /\ Len(path) <= Len(both)
  BY <1>1, <1>2, <1>3
<1>5. IsPrefix(path, both)
  <2>1. \A i \in 1 .. Len(path) : path[i] = both[i]
    BY <1>3
  <2> QED BY <1>1, <1>3, <1>4, <2>1, PrefixPointwise
<1> QED BY <1>1, <1>3, <1>4, <1>5 DEF Whole, both, part

\* AddSample ends at the longest node on the path of the sample.
LEMMA EndNodeFacts ==
  ASSUME TrieTypeOK, Nodes # {}, NEW s \in Seq(Bytes)
  PROVE  /\ EndNode(s) \in Nodes /\ IsPrefix(EndNode(s), s)
         /\ \A q \in Nodes : IsPrefix(q, s) => Len(q) <= Len(EndNode(s))
<1> DEFINE On == { q \in Nodes : IsPrefix(q, s) }
           Left == { Len(s) - Len(q) : q \in On }
<1>1. << >> \in On
  <2>1. << >> \in Nodes
    BY DEF TrieTypeOK
  <2> QED BY <2>1, PrefixReflexive
<1>2. ASSUME NEW q \in On PROVE Len(q) \in Nat /\ Len(s) - Len(q) \in Nat
  <2>1. q \in Seq(Bytes) /\ IsPrefix(q, s)
    BY DEF TrieTypeOK
  <2>2. Len(q) \in Nat /\ Len(s) \in Nat /\ Len(q) <= Len(s)
    BY <2>1, PrefixPointwise
  <2> QED BY <2>2
<1>3. \E p \in On : \A q \in On : Len(s) - Len(p) <= Len(s) - Len(q)
  <2>1. Left \subseteq Nat /\ Left # {}
    BY <1>1, <1>2
  <2>2. \E n \in Left : \A k \in Left : n <= k
    <3> HIDE DEF Left
    <3> QED BY <2>1, LeastNatural
  <2> QED BY <2>2
<1>4. PICK p \in On : \A q \in On : Len(s) - Len(p) <= Len(s) - Len(q)
  BY <1>3
<1>5. \A q \in On : Len(q) <= Len(p)
  <2>1. Len(s) \in Nat
    OBVIOUS
  <2> HIDE DEF On
  <2> QED BY <1>2, <1>4, <2>1
<1>6. \E x \in DOMAIN trie :
        IsPrefix(x, s) /\ \A q \in DOMAIN trie : IsPrefix(q, s) => Len(q) <= Len(x)
  BY <1>5 DEF Nodes
<1> QED BY <1>6 DEF EndNode, Nodes

\* Where AddSample stops: the sample agrees with the path of its last node up to there,
\* and no farther.
LEMMA DiffOffsetFacts ==
  ASSUME TrieTypeOK, Nodes # {}, NEW s \in Seq(Bytes), s # << >>
  PROVE  /\ DiffOffset(s) = Len(EndNode(s)) + Matched(s)
         /\ Matched(s) \in Nat /\ Matched(s) <= Len(trie[EndNode(s)])
         /\ DiffOffset(s) \in Nat /\ DiffOffset(s) <= Len(s)
         /\ DiffOffset(s) <= Len(Whole(EndNode(s)))
         /\ First(s, DiffOffset(s)) = First(Whole(EndNode(s)), DiffOffset(s))
         /\ \A n \in Nat : n <= Len(s) /\ n <= Len(Whole(EndNode(s))) =>
              (First(s, n) = First(Whole(EndNode(s)), n) => n <= DiffOffset(s))
<1> DEFINE e == EndNode(s)
           part == trie[e]
           rest == From(s, Len(e))
           match == CommonPrefix(rest, part)
           at == Len(e) + match
<1>1. e \in Nodes /\ IsPrefix(e, s)
  BY EndNodeFacts
<1> HIDE DEF e
<1>2. /\ e \in Seq(Bytes) /\ part \in Seq(Bytes) /\ Len(e) \in Nat /\ Len(part) \in Nat
      /\ Whole(e) = e \o part /\ Whole(e) \in Seq(Bytes)
      /\ Len(Whole(e)) = Len(e) + Len(part) /\ IsPrefix(e, Whole(e))
  BY <1>1, WholeFacts DEF Whole
<1> HIDE DEF part
<1>3. Len(s) \in Nat /\ Len(e) <= Len(s)
  BY <1>1, <1>2, PrefixIsFirst
<1>4. rest \in Seq(Bytes) /\ Len(rest) = Len(s) - Len(e)
  <2> DEFINE k == Len(e)
  <2>1. k \in Nat /\ k <= Len(s)
    BY <1>2, <1>3
  <2> HIDE DEF k
  <2>2. From(s, k) \in Seq(Bytes) /\ Len(From(s, k)) = Len(s) - k
    BY <2>1, Parts
  <2> QED BY <2>2 DEF k
<1>5. ASSUME NEW n \in Nat, n <= Len(part), Len(e) + n <= Len(s)
      PROVE  First(rest, n) = First(part, n)
               <=> First(s, Len(e) + n) = First(Whole(e), Len(e) + n)
  BY <1>1, <1>2, <1>5, AgreeFromNode
<1> HIDE DEF rest
<1>6. /\ match \in Nat /\ match <= Len(rest) /\ match <= Len(part) /\ First(rest, match) = First(part, match)
      /\ \A n \in Nat : n <= Len(rest) /\ n <= Len(part) /\ First(rest, n) = First(part, n)
                          => n <= match
  BY <1>2, <1>4, CommonPrefixFacts
<1>7. Matched(s) = match
  BY DEF Matched, e, part, rest
<1>8. DiffOffset(s) = at
  <2>1. trie # NoNodes
    BY EmptyTrie
  <2> QED BY <1>7, <2>1 DEF DiffOffset, e
<1> HIDE DEF match
<1>9. at \in Nat /\ at <= Len(s) /\ at <= Len(Whole(e))
  BY <1>2, <1>3, <1>4, <1>6
<1>10. First(s, at) = First(Whole(e), at)
  BY <1>3, <1>4, <1>5, <1>6, <1>9
<1>11. ASSUME NEW n \in Nat, n <= Len(s), n <= Len(Whole(e)), First(s, n) = First(Whole(e), n)
       PROVE  n <= at
  <2>1. CASE n <= Len(e)
    BY <1>2, <1>6, <2>1
  <2>2. CASE ~ (n <= Len(e))
    <3> DEFINE k == n - Len(e)
    <3>1. k \in Nat /\ k <= Len(part) /\ k <= Len(rest) /\ Len(e) + k = n
      BY <1>2, <1>3, <1>4, <1>11, <2>2
    <3> HIDE DEF k
    <3>2. First(rest, k) = First(part, k)
      BY <1>5, <1>11, <3>1
    <3>3. k <= match
      BY <1>6, <3>1, <3>2
    <3> QED BY <1>2, <1>6, <3>1, <3>3
  <2> QED BY <2>1, <2>2
<1> HIDE DEF at
<1>12. DiffOffset(s) = Len(e) + match
  BY <1>8 DEF at
<1> QED BY <1>6, <1>7, <1>8, <1>9, <1>10, <1>11, <1>12 DEF e, part

\* No sample saved agrees with the new one beyond where AddSample stops.
LEMMA NoSampleAgreesBeyond ==
  ASSUME TrieInv, Nodes # {}, all_samples \subseteq Seq(Bytes),
         NEW s \in Seq(Bytes), s # << >>, NEW t \in all_samples,
         NEW n \in Nat, n <= Len(s), n <= Len(t), First(s, n) = First(t, n)
  PROVE  n <= DiffOffset(s)
<1> DEFINE e == EndNode(s)
           at == DiffOffset(s)
<1>1. /\ e \in Nodes /\ IsPrefix(e, s)
      /\ \A q \in Nodes : IsPrefix(q, s) => Len(q) <= Len(e)
  BY EndNodeFacts DEF TrieInv
<1>2. /\ at \in Nat /\ Len(e) <= at
      /\ \A k \in Nat : k <= Len(s) /\ k <= Len(Whole(e)) /\ First(s, k) = First(Whole(e), k)
                          => k <= at
  <2>1. e \in Seq(Bytes) /\ Len(e) \in Nat
    BY <1>1, WholeFacts DEF TrieInv
  <2>2. at = Len(e) + Matched(s) /\ Matched(s) \in Nat
    BY DiffOffsetFacts DEF TrieInv
  <2>3. /\ at \in Nat
        /\ \A k \in Nat : k <= Len(s) /\ k <= Len(Whole(e)) /\ First(s, k) = First(Whole(e), k)
                            => k <= at
    BY DiffOffsetFacts DEF TrieInv
  <2> HIDE DEF e, at
  <2> QED BY <2>1, <2>2, <2>3
<1> HIDE DEF e, at
<1>3. SUFFICES ASSUME at < n PROVE FALSE
  <2>1. n <= at
    BY <1>2, <1>3
  <2> QED BY <2>1 DEF at
<1>4. t \in Seq(Bytes) /\ t # << >> /\ Len(s) \in Nat /\ Len(t) \in Nat
  BY <1>2, <1>3
<1>5. PICK p \in Nodes : IsPrefix(t, Whole(p))
  BY <1>4 DEF TrieInv, TrieHoldsSamples
<1>6. /\ p \in Seq(Bytes) /\ Whole(p) \in Seq(Bytes) /\ IsPrefix(p, Whole(p))
      /\ Len(p) \in Nat /\ Len(Whole(p)) \in Nat
      /\ e \in Seq(Bytes) /\ Whole(e) \in Seq(Bytes) /\ IsPrefix(e, Whole(e))
      /\ Len(e) \in Nat /\ Len(Whole(e)) \in Nat
  BY <1>1, WholeFacts DEF TrieInv
<1>7. n <= Len(Whole(p)) /\ First(Whole(p), n) = First(s, n)
  <2>1. Len(t) <= Len(Whole(p))
    BY <1>4, <1>5, <1>6, PrefixIsFirst
  <2>2. First(Whole(p), n) = First(t, n)
    BY <1>4, <1>5, <1>6, FirstOfPrefix
  <2> QED BY <1>4, <1>6, <2>1, <2>2
<1>8. \A k \in Nat : k <= n => First(Whole(p), k) = First(s, k)
  BY <1>4, <1>6, <1>7, FirstAgreeDown
<1>9. IsPrefix(e, Whole(p))
  <2>1. Len(e) <= n
    BY <1>2, <1>3, <1>6
  <2>2. First(Whole(p), Len(e)) = First(s, Len(e))
    BY <1>6, <1>8, <2>1
  <2>3. First(s, Len(e)) = e
    BY <1>1, <1>6, PrefixIsFirst
  <2>4. Len(e) <= Len(Whole(p))
    BY <1>6, <1>7, <2>1
  <2>5. IsPrefix(First(Whole(p), Len(e)), Whole(p))
    BY <1>6, <2>4, FirstIsPrefix
  <2> QED BY <2>2, <2>3, <2>5
<1>10. CASE p = e
  BY <1>2, <1>3, <1>7, <1>10
<1>11. CASE p # e /\ Len(e) <= Len(p)
  <2>1. IsPrefix(e, p)
    BY <1>6, <1>9, <1>11, PrefixesCompare
  <2>2. HangsFrom(Whole(e), p, Nodes)
    BY <1>1, <1>11, <2>1 DEF TrieInv, TrieIsCompressed
  <2> DEFINE k == Len(Whole(e)) + 1
  <2>3. k \in Nat /\ k <= Len(p) /\ First(p, k) \in Nodes /\ IsPrefix(Whole(e), p)
    BY <1>6, <2>2 DEF HangsFrom
  <2>4. CASE n < k
    <3>1. IsPrefix(Whole(e), Whole(p))
      BY <1>6, <2>3, PrefixTransitive
    <3>2. n <= Len(Whole(e))
      BY <1>6, <2>4
    <3>3. First(Whole(p), n) = First(Whole(e), n)
      BY <1>6, <3>1, <3>2, FirstOfPrefix
    <3> QED BY <1>2, <1>3, <1>7, <3>2, <3>3
  <2>5. CASE ~ (n < k)
    <3>1. k <= n /\ k <= Len(s)
      BY <1>4, <2>3, <2>5
    <3>2. First(Whole(p), k) = First(p, k) /\ First(Whole(p), k) = First(s, k)
      <4> HIDE DEF k
      <4> QED BY <1>6, <1>8, <2>3, <3>1, FirstOfPrefix
    <3>3. IsPrefix(First(s, k), s) /\ Len(First(s, k)) = k
      <4> HIDE DEF k
      <4> QED BY <2>3, <3>1, FirstIsPrefix
    <3>4. k <= Len(e)
      BY <1>1, <2>3, <3>2, <3>3
    <3>5. Len(e) <= Len(Whole(e))
      BY <1>6, PrefixIsFirst
    <3> QED BY <1>6, <3>4, <3>5
  <2> QED BY <2>4, <2>5
<1>12. CASE p # e /\ ~ (Len(e) <= Len(p))
  <2>1. Len(p) <= Len(e)
    BY <1>6, <1>12
  <2>2. IsPrefix(p, e)
    BY <1>6, <1>9, <2>1, PrefixesCompare
  <2>3. Len(Whole(p)) < Len(e)
    BY <1>1, <1>12, <2>2 DEF TrieInv, TrieIsCompressed, HangsFrom
  <2>4. Len(e) <= Len(Whole(p))
    BY <1>6, <1>9, PrefixIsFirst
  <2> QED BY <1>6, <2>3, <2>4
<1> QED BY <1>10, <1>11, <1>12

\* The offset AddSample returns is the first byte at which the sample differs from all
\* those saved before.
LEMMA DiffOffsetIsFirstDiff ==
  ASSUME TrieInv, all_samples \subseteq Seq(Bytes), NEW s \in Seq(Bytes)
  PROVE  DiffOffset(s) = Max({ CommonPrefix(s, t) : t \in all_samples } \cup {0})
<1> DEFINE Common == { CommonPrefix(s, t) : t \in all_samples } \cup {0}
           at == DiffOffset(s)
<1>1. ASSUME NEW t \in all_samples
      PROVE  /\ CommonPrefix(s, t) \in Nat
             /\ CommonPrefix(s, t) <= Len(s) /\ CommonPrefix(s, t) <= Len(t)
             /\ First(s, CommonPrefix(s, t)) = First(t, CommonPrefix(s, t))
             /\ \A n \in Nat : n <= Len(s) /\ n <= Len(t) /\ First(s, n) = First(t, n) =>
                               n <= CommonPrefix(s, t)
  BY CommonPrefixFacts
<1>2. at \in Common /\ at \in Nat /\ \A t \in all_samples : CommonPrefix(s, t) <= at
  <2>1. CASE s = << >>
    <3>1. at = 0 /\ Len(s) = 0
      BY <2>1 DEF DiffOffset
    <3> HIDE DEF at
    <3> QED BY <1>1, <3>1
  <2>2. CASE s # << >> /\ Nodes = {}
    <3>1. at = 0
      BY <2>2, EmptyTrie DEF DiffOffset, TrieInv
    <3>2. \A t \in all_samples : t = << >>
      BY <2>2 DEF TrieInv, TrieHoldsSamples
    <3>3. \A t \in all_samples : Len(t) = 0
      BY <3>2
    <3>4. \A t \in all_samples : CommonPrefix(s, t) <= 0
      BY <1>1, <3>3
    <3> HIDE DEF at
    <3> QED BY <3>1, <3>4
  <2>3. CASE s # << >> /\ Nodes # {}
    <3> DEFINE e == EndNode(s)
    <3>1. /\ at \in Nat /\ at <= Len(s) /\ at <= Len(Whole(e))
          /\ First(s, at) = First(Whole(e), at)
      BY <2>3, DiffOffsetFacts DEF TrieInv
    <3>2. e \in Nodes
      BY <2>3, EndNodeFacts DEF TrieInv
    <3>3. ASSUME NEW t \in all_samples PROVE CommonPrefix(s, t) <= at
      <4>1. t \in Seq(Bytes)
        OBVIOUS
      <4> QED BY <1>1, <2>3, <4>1, NoSampleAgreesBeyond
    <3> HIDE DEF e, at
    <3>4. PICK t \in all_samples : IsPrefix(Whole(e), t)
      BY <3>2 DEF TrieInv, TrieHoldsSamples
    <3>5. t \in Seq(Bytes) /\ Whole(e) \in Seq(Bytes) /\ Len(t) \in Nat
          /\ Len(Whole(e)) \in Nat
      BY <3>2, WholeFacts DEF TrieInv
    <3>6. at <= Len(t) /\ First(t, at) = First(s, at)
      <4>1. Len(Whole(e)) <= Len(t)
        BY <3>4, <3>5, PrefixIsFirst
      <4>2. First(t, at) = First(Whole(e), at)
        BY <3>1, <3>4, <3>5, FirstOfPrefix
      <4> QED BY <3>1, <3>5, <4>1, <4>2
    <3>7. at <= CommonPrefix(s, t)
      BY <1>1, <3>1, <3>6
    <3>8. at = CommonPrefix(s, t)
      BY <1>1, <3>1, <3>3, <3>7
    <3> QED BY <3>1, <3>3, <3>8
  <2> QED BY <2>1, <2>2, <2>3
<1> HIDE DEF at
<1>3. \A x \in Common : x \in Nat /\ x <= at
  BY <1>1, <1>2
<1> HIDE DEF Common
<1>4. Max(Common) = at
  <2>1. at \in Common /\ \A x \in Common : at >= x
    BY <1>2, <1>3
  <2>2. \E x \in Common : \A y \in Common : x >= y
    BY <2>1
  <2>3. Max(Common) \in Common /\ \A y \in Common : Max(Common) >= y
    BY <2>2 DEF Max
  <2> QED BY <1>3, <2>1, <2>3
<1> QED BY <1>4 DEF Common, at

\* The leaf a new sample gets, where the constant part it leaves is split, and whether
\* it leaves it at its end.
Leaf(s) == First(s, DiffOffset(s) + 1)
Split(s) == First(Whole(EndNode(s)), DiffOffset(s) + 1)
LeavesAtEnd(s) == Len(Whole(EndNode(s))) = DiffOffset(s)
GrownNodes(s) == Nodes \cup {Leaf(s)} \cup IF LeavesAtEnd(s) THEN {} ELSE {Split(s)}

\* The nodes of the new trie, and the paths they stand for.
Grows(s, new) ==
  /\ DOMAIN new = GrownNodes(s) /\ new = [path \in GrownNodes(s) |-> new[path]]
  /\ Leaf(s) \notin Nodes /\ Len(Leaf(s)) = DiffOffset(s) + 1 /\ IsPrefix(Leaf(s), s)
  /\ \A path \in Nodes : path # EndNode(s) => new[path] = trie[path]
  /\ new[Leaf(s)] = From(s, DiffOffset(s) + 1) /\ Leaf(s) \o new[Leaf(s)] = s
  /\ new[EndNode(s)] = First(trie[EndNode(s)], Matched(s))
  /\ EndNode(s) \o new[EndNode(s)] = First(s, DiffOffset(s))
  /\ ~ LeavesAtEnd(s) =>
       /\ DiffOffset(s) + 1 <= Len(Whole(EndNode(s)))
       /\ Split(s) \notin Nodes /\ Split(s) # Leaf(s)
       /\ Len(Split(s)) = DiffOffset(s) + 1 /\ IsPrefix(Split(s), Whole(EndNode(s)))
       /\ new[Split(s)] \in Seq(Bytes)
       /\ Split(s) \o new[Split(s)] = Whole(EndNode(s))

\* A sample that differs gives the trie a leaf, and the node it left inside its constant
\* part is split there.
LEMMA NewTrieFacts ==
  ASSUME TrieInv, Nodes # {}, NEW s \in Seq(Bytes), s # << >>, DiffOffset(s) # Len(s),
         NEW new, new = NewTrie(s)
  PROVE  Grows(s, new)
<1> DEFINE e == EndNode(s)
           at == DiffOffset(s)
           part == trie[e]
           match == Matched(s)
           leaf == First(s, at + 1)
           split == First(Whole(e), at + 1)
           whole == Len(Whole(e)) = at
           nodes == Nodes \cup {leaf} \cup IF whole THEN {} ELSE {split}
           cut == IF match = Len(part) THEN {} ELSE {e \o First(part, match + 1)}
<1>1. trie # NoNodes /\ DOMAIN trie = Nodes
  BY EmptyTrie DEF TrieInv, Nodes
<1>2. new = [path \in Nodes \cup {leaf} \cup cut |->
               CASE path = leaf -> TailAfter(s, at)
                 [] path \in cut -> TailAfter(part, match)
                 [] path = e -> First(part, match)
                 [] OTHER -> trie[path]]
  BY <1>1 DEF NewTrie
<1>3. /\ e \in Nodes /\ IsPrefix(e, s)
      /\ \A q \in Nodes : IsPrefix(q, s) => Len(q) <= Len(e)
  BY EndNodeFacts DEF TrieInv
<1>4. /\ at = Len(e) + match /\ match \in Nat /\ match <= Len(part)
      /\ at \in Nat /\ at <= Len(s) /\ at <= Len(Whole(e)) /\ at # Len(s)
  BY DiffOffsetFacts DEF TrieInv
<1>5. /\ First(s, at) = First(Whole(e), at)
      /\ \A n \in Nat :
           n <= Len(s) /\ n <= Len(Whole(e)) /\ First(s, n) = First(Whole(e), n) => n <= at
  BY DiffOffsetFacts DEF TrieInv
<1> HIDE DEF e, at, match, cut
<1>6. /\ e \in Seq(Bytes) /\ part \in Seq(Bytes) /\ Whole(e) \in Seq(Bytes)
      /\ Whole(e) = e \o part /\ IsPrefix(e, Whole(e))
  BY <1>3, WholeFacts DEF TrieInv, Whole
<1>7. /\ Len(e) \in Nat /\ Len(part) \in Nat /\ Len(s) \in Nat
      /\ Len(Whole(e)) = Len(e) + Len(part) /\ Len(Whole(e)) \in Nat
  BY <1>3, WholeFacts DEF TrieInv
<1> HIDE DEF part
<1>8. at + 1 \in Nat /\ at + 1 <= Len(s)
  BY <1>4, <1>7
<1>9. leaf \in Seq(Bytes) /\ Len(leaf) = at + 1 /\ IsPrefix(leaf, s)
  <2> DEFINE k == at + 1
  <2> HIDE DEF k
  <2>1. First(s, k) \in Seq(Bytes) /\ Len(First(s, k)) = k /\ IsPrefix(First(s, k), s)
    BY <1>8, FirstIsPrefix DEF k
  <2> QED BY <2>1 DEF k
<1>10. leaf \o From(s, at + 1) = s
  BY <1>8, FirstAndFrom
<1> HIDE DEF leaf
<1>11. leaf \notin Nodes /\ leaf # e
  <2>1. ~ (Len(leaf) <= Len(e))
    BY <1>4, <1>7, <1>9
  <2>2. Len(e) <= Len(e)
    BY <1>7
  <2> QED BY <1>3, <1>9, <2>1, <2>2, Zenon
<1>12. whole <=> match = Len(part)
  <2> DEFINE size == Len(Whole(e))
  <2>1. at = Len(e) + match /\ size = Len(e) + Len(part) /\ match \in Nat
    BY <1>4, <1>7
  <2> HIDE DEF size
  <2>2. size = at <=> match = Len(part)
    BY <1>7, <2>1
  <2> QED BY <2>2 DEF size
<1>13. e \o First(part, match) = First(s, at)
  <2>1. First(e \o part, Len(e) + match) = e \o First(part, match)
    BY <1>4, <1>6, FirstOfBoth
  <2>2. First(s, at) = First(e \o part, Len(e) + match)
    BY <1>4, <1>5, <1>6, Zenon
  <2> QED BY <2>1, <2>2
<1>14. ASSUME ~ whole
       PROVE  /\ at + 1 <= Len(Whole(e)) /\ match + 1 \in Nat /\ match + 1 <= Len(part)
              /\ split = e \o First(part, match + 1)
              /\ split \in Seq(Bytes) /\ Len(split) = at + 1 /\ IsPrefix(split, Whole(e))
              /\ split \notin Nodes /\ split # leaf /\ split # e
              /\ From(part, match + 1) \in Seq(Bytes)
              /\ split \o From(part, match + 1) = Whole(e)
  <2>1. at + 1 <= Len(Whole(e)) /\ match + 1 \in Nat /\ match + 1 <= Len(part)
        /\ Len(e) + (match + 1) = at + 1
    <3> DEFINE size == Len(Whole(e))
    <3>1. /\ at = Len(e) + match /\ size = Len(e) + Len(part) /\ match \in Nat /\ match <= Len(part)
          /\ size # at
      BY <1>4, <1>7, <1>14
    <3> HIDE DEF size
    <3>2. at + 1 <= size /\ match + 1 \in Nat /\ match + 1 <= Len(part) /\ Len(e) + (match + 1) = at + 1
      BY <1>7, <3>1
    <3> QED BY <3>2 DEF size
  <2>2. split = e \o First(part, match + 1)
    <3> DEFINE k == match + 1
    <3>1. k \in Nat /\ k <= Len(part) /\ Len(e) + k = at + 1
      BY <2>1
    <3> HIDE DEF k
    <3>2. First(e \o part, Len(e) + k) = e \o First(part, k)
      BY <1>6, <3>1, FirstOfBoth
    <3> QED BY <1>6, <3>1, <3>2 DEF k
  <2>3. split \in Seq(Bytes) /\ Len(split) = at + 1 /\ IsPrefix(split, Whole(e))
    <3> DEFINE k == at + 1
    <3> HIDE DEF k
    <3>1. /\ First(Whole(e), k) \in Seq(Bytes) /\ Len(First(Whole(e), k)) = k
          /\ IsPrefix(First(Whole(e), k), Whole(e))
      BY <1>6, <1>8, <2>1, FirstIsPrefix DEF k
    <3> QED BY <3>1 DEF k
  <2>4. split # leaf
    <3>1. ~ (at + 1 <= at)
      BY <1>4
    <3> QED BY <1>5, <1>8, <2>1, <3>1 DEF leaf
  <2> HIDE DEF split
  <2>5. split # e
    <3>1. Len(split) # Len(e)
      BY <1>4, <1>7, <2>3
    <3> QED BY <3>1
  <2>6. split \notin Nodes
    <3>1. SUFFICES ASSUME split \in Nodes PROVE FALSE
      OBVIOUS
    <3>2. Len(e) <= Len(split)
      BY <1>4, <1>7, <2>3
    <3>3. IsPrefix(e, split)
      BY <1>6, <2>3, <3>2, PrefixesCompare
    <3>4. Len(Whole(e)) < Len(split)
      BY <1>3, <2>5, <3>1, <3>3 DEF TrieInv, TrieIsCompressed, HangsFrom
    <3>5. Len(split) <= Len(Whole(e))
      BY <2>1, <2>3
    <3>6. Len(split) \in Nat
      BY <1>8, <2>3
    <3> QED BY <1>7, <3>4, <3>5, <3>6
  <2>7. From(part, match + 1) \in Seq(Bytes) /\ split \o From(part, match + 1) = Whole(e)
    <3> DEFINE k == match + 1
               a == First(part, k)
               b == From(part, k)
    <3>1. k \in Nat /\ k <= Len(part)
      BY <2>1
    <3> HIDE DEF k
    <3>2. a \in Seq(Bytes) /\ b \in Seq(Bytes) /\ a \o b = part
      BY <1>6, <3>1, Parts, FirstAndFrom
    <3> HIDE DEF a, b
    <3>3. (e \o a) \o b = e \o (a \o b)
      <4>1. e \in Seq(Bytes)
        BY <1>6
      <4>2. a \in Seq(Bytes) /\ b \in Seq(Bytes)
        BY <3>2
      <4> QED BY ONLY <4>1, <4>2, ConcatAssociative
    <3>4. split = e \o a
      BY <2>2 DEF k, a
    <3>5. split \o b = Whole(e)
      BY <1>6, <3>2, <3>3, <3>4, Zenon
    <3> QED BY <3>2, <3>5 DEF k, b
  <2> QED BY <2>1, <2>2, <2>3, <2>4, <2>5, <2>6, <2>7
<1>15. cut = IF whole THEN {} ELSE {split}
  BY <1>12, <1>14 DEF cut
<1> HIDE DEF split, whole
<1>16. /\ DOMAIN new = nodes /\ new = [path \in nodes |-> new[path]]
       /\ \A path \in nodes :
            new[path] = CASE path = leaf -> TailAfter(s, at)
                          [] path \in cut -> TailAfter(part, match)
                          [] path = e -> First(part, match)
                          [] OTHER -> trie[path]
  BY <1>2, <1>15
<1>17. \A path \in Nodes : path \in nodes /\ path # leaf /\ path \notin cut
  BY <1>11, <1>14, <1>15
<1>18. \A path \in Nodes : path # e => new[path] = trie[path]
  <2> SUFFICES ASSUME NEW path \in Nodes, path # e PROVE new[path] = trie[path]
    OBVIOUS
  <2> HIDE DEF nodes
  <2> QED BY <1>16, <1>17
<1>19. new[leaf] = From(s, at + 1)
  <2>1. leaf \in nodes /\ leaf # e /\ leaf \notin cut
    BY <1>11, <1>14, <1>15
  <2> HIDE DEF nodes
  <2> QED BY <1>16, <2>1 DEF TailAfter
<1>20. new[e] = First(part, match)
  <2> HIDE DEF nodes
  <2> QED BY <1>3, <1>16, <1>17
<1>21. ~ whole => new[split] = From(part, match + 1)
  <2> SUFFICES ASSUME ~ whole PROVE new[split] = From(part, match + 1)
    OBVIOUS
  <2>1. split \in nodes /\ split \in cut /\ split # leaf /\ split # e
    BY <1>14, <1>15
  <2> HIDE DEF nodes
  <2> QED BY <1>16, <2>1 DEF TailAfter
<1>22. /\ DOMAIN new = nodes /\ new = [path \in nodes |-> new[path]]
       /\ leaf \notin Nodes /\ Len(leaf) = at + 1 /\ IsPrefix(leaf, s)
       /\ \A path \in Nodes : path # e => new[path] = trie[path]
       /\ new[leaf] = From(s, at + 1)
       /\ new[e] = First(part, match) /\ e \o new[e] = First(s, at)
       /\ leaf \o new[leaf] = s
  <2> HIDE DEF nodes
  <2> QED BY <1>9, <1>10, <1>11, <1>13, <1>16, <1>18, <1>19, <1>20
<1>23. ~ whole => /\ at + 1 <= Len(Whole(e)) /\ split \notin Nodes /\ split # leaf
                  /\ Len(split) = at + 1 /\ IsPrefix(split, Whole(e))
                  /\ new[split] \in Seq(Bytes)
                  /\ split \o new[split] = Whole(e)
  BY <1>14, <1>21
<1> HIDE DEF nodes
<1> QED BY <1>22, <1>23 DEF e, at, match, part, leaf, split, whole, nodes,
                           Leaf, Split, LeavesAtEnd, GrownNodes, Grows

\* The grown trie has the invariant, for the samples saved and the new one.
LEMMA GrownTrie ==
  ASSUME TrieInv, all_samples \subseteq Seq(Bytes), Nodes # {},
         NEW s \in Seq(Bytes), s # << >>, DiffOffset(s) # Len(s),
         NEW new, new = NewTrie(s)
  PROVE  LET W(path) == path \o new[path]
             nodes == DOMAIN new
             saved == all_samples \cup {s}
         IN /\ new = [path \in nodes |-> new[path]]
            /\ \A path \in nodes : path \in Seq(Bytes) /\ new[path] \in Seq(Bytes)
            /\ << >> \in nodes
            /\ \A t \in saved : t # << >> => \E path \in nodes : IsPrefix(t, W(path))
            /\ \A path \in nodes : \E t \in saved : IsPrefix(W(path), t)
            /\ \A path, under \in nodes :
                 IsPrefix(path, under) /\ path # under => HangsFrom(W(path), under, nodes)
<1> DEFINE W(path) == path \o new[path]
           nodes == DOMAIN new
           saved == all_samples \cup {s}
           e == EndNode(s)
           at == DiffOffset(s)
           leaf == Leaf(s)
           split == Split(s)
           whole == LeavesAtEnd(s)
<1>0. /\ leaf = First(s, at + 1) /\ split = First(Whole(e), at + 1)
      /\ whole <=> Len(Whole(e)) = at
      /\ GrownNodes(s) = Nodes \cup {leaf} \cup IF whole THEN {} ELSE {split}
  BY DEF Leaf, Split, LeavesAtEnd, GrownNodes
<1>1. /\ e \in Nodes /\ IsPrefix(e, s)
      /\ \A q \in Nodes : IsPrefix(q, s) => Len(q) <= Len(e)
  BY EndNodeFacts DEF TrieInv
<1>2. /\ at = Len(e) + Matched(s) /\ Matched(s) \in Nat /\ Matched(s) <= Len(trie[e])
      /\ at \in Nat /\ at <= Len(s) /\ at <= Len(Whole(e)) /\ at # Len(s)
  BY DiffOffsetFacts DEF TrieInv
<1>3. First(s, at) = First(Whole(e), at)
  BY DiffOffsetFacts DEF TrieInv
<1>4. /\ nodes = GrownNodes(s) /\ new = [path \in GrownNodes(s) |-> new[path]]
      /\ leaf \notin Nodes /\ Len(leaf) = at + 1 /\ IsPrefix(leaf, s)
      /\ \A path \in Nodes : path # e => new[path] = trie[path]
      /\ new[leaf] = From(s, at + 1) /\ leaf \o new[leaf] = s
      /\ new[e] = First(trie[e], Matched(s))
      /\ e \o new[e] = First(s, at)
      /\ ~ whole =>
           /\ at + 1 <= Len(Whole(e))
           /\ split \notin Nodes /\ split # leaf
           /\ Len(split) = at + 1 /\ IsPrefix(split, Whole(e))
           /\ new[split] \in Seq(Bytes)
           /\ split \o new[split] = Whole(e)
  <2>1. Grows(s, new)
    BY NewTrieFacts
  <2> QED BY <2>1 DEF Grows
<1>5. /\ e \in Seq(Bytes) /\ trie[e] \in Seq(Bytes) /\ Whole(e) \in Seq(Bytes)
      /\ IsPrefix(e, Whole(e))
      /\ Len(e) \in Nat /\ Len(Whole(e)) \in Nat /\ Len(s) \in Nat
  BY <1>1, WholeFacts DEF TrieInv
<1> HIDE DEF e, at
<1>6. at + 1 \in Nat /\ at + 1 <= Len(s) /\ Len(e) <= at
  BY <1>2, <1>5
<1>7. leaf \in Seq(Bytes) /\ (~ whole => split \in Seq(Bytes))
  <2> DEFINE k == at + 1
  <2>1. k \in Nat /\ k <= Len(s) /\ (~ whole => k <= Len(Whole(e)))
    BY <1>4, <1>6
  <2> HIDE DEF k
  <2>2. First(s, k) \in Seq(Bytes) /\ (~ whole => First(Whole(e), k) \in Seq(Bytes))
    <3> HIDE DEF whole
    <3> QED BY <1>5, <2>1, FirstIsPrefix
  <2> QED BY <1>0, <2>2 DEF k
<1>8. First(s, at) \in Seq(Bytes) /\ Len(First(s, at)) = at
      /\ IsPrefix(First(s, at), s) /\ IsPrefix(First(s, at), Whole(e))
  <2>1. First(s, at) \in Seq(Bytes) /\ Len(First(s, at)) = at /\ IsPrefix(First(s, at), s)
    BY <1>2, FirstIsPrefix
  <2>2. IsPrefix(First(Whole(e), at), Whole(e))
    BY <1>2, <1>5, FirstIsPrefix
  <2> QED BY <1>3, <2>1, <2>2
<1>9. whole => First(s, at) = Whole(e)
  <2>1. First(Whole(e), Len(Whole(e))) = Whole(e)
    BY <1>5, FirstAll
  <2> QED BY <1>0, <1>3, <2>1
<1> HIDE DEF leaf, split, whole
<1>10. \A path \in Nodes : path # e => W(path) = Whole(path)
  BY <1>4 DEF Whole
<1>11. W(e) = First(s, at) /\ W(leaf) = s /\ (~ whole => W(split) = Whole(e))
  BY <1>4
<1>12. /\ \A path \in nodes : path \in Nodes \/ path = leaf \/ (~ whole /\ path = split)
       /\ Nodes \subseteq nodes /\ leaf \in nodes /\ (~ whole => split \in nodes)
  BY <1>0, <1>4
<1>13. ASSUME NEW path \in nodes PROVE path \in Seq(Bytes) /\ new[path] \in Seq(Bytes)
  <2>1. CASE path \in Nodes /\ path # e
    <3>1. path \in Seq(Bytes) /\ trie[path] \in Seq(Bytes)
      BY <2>1 DEF TrieInv, TrieTypeOK
    <3> QED BY <1>4, <2>1, <3>1
  <2>2. CASE path = e
    <3>1. First(trie[e], Matched(s)) \in Seq(Bytes)
      BY <1>2, <1>5, Parts
    <3> QED BY <1>4, <1>5, <2>2, <3>1
  <2>3. CASE path = leaf
    <3>1. From(s, at + 1) \in Seq(Bytes)
      BY <1>6, Parts
    <3> QED BY <1>4, <1>7, <2>3, <3>1
  <2>4. CASE ~ whole /\ path = split
    BY <1>4, <1>7, <2>4
  <2> QED BY <1>12, <2>1, <2>2, <2>3, <2>4
<1>14. << >> \in nodes
  <2>1. << >> \in Nodes
    BY DEF TrieInv, TrieTypeOK
  <2> QED BY <1>12, <2>1
<1> HIDE DEF W, nodes
<1>15. ASSUME NEW t \in saved, t # << >>
       PROVE  \E path \in nodes : IsPrefix(t, W(path))
  <2>1. CASE t = s
    BY <1>11, <1>12, <2>1, PrefixReflexive
  <2>2. CASE t \in all_samples
    <3>1. PICK path \in Nodes : IsPrefix(t, Whole(path))
      BY <1>15, <2>2 DEF TrieInv, TrieHoldsSamples
    <3>2. CASE path # e
      BY <1>10, <1>12, <3>1, <3>2
    <3>3. CASE path = e /\ whole
      BY <1>9, <1>11, <1>12, <3>1, <3>3
    <3>4. CASE path = e /\ ~ whole
      BY <1>11, <1>12, <3>1, <3>4
    <3> QED BY <3>2, <3>3, <3>4
  <2> QED BY <2>1, <2>2
<1>16. ASSUME NEW path \in nodes
       PROVE  \E t \in saved : IsPrefix(W(path), t)
  <2>1. \A old \in Nodes : \E t \in saved : IsPrefix(Whole(old), t)
    BY DEF TrieInv, TrieHoldsSamples
  <2>2. s \in saved
    OBVIOUS
  <2> HIDE DEF saved
  <2>3. CASE path \in Nodes /\ path # e
    BY <1>10, <2>1, <2>3
  <2>4. CASE path = e
    BY <1>8, <1>11, <2>2, <2>4
  <2>5. CASE path = leaf
    BY <1>11, <2>2, <2>5, PrefixReflexive
  <2>6. CASE ~ whole /\ path = split
    BY <1>1, <1>11, <2>1, <2>6
  <2> QED BY <1>12, <2>3, <2>4, <2>5, <2>6

<1>17. ASSUME NEW path \in Nodes, NEW under \in Nodes, IsPrefix(path, under), path # under
       PROVE  /\ IsPrefix(Whole(path), under) /\ Len(Whole(path)) < Len(under)
              /\ First(under, Len(Whole(path)) + 1) \in Nodes
              /\ HangsFrom(Whole(path), under, nodes)
  BY <1>12, <1>17 DEF TrieInv, TrieIsCompressed, HangsFrom
<1>18. IsPrefix(e, leaf) /\ (~ whole => IsPrefix(e, split)) /\ Len(e) <= at + 1
  <2>1. Len(e) <= at + 1
    BY <1>2, <1>5, <1>6
  <2> DEFINE k == at + 1
  <2> HIDE DEF k
  <2>2. Len(e) <= k /\ Len(leaf) = k /\ (~ whole => Len(split) = k)
    BY <1>4, <2>1 DEF k
  <2>3. IsPrefix(e, leaf)
    BY <1>1, <1>4, <1>5, <1>7, <2>2, PrefixesCompare
  <2>4. ~ whole => IsPrefix(e, split)
    BY <1>4, <1>5, <1>7, <2>2, PrefixesCompare
  <2> QED BY <2>1, <2>3, <2>4
\* Nodes above the last one do not notice what is hung below it.
<1>19. ASSUME NEW path \in Nodes, path # e, IsPrefix(path, e),
              NEW under \in Seq(Bytes), IsPrefix(e, under)
       PROVE  HangsFrom(W(path), under, nodes)
  <2>1. /\ IsPrefix(Whole(path), e) /\ Len(Whole(path)) < Len(e)
        /\ First(e, Len(Whole(path)) + 1) \in Nodes
    BY <1>1, <1>17, <1>19
  <2>2. Whole(path) \in Seq(Bytes) /\ Len(Whole(path)) \in Nat
    BY WholeFacts DEF TrieInv
  <2>3. W(path) = Whole(path)
    BY <1>10, <1>19
  <2> DEFINE w == Whole(path)
             k == Len(w) + 1
  <2> HIDE DEF w
  <2>4. IsPrefix(w, under)
    BY <1>5, <1>19, <2>1, <2>2, PrefixTransitive DEF w
  <2>5. Len(e) <= Len(under) /\ Len(under) \in Nat
    BY <1>5, <1>19, PrefixIsFirst
  <2>6. Len(w) < Len(under) /\ k \in Nat /\ k <= Len(e)
    BY <1>5, <2>1, <2>2, <2>5 DEF w
  <2> HIDE DEF k
  <2>7. First(under, k) = First(e, k)
    BY <1>5, <1>19, <2>6, FirstOfPrefix
  <2>8. First(under, k) \in nodes
    BY <1>12, <2>1, <2>7 DEF w, k
  <2> QED BY <2>3, <2>4, <2>6, <2>8 DEF HangsFrom, w, k
\* What hung from the last node now hangs from its tail, or still from it.
<1>20. ASSUME NEW under \in Nodes, IsPrefix(e, under), under # e
       PROVE  HangsFrom(W(e), under, nodes)
  <2>1. under \in Seq(Bytes) /\ Len(under) \in Nat
    BY DEF TrieInv, TrieTypeOK
  <2>2. /\ IsPrefix(Whole(e), under) /\ Len(Whole(e)) < Len(under)
        /\ HangsFrom(Whole(e), under, nodes)
    BY <1>1, <1>17, <1>20
  <2>3. CASE whole
    BY <1>9, <1>11, <2>2, <2>3
  <2>4. CASE ~ whole
    <3> DEFINE k == at + 1
    <3>1. IsPrefix(First(s, at), under)
      BY <1>5, <1>8, <2>1, <2>2, PrefixTransitive
    <3>2. k \in Nat /\ k <= Len(Whole(e)) /\ at < Len(under)
      <4>1. k <= Len(Whole(e))
        BY <1>4, <2>4
      <4> QED BY <1>2, <1>5, <1>6, <2>1, <2>2, <4>1
    <3> HIDE DEF k
    <3>3. First(under, k) = First(Whole(e), k)
      BY <1>5, <2>1, <2>2, <3>2, FirstOfPrefix
    <3>4. First(under, k) \in nodes
      BY <1>0, <1>12, <2>4, <3>3 DEF k
    <3> QED BY <1>8, <1>11, <3>1, <3>2, <3>4 DEF HangsFrom, k
  <2> QED BY <2>3, <2>4
\* Nothing hung below the leaf.
<1>21. ASSUME NEW under \in Nodes, IsPrefix(leaf, under)
       PROVE  FALSE
  <2>1. under \in Seq(Bytes) /\ Len(under) \in Nat
    BY DEF TrieInv, TrieTypeOK
  <2> DEFINE k == at + 1
  <2>2. k \in Nat /\ ~ (k <= Len(e)) /\ Len(leaf) = k
    BY <1>2, <1>4, <1>5, <1>6
  <2>3. (whole => k = Len(Whole(e)) + 1) /\ (~ whole => k <= Len(Whole(e)))
    BY <1>0, <1>4
  <2> HIDE DEF k
  <2>4. First(under, k) = leaf /\ k <= Len(under)
    BY <1>7, <1>21, <2>1, <2>2, PrefixIsFirst
  <2>5. IsPrefix(e, under) /\ under # e
    BY <1>5, <1>7, <1>18, <1>21, <2>1, <2>2, <2>4, PrefixTransitive
  <2>6. IsPrefix(Whole(e), under) /\ First(under, Len(Whole(e)) + 1) \in Nodes
    BY <1>1, <1>17, <2>5
  <2>7. CASE whole
    BY <1>4, <2>3, <2>4, <2>6, <2>7
  <2>8. CASE ~ whole
    <3>1. First(under, k) = First(Whole(e), k)
      BY <1>5, <2>1, <2>2, <2>3, <2>6, <2>8, FirstOfPrefix
    <3> QED BY <1>0, <1>4, <2>4, <2>8, <3>1 DEF k
  <2> QED BY <2>7, <2>8
<1>22. ASSUME NEW path \in nodes, NEW under \in nodes, IsPrefix(path, under), path # under
       PROVE  HangsFrom(W(path), under, nodes)
  <2> DEFINE k == at + 1
  <2>1. /\ k \in Nat /\ ~ (k <= Len(e)) /\ at < k /\ at <= k
        /\ Len(leaf) = k /\ (~ whole => Len(split) = k)
    BY <1>2, <1>4, <1>5, <1>6
  <2> HIDE DEF k
  <2>2. path \in Seq(Bytes) /\ under \in Seq(Bytes)
    BY <1>13
  <2>3. Len(path) \in Nat /\ Len(under) \in Nat /\ Len(path) < Len(under)
    <3>1. Len(path) <= Len(under)
      BY <1>22, <2>2, PrefixIsFirst
    <3>2. ~ (Len(path) >= Len(under))
      BY <1>22, <2>2, PrefixOfItsLength
    <3> QED BY <2>2, <3>1, <3>2
  <2>4. CASE under \in Nodes
    <3>1. CASE path \in Nodes /\ path # e
      BY <1>10, <1>17, <1>22, <2>4, <3>1
    <3>2. CASE path = e
      BY <1>20, <1>22, <2>4, <3>2
    <3>3. CASE path = leaf
      BY <1>21, <1>22, <2>4, <3>3
    <3>4. CASE ~ whole /\ path = split
      <4>1. IsPrefix(e, under)
        BY <1>5, <1>7, <1>18, <1>22, <2>2, <3>4, PrefixTransitive
      <4>2. under # e
        BY <2>1, <2>3, <3>4
      <4>3. HangsFrom(Whole(e), under, nodes)
        BY <1>1, <1>17, <2>4, <4>1, <4>2
      <4> QED BY <1>11, <3>4, <4>3
    <3> QED BY <1>12, <3>1, <3>2, <3>3, <3>4
  <2>5. ASSUME NEW x \in Seq(Bytes), Len(x) = k, x \in nodes, IsPrefix(First(s, at), x)
        PROVE  HangsFrom(W(e), x, nodes)
    <3>1. First(x, k) = x
      BY <2>5, FirstAll
    <3> QED BY <1>8, <1>11, <2>1, <2>5, <3>1 DEF HangsFrom, k
  <2>6. CASE under = leaf
    <3>1. CASE path \in Nodes /\ path # e
      <4>1. IsPrefix(path, s)
        BY <1>4, <1>7, <1>22, <2>2, <2>6, PrefixTransitive
      <4>2. Len(path) <= Len(e)
        BY <1>1, <3>1, <4>1
      <4>3. IsPrefix(path, e)
        BY <1>1, <1>5, <2>2, <4>1, <4>2, PrefixesCompare
      <4> QED BY <1>7, <1>18, <1>19, <2>6, <3>1, <4>3
    <3>2. CASE path = e
      <4>1. IsPrefix(First(s, at), leaf)
        BY <1>4, <1>7, <1>8, <2>1, PrefixesCompare
      <4> QED BY <1>7, <1>12, <2>1, <2>5, <2>6, <3>2, <4>1
    <3>3. CASE path = leaf \/ (~ whole /\ path = split)
      BY <2>1, <2>3, <2>6, <3>3
    <3> QED BY <1>12, <3>1, <3>2, <3>3
  <2>7. CASE ~ whole /\ under = split
    <3>1. CASE path \in Nodes /\ path # e
      <4>1. IsPrefix(path, Whole(e)) /\ IsPrefix(split, Whole(e))
        BY <1>4, <1>5, <1>7, <1>22, <2>2, <2>7, PrefixTransitive
      <4>2. CASE Len(path) <= Len(e)
        <5>1. IsPrefix(path, e)
          BY <1>5, <2>2, <4>1, <4>2, PrefixesCompare
        <5> QED BY <1>7, <1>18, <1>19, <2>7, <3>1, <5>1
      <4>3. CASE ~ (Len(path) <= Len(e))
        <5>1. Len(e) <= Len(path)
          BY <1>5, <2>3, <4>3
        <5>2. IsPrefix(e, path)
          BY <1>5, <2>2, <4>1, <5>1, PrefixesCompare
        <5>3. Len(Whole(e)) < Len(path)
          BY <1>1, <1>17, <3>1, <5>2
        <5>4. Len(path) <= Len(Whole(e))
          BY <1>5, <2>2, <4>1, PrefixIsFirst
        <5> QED BY <1>5, <2>3, <5>3, <5>4
      <4> QED BY <4>2, <4>3
    <3>2. CASE path = e
      <4>1. IsPrefix(First(s, at), split)
        BY <1>4, <1>5, <1>7, <1>8, <2>1, <2>7, PrefixesCompare
      <4> QED BY <1>7, <1>12, <2>1, <2>5, <2>7, <3>2, <4>1
    <3>3. CASE path = leaf \/ path = split
      BY <2>1, <2>3, <2>7, <3>3
    <3> QED BY <1>12, <3>1, <3>2, <3>3
  <2> QED BY <1>12, <2>4, <2>6, <2>7
<1>23. new = [path \in nodes |-> new[path]]
  BY <1>4
<1> HIDE DEF saved
<1>24. /\ \A path \in nodes : path \in Seq(Bytes) /\ new[path] \in Seq(Bytes)
       /\ << >> \in nodes
       /\ \A t \in saved : t # << >> => \E path \in nodes : IsPrefix(t, W(path))
       /\ \A path \in nodes : \E t \in saved : IsPrefix(W(path), t)
       /\ \A path, under \in nodes :
            IsPrefix(path, under) /\ path # under => HangsFrom(W(path), under, nodes)
  BY <1>13, <1>14, <1>15, <1>16, <1>22
<1> QED BY <1>23, <1>24 DEF W, nodes, saved

\* Saving a sample keeps the trie in order: as it is when the sample is on one of its
\* paths, with a root when it is the first, or grown.
LEMMA SaveKeepsTrie ==
  ASSUME EditsInv, TrieInv, SaveSample
  PROVE  TrieInv'
<1> DEFINE s == sample
<1>1. /\ s \in Seq(Bytes) /\ all_samples \subseteq Seq(Bytes)
      /\ all_samples' = all_samples \cup {s} /\ trie' = NewTrie(s)
  BY DEF EditsInv, EditsTypeOK, SaveSample
<1> HIDE DEF s
<1>2. CASE s = << >>
  <2>1. trie' = trie
    BY <1>1, <1>2 DEF NewTrie
  <2>2. TrieTypeOK' /\ TrieIsCompressed'
    BY <2>1 DEF TrieInv, TrieTypeOK, TrieIsCompressed, Nodes, Whole
  <2>3. TrieHoldsSamples'
    BY <1>1, <1>2, <2>1 DEF TrieInv, TrieHoldsSamples, Nodes, Whole
  <2> QED BY <2>2, <2>3 DEF TrieInv
<1>3. CASE s # << >> /\ Nodes = {}
  <2>1. trie' = [path \in {<< >>} |-> s]
    BY <1>1, <1>3, EmptyTrie DEF NewTrie, TrieInv
  <2>2. Nodes' = {<< >>} /\ trie'[<< >>] = s
    BY <2>1 DEF Nodes
  <2>3. Whole(<< >>)' = s
    <3>1. << >> \o s = s
      BY <1>1, ConcatEmptySeq
    <3> QED BY <2>2, <3>1 DEF Whole
  <2>4. TrieTypeOK'
    <3>1. trie' = [path \in Nodes' |-> trie'[path]]
      BY <2>1, <2>2
    <3>2. << >> \in Seq(Bytes)
      OBVIOUS
    <3> QED BY <1>1, <2>2, <3>1, <3>2 DEF TrieTypeOK
  <2>5. \A t \in all_samples : t = << >>
    BY <1>3 DEF TrieInv, TrieHoldsSamples
  <2>6. TrieHoldsSamples'
    <3>1. IsPrefix(s, s) /\ s \in all_samples'
      BY <1>1, PrefixReflexive
    <3>2. \A t \in all_samples' : t # << >> => t = s
      BY <1>1, <2>5
    <3>3. \A t \in all_samples' : t # << >> => \E path \in Nodes' : IsPrefix(t, Whole(path)')
      BY <2>2, <2>3, <3>1, <3>2
    <3>4. \A path \in Nodes' : \E t \in all_samples' : IsPrefix(Whole(path)', t)
      BY <2>2, <2>3, <3>1
    <3> QED BY <3>3, <3>4 DEF TrieHoldsSamples
  <2>7. TrieIsCompressed'
    BY <2>2 DEF TrieIsCompressed
  <2> QED BY <2>4, <2>6, <2>7 DEF TrieInv
<1>4. CASE s # << >> /\ Nodes # {} /\ DiffOffset(s) = Len(s)
  <2>1. trie' = trie
    BY <1>1, <1>4, EmptyTrie DEF NewTrie, TrieInv
  <2>2. TrieTypeOK' /\ TrieIsCompressed'
    BY <2>1 DEF TrieInv, TrieTypeOK, TrieIsCompressed, Nodes, Whole
  <2> DEFINE e == EndNode(s)
  <2>3. e \in Nodes
    BY <1>1, <1>4, EndNodeFacts DEF TrieInv
  <2>4. Len(s) <= Len(Whole(e)) /\ First(s, Len(s)) = First(Whole(e), Len(s))
    BY <1>1, <1>4, DiffOffsetFacts DEF TrieInv
  <2> HIDE DEF e
  <2>5. IsPrefix(s, Whole(e))
    BY <2>4 DEF IsPrefix, First
  <2>6. TrieHoldsSamples'
    <3>1. \A t \in all_samples' : t # << >> => \E path \in Nodes : IsPrefix(t, Whole(path))
      BY <1>1, <2>3, <2>5 DEF TrieInv, TrieHoldsSamples
    <3>2. \A path \in Nodes : \E t \in all_samples' : IsPrefix(Whole(path), t)
      BY <1>1 DEF TrieInv, TrieHoldsSamples
    <3> QED BY <2>1, <3>1, <3>2 DEF TrieHoldsSamples, Nodes, Whole
  <2> QED BY <2>2, <2>6 DEF TrieInv
<1>5. CASE s # << >> /\ Nodes # {} /\ DiffOffset(s) # Len(s)
  <2> DEFINE new == NewTrie(s)
             W(path) == path \o new[path]
             nodes == DOMAIN new
             saved == all_samples \cup {s}
  <2>1. /\ new = [path \in nodes |-> new[path]]
        /\ \A path \in nodes : path \in Seq(Bytes) /\ new[path] \in Seq(Bytes)
        /\ << >> \in nodes
        /\ \A t \in saved : t # << >> => \E path \in nodes : IsPrefix(t, W(path))
        /\ \A path \in nodes : \E t \in saved : IsPrefix(W(path), t)
        /\ \A path, under \in nodes :
             IsPrefix(path, under) /\ path # under => HangsFrom(W(path), under, nodes)
    BY <1>1, <1>5, GrownTrie
  <2>2. Nodes' = nodes /\ trie' = new /\ all_samples' = saved
    BY <1>1 DEF Nodes
  <2>3. TrieTypeOK'
    <3> HIDE DEF new, nodes, saved
    <3> QED BY <2>1, <2>2 DEF TrieTypeOK
  <2>4. \A path \in nodes : Whole(path)' = W(path)
    BY <2>2 DEF Whole
  <2> HIDE DEF new, nodes, saved, W
  <2>5. TrieHoldsSamples'
    BY <2>1, <2>2, <2>4 DEF TrieHoldsSamples
  <2>6. TrieIsCompressed'
    BY <2>1, <2>2, <2>4 DEF TrieIsCompressed
  <2> QED BY <2>3, <2>5, <2>6 DEF TrieInv
<1> QED BY <1>2, <1>3, <1>4, <1>5

LEMMA InitTrie == Init => TrieInv
<1> SUFFICES ASSUME Init PROVE TrieInv
  OBVIOUS
<1>1. Nodes = {} /\ all_samples = {} /\ trie = NoNodes
  BY DEF Init, NoNodes, Nodes
<1>2. trie = [path \in Nodes |-> trie[path]]
  BY <1>1 DEF NoNodes
<1> QED BY <1>1, <1>2 DEF TrieInv, TrieTypeOK, TrieHoldsSamples, TrieIsCompressed

LEMMA NextTrie == EditsInv /\ TrieInv /\ [Next]_vars => TrieInv'
<1> SUFFICES ASSUME EditsInv, TrieInv, [Next]_vars PROVE TrieInv'
  OBVIOUS
<1>1. CASE SaveSample
  BY <1>1, SaveKeepsTrie
<1>2. CASE UNCHANGED << all_samples, trie >>
  BY <1>2 DEF TrieInv, TrieTypeOK, TrieHoldsSamples, TrieIsCompressed, Nodes, Whole
<1>3. SaveSample \/ UNCHANGED << all_samples, trie >>
  BY DEF Next, vars, FuzzEntry, Mutate, Run, BeginMinimize, HalveStep, MinimizeStep, Test
<1> QED BY <1>1, <1>2, <1>3

THEOREM TrieInvariant == Spec => []TrieInv
<1> QED BY InitTrie, NextTrie, EditsInvariant, PTL DEF Spec

\* Whatever was saved before, in whatever order: SampleTrie::AddSample returns the first
\* byte at which the new sample differs from all of them.
THEOREM FirstDiffIsFound == Spec => HotOffsetIsFirstDiff
<1>1. EditsInv /\ TrieInv /\ [Next]_vars => [FirstDiffFound]_vars
  <2> SUFFICES ASSUME EditsInv, TrieInv, SaveSample
               PROVE  offset' = Max({ CommonPrefix(sample, s) : s \in all_samples } \cup {0})
    BY DEF FirstDiffFound
  <2>1. sample \in Seq(Bytes) /\ all_samples \subseteq Seq(Bytes) /\ offset' = DiffOffset(sample)
    BY DEF EditsInv, EditsTypeOK, SaveSample
  <2> QED BY <2>1, DiffOffsetIsFirstDiff
<1> QED BY <1>1, EditsInvariant, TrieInvariant, PTL DEF Spec, HotOffsetIsFirstDiff

=============================================================================
