--------------------------- MODULE FuzzRoundsProofs ---------------------------
(***************************************************************************)
(* Deterministic mutation reaches every byte around a hot offset with      *)
(* every value, and NotifyResult reaches the mutator that made the sample: *)
(* for any sizes of windows and samples, any number of rounds and hot      *)
(* offsets that arrive in any order.                                       *)
(***************************************************************************)
EXTENDS FuzzRounds, SequenceTheorems, WellFoundedInduction, TLAPS

Region == [start : Nat, end : Nat, cur : Nat, cur_progress : Nat]
Child == [regions : Seq(Region), cur_region : Nat]
Context == [current_mutator_index : 1 .. 3, children : [1 .. 2 -> Child]]
-----------------------------------------------------------------------------
(* The inductive invariant.  First of one mutator's regions, with "settled" *)
(* the pairs of a position and a value that need not be tried any more.     *)

\* Value v of byte pos is still to come from a region.
Pending(r, pos, v) == r.cur < pos \/ (r.cur = pos /\ r.cur_progress <= v)

\* A region has bytes, and its next byte lies in it or it is done.
RegionOK(r, max_progress) ==
  /\ r.start < r.end /\ r.start <= r.cur /\ r.cur <= r.end
  /\ r.cur_progress <= max_progress
  /\ r.cur = r.end => r.cur_progress = 0
  /\ r.end <= MaxOffset + BytesNext

\* A region starts where some window does, and has all of it, or is joined by the next.
FromWindow(regions, i) ==
  \E offset \in Offsets :
    /\ regions[i].start = WindowStart(offset)
    /\ \/ regions[i].end >= WindowEnd(offset)
       \/ i < Len(regions) /\ regions[i].end >= regions[i + 1].start

RegionsInv(regions, max_progress) ==
  /\ regions \in Seq(Region)
  /\ \A i \in 1 .. Len(regions) : RegionOK(regions[i], max_progress) /\ FromWindow(regions, i)
  /\ \A i, j \in 1 .. Len(regions) : i < j => regions[i].start < regions[j].start

\* The regions before the n-th are done.
DoneBefore(regions, max_progress, n) ==
  \A i \in 1 .. Len(regions) : i < n => ~Live(regions[i], max_progress)

\* What a region has left behind is settled.
Scanned(regions, max_progress, settled) ==
  \A i \in 1 .. Len(regions) : \A pos \in regions[i].start .. regions[i].end - 1 :
    \A v \in 0 .. max_progress - 1 :
      Pending(regions[i], pos, v) \/ << pos, v >> \in settled

ChildInv(child, max_progress, settled) ==
  /\ child \in Child
  /\ RegionsInv(child.regions, max_progress)
  /\ child.cur_region \in 1 .. Len(child.regions) + 1
  /\ DoneBefore(child.regions, max_progress, child.cur_region)
  /\ Scanned(child.regions, max_progress, settled)

\* A window is covered by regions.
Covers(regions, offset) ==
  \A pos \in WindowStart(offset) .. WindowEnd(offset) - 1 :
    \E i \in 1 .. Len(regions) : regions[i].start <= pos /\ pos < regions[i].end

\* A mutator the sequence has left is done, and the windows of all offsets are covered.
MutatorInv(c, m, settled, offsets) ==
  LET regions == c.children[m].regions IN
  /\ ChildInv(c.children[m], MaxProgress(m), settled)
  /\ m < c.current_mutator_index => DoneBefore(regions, MaxProgress(m), Len(regions) + 1)
  /\ \A offset \in offsets : Covers(regions, offset)

\* Now of the thread.
Mutations == [by : {"none", "byte_flip", "interesting_value", "repeater"}, pos : Nat, value : Nat]

Types ==
  /\ options \in Options /\ pc \in {"get", "mutate", "run", "notify"}
  /\ priority \in Seq(Int) /\ context \in Seq(Context)
  /\ hot \in Seq(SUBSET Offsets) /\ tried \in Seq(SUBSET Mutations)
  /\ Len(context) = Len(priority) /\ Len(hot) = Len(priority) /\ Len(tried) = Len(priority)
  /\ queue \subseteq Entries /\ entry \in Entries \cup {0} /\ entry \notin queue
  /\ (pc = "get") = (entry = 0)
  /\ current_round \in 0 .. IterationsPerRound
  /\ diff \in Offsets \cup {NoDiff} /\ written \in Mutations
  /\ runs \in Nat /\ finds \in Nat

\* A value of a byte was tried, or is about to be, or makes the sample too large.
Mutation(m, pos, value) == [by |-> Children[m], pos |-> pos, value |-> value]
IsSettled(e, m, pos, value) ==
  \/ Mutation(m, pos, value) \in tried[e]
  \/ pc = "run" /\ entry = e /\ written = Mutation(m, pos, value)
  \/ SizeAfter(m, pos) > MaxSampleSize
Settled(e, m) == { p \in Nat \X Nat : IsSettled(e, m, p[1], p[2]) }

HotOffsets(e) == IF options = "nondeterministic" THEN {} ELSE hot[e]

ContextsInv ==
  \A e \in Entries, m \in 1 .. 2 : MutatorInv(context[e], m, Settled(e, m), HotOffsets(e))

\* While a sample is run and its result is reported, the mutator that made it is the
\* current one.
AuthorIsCurrent ==
  pc \in {"run", "notify"} =>
    \/ /\ last_mutator = "deterministic"
       /\ context[entry].current_mutator_index \in 1 .. 2
       /\ written.by = Children[context[entry].current_mutator_index]
    \/ last_mutator = "nondeterministic" /\ written.by = "repeater"

IInv == Types /\ ContextsInv /\ AuthorIsCurrent
-----------------------------------------------------------------------------
(* Operators on regions.                                                   *)

\* Every nonempty set of naturals has a least element.
LEMMA LeastNatural ==
  ASSUME NEW T, T \subseteq Nat, T # {}
  PROVE  \E x \in T : \A y \in T : x <= y
<1>1. \E x \in T : \A y \in T : ~ (<< y, x >> \in OpToRel(<, Nat))
  BY NatLessThanWellFounded, WFMin
<1>2. PICK x \in T : \A y \in T : ~ (<< y, x >> \in OpToRel(<, Nat))
  BY <1>1
<1>3. ASSUME NEW y \in T PROVE x <= y
  <2>1. ~ (<< y, x >> \in OpToRel(<, Nat))
    BY <1>2
  <2>2. ~ (y < x)
    BY <2>1, SMT DEF OpToRel
  <2> QED BY <2>2, SMT
<1> QED BY <1>3

\* Of the places in a range where something holds there is a last one.
LEMMA LastIn ==
  ASSUME NEW n \in Nat, NEW T, T \subseteq 1 .. n, T # {}
  PROVE  \E x \in T : \A y \in T : y <= x
<1> DEFINE U == { n - x : x \in T }
<1>0. \A x \in T : x \in Int /\ n - x \in Nat
  OBVIOUS
<1>1. U \subseteq Nat /\ U # {}
  BY <1>0, Zenon
<1>2. PICK u \in U : \A y \in U : u <= y
  BY <1>1, LeastNatural
<1>3. PICK x \in T : u = n - x
  BY <1>2
<1>4. ASSUME NEW y \in T PROVE y <= x
  <2>1. u <= n - y
    BY <1>2
  <2> QED BY <1>3, <2>1
<1> QED BY <1>4

\* The lesser and the greater of two numbers.
LEMMA MinMax ==
  ASSUME NEW a \in Int, NEW b \in Int
  PROVE  /\ Min({a, b}) = IF a <= b THEN a ELSE b
         /\ Max({a, b}) = IF a <= b THEN b ELSE a
  BY DEF Min, Max

\* What the assumptions on the constants give.
LEMMA Constants ==
  /\ MaxOffset \in Nat /\ BytesPrevious \in Nat /\ BytesNext \in Nat \ {0}
  /\ ValueSize \in Nat \ {0} /\ MaxSampleSize \in Nat \ {0} /\ IterationsPerRound \in Nat \ {0}
  /\ \A m \in 1 .. 2 : MaxProgress(m) \in Nat \ {0}
  /\ FirstOffsets \subseteq Offsets
<1>1. ByteValues \in Nat \ {0} /\ InterestingValues \in Nat \ {0}
  BY RoundsAssumption
<1> QED BY <1>1, RoundsAssumption DEF MaxProgress, Offsets

\* Windows are not empty, and start and end in the order of their offsets.
LEMMA Windows ==
  ASSUME NEW o \in Offsets
  PROVE  /\ WindowStart(o) \in Nat /\ WindowEnd(o) \in Nat
         /\ WindowStart(o) < WindowEnd(o) /\ WindowEnd(o) <= MaxOffset + BytesNext
         /\ \A p \in Offsets : WindowStart(p) < WindowStart(o) => WindowEnd(p) < WindowEnd(o)
BY Constants DEF WindowStart, WindowEnd, Offsets

\* Going to the next byte when the last one is done keeps a region in order, loses
\* nothing that is pending, and does not change whether the region is done.
LEMMA AdvanceFacts ==
  ASSUME NEW r \in Region, NEW mp \in Nat \ {0}, RegionOK(r, mp)
  PROVE  LET a == Advance(r, mp) IN
         /\ a \in Region /\ a.start = r.start /\ a.end = r.end /\ a.cur_progress < mp
         /\ ~Live(r, mp) => RegionOK(a, mp) /\ ~Live(a, mp)
         /\ Live(r, mp) => a.cur < a.end /\ a.start <= a.cur
         /\ \A pos \in Nat : \A v \in 0 .. mp - 1 : Pending(r, pos, v) <=> Pending(a, pos, v)
<1>1. /\ r.start \in Nat /\ r.end \in Nat /\ r.cur \in Nat /\ r.cur_progress \in Nat
      /\ r = [start |-> r.start, end |-> r.end, cur |-> r.cur, cur_progress |-> r.cur_progress]
  BY DEF Region
<1>2. CASE r.cur_progress >= mp
  <2>1. Advance(r, mp) = [start |-> r.start, end |-> r.end, cur |-> r.cur + 1, cur_progress |-> 0]
    BY <1>1, <1>2 DEF Advance, Region
  <2>2. ~ (0 >= mp)
    OBVIOUS
  <2> QED BY <1>1, <1>2, <2>1, <2>2 DEF Advance, Live, RegionOK, Pending, Region
<1>3. CASE ~ (r.cur_progress >= mp)
  <2>1. Advance(r, mp) = r
    BY <1>3 DEF Advance
  <2> QED BY <1>1, <1>3, <2>1 DEF Live, RegionOK, Pending
<1> QED BY <1>2, <1>3

\* Nothing is pending in a region that is done.
LEMMA DoneNothingPending ==
  ASSUME NEW r \in Region, NEW mp \in Nat \ {0}, RegionOK(r, mp), ~Live(r, mp),
         NEW pos \in r.start .. r.end - 1, NEW v \in 0 .. mp - 1
  PROVE  ~Pending(r, pos, v)
<1>1. /\ r.start \in Nat /\ r.end \in Nat /\ r.cur \in Nat /\ r.cur_progress \in Nat
  BY DEF Region
<1>2. CASE r.cur_progress >= mp
  <2>1. Advance(r, mp).cur = r.cur + 1 /\ Advance(r, mp).end = r.end
    BY <1>1, <1>2 DEF Advance, Region
  <2> QED BY <1>1, <1>2, <2>1 DEF Live, RegionOK, Pending
<1>3. CASE ~ (r.cur_progress >= mp)
  <2>1. Advance(r, mp) = r
    BY <1>3 DEF Advance
  <2> QED BY <1>1, <1>3, <2>1 DEF Live, RegionOK, Pending
<1> QED BY <1>2, <1>3

\* NextRegion is the first region with bytes left, or one past the last.
LEMMA NextRegionFacts ==
  ASSUME NEW child \in Child, NEW mp,
         child.cur_region \in 1 .. Len(child.regions) + 1
  PROVE  LET n == NextRegion(child, mp) IN
         /\ n \in child.cur_region .. Len(child.regions) + 1
         /\ n = Len(child.regions) + 1 \/ Live(child.regions[n], mp)
         /\ \A j \in child.cur_region .. n - 1 : ~Live(child.regions[j], mp)
<1> DEFINE ends == Len(child.regions) + 1
           T == { i \in child.cur_region .. ends : i = ends \/ Live(child.regions[i], mp) }
<1>1. ends \in Nat /\ child.cur_region \in Nat
  BY DEF Child
<1>2. ends \in T /\ T \subseteq Nat
  BY <1>1
<1>3. PICK i \in T : \A j \in T : i <= j
  BY <1>2, LeastNatural
<1>4. \A j \in child.cur_region .. i - 1 : ~Live(child.regions[j], mp)
  BY <1>1, <1>3
<1>5. \E n \in child.cur_region .. ends :
        /\ n = ends \/ Live(child.regions[n], mp)
        /\ \A j \in child.cur_region .. n - 1 : ~Live(child.regions[j], mp)
  BY <1>3, <1>4
<1> QED BY <1>5, Zenon DEF NextRegion

\* GetNextByteToMutate settles the byte and value it returns, if any, and nothing that
\* is pending gets lost.
LEMMA AfterByteKeeps ==
  ASSUME NEW child, NEW mp \in Nat \ {0}, NEW settled, NEW also,
         ChildInv(child, mp, settled), settled \subseteq also,
         HasByte(child, mp) => << NextByte(child, mp).pos, NextByte(child, mp).value >> \in also
  PROVE  LET after == AfterByte(child, mp) IN
         /\ ChildInv(after, mp, also)
         /\ ~HasByte(child, mp) => DoneBefore(after.regions, mp, Len(after.regions) + 1)
         /\ \A o : Covers(child.regions, o) => Covers(after.regions, o)
<1> DEFINE size == Len(child.regions)
           n == NextRegion(child, mp)
           old(i) == child.regions[i]
           passed(i) == Advance(child.regions[i], mp)
           after == AfterByte(child, mp)
           new(i) == after.regions[i]
<1>1. /\ child \in Child /\ child.regions \in Seq(Region) /\ size \in Nat
      /\ child.cur_region \in 1 .. size + 1
      /\ \A i \in 1 .. size : old(i) \in Region /\ RegionOK(old(i), mp) /\ FromWindow(child.regions, i)
      /\ \A i, j \in 1 .. size : i < j => old(i).start < old(j).start
      /\ \A i \in 1 .. size : i < child.cur_region => ~Live(old(i), mp)
      /\ Scanned(child.regions, mp, settled)
  BY DEF ChildInv, RegionsInv, DoneBefore, Child
<1>2. /\ n \in child.cur_region .. size + 1
      /\ n = size + 1 \/ Live(old(n), mp)
      /\ \A j \in child.cur_region .. n - 1 : ~Live(old(j), mp)
  BY <1>1, NextRegionFacts
<1>3. /\ after = [cur_region |-> n, regions |-> after.regions]
      /\ after.cur_region = n
      /\ after.regions = [i \in 1 .. size |->
           CASE i = n -> [passed(i) EXCEPT !.cur_progress = @ + 1]
             [] i \in child.cur_region .. n - 1 -> passed(i)
             [] OTHER -> old(i)]
  BY DEF AfterByte
<1>4. /\ \A i \in 1 .. size : i = n => new(i) = [passed(i) EXCEPT !.cur_progress = @ + 1]
      /\ \A i \in child.cur_region .. n - 1 : new(i) = passed(i)
      /\ \A i \in 1 .. size : i < child.cur_region \/ i > n => new(i) = old(i)
  BY <1>1, <1>2, <1>3
<1>5. ASSUME NEW i \in 1 .. size
      PROVE  /\ new(i) \in Region /\ RegionOK(new(i), mp)
             /\ new(i).start = old(i).start /\ new(i).end = old(i).end
             /\ i < n => ~Live(new(i), mp)
             /\ \A pos \in Nat : \A v \in 0 .. mp - 1 :
                  \/ Pending(old(i), pos, v) => Pending(new(i), pos, v)
                  \/ i = n /\ pos = passed(i).cur /\ v = passed(i).cur_progress
  <2>0. LET a == passed(i) IN
        /\ a \in Region /\ a.start = old(i).start /\ a.end = old(i).end /\ a.cur_progress < mp
        /\ ~Live(old(i), mp) => RegionOK(a, mp) /\ ~Live(a, mp)
        /\ Live(old(i), mp) => a.cur < a.end /\ a.start <= a.cur
        /\ \A pos \in Nat : \A v \in 0 .. mp - 1 : Pending(old(i), pos, v) <=> Pending(a, pos, v)
    BY <1>1, AdvanceFacts
  <2>1. CASE i = n
    <3> DEFINE a == passed(i)
    <3>1. new(i) = [a EXCEPT !.cur_progress = @ + 1]
      BY <1>4, <2>1
    <3>2. /\ a.start \in Nat /\ a.end \in Nat /\ a.cur \in Nat /\ a.cur_progress \in Nat
          /\ a = [start |-> a.start, end |-> a.end, cur |-> a.cur, cur_progress |-> a.cur_progress]
      BY <2>0 DEF Region
    <3> HIDE DEF a
    <3>3. new(i) = [start |-> a.start, end |-> a.end, cur |-> a.cur,
                    cur_progress |-> a.cur_progress + 1]
      BY <3>1, <3>2
    <3>4. a.cur < a.end /\ a.start <= a.cur /\ a.cur_progress < mp /\ a.end <= MaxOffset + BytesNext
          /\ a.start = old(i).start /\ a.end = old(i).end
      BY <1>1, <1>2, <2>0, <2>1 DEF RegionOK, a
    <3>5. new(i) \in Region /\ RegionOK(new(i), mp)
      BY <3>2, <3>3, <3>4 DEF Region, RegionOK
    <3>6. ASSUME NEW pos \in Nat, NEW v \in 0 .. mp - 1, Pending(old(i), pos, v),
                 ~ (pos = a.cur /\ v = a.cur_progress)
          PROVE  Pending(new(i), pos, v)
      <4>1. Pending(a, pos, v)
        BY <2>0, <3>6 DEF a
      <4> QED BY <3>2, <3>3, <3>6, <4>1 DEF Pending
    <3> QED BY <2>1, <3>3, <3>4, <3>5, <3>6 DEF a
  <2>2. CASE i \in child.cur_region .. n - 1
    <3>1. new(i) = passed(i) /\ ~Live(old(i), mp)
      BY <1>2, <1>4, <2>2
    <3> QED BY <2>0, <2>2, <3>1
  <2>3. CASE i < child.cur_region \/ i > n
    <3>1. new(i) = old(i)
      BY <1>4, <2>3
    <3> QED BY <1>1, <1>2, <2>3, <3>1
  <2> QED BY <1>1, <1>2, <2>1, <2>2, <2>3
<1>6. after.regions \in Seq(Region) /\ Len(after.regions) = size
  <2>1. after.regions \in [1 .. size -> Region]
    BY <1>3, <1>5
  <2>2. after.regions \in Seq(Region)
    BY <1>1, <2>1, SeqDef
  <2>3. DOMAIN after.regions = 1 .. size
    BY <2>1
  <2> HIDE DEF after, size
  <2>4. DOMAIN after.regions = 1 .. Len(after.regions) /\ Len(after.regions) \in Nat
    BY <2>2, LenProperties
  <2> QED BY <1>1, <2>2, <2>3, <2>4
<1> HIDE DEF after
<1>7. RegionsInv(after.regions, mp)
  <2>1. ASSUME NEW i \in 1 .. size PROVE FromWindow(after.regions, i)
    <3>1. PICK offset \in Offsets :
            /\ old(i).start = WindowStart(offset)
            /\ \/ old(i).end >= WindowEnd(offset)
               \/ i < size /\ old(i).end >= old(i + 1).start
      BY <1>1 DEF FromWindow
    <3>2. i < size => i + 1 \in 1 .. size
      BY <1>1
    <3> QED BY <1>5, <1>6, <3>1, <3>2 DEF FromWindow
  <2>2. \A i, j \in 1 .. size : i < j => new(i).start < new(j).start
    BY <1>1, <1>5
  <2> QED BY <1>5, <1>6, <2>1, <2>2 DEF RegionsInv
<1>8. DoneBefore(after.regions, mp, n)
  BY <1>5, <1>6 DEF DoneBefore
<1>9. Scanned(after.regions, mp, also)
  <2> SUFFICES ASSUME NEW i \in 1 .. size, NEW pos \in old(i).start .. old(i).end - 1,
                      NEW v \in 0 .. mp - 1
               PROVE  Pending(new(i), pos, v) \/ << pos, v >> \in also
    BY <1>5, <1>6 DEF Scanned
  <2>1. Pending(old(i), pos, v) \/ << pos, v >> \in also
    BY <1>1 DEF Scanned
  <2>2. pos \in Nat
    <3>1. old(i).start \in Nat /\ old(i).end \in Nat
      BY <1>1 DEF Region
    <3> QED BY <3>1
  <2>3. CASE i = n /\ pos = passed(i).cur /\ v = passed(i).cur_progress
    <3>1. HasByte(child, mp) /\ NextByte(child, mp) = [pos |-> pos, value |-> v]
      BY <1>1, <2>3 DEF HasByte, NextByte
    <3> QED BY <3>1
  <2> QED BY <1>5, <2>1, <2>2, <2>3
<1>10. ChildInv(after, mp, also)
  <2>1. after \in Child /\ after.cur_region \in 1 .. size + 1
    <3>1. n \in 1 .. size + 1 /\ n \in Nat
      BY <1>1, <1>2
    <3> QED BY <1>3, <1>6, <3>1 DEF Child
  <2> QED BY <1>3, <1>6, <1>7, <1>8, <1>9, <2>1 DEF ChildInv
<1>11. ~HasByte(child, mp) => DoneBefore(after.regions, mp, Len(after.regions) + 1)
  <2>1. ~HasByte(child, mp) => n = size + 1
    BY <1>1, <1>2 DEF HasByte
  <2> QED BY <1>6, <1>8, <2>1
<1>12. ASSUME NEW o, Covers(child.regions, o) PROVE Covers(after.regions, o)
  BY <1>5, <1>6, <1>12 DEF Covers
<1> QED BY <1>10, <1>11, <1>12 DEF after
-----------------------------------------------------------------------------
(* AddHotOffset.                                                           *)

\* What one more window must leave of the regions.
WindowAdded(old, new, mp, settled, offset) ==
  /\ RegionsInv(new, mp) /\ Scanned(new, mp, settled)
  /\ Covers(new, offset) /\ \A o : Covers(old, o) => Covers(new, o)

\* A new region before the i-th, or after the last; it ends where the next begins.
LEMMA NewRegionKeeps ==
  ASSUME NEW old, NEW new, NEW mp \in Nat \ {0}, NEW settled, NEW offset \in Offsets,
         RegionsInv(old, mp), Scanned(old, mp, settled),
         NEW i \in 1 .. Len(old) + 1, NEW to \in Nat,
         \A j \in 1 .. Len(old) : j < i => old[j].end < WindowStart(offset),
         i <= Len(old) => WindowStart(offset) < old[i].start /\ to <= old[i].start,
         WindowStart(offset) < to, to <= WindowEnd(offset),
         to = WindowEnd(offset) \/ (i <= Len(old) /\ to = old[i].start),
         new \in Seq(Region), Len(new) = Len(old) + 1,
         \A j \in 1 .. Len(old) : j < i => new[j] = old[j],
         new[i] = NewRegion(WindowStart(offset), to),
         \A j \in 1 .. Len(old) : j >= i => new[j + 1] = old[j]
  PROVE  WindowAdded(old, new, mp, settled, offset)
<1> DEFINE size == Len(old)
           from == WindowStart(offset)
<1>1. /\ size \in Nat /\ old \in Seq(Region)
      /\ \A j \in 1 .. size : RegionOK(old[j], mp) /\ FromWindow(old, j) /\ old[j] \in Region
      /\ \A j, k \in 1 .. size : j < k => old[j].start < old[k].start
  BY DEF RegionsInv
<1>2. \A j \in 1 .. size : old[j].start \in Nat /\ old[j].end \in Nat
  BY <1>1 DEF Region
<1>3. /\ from \in Nat /\ WindowEnd(offset) \in Nat /\ WindowEnd(offset) <= MaxOffset + BytesNext
      /\ MaxOffset + BytesNext \in Nat
      /\ \A o \in Offsets : from < WindowStart(o) => WindowEnd(offset) < WindowEnd(o)
  BY Windows, Constants
<1>4. /\ new[i].start = from /\ new[i].end = to /\ new[i].cur = from /\ new[i].cur_progress = 0
      /\ new[i] = NewRegion(from, to)
  BY DEF NewRegion
<1>5. \A k \in 1 .. size + 1 : k < i \/ k = i \/ (k > i /\ k - 1 \in 1 .. size /\ k - 1 >= i)
  BY <1>1
<1>6. /\ \A k \in 1 .. size + 1 : k < i => k \in 1 .. size /\ new[k] = old[k]
      /\ \A k \in 1 .. size + 1 : k > i => k - 1 \in 1 .. size /\ new[k] = old[k - 1]
  <2>1. ASSUME NEW k \in 1 .. size + 1, k > i PROVE new[k] = old[k - 1]
    <3>1. k - 1 \in 1 .. size /\ k - 1 >= i /\ (k - 1) + 1 = k
      BY <1>1, <2>1
    <3>2. new[(k - 1) + 1] = old[k - 1]
      BY <3>1
    <3> QED BY <3>1, <3>2
  <2> QED BY <1>1, <2>1
<1> HIDE DEF from
<1>7. ASSUME NEW k \in 1 .. size + 1 PROVE RegionOK(new[k], mp)
  <2>1. RegionOK(new[i], mp)
    BY <1>3, <1>4 DEF RegionOK, from
  <2> QED BY <1>1, <1>5, <1>6, <2>1
<1>8. ASSUME NEW k \in 1 .. size + 1 PROVE FromWindow(new, k)
  <2>1. CASE k < i
    <3>1. PICK o \in Offsets :
            /\ old[k].start = WindowStart(o)
            /\ old[k].end >= WindowEnd(o) \/ (k < size /\ old[k].end >= old[k + 1].start)
      BY <1>1, <1>6, <2>1 DEF FromWindow
    <3>2. ASSUME k < size, old[k].end >= old[k + 1].start PROVE k + 1 < i
      <4>1. k \in 1 .. size /\ k + 1 \in 1 .. size /\ old[k].end < from
        BY <1>1, <2>1, <3>2 DEF from
      <4>2. old[k + 1].start < from /\ old[k + 1].start \in Nat
        BY <1>2, <1>3, <3>2, <4>1
      <4>3. k + 1 = i => from < old[k + 1].start
        BY <1>1, <4>1 DEF from
      <4> QED BY <1>3, <2>1, <4>1, <4>2, <4>3
    <3>3. k + 1 < i => k < size /\ new[k + 1] = old[k + 1]
      BY <1>1, <2>1
    <3> QED BY <1>1, <1>6, <2>1, <3>1, <3>2, <3>3 DEF FromWindow
  <2>2. CASE k = i
    <3>1. i <= size => new[i + 1] = old[i]
      BY <1>1
    <3> QED BY <1>1, <1>4, <2>2, <3>1 DEF FromWindow, from
  <2>3. CASE k > i
    <3>1. k - 1 \in 1 .. size /\ new[k] = old[k - 1]
      BY <1>6, <2>3
    <3>2. PICK o \in Offsets :
            /\ old[k - 1].start = WindowStart(o)
            /\ \/ old[k - 1].end >= WindowEnd(o)
               \/ k - 1 < size /\ old[k - 1].end >= old[(k - 1) + 1].start
      BY <1>1, <3>1 DEF FromWindow
    <3>3. k - 1 < size => new[k + 1] = old[k]
      BY <1>1, <2>3
    <3>4. (k - 1) + 1 = k
      OBVIOUS
    <3> QED BY <1>1, <3>1, <3>2, <3>3, <3>4 DEF FromWindow
  <2> QED BY <1>5, <2>1, <2>2, <2>3
<1>9. ASSUME NEW j \in 1 .. size + 1, NEW k \in 1 .. size + 1, j < k
      PROVE  new[j].start < new[k].start
  <2>1. \A n \in 1 .. size : n < i => old[n].start < from
    <3>1. ASSUME NEW n \in 1 .. size, n < i PROVE old[n].start < from
      <4>1. old[n].end < from /\ old[n].start < old[n].end
        BY <1>1, <3>1 DEF RegionOK, from
      <4> QED BY <1>2, <1>3, <4>1
    <3> QED BY <3>1
  <2>2. \A n \in 1 .. size : n >= i => from < old[n].start
    <3>1. ASSUME NEW n \in 1 .. size, n >= i PROVE from < old[n].start
      <4>1. i \in 1 .. size /\ from < old[i].start /\ (n = i \/ old[i].start < old[n].start)
        BY <1>1, <3>1 DEF from
      <4>2. from \in Nat /\ old[i].start \in Nat /\ old[n].start \in Nat
        BY <1>2, <1>3, <4>1
      <4> HIDE DEF size
      <4> QED BY ONLY <4>1, <4>2
    <3> QED BY <3>1
  <2>3. CASE j < i
    <3>1. j \in 1 .. size /\ new[j] = old[j] /\ old[j].start < from /\ old[j].start \in Nat
      BY <1>2, <1>6, <2>1, <2>3
    <3>2. CASE k < i
      <4>1. k \in 1 .. size /\ new[k] = old[k]
        BY <1>6, <3>2
      <4> QED BY <1>1, <1>9, <3>1, <4>1
    <3>3. CASE k = i
      BY <1>4, <3>1, <3>3
    <3>4. CASE k > i
      <4>1. k - 1 \in 1 .. size /\ k - 1 >= i /\ new[k] = old[k - 1]
        BY <1>5, <1>6, <3>4
      <4>2. from < old[k - 1].start /\ old[k - 1].start \in Nat
        BY <1>2, <2>2, <4>1
      <4> QED BY <1>3, <3>1, <4>1, <4>2
    <3> QED BY <1>1, <3>2, <3>3, <3>4
  <2>4. CASE j = i
    BY <1>1, <1>4, <1>5, <1>6, <1>9, <2>2, <2>4
  <2>5. CASE j > i
    <3>1. /\ j - 1 \in 1 .. size /\ new[j] = old[j - 1]
          /\ k - 1 \in 1 .. size /\ new[k] = old[k - 1]
      <4>1. k > i
        BY <1>9, <2>5
      <4> QED BY <1>6, <2>5, <4>1
    <3>2. j - 1 < k - 1
      BY <1>9
    <3> QED BY <1>1, <3>1, <3>2
  <2> QED BY <2>3, <2>4, <2>5
<1>10. Scanned(new, mp, settled)
  <2> SUFFICES ASSUME NEW k \in 1 .. size + 1, NEW pos \in new[k].start .. new[k].end - 1,
                      NEW v \in 0 .. mp - 1
               PROVE  Pending(new[k], pos, v) \/ << pos, v >> \in settled
    BY DEF Scanned
  <2>1. CASE k = i
    BY <1>3, <1>4, <2>1 DEF Pending
  <2>2. CASE k # i
    BY <1>5, <1>6, <2>2 DEF Scanned
  <2> QED BY <2>1, <2>2
<1>11. Covers(new, offset)
  <2> SUFFICES ASSUME NEW pos \in from .. WindowEnd(offset) - 1
               PROVE  \E k \in 1 .. Len(new) : new[k].start <= pos /\ pos < new[k].end
    BY DEF Covers, from
  <2>0. pos \in Nat
    BY <1>3
  <2>1. CASE pos < to
    BY <1>1, <1>4, <2>0, <2>1
  <2>2. CASE ~ (pos < to)
    <3> DEFINE U == { j \in 1 .. size : old[j].start <= pos }
    <3>1. i \in U
      BY <1>1, <1>2, <1>3, <2>0, <2>2
    <3>2. PICK j \in U : \A k \in U : k <= j
      BY <1>1, <3>1, LastIn
    <3>3. j \in 1 .. size /\ j >= i /\ old[j].start <= pos
      BY <3>1, <3>2
    <3>4. pos < old[j].end
      <4>1. PICK o \in Offsets :
              /\ old[j].start = WindowStart(o)
              /\ old[j].end >= WindowEnd(o) \/ (j < size /\ old[j].end >= old[j + 1].start)
        BY <1>1, <3>3 DEF FromWindow
      <4>2. from < old[j].start
        <5>1. i \in 1 .. size /\ from < old[i].start
          BY <3>1 DEF from
        <5>2. old[i].start <= old[j].start
          <6>1. j = i \/ i < j
            BY <3>3
          <6> QED BY <1>1, <1>2, <3>3, <5>1, <6>1
        <5>3. old[i].start \in Nat /\ old[j].start \in Nat /\ from \in Nat
          BY <1>2, <1>3, <3>3, <5>1
        <5> QED BY <5>1, <5>2, <5>3
      <4>3. WindowEnd(offset) < WindowEnd(o) /\ WindowEnd(o) \in Nat
        BY <1>3, <4>1, <4>2, Windows
      <4>4. CASE old[j].end >= WindowEnd(o)
        <5>1. pos < WindowEnd(offset) /\ old[j].end \in Nat
          BY <1>2, <1>3, <2>0, <3>3
        <5> QED BY <1>3, <2>0, <4>3, <4>4, <5>1
      <4>5. CASE j < size /\ old[j].end >= old[j + 1].start
        <5>1. j + 1 \in 1 .. size /\ j + 1 \notin U
          BY <1>1, <3>2, <4>5
        <5> QED BY <1>2, <2>0, <3>3, <4>5, <5>1
      <4> QED BY <4>1, <4>4, <4>5
    <3>5. new[j + 1] = old[j] /\ j + 1 \in 1 .. Len(new)
      BY <1>1, <3>3
    <3> QED BY <3>3, <3>4, <3>5
  <2> QED BY <2>1, <2>2
<1>12. ASSUME NEW o, Covers(old, o) PROVE Covers(new, o)
  <2>1. \A j \in 1 .. size : \E k \in 1 .. Len(new) : new[k] = old[j]
    BY <1>1
  <2> QED BY <1>12, <2>1 DEF Covers
<1>13. RegionsInv(new, mp)
  BY <1>7, <1>8, <1>9 DEF RegionsInv
<1> QED BY <1>10, <1>11, <1>12, <1>13 DEF WindowAdded

\* A region that the window touches is extended; what is added is still pending.
LEMMA ExtensionKeeps ==
  ASSUME NEW old, NEW mp \in Nat \ {0}, NEW settled, NEW offset \in Offsets,
         RegionsInv(old, mp), Scanned(old, mp, settled),
         NEW i \in 1 .. Len(old),
         old[i].start <= WindowStart(offset), WindowStart(offset) <= old[i].end
  PROVE  WindowAdded(old, [old EXCEPT ![i].end = Max({@, WindowEnd(offset)})], mp, settled, offset)
<1> DEFINE size == Len(old)
           to == WindowEnd(offset)
           new == [old EXCEPT ![i].end = Max({@, to})]
           r == old[i]
<1>1. /\ size \in Nat /\ old \in Seq(Region)
      /\ \A j \in 1 .. size : RegionOK(old[j], mp) /\ FromWindow(old, j) /\ old[j] \in Region
      /\ \A j, k \in 1 .. size : j < k => old[j].start < old[k].start
  BY DEF RegionsInv
<1>2. /\ r.start \in Nat /\ r.end \in Nat /\ r.cur \in Nat /\ r.cur_progress \in Nat
      /\ r = [start |-> r.start, end |-> r.end, cur |-> r.cur, cur_progress |-> r.cur_progress]
  BY <1>1 DEF Region
<1>3. /\ WindowStart(offset) \in Nat /\ to \in Nat /\ to <= MaxOffset + BytesNext
      /\ MaxOffset + BytesNext \in Nat
  BY Windows, Constants
<1> DEFINE last == IF r.end <= to THEN to ELSE r.end
<1>4. last \in Nat /\ last >= r.end /\ last >= to /\ Max({r.end, to}) = last
  <2> HIDE DEF r, to
  <2>1. r.end \in Int /\ to \in Int
    BY <1>2, <1>3
  <2>2. Max({r.end, to}) = last
    BY <2>1, MinMax
  <2> QED BY <1>2, <1>3, <2>2
<1>5. /\ new \in Seq(Region) /\ Len(new) = size
      /\ \A j \in 1 .. size : j # i => new[j] = old[j]
      /\ new[i] = [start |-> r.start, end |-> last, cur |-> r.cur, cur_progress |-> r.cur_progress]
  <2>1. [r EXCEPT !.end = Max({@, to})] = [r EXCEPT !.end = last]
    BY <1>2, <1>4
  <2>2. new = [old EXCEPT ![i] = [r EXCEPT !.end = last]]
    BY <1>1, <2>1
  <2>3. [r EXCEPT !.end = last]
          = [start |-> r.start, end |-> last, cur |-> r.cur, cur_progress |-> r.cur_progress]
    BY <1>2
  <2>4. [r EXCEPT !.end = last] \in Region
    BY <1>2, <1>4, <2>3 DEF Region
  <2> HIDE DEF new, r, last
  <2> QED BY <1>1, <2>2, <2>3, <2>4
<1> HIDE DEF new, last
<1>6. RegionOK(new[i], mp)
  <2>1. RegionOK(r, mp)
    BY <1>1
  <2>2. last <= MaxOffset + BytesNext
    BY <1>2, <1>3, <2>1 DEF RegionOK, last
  <2> QED BY <1>2, <1>3, <1>4, <1>5, <2>1, <2>2 DEF RegionOK
<1>7. ASSUME NEW j \in 1 .. size
      PROVE  /\ new[j] \in Region /\ RegionOK(new[j], mp)
             /\ new[j].start = old[j].start /\ new[j].end >= old[j].end
             /\ new[j].end \in Nat /\ old[j].end \in Nat /\ old[j].start \in Nat
  <2>1. new[j] \in Region /\ old[j] \in Region
    BY <1>1, <1>5
  <2>2. new[j].end \in Nat /\ old[j].end \in Nat /\ old[j].start \in Nat
    BY <2>1 DEF Region
  <2> QED BY <1>1, <1>4, <1>5, <1>6, <2>1, <2>2
<1>8. ASSUME NEW j \in 1 .. size PROVE FromWindow(new, j)
  <2>1. PICK o \in Offsets :
          /\ old[j].start = WindowStart(o)
          /\ old[j].end >= WindowEnd(o) \/ (j < size /\ old[j].end >= old[j + 1].start)
    BY <1>1 DEF FromWindow
  <2>2. j < size => j + 1 \in 1 .. size
    BY <1>1
  <2>3. WindowEnd(o) \in Nat
    BY Windows
  <2> QED BY <1>5, <1>7, <2>1, <2>2, <2>3 DEF FromWindow
<1>9. Scanned(new, mp, settled)
  <2> SUFFICES ASSUME NEW k \in 1 .. size, NEW pos \in new[k].start .. new[k].end - 1,
                      NEW v \in 0 .. mp - 1
               PROVE  Pending(new[k], pos, v) \/ << pos, v >> \in settled
    BY <1>5 DEF Scanned
  <2>0. pos \in Nat
    BY <1>7
  <2>1. CASE k = i /\ pos < r.end
    <3>1. pos \in r.start .. r.end - 1
      BY <1>2, <1>5, <2>0, <2>1
    <3>2. Pending(r, pos, v) \/ << pos, v >> \in settled
      BY <3>1 DEF Scanned
    <3> QED BY <1>5, <2>1, <3>2 DEF Pending
  <2>2. CASE k = i /\ ~ (pos < r.end)
    <3>1. RegionOK(r, mp)
      BY <1>1
    <3> QED BY <1>2, <1>5, <2>0, <2>2, <3>1 DEF Pending, RegionOK
  <2>3. CASE k # i
    BY <1>5, <2>3 DEF Scanned
  <2> QED BY <2>1, <2>2, <2>3
<1>10. Covers(new, offset)
  <2> SUFFICES ASSUME NEW pos \in WindowStart(offset) .. to - 1
               PROVE  new[i].start <= pos /\ pos < new[i].end
    BY <1>5 DEF Covers
  <2> QED BY <1>2, <1>3, <1>4, <1>5
<1>11. ASSUME NEW o, Covers(old, o) PROVE Covers(new, o)
  <2> SUFFICES ASSUME NEW pos \in WindowStart(o) .. WindowEnd(o) - 1
               PROVE  \E k \in 1 .. size : new[k].start <= pos /\ pos < new[k].end
    BY <1>5 DEF Covers
  <2>1. PICK k \in 1 .. size : old[k].start <= pos /\ pos < old[k].end
    BY <1>11 DEF Covers
  <2> QED BY <1>7, <2>1
<1>12. RegionsInv(new, mp)
  BY <1>1, <1>5, <1>7, <1>8 DEF RegionsInv
<1> QED BY <1>9, <1>10, <1>11, <1>12 DEF WindowAdded, new

\* AddHotOffset finds the place of the window among the regions.
LEMMA WindowPlace ==
  ASSUME NEW regions \in Seq(Region), NEW offset \in Offsets
  PROVE  LET from == WindowStart(offset)
             to == WindowEnd(offset)
             stops(i) == from <= regions[i].end \/ from < regions[i].start
         IN \/ /\ \A i \in 1 .. Len(regions) : ~stops(i)
               /\ WithWindow(regions, offset) = Append(regions, NewRegion(from, to))
            \/ \E i \in 1 .. Len(regions) :
                 /\ stops(i) /\ \A j \in 1 .. i - 1 : ~stops(j)
                 /\ WithWindow(regions, offset) =
                      IF from < regions[i].start
                        THEN InsertAt(regions, i, NewRegion(from, Min({to, regions[i].start})))
                        ELSE [regions EXCEPT ![i].end = Max({@, to})]
<1> DEFINE from == WindowStart(offset)
           to == WindowEnd(offset)
           stops(i) == from <= regions[i].end \/ from < regions[i].start
           First(i) == stops(i) /\ \A j \in 1 .. i - 1 : ~stops(j)
           i0 == CHOOSE i \in 1 .. Len(regions) : First(i)
           T == { i \in 1 .. Len(regions) : stops(i) }
<1>1. CASE \A i \in 1 .. Len(regions) : ~stops(i)
  BY <1>1 DEF WithWindow
<1>2. CASE ~ \A i \in 1 .. Len(regions) : ~stops(i)
  <2>1. T # {} /\ T \subseteq Nat
    BY <1>2
  <2>2. PICK i \in T : \A j \in T : i <= j
    BY <2>1, LeastNatural
  <2>3. i \in 1 .. Len(regions) /\ First(i)
    BY <2>2
  <2>4. i0 \in 1 .. Len(regions) /\ First(i0)
    <3> HIDE DEF First
    <3> QED BY <2>3, Zenon
  <2>5. WithWindow(regions, offset) =
          IF from < regions[i0].start
            THEN InsertAt(regions, i0, NewRegion(from, Min({to, regions[i0].start})))
            ELSE [regions EXCEPT ![i0].end = Max({@, to})]
    BY <1>2, Zenon DEF WithWindow
  <2> HIDE DEF i0
  <2> QED BY <2>4, <2>5
<1> QED BY <1>1, <1>2

\* The regions with one more at the i-th place.
LEMMA InsertAtFacts ==
  ASSUME NEW s \in Seq(Region), NEW i \in 1 .. Len(s), NEW e \in Region
  PROVE  /\ InsertAt(s, i, e) \in Seq(Region) /\ Len(InsertAt(s, i, e)) = Len(s) + 1
         /\ \A j \in 1 .. Len(s) : j < i => InsertAt(s, i, e)[j] = s[j]
         /\ InsertAt(s, i, e)[i] = e
         /\ \A j \in 1 .. Len(s) : j >= i => InsertAt(s, i, e)[j + 1] = s[j]
  BY DEF InsertAt

\* AddHotOffset covers the new window, and every value of its bytes is settled or
\* pending, also of those in regions the scan has been through.
LEMMA WithWindowKeeps ==
  ASSUME NEW old, NEW mp \in Nat \ {0}, NEW settled, NEW offset \in Offsets,
         RegionsInv(old, mp), Scanned(old, mp, settled)
  PROVE  WindowAdded(old, WithWindow(old, offset), mp, settled, offset)
<1> DEFINE from == WindowStart(offset)
           to == WindowEnd(offset)
           stops(i) == from <= old[i].end \/ from < old[i].start
           new == WithWindow(old, offset)
<1>1. old \in Seq(Region) /\ Len(old) \in Nat
  BY DEF RegionsInv
<1>2. from \in Nat /\ to \in Nat /\ from < to
  BY Windows
<1>3. \A j \in 1 .. Len(old) : old[j].start \in Nat /\ old[j].end \in Nat
  <2>1. \A j \in 1 .. Len(old) : old[j] \in Region
    BY <1>1
  <2> QED BY <2>1 DEF Region
<1>4. \A j \in 1 .. Len(old) : ~stops(j) => old[j].end < from
  BY <1>2, <1>3
<1>5. CASE /\ \A i \in 1 .. Len(old) : ~stops(i)
           /\ new = Append(old, NewRegion(from, to))
  <2>1. NewRegion(from, to) \in Region
    BY <1>2 DEF NewRegion, Region
  <2>2. /\ new \in Seq(Region) /\ Len(new) = Len(old) + 1
        /\ \A j \in 1 .. Len(old) : new[j] = old[j]
        /\ new[Len(old) + 1] = NewRegion(from, to)
    <3> DEFINE r == NewRegion(from, to)
    <3> HIDE DEF r
    <3>1. r \in Region /\ new = Append(old, r)
      BY <1>5, <2>1 DEF r
    <3> HIDE DEF new
    <3> QED BY <1>1, <3>1 DEF r
  <2>3. \A j \in 1 .. Len(old) : old[j].end < from
    BY <1>4, <1>5
  <2> DEFINE i == Len(old) + 1
  <2>4. i \in 1 .. Len(old) + 1 /\ ~ (i <= Len(old)) /\ \A j \in 1 .. Len(old) : ~ (j >= i)
    BY <1>1
  <2> HIDE DEF new, i
  <2>5. new[i] = NewRegion(from, to)
    BY <2>2 DEF i
  <2> QED BY <1>2, <2>2, <2>3, <2>4, <2>5, NewRegionKeeps, SMTT(30) DEF new
<1>6. ASSUME NEW i \in 1 .. Len(old), stops(i), \A j \in 1 .. i - 1 : ~stops(j),
             from < old[i].start,
             new = InsertAt(old, i, NewRegion(from, Min({to, old[i].start})))
      PROVE  WindowAdded(old, new, mp, settled, offset)
  <2> DEFINE end == Min({to, old[i].start})
             r == NewRegion(from, end)
  <2>1. end \in Nat /\ from < end /\ end <= to /\ end <= old[i].start
        /\ (end = to \/ end = old[i].start)
    <3>1. old[i].start \in Int /\ to \in Int
      BY <1>2, <1>3
    <3>2. end = IF to <= old[i].start THEN to ELSE old[i].start
      BY <3>1, MinMax
    <3> HIDE DEF end, to, from
    <3> QED BY <1>2, <1>3, <1>6, <3>2
  <2>2. r \in Region
    BY <1>2, <2>1 DEF NewRegion, Region
  <2>3. /\ new \in Seq(Region) /\ Len(new) = Len(old) + 1
        /\ \A j \in 1 .. Len(old) : j < i => new[j] = old[j]
        /\ new[i] = r
        /\ \A j \in 1 .. Len(old) : j >= i => new[j + 1] = old[j]
    <3> HIDE DEF r
    <3>1. new = InsertAt(old, i, r)
      BY <1>6 DEF r
    <3> HIDE DEF new
    <3>2. /\ InsertAt(old, i, r) \in Seq(Region) /\ Len(InsertAt(old, i, r)) = Len(old) + 1
          /\ \A j \in 1 .. Len(old) : j < i => InsertAt(old, i, r)[j] = old[j]
          /\ InsertAt(old, i, r)[i] = r
          /\ \A j \in 1 .. Len(old) : j >= i => InsertAt(old, i, r)[j + 1] = old[j]
      <4>1. old \in Seq(Region) /\ r \in Region /\ i \in 1 .. Len(old)
        BY <1>1, <2>2
      <4> HIDE DEF stops, from, to
      <4> QED BY <4>1, InsertAtFacts, Zenon
    <3> QED BY <3>1, <3>2
  <2>4. \A j \in 1 .. Len(old) : j < i => old[j].end < from
    BY <1>4, <1>6
  <2>5. i \in 1 .. Len(old) + 1
    BY <1>1
  <2>6. /\ from < old[i].start /\ new[i] = NewRegion(from, end)
        /\ RegionsInv(old, mp) /\ Scanned(old, mp, settled)
    BY <1>6, <2>3
  <2> HIDE DEF new, end, stops, r
  <2> QED BY <2>1, <2>3, <2>4, <2>5, <2>6, NewRegionKeeps
<1>7. ASSUME NEW i \in 1 .. Len(old), stops(i), ~ (from < old[i].start),
             new = [old EXCEPT ![i].end = Max({@, to})]
      PROVE  WindowAdded(old, new, mp, settled, offset)
  <2>1. old[i].start <= from /\ from <= old[i].end
    BY <1>2, <1>3, <1>7
  <2>2. WindowAdded(old, [old EXCEPT ![i].end = Max({@, to})], mp, settled, offset)
    BY <2>1, ExtensionKeeps
  <2> HIDE DEF new, stops
  <2> QED BY <1>7, <2>2
<1> QED BY <1>1, <1>5, <1>6, <1>7, WindowPlace

\* AddHotOffset of one mutator restarts its scan without losing what it settled.
LEMMA RescannedKeeps ==
  ASSUME NEW child, NEW mp \in Nat \ {0}, NEW settled, NEW offset \in Offsets,
         ChildInv(child, mp, settled)
  PROVE  LET after == Rescanned(child, offset) IN
         /\ ChildInv(after, mp, settled)
         /\ Covers(after.regions, offset)
         /\ \A o : Covers(child.regions, o) => Covers(after.regions, o)
<1> DEFINE new == WithWindow(child.regions, offset)
<1>1. WindowAdded(child.regions, new, mp, settled, offset)
  BY WithWindowKeeps DEF ChildInv
<1>2. Rescanned(child, offset) = [regions |-> new, cur_region |-> 1]
  BY DEF Rescanned
<1> HIDE DEF new
<1>3. new \in Seq(Region) /\ Len(new) \in Nat
  BY <1>1 DEF WindowAdded, RegionsInv
<1>4. DoneBefore(new, mp, 1)
  BY <1>3 DEF DoneBefore
<1> QED BY <1>1, <1>2, <1>3, <1>4 DEF WindowAdded, ChildInv, Child

\* What was settled remains so.
LEMMA MoreSettled ==
  ASSUME NEW child, NEW mp, NEW settled, NEW also, settled \subseteq also,
         ChildInv(child, mp, settled)
  PROVE  ChildInv(child, mp, also)
BY DEF ChildInv, Scanned
-----------------------------------------------------------------------------
(* MutatorSequence.                                                        *)

\* Current is the first mutator from the index on that has a byte left, or 3.
LEMMA CurrentFacts ==
  ASSUME NEW c \in Context
  PROVE  LET x == Current(c) IN
         /\ x \in c.current_mutator_index .. 3 /\ x \in 1 .. 3
         /\ x = 3 \/ HasByte(c.children[x], MaxProgress(x))
         /\ \A k \in c.current_mutator_index .. x - 1 : ~HasByte(c.children[k], MaxProgress(k))
<1> DEFINE from == c.current_mutator_index
           has(k) == HasByte(c.children[k], MaxProgress(k))
           T == { k \in from .. 3 : k = 3 \/ has(k) }
<1>1. from \in 1 .. 3
  BY DEF Context
<1>2. T # {} /\ T \subseteq Nat
  BY <1>1
<1>3. PICK x \in T : \A k \in T : x <= k
  BY <1>2, LeastNatural
<1> HIDE DEF from
<1>4. \A k \in from .. x - 1 : ~has(k)
  BY <1>1, <1>3
<1>5. \E j \in from .. 3 : (j = 3 \/ has(j)) /\ \A k \in from .. j - 1 : ~has(k)
  BY <1>3, <1>4
<1>6. /\ Current(c) \in from .. 3
      /\ Current(c) = 3 \/ has(Current(c))
      /\ \A k \in from .. Current(c) - 1 : ~has(k)
  BY <1>5, Zenon DEF Current, from
<1>7. Current(c) \in 1 .. 3
  BY <1>1, <1>6
<1> QED BY <1>6, <1>7 DEF from

\* A call of Mutate settles what it returns, and passes by mutators that are done.
LEMMA AfterMutateKeeps ==
  ASSUME NEW c \in Context, NEW settled, NEW also, NEW offsets,
         \A m \in 1 .. 2 : MutatorInv(c, m, settled[m], offsets) /\ settled[m] \subseteq also[m],
         LET x == Current(c)
             byte == NextByte(c.children[x], MaxProgress(x))
         IN x # 3 => << byte.pos, byte.value >> \in also[x]
  PROVE  /\ AfterMutate(c) \in Context
         /\ AfterMutate(c).current_mutator_index = Current(c)
         /\ \A m \in 1 .. 2 : MutatorInv(AfterMutate(c), m, also[m], offsets)
<1> DEFINE x == Current(c)
           from == c.current_mutator_index
           old(m) == c.children[m]
           after == AfterMutate(c)
           new(m) == after.children[m]
<1>1. /\ x \in from .. 3 /\ x \in 1 .. 3 /\ from \in 1 .. 3
      /\ x = 3 \/ HasByte(old(x), MaxProgress(x))
      /\ \A k \in from .. x - 1 : ~HasByte(old(k), MaxProgress(k))
  BY CurrentFacts DEF Context
<1>2. /\ after = [current_mutator_index |-> x, children |-> after.children]
      /\ after.current_mutator_index = x
      /\ after.children = [m \in 1 .. 2 |-> IF m \in from .. x THEN AfterByte(old(m), MaxProgress(m))
                                                            ELSE old(m)]
  BY DEF AfterMutate, AfterChildren
<1> HIDE DEF x, after, from
<1>3. ASSUME NEW m \in 1 .. 2
      PROVE  /\ ChildInv(new(m), MaxProgress(m), also[m])
             /\ m < x => DoneBefore(new(m).regions, MaxProgress(m), Len(new(m).regions) + 1)
             /\ \A o : Covers(old(m).regions, o) => Covers(new(m).regions, o)
  <2>0. /\ MaxProgress(m) \in Nat \ {0} /\ ChildInv(old(m), MaxProgress(m), settled[m])
        /\ settled[m] \subseteq also[m]
        /\ m < from => DoneBefore(old(m).regions, MaxProgress(m), Len(old(m).regions) + 1)
    BY Constants DEF MutatorInv, from
  <2>1. CASE m \in from .. x
    <3>1. new(m) = AfterByte(old(m), MaxProgress(m))
      BY <1>2, <2>1
    <3>2. HasByte(old(m), MaxProgress(m)) =>
            << NextByte(old(m), MaxProgress(m)).pos, NextByte(old(m), MaxProgress(m)).value >> \in also[m]
      <4>1. HasByte(old(m), MaxProgress(m)) => m = x
        BY <1>1, <2>1
      <4> QED BY <4>1 DEF x
    <3>3. /\ ChildInv(new(m), MaxProgress(m), also[m])
          /\ ~HasByte(old(m), MaxProgress(m)) =>
               DoneBefore(new(m).regions, MaxProgress(m), Len(new(m).regions) + 1)
          /\ \A o : Covers(old(m).regions, o) => Covers(new(m).regions, o)
      BY <2>0, <3>1, <3>2, AfterByteKeeps
    <3>4. m < x => ~HasByte(old(m), MaxProgress(m))
      BY <1>1, <2>1
    <3> QED BY <3>3, <3>4
  <2>2. CASE m \notin from .. x
    <3>1. new(m) = old(m)
      BY <1>2, <2>2
    <3>2. m < x => m < from
      BY <1>1, <2>2
    <3> QED BY <2>0, <3>1, <3>2, MoreSettled
  <2> QED BY <2>1, <2>2
<1>4. after \in Context
  <2>1. \A m \in 1 .. 2 : new(m) \in Child
    BY <1>3 DEF ChildInv
  <2>2. after.children \in [1 .. 2 -> Child]
    BY <1>2, <2>1
  <2> QED BY <1>1, <1>2, <2>2 DEF Context
<1>5. \A m \in 1 .. 2 : MutatorInv(after, m, also[m], offsets)
  BY <1>2, <1>3 DEF MutatorInv
<1> QED BY <1>2, <1>4, <1>5 DEF after, x

\* AddHotOffset of the sequence: every mutator gets the window, and all start over.
LEMMA WithHotOffsetKeeps ==
  ASSUME options # "nondeterministic",
         NEW c \in Context, NEW settled, NEW offsets, NEW offset \in Offsets,
         \A m \in 1 .. 2 : MutatorInv(c, m, settled[m], offsets)
  PROVE  /\ WithHotOffset(c, offset) \in Context
         /\ \A m \in 1 .. 2 :
              MutatorInv(WithHotOffset(c, offset), m, settled[m], offsets \cup {offset})
<1> DEFINE after == WithHotOffset(c, offset)
           new(m) == Rescanned(c.children[m], offset)
<1>1. after = [current_mutator_index |-> 1, children |-> [m \in 1 .. 2 |-> new(m)]]
  BY DEF WithHotOffset, RestartedIndex
<1> HIDE DEF after
<1>2. ASSUME NEW m \in 1 .. 2
      PROVE  /\ ChildInv(new(m), MaxProgress(m), settled[m])
             /\ Covers(new(m).regions, offset)
             /\ \A o : Covers(c.children[m].regions, o) => Covers(new(m).regions, o)
  <2>1. MaxProgress(m) \in Nat \ {0} /\ ChildInv(c.children[m], MaxProgress(m), settled[m])
    BY Constants DEF MutatorInv
  <2> QED BY <2>1, RescannedKeeps
<1>3. after.current_mutator_index = 1 /\ \A m \in 1 .. 2 : after.children[m] = new(m)
  BY <1>1
<1>4. \A m \in 1 .. 2 : MutatorInv(after, m, settled[m], offsets \cup {offset})
  BY <1>2, <1>3 DEF MutatorInv
<1>5. after \in Context
  <2>1. \A m \in 1 .. 2 : new(m) \in Child
    BY <1>2 DEF ChildInv
  <2> HIDE DEF new
  <2> QED BY <1>1, <2>1 DEF Context
<1> QED BY <1>4, <1>5 DEF after

\* The context of a new entry.
LEMMA NewContext ==
  ASSUME NEW settled, NEW offset \in Offsets
  PROVE  /\ NoContext \in Context
         /\ \A m \in 1 .. 2 : MutatorInv(NoContext, m, settled[m], {})
         /\ WithHotOffset(NoContext, offset) \in Context
         /\ \A m \in 1 .. 2 : MutatorInv(WithHotOffset(NoContext, offset), m, settled[m],
                                IF options = "nondeterministic" THEN {} ELSE {offset})
<1> DEFINE none == [regions |-> << >>, cur_region |-> 1]
<1>1. << >> \in Seq(Region) /\ Len(<< >>) = 0
  OBVIOUS
<1>2. none \in Child
  BY <1>1 DEF Child
<1>3. NoContext.current_mutator_index = 1 /\ \A m \in 1 .. 2 : NoContext.children[m] = none
  BY DEF NoContext
<1>4. NoContext \in Context
  BY <1>2 DEF NoContext, Context
<1>5. ASSUME NEW mp, NEW s PROVE ChildInv(none, mp, s)
  BY <1>1, <1>2 DEF ChildInv, RegionsInv, DoneBefore, Scanned
<1> HIDE DEF none
<1>6. \A m \in 1 .. 2 : MutatorInv(NoContext, m, settled[m], {})
  BY <1>3, <1>5 DEF MutatorInv
<1>7. CASE options = "nondeterministic"
  BY <1>4, <1>6, <1>7 DEF WithHotOffset
<1>8. CASE options # "nondeterministic"
  <2>1. {} \cup {offset} = {offset}
    OBVIOUS
  <2> QED BY <1>4, <1>6, <1>8, <2>1, WithHotOffsetKeeps
<1> QED BY <1>4, <1>6, <1>7, <1>8
-----------------------------------------------------------------------------
(* Every step keeps the invariant.                                        *)

\* The rounds of a job are shared by the two kinds of mutation.
LEMMA Rounds ==
  ASSUME options \in Options
  PROVE  /\ DeterministicRounds \in 0 .. IterationsPerRound
         /\ NondeterministicRounds \in 0 .. IterationsPerRound
         /\ DeterministicRounds + NondeterministicRounds = IterationsPerRound
<1>1. IterationsPerRound \in Nat
  BY Constants
<1>2. IterationsPerRound \div 2 \in 0 .. IterationsPerRound
  BY <1>1
<1>3. DeterministicRounds \in 0 .. IterationsPerRound
  BY <1>1, <1>2 DEF DeterministicRounds, Options
<1> QED BY <1>1, <1>3 DEF NondeterministicRounds

\* The same of a mutator of a sequence.
LEMMA MutatorMoreSettled ==
  ASSUME NEW c, NEW m, NEW settled, NEW also, settled \subseteq also, NEW offsets,
         MutatorInv(c, m, settled, offsets)
  PROVE  MutatorInv(c, m, also, offsets)
BY MoreSettled DEF MutatorInv

\* A queue that is not empty has an entry to be taken.
LEMMA TopInQueue ==
  ASSUME Types, queue # {}
  PROVE  Top \in queue
<1> DEFINE size == Len(priority)
           best(k, e) == e \in queue /\ e <= k /\ \A f \in queue : f <= k => f = e \/ Before(f, e)
           some(k) == \E f \in queue : f <= k
           T == { k \in 0 .. size : some(k) /\ ~ \E e \in queue : best(k, e) }
<1>1. /\ size \in Nat /\ queue \subseteq 1 .. size
      /\ \A e \in 1 .. size : priority[e] \in Int
  BY DEF Types, Entries
<1>2. T = {}
  <2>1. SUFFICES ASSUME T # {} PROVE FALSE
    OBVIOUS
  <2>2. T \subseteq Nat
    BY <1>1
  <2> HIDE DEF T
  <2>3. PICK k \in T : \A j \in T : k <= j
    BY <2>1, <2>2, LeastNatural
  <2> USE DEF T
  <2>4. /\ k \in 0 .. size /\ some(k)
        /\ ~ \E e \in queue : best(k, e)
    BY <2>3
  <2>5. k \in 1 .. size /\ k - 1 \in 0 .. size /\ k - 1 \notin T
    <3>1. k # 0
      BY <1>1, <2>4
    <3>2. \A j \in T : k <= j
      BY <2>3
    <3> HIDE DEF T
    <3>3. k \in Nat /\ k - 1 \notin T
      BY <1>1, <2>4, <3>2
    <3> QED BY <1>1, <2>4, <3>1, <3>3
  <2> HIDE DEF T
  <2>6. CASE ~some(k - 1)
    <3>1. k \in queue /\ \A f \in queue : f <= k => f = k
      BY <1>1, <2>4, <2>5, <2>6
    <3> QED BY <2>4, <2>5, <3>1
  <2>7. CASE some(k - 1)
    <3>1. PICK e \in queue : best(k - 1, e)
      BY <2>5, <2>7 DEF T
    <3>2. e \in 1 .. size /\ e < k /\ \A f \in queue : f <= k => f <= k - 1 \/ f = k
      BY <1>1, <2>5, <3>1
    <3>3. CASE k \notin queue
      BY <2>4, <2>5, <3>1, <3>2, <3>3
    <3>4. CASE k \in queue /\ Before(k, e)
      BY <2>4, <2>5, <3>1, <3>2, <3>4
    <3>5. CASE k \in queue /\ ~Before(k, e)
      <4>1. Before(e, k)
        <5>1. priority[e] \in Int /\ priority[k] \in Int
          BY <1>1, <2>5, <3>2
        <5>2. e < k /\ e \in Int /\ k \in Int
          BY <1>1, <2>5, <3>2
        <5> QED BY <3>5, <5>1, <5>2 DEF Before
      <4>2. ASSUME NEW f \in queue, f <= k PROVE f = k \/ Before(f, k)
        <5>1. f \in 1 .. size
          BY <1>1
        <5>2. f = k \/ f = e \/ Before(f, e)
          BY <3>1, <3>2, <4>2
        <5>3. /\ priority[e] \in Int /\ priority[k] \in Int /\ priority[f] \in Int
              /\ e \in Int /\ k \in Int /\ f \in Int
          BY <1>1, <2>5, <3>2, <5>1
        <5> QED BY <4>1, <5>2, <5>3 DEF Before
      <4> QED BY <2>4, <2>5, <3>5, <4>2
    <3> QED BY <3>3, <3>4, <3>5
  <2> QED BY <2>6, <2>7
<1>3. \A f \in queue : f <= size
  BY <1>1
<1>4. \E e \in queue : \A f \in queue : f = e \/ Before(f, e)
  <2>1. size \in 0 .. size /\ some(size)
    <3>1. \E f \in queue : f <= size
      BY <1>3
    <3> QED BY <1>1, <3>1
  <2>2. PICK e \in queue : best(size, e)
    <3>1. size \notin T
      BY <1>2
    <3> HIDE DEF best, some
    <3> QED BY <2>1, <3>1
  <2> QED BY <1>3, <2>2
<1> QED BY <1>4, Zenon DEF Top

\* The byte GetNextByteToMutate returns.
LEMMA NextByteType ==
  ASSUME NEW child, NEW mp \in Nat \ {0}, NEW settled, ChildInv(child, mp, settled),
         HasByte(child, mp)
  PROVE  NextByte(child, mp).pos \in Nat /\ NextByte(child, mp).value \in Nat
<1> DEFINE n == NextRegion(child, mp)
           r == child.regions[n]
<1>1. n \in 1 .. Len(child.regions)
  <2>1. /\ Len(child.regions) \in Nat /\ child.cur_region \in 1 .. Len(child.regions) + 1
        /\ child \in Child
    BY DEF ChildInv, RegionsInv
  <2>2. n \in child.cur_region .. Len(child.regions) + 1
    BY <2>1, NextRegionFacts
  <2> QED BY <2>1, <2>2 DEF HasByte
<1>2. r \in Region /\ RegionOK(r, mp)
  BY <1>1 DEF ChildInv, RegionsInv
<1>3. Advance(r, mp) \in Region
  BY <1>2, AdvanceFacts
<1> QED BY <1>3 DEF NextByte, Region

\* A step that leaves contexts and hot offsets alone.
LEMMA ContextsStay ==
  ASSUME ContextsInv, UNCHANGED << options, context, hot, tried >>,
         Len(priority') = Len(priority),
         pc # "run" \/ UNCHANGED << pc, entry, written >>
  PROVE  ContextsInv'
<1>1. Entries' = Entries
  BY DEF Entries
<1>2. ASSUME NEW e \in Entries, NEW m \in 1 .. 2
      PROVE  Settled(e, m) \subseteq Settled(e, m)' /\ HotOffsets(e)' = HotOffsets(e)
  BY DEF Settled, IsSettled, HotOffsets, Mutation, SizeAfter
<1>3. ASSUME NEW e \in Entries, NEW m \in 1 .. 2
      PROVE  MutatorInv(context'[e], m, Settled(e, m)', HotOffsets(e)')
  <2>1. MutatorInv(context[e], m, Settled(e, m), HotOffsets(e))
    BY DEF ContextsInv
  <2> QED BY <1>2, <2>1, MutatorMoreSettled
<1> QED BY <1>1, <1>3 DEF ContextsInv

\* A step of Mutate, which changes the context of the entry only.
LEMMA MutateKeepsContexts ==
  ASSUME Types, ContextsInv, pc = "mutate", NEW n, n = entry,
         UNCHANGED << options, hot, tried, priority >>,
         context' \in {context, [context EXCEPT ![n] = AfterMutate(context[n])]},
         context' # context => 
           \A x \in 1 .. 2 : x = Current(context[n]) =>
             LET byte == NextByte(context[n].children[x], MaxProgress(x))
             IN << byte.pos, byte.value >> \in Settled(n, x)'
  PROVE  ContextsInv' /\ context' \in Seq(Context) /\ Len(context') = Len(context)
<1> DEFINE c == context[n]
           settled == [m \in 1 .. 2 |-> Settled(n, m)]
           also == [m \in 1 .. 2 |-> Settled(n, m)']
<1>1. n \in Entries /\ n \in 1 .. Len(context) /\ c \in Context
  BY DEF Types, Entries
<1>2. \A e \in Entries, m \in 1 .. 2 :
        Settled(e, m) \subseteq Settled(e, m)' /\ HotOffsets(e)' = HotOffsets(e)
  BY DEF Settled, IsSettled, HotOffsets, Mutation, SizeAfter
<1>3. \A e \in Entries, m \in 1 .. 2 : MutatorInv(context[e], m, Settled(e, m), HotOffsets(e))
  BY DEF ContextsInv
<1>4. Entries' = Entries
  BY DEF Entries
<1>5. CASE context' = context
  <2>1. \A e \in Entries, m \in 1 .. 2 : MutatorInv(context'[e], m, Settled(e, m)', HotOffsets(e)')
    BY <1>2, <1>3, <1>5, MutatorMoreSettled
  <2> QED BY <1>4, <1>5, <2>1 DEF ContextsInv, Types
<1>6. CASE context' # context
  <2> DEFINE after == AfterMutate(c)
  <2>1. context' = [context EXCEPT ![n] = after]
    BY <1>6
  <2>2. \A m \in 1 .. 2 : MutatorInv(c, m, settled[m], HotOffsets(n)) /\ settled[m] \subseteq also[m]
    <3>1. \A m \in 1 .. 2 : MutatorInv(context[n], m, Settled(n, m), HotOffsets(n))
      BY <1>1, <1>3
    <3>2. \A m \in 1 .. 2 : Settled(n, m) \subseteq Settled(n, m)'
      BY <1>1, <1>2
    <3>3. \A m \in 1 .. 2 : settled[m] = Settled(n, m) /\ also[m] = Settled(n, m)'
      OBVIOUS
    <3> HIDE DEF settled, also
    <3> QED BY <3>1, <3>2, <3>3
  <2>3. LET x == Current(c)
            byte == NextByte(c.children[x], MaxProgress(x))
        IN x # 3 => << byte.pos, byte.value >> \in also[x]
    <3>1. Current(c) \in 1 .. 3
      BY <1>1, CurrentFacts
    <3>2. \A x \in 1 .. 3 : x # 3 => also[x] = Settled(n, x)'
      OBVIOUS
    <3>3. \A x \in 1 .. 2 : x = Current(c) =>
            LET byte == NextByte(c.children[x], MaxProgress(x))
            IN << byte.pos, byte.value >> \in also[x]
      BY <1>6, <3>2
    <3> HIDE DEF also, c
    <3> QED BY <3>1, <3>3
  <2> HIDE DEF c
  <2>4. after \in Context /\ \A m \in 1 .. 2 : MutatorInv(after, m, also[m], HotOffsets(n))
    <3> HIDE DEF settled, also
    <3> QED BY <1>1, <2>2, <2>3, AfterMutateKeeps
  <2> HIDE DEF after
  <2>5. ASSUME NEW e \in Entries, NEW m \in 1 .. 2
        PROVE  MutatorInv(context'[e], m, Settled(e, m)', HotOffsets(e)')
    <3>1. CASE e = n
      <4>1. context'[e] = after
        BY <1>1, <2>1, <3>1 DEF Types
      <4>2. MutatorInv(after, m, also[m], HotOffsets(n)) /\ also[m] = Settled(n, m)'
        BY <2>4
      <4> HIDE DEF also
      <4> QED BY <1>2, <3>1, <4>1, <4>2
    <3>2. CASE e # n
      <4>1. context'[e] = context[e]
        BY <2>1, <3>2 DEF Types, Entries
      <4> QED BY <1>2, <1>3, <4>1, MutatorMoreSettled
    <3> QED BY <3>1, <3>2
  <2>6. context' \in Seq(Context) /\ Len(context') = Len(context)
    <3>1. context \in Seq(Context) /\ after \in Context
      BY <2>4 DEF Types
    <3> HIDE DEF settled, also
    <3> QED BY <1>1, <2>1, <3>1
  <2> QED BY <1>4, <2>5, <2>6 DEF ContextsInv
<1> QED BY <1>5, <1>6

\* The invariant holds of the first sample, with its first hot offset.
LEMMA InitIInv == ASSUME Init PROVE IInv
<1>1. PICK offset \in FirstOffsets :
        hot = << {offset} >> /\ context = << WithHotOffset(NoContext, offset) >>
  BY DEF Init
<1>2. offset \in Offsets
  BY Constants
<1> DEFINE c == WithHotOffset(NoContext, offset)
           settled == [m \in 1 .. 2 |-> Settled(1, m)]
<1>3. /\ c \in Context
      /\ \A m \in 1 .. 2 : MutatorInv(c, m, settled[m],
                             IF options = "nondeterministic" THEN {} ELSE {offset})
  <2> HIDE DEF settled
  <2> QED BY <1>2, NewContext
<1>4. /\ options \in Options /\ queue = {1} /\ priority = << 0 >> /\ tried = << {} >>
      /\ pc = "get" /\ entry = 0 /\ current_round = 0 /\ written = Nothing /\ diff = NoDiff
      /\ finds = 0 /\ runs = 0
  BY DEF Init
<1> HIDE DEF c
<1>5. context = << c >> /\ hot = << {offset} >>
  BY <1>1 DEF c
<1>6. Entries = {1}
  BY <1>4 DEF Entries
<1>7. Types
  <2>1. Nothing \in Mutations
    BY DEF Nothing, Mutations
  <2>2. context \in Seq(Context) /\ Len(context) = 1
    BY <1>3, <1>5
  <2>3. hot \in Seq(SUBSET Offsets) /\ Len(hot) = 1
    BY <1>2, <1>5
  <2>4. tried \in Seq(SUBSET Mutations) /\ Len(tried) = 1
    BY <1>4
  <2>5. priority \in Seq(Int) /\ Len(priority) = 1
    BY <1>4
  <2> QED BY <1>4, <1>6, <2>1, <2>2, <2>3, <2>4, <2>5, Constants DEF Types
<1>8. ContextsInv
  <2>1. context[1] = c /\ hot[1] = {offset}
    BY <1>5
  <2>2. \A m \in 1 .. 2 : settled[m] = Settled(1, m)
    OBVIOUS
  <2> HIDE DEF settled
  <2> QED BY <1>3, <1>6, <2>1, <2>2 DEF ContextsInv, HotOffsets
<1>9. AuthorIsCurrent
  BY <1>4 DEF AuthorIsCurrent
<1> QED BY <1>7, <1>8, <1>9 DEF IInv

\* A job takes an entry from the queue.
LEMMA TakeJobKeeps == ASSUME IInv, TakeJob PROVE IInv'
<1>1. Types /\ ContextsInv
  BY DEF IInv
<1>2. Top \in queue
  BY <1>1, TopInQueue DEF TakeJob
<1>3. /\ pc = "get" /\ pc' = "mutate" /\ entry' = Top /\ queue' = queue \ {Top} /\ current_round' = 0
      /\ UNCHANGED << options, priority, context, last_mutator, written, diff, hot, tried, finds, runs >>
  BY DEF TakeJob, history
<1>4. Types'
  <2>1. Top # 0 /\ Top \in Entries /\ Entries' = Entries
    BY <1>1, <1>2, <1>3 DEF Types, Entries
  <2> QED BY <1>1, <1>3, <2>1, Constants DEF Types
<1>5. ContextsInv'
  BY <1>1, <1>3, ContextsStay
<1>6. AuthorIsCurrent'
  BY <1>3 DEF AuthorIsCurrent
<1> QED BY <1>4, <1>5, <1>6 DEF IInv

\* A deterministic mutation is about to try the byte it settles.
LEMMA DeterministicMutateKeeps == ASSUME IInv, DeterministicMutate PROVE IInv'
<1> DEFINE c == context[entry]
           x == Current(c)
           byte == NextByte(c.children[x], MaxProgress(x))
<1>1. Types /\ ContextsInv
  BY DEF IInv
<1>2. /\ pc = "mutate" /\ current_round < DeterministicRounds /\ x # 3
      /\ context' = [context EXCEPT ![entry] = AfterMutate(c)]
      /\ written' = [by |-> Children[x], pos |-> byte.pos, value |-> byte.value]
      /\ pc' = IF SizeAfter(x, byte.pos) > MaxSampleSize THEN "mutate" ELSE "run"
      /\ last_mutator' = "deterministic" /\ current_round' = current_round + 1
      /\ UNCHANGED << options, queue, priority, entry, diff, hot, tried, finds, runs >>
  BY DEF DeterministicMutate, history, Exhausted
<1>3. entry \in Entries /\ entry \in 1 .. Len(context) /\ c \in Context
  BY <1>1, <1>2 DEF Types, Entries
<1>4. x \in 1 .. 2 /\ HasByte(c.children[x], MaxProgress(x))
  BY <1>2, <1>3, CurrentFacts
<1>5. byte.pos \in Nat /\ byte.value \in Nat
  <2>1. ChildInv(c.children[x], MaxProgress(x), Settled(entry, x)) /\ MaxProgress(x) \in Nat \ {0}
    BY <1>1, <1>3, <1>4, Constants DEF ContextsInv, MutatorInv
  <2> QED BY <1>4, <2>1, NextByteType
<1> HIDE DEF byte, x
<1>6. PICK n, y : n = entry /\ y = x
  OBVIOUS
<1>7. << byte.pos, byte.value >> \in Settled(n, y)'
  <2>1. PICK pos \in Nat, v \in Nat : pos = byte.pos /\ v = byte.value
    BY <1>5
  <2>2. IsSettled(n, y, pos, v)'
    <3>1. written' = Mutation(y, pos, v)
      BY <1>2, <1>6, <2>1 DEF Mutation
    <3>2. SizeAfter(y, pos) > MaxSampleSize \/ pc' = "run"
      BY <1>2, <1>6, <2>1
    <3> QED BY <1>2, <1>6, <3>1, <3>2 DEF IsSettled
  <2> QED BY <2>1, <2>2 DEF Settled
<1>8. ContextsInv' /\ context' \in Seq(Context) /\ Len(context') = Len(context)
  <2>1. \A z \in 1 .. 2 : z = Current(context[n]) =>
          LET b == NextByte(context[n].children[z], MaxProgress(z))
          IN << b.pos, b.value >> \in Settled(n, z)'
    BY <1>6, <1>7 DEF byte, x
  <2>2. context' = [context EXCEPT ![n] = AfterMutate(context[n])]
    BY <1>2, <1>6
  <2> QED BY <1>1, <1>2, <1>6, <2>1, <2>2, MutateKeepsContexts
<1>9. Types'
  <2>1. written' \in Mutations
    BY <1>2, <1>4, <1>5 DEF Mutations, Children
  <2>2. current_round' \in 0 .. IterationsPerRound
    BY <1>1, <1>2, Rounds, Constants DEF Types
  <2>3. pc' \in {"mutate", "run"} /\ Entries' = Entries
    BY <1>2 DEF Entries
  <2> QED BY <1>1, <1>2, <1>3, <1>8, <2>1, <2>2, <2>3 DEF Types
<1>10. AuthorIsCurrent'
  <2>1. context'[entry].current_mutator_index = x
    <3>1. AfterMutate(c).current_mutator_index = x
      BY DEF AfterMutate, x
    <3>2. context'[entry] = AfterMutate(c)
      BY <1>1, <1>2, <1>3 DEF Types
    <3> QED BY <3>1, <3>2
  <2> QED BY <1>2, <1>4, <2>1 DEF AuthorIsCurrent
<1> QED BY <1>8, <1>9, <1>10 DEF IInv

\* When no byte is left, the deterministic mutators are passed by.
LEMMA AskedKeeps ==
  ASSUME IInv, pc = "mutate", Done(context[entry]),
         context' = [context EXCEPT ![entry] = Asked(@)],
         UNCHANGED << options, hot, tried, priority >>
  PROVE  ContextsInv' /\ context' \in Seq(Context) /\ Len(context') = Len(context)
<1>1. Types /\ ContextsInv
  BY DEF IInv
<1>2. PICK n : n = entry
  OBVIOUS
<1>3. n \in 1 .. Len(context)
  BY <1>1, <1>2 DEF Types, Entries
<1>4. context' \in {context, [context EXCEPT ![n] = AfterMutate(context[n])]}
  <2>1. CASE current_round < DeterministicRounds
    BY <1>2, <2>1 DEF Asked
  <2>2. CASE ~ (current_round < DeterministicRounds)
    BY <1>1, <1>2, <1>3, <2>2 DEF Asked, Types
  <2> QED BY <2>1, <2>2
<1>5. context' # context => Current(context[n]) = 3
  <2>1. CASE current_round < DeterministicRounds
    <3>1. DeterministicRounds \in Int /\ current_round \in Int
      BY <1>1, Rounds, Constants DEF Types
    <3> QED BY <1>2, <2>1, <3>1 DEF Done, Exhausted
  <2>2. CASE ~ (current_round < DeterministicRounds)
    BY <1>1, <1>2, <1>3, <2>2 DEF Asked, Types
  <2> QED BY <2>1, <2>2
<1>6. context' # context =>
        \A x \in 1 .. 2 : x = Current(context[n]) =>
          LET byte == NextByte(context[n].children[x], MaxProgress(x))
          IN << byte.pos, byte.value >> \in Settled(n, x)'
  <2>1. \A x \in 1 .. 2 : x # 3
    OBVIOUS
  <2> QED BY <1>5, <2>1
<1>7. UNCHANGED << options, hot, tried, priority >> /\ pc = "mutate"
  OBVIOUS
<1> QED BY ONLY <1>1, <1>2, <1>4, <1>6, <1>7, MutateKeepsContexts

\* A nondeterministic mutation takes a round.
LEMMA NondeterministicMutateKeeps == ASSUME IInv, NondeterministicMutate PROVE IInv'
<1>1. Types
  BY DEF IInv
<1>2. /\ pc = "mutate" /\ Done(context[entry]) /\ RoundsLeft(current_round)
      /\ context' = [context EXCEPT ![entry] = Asked(@)]
      /\ written' = [Nothing EXCEPT !.by = "repeater"]
      /\ last_mutator' = "nondeterministic" /\ current_round' = current_round + 1 /\ pc' = "run"
      /\ UNCHANGED << options, queue, priority, entry, diff, hot, tried, finds, runs >>
  BY DEF NondeterministicMutate, history
<1>3. ContextsInv' /\ context' \in Seq(Context) /\ Len(context') = Len(context)
  BY <1>2, AskedKeeps
<1>4. written' = [by |-> "repeater", pos |-> 0, value |-> 0]
  BY <1>2 DEF Nothing
<1>5. Types'
  <2>1. written' \in Mutations
    BY <1>4 DEF Mutations
  <2>2. current_round' \in 0 .. IterationsPerRound
    BY <1>1, <1>2, Rounds, Constants DEF Types, RoundsLeft
  <2>3. Entries' = Entries
    BY <1>2 DEF Entries
  <2> QED BY <1>1, <1>2, <1>3, <2>1, <2>2, <2>3 DEF Types
<1>6. AuthorIsCurrent'
  BY <1>2, <1>4 DEF AuthorIsCurrent
<1> QED BY <1>3, <1>5, <1>6 DEF IInv

\* The entry goes back to the queue.
LEMMA RoundEndsKeeps == ASSUME IInv, RoundEnds PROVE IInv'
<1>1. Types
  BY DEF IInv
<1>2. /\ pc = "mutate" /\ Done(context[entry])
      /\ context' = [context EXCEPT ![entry] = Asked(@)]
      /\ queue' = queue \cup {entry} /\ entry' = 0 /\ pc' = "get"
      /\ UNCHANGED << options, priority, current_round, last_mutator, written, diff, hot, tried,
                      finds, runs >>
  BY DEF RoundEnds, history
<1>3. ContextsInv' /\ context' \in Seq(Context) /\ Len(context') = Len(context)
  BY <1>2, AskedKeeps
<1>4. Types'
  <2>1. Entries' = Entries /\ 0 \notin Entries /\ entry \in Entries
    BY <1>1, <1>2 DEF Entries, Types
  <2> QED BY <1>1, <1>2, <1>3, <2>1 DEF Types
<1>5. AuthorIsCurrent'
  BY <1>2 DEF AuthorIsCurrent
<1> QED BY <1>3, <1>4, <1>5 DEF IInv

\* A run tries the mutation, and may add an entry with its first hot offset.
LEMMA RunSampleKeeps == ASSUME IInv, RunSample PROVE IInv'
<1> DEFINE size == Len(priority)
           now_tried == [tried EXCEPT ![entry] = @ \cup {written}]
<1>1. Types /\ ContextsInv /\ AuthorIsCurrent
  BY DEF IInv
<1>2. /\ pc = "run" /\ runs' = runs + 1 /\ pc' = "notify"
      /\ UNCHANGED << options, entry, current_round, last_mutator, written >>
  BY DEF RunSample
<1>3. /\ entry \in 1 .. size /\ size \in Nat /\ Entries = 1 .. size
      /\ Len(context) = size /\ Len(tried) = size /\ Len(hot) = size
      /\ tried \in Seq(SUBSET Mutations) /\ hot \in Seq(SUBSET Offsets)
      /\ context \in Seq(Context) /\ priority \in Seq(Int) /\ queue \subseteq 1 .. size
  BY <1>1, <1>2 DEF Types, Entries
<1>4. /\ now_tried \in Seq(SUBSET Mutations) /\ Len(now_tried) = size
      /\ \A e \in 1 .. size : tried[e] \subseteq now_tried[e]
      /\ written \in now_tried[entry]
  <2>1. written \in Mutations
    BY <1>1 DEF Types
  <2>2. tried[entry] \cup {written} \in SUBSET Mutations
    BY <1>3, <2>1
  <2> QED BY <1>3, <2>2
<1>5. ASSUME \A e \in 1 .. size : now_tried[e] \subseteq tried'[e],
             NEW e \in 1 .. size, NEW m \in 1 .. 2
      PROVE  Settled(e, m) \subseteq Settled(e, m)'
  <2>1. SUFFICES ASSUME NEW pos \in Nat, NEW v \in Nat, IsSettled(e, m, pos, v)
                 PROVE  IsSettled(e, m, pos, v)'
    BY DEF Settled
  <2>2. tried[e] \subseteq tried'[e] /\ (e = entry => written \in tried'[e])
    BY <1>4, <1>5
  <2> HIDE DEF now_tried
  <2> QED BY <2>1, <2>2 DEF IsSettled, Mutation, SizeAfter
<1> HIDE DEF now_tried
<1>6. CASE /\ priority' = [priority EXCEPT ![entry] = @ - 1] /\ tried' = now_tried
           /\ UNCHANGED << queue, context, diff, hot, finds >>
  <2>1. priority' \in Seq(Int) /\ Len(priority') = size
    BY <1>3, <1>6
  <2>2. Entries' = Entries
    BY <2>1 DEF Entries
  <2>3. Types'
    BY <1>1, <1>2, <1>3, <1>4, <1>6, <2>1, <2>2 DEF Types
  <2>4. ContextsInv'
    <3>1. ASSUME NEW e \in Entries, NEW m \in 1 .. 2
          PROVE  MutatorInv(context'[e], m, Settled(e, m)', HotOffsets(e)')
      <4>1. MutatorInv(context[e], m, Settled(e, m), HotOffsets(e))
        BY <1>1 DEF ContextsInv
      <4>2. Settled(e, m) \subseteq Settled(e, m)' /\ HotOffsets(e)' = HotOffsets(e)
        BY <1>2, <1>3, <1>5, <1>6 DEF HotOffsets
      <4> QED BY <1>6, <4>1, <4>2, MutatorMoreSettled
    <3> QED BY <2>2, <3>1 DEF ContextsInv
  <2>5. AuthorIsCurrent'
    BY <1>1, <1>2, <1>6 DEF AuthorIsCurrent
  <2> QED BY <2>3, <2>4, <2>5 DEF IInv
<1>7. CASE /\ finds' = finds + 1
           /\ priority' = Append([priority EXCEPT ![entry] = 0], 0)
           /\ queue' = queue \cup {size + 1}
           /\ tried' = Append(now_tried, {})
           /\ \E offset \in FirstOffsets :
                /\ context' = Append(context, WithHotOffset(NoContext, offset))
                /\ hot' = Append(hot, {offset})
           /\ diff' \in Offsets
  <2>1. priority' \in Seq(Int) /\ Len(priority') = size + 1
    <3>1. [priority EXCEPT ![entry] = 0] \in Seq(Int) /\ Len([priority EXCEPT ![entry] = 0]) = size
      BY <1>3
    <3> QED BY <1>7, <3>1
  <2>2. Entries' = 1 .. size + 1
    BY <2>1 DEF Entries
  <2>3. PICK offset \in FirstOffsets :
          /\ context' = Append(context, WithHotOffset(NoContext, offset))
          /\ hot' = Append(hot, {offset})
    BY <1>7
  <2> DEFINE c == WithHotOffset(NoContext, offset)
             settled == [m \in 1 .. 2 |-> Settled(size + 1, m)']
  <2>4. /\ offset \in Offsets /\ c \in Context
        /\ \A m \in 1 .. 2 : MutatorInv(c, m, settled[m],
                               IF options = "nondeterministic" THEN {} ELSE {offset})
    <3>1. offset \in Offsets
      BY Constants
    <3> HIDE DEF settled
    <3> QED BY <3>1, NewContext
  <2> HIDE DEF c
  <2>5. /\ context' \in Seq(Context) /\ Len(context') = size + 1
        /\ context'[size + 1] = c /\ \A e \in 1 .. size : context'[e] = context[e]
    <3>1. context' = Append(context, c)
      BY <2>3 DEF c
    <3> QED BY <1>3, <2>4, <3>1
  <2>6. /\ hot' \in Seq(SUBSET Offsets) /\ Len(hot') = size + 1
        /\ hot'[size + 1] = {offset} /\ \A e \in 1 .. size : hot'[e] = hot[e]
    BY <1>3, <2>3, <2>4
  <2>7. /\ tried' \in Seq(SUBSET Mutations) /\ Len(tried') = size + 1
        /\ \A e \in 1 .. size : tried'[e] = now_tried[e]
    <3>1. {} \in SUBSET Mutations
      OBVIOUS
    <3> DEFINE none == {}
    <3>2. none \in SUBSET Mutations /\ tried' = Append(now_tried, none)
      BY <1>7
    <3> HIDE DEF none
    <3>3. /\ Append(now_tried, none) \in Seq(SUBSET Mutations)
          /\ Len(Append(now_tried, none)) = Len(now_tried) + 1
          /\ \A e \in 1 .. Len(now_tried) : Append(now_tried, none)[e] = now_tried[e]
      BY <1>4, <3>2, AppendProperties
    <3> QED BY <1>4, <3>2, <3>3
  <2>8. Types'
    <3>1. entry \in 1 .. size + 1 /\ entry \notin queue' /\ queue' \subseteq 1 .. size + 1
      <4>1. entry \notin queue /\ entry # size + 1 /\ entry \in 1 .. size + 1
        BY <1>1, <1>3 DEF Types
      <4>2. queue' = queue \cup {size + 1}
        BY <1>7
      <4>3. queue \subseteq 1 .. size + 1 /\ size + 1 \in 1 .. size + 1
        BY <1>3
      <4> HIDE DEF size
      <4> QED BY ONLY <4>1, <4>2, <4>3
    <3>2. entry # 0
      BY <1>3
    <3> QED BY <1>1, <1>2, <1>7, <2>1, <2>2, <2>5, <2>6, <2>7, <3>1, <3>2 DEF Types
  <2>9. ContextsInv'
    <3>1. ASSUME NEW e \in 1 .. size, NEW m \in 1 .. 2
          PROVE  MutatorInv(context'[e], m, Settled(e, m)', HotOffsets(e)')
      <4>1. MutatorInv(context[e], m, Settled(e, m), HotOffsets(e))
        BY <1>1, <1>3 DEF ContextsInv
      <4>2. Settled(e, m) \subseteq Settled(e, m)'
        BY <1>5, <2>7
      <4>3. HotOffsets(e)' = HotOffsets(e)
        BY <1>2, <2>6 DEF HotOffsets
      <4> QED BY <2>5, <4>1, <4>2, <4>3, MutatorMoreSettled
    <3>2. PICK n : n = size + 1
      OBVIOUS
    <3>3. ASSUME NEW m \in 1 .. 2
          PROVE  MutatorInv(context'[n], m, Settled(n, m)', HotOffsets(n)')
      <4>1. HotOffsets(n)' = IF options = "nondeterministic" THEN {} ELSE {offset}
        BY <1>2, <2>6, <3>2 DEF HotOffsets
      <4> DEFINE all == [k \in 1 .. 2 |-> Settled(n, k)']
      <4>2. \A k \in 1 .. 2 : MutatorInv(c, k, all[k],
                                IF options = "nondeterministic" THEN {} ELSE {offset})
        <5> HIDE DEF all
        <5> QED BY <2>4, NewContext DEF c
      <4>3. all[m] = Settled(n, m)'
        OBVIOUS
      <4> HIDE DEF all
      <4> QED BY <2>5, <3>2, <4>1, <4>2, <4>3
    <3>4. \A e \in 1 .. size + 1 : e \in 1 .. size \/ e = n
      BY <1>3, <3>2
    <3> QED BY <2>2, <3>1, <3>3, <3>4 DEF ContextsInv
  <2>10. AuthorIsCurrent'
    BY <1>1, <1>2, <1>3, <2>5 DEF AuthorIsCurrent
  <2> QED BY <2>8, <2>9, <2>10 DEF IInv
<1>8. \/ /\ priority' = [priority EXCEPT ![entry] = @ - 1] /\ tried' = now_tried
         /\ UNCHANGED << queue, context, diff, hot, finds >>
      \/ /\ finds' = finds + 1
         /\ priority' = Append([priority EXCEPT ![entry] = 0], 0)
         /\ queue' = queue \cup {size + 1}
         /\ tried' = Append(now_tried, {})
         /\ \E offset \in FirstOffsets :
              /\ context' = Append(context, WithHotOffset(NoContext, offset))
              /\ hot' = Append(hot, {offset})
         /\ diff' \in Offsets
  BY Zenon DEF RunSample, now_tried
<1> QED BY <1>6, <1>7, <1>8

\* NotifyResult, with one more hot offset when the run found coverage.
LEMMA NotifyResultKeeps == ASSUME IInv, NotifyResult PROVE IInv'
<1>1. Types /\ ContextsInv
  BY DEF IInv
<1>2. /\ pc = "notify" /\ diff' = NoDiff
      /\ (pc' = "mutate" /\ entry' = entry) \/ (pc' = "get" /\ entry' = 0)
      /\ UNCHANGED << options, queue, priority, current_round, last_mutator, written,
                      tried, finds, runs >>
  BY DEF NotifyResult
<1>3. /\ entry \in 1 .. Len(priority) /\ Entries = 1 .. Len(priority) /\ Entries' = Entries
      /\ Len(context) = Len(priority) /\ Len(hot) = Len(priority)
      /\ context \in Seq(Context) /\ hot \in Seq(SUBSET Offsets)
  BY <1>1, <1>2 DEF Types, Entries
<1>4. AuthorIsCurrent'
  BY <1>2 DEF AuthorIsCurrent
<1>5. CASE UNCHANGED << context, hot >>
  <2>1. Types'
    BY <1>1, <1>2, <1>3, <1>5 DEF Types
  <2>2. ContextsInv'
    BY <1>1, <1>2, <1>5, ContextsStay
  <2> QED BY <1>4, <2>1, <2>2 DEF IInv
<1>6. CASE /\ diff # NoDiff
           /\ context' = [context EXCEPT ![entry] = WithHotOffset(@, diff)]
           /\ hot' = [hot EXCEPT ![entry] = @ \cup {diff}]
  <2>0. diff \in Offsets
    BY <1>1, <1>6 DEF Types
  <2>1. PICK n \in 1 .. Len(priority), offset \in Offsets : n = entry /\ offset = diff
    BY <1>3, <2>0
  <2> DEFINE c == WithHotOffset(context[n], offset)
             also == IF options = "nondeterministic" THEN {} ELSE hot[n] \cup {offset}
  <2>2. c \in Context /\ \A m \in 1 .. 2 : MutatorInv(c, m, Settled(n, m), also)
    <3>1. \A m \in 1 .. 2 : MutatorInv(context[n], m, Settled(n, m), HotOffsets(n))
      BY <1>1, <1>3, <2>1 DEF ContextsInv
    <3>2. context[n] \in Context
      BY <1>3, <2>1
    <3>3. CASE options = "nondeterministic"
      BY <3>1, <3>2, <3>3 DEF WithHotOffset, HotOffsets
    <3>4. CASE options # "nondeterministic"
      <4> DEFINE settled == [m \in 1 .. 2 |-> Settled(n, m)]
      <4>1. \A m \in 1 .. 2 : settled[m] = Settled(n, m)
        OBVIOUS
      <4>2. HotOffsets(n) = hot[n]
        BY <3>4 DEF HotOffsets
      <4> HIDE DEF settled
      <4>3. \A m \in 1 .. 2 : MutatorInv(context[n], m, settled[m], hot[n])
        BY <3>1, <4>1, <4>2
      <4>4. /\ WithHotOffset(context[n], offset) \in Context
            /\ \A m \in 1 .. 2 :
                 MutatorInv(WithHotOffset(context[n], offset), m, settled[m], hot[n] \cup {offset})
        BY <3>2, <3>4, <4>3, WithHotOffsetKeeps
      <4> QED BY <3>4, <4>1, <4>4
    <3> QED BY <3>3, <3>4
  <2> HIDE DEF c
  <2>3. /\ context' \in Seq(Context) /\ Len(context') = Len(context)
        /\ context'[n] = c /\ \A e \in Entries : e # n => context'[e] = context[e]
    <3>1. context' = [context EXCEPT ![n] = c]
      BY <1>6, <2>1 DEF c
    <3> QED BY <1>3, <2>1, <2>2, <3>1
  <2>4. /\ hot' \in Seq(SUBSET Offsets) /\ Len(hot') = Len(hot)
        /\ hot'[n] = hot[n] \cup {offset} /\ \A e \in Entries : e # n => hot'[e] = hot[e]
    <3>1. hot[n] \cup {offset} \in SUBSET Offsets
      BY <1>3, <2>1
    <3>2. hot' = [hot EXCEPT ![n] = hot[n] \cup {offset}]
      BY <1>6, <2>1
    <3> QED BY <1>3, <2>1, <3>1, <3>2
  <2>5. Types'
    BY <1>1, <1>2, <1>3, <2>3, <2>4 DEF Types
  <2>6. \A e \in Entries, m \in 1 .. 2 : Settled(e, m) \subseteq Settled(e, m)'
    BY <1>2 DEF Settled, IsSettled, Mutation, SizeAfter
  <2>7. ASSUME NEW e \in Entries, NEW m \in 1 .. 2
        PROVE  MutatorInv(context'[e], m, Settled(e, m)', HotOffsets(e)')
    <3>1. CASE e = n
      <4>1. HotOffsets(e)' = also
        BY <1>2, <2>4, <3>1 DEF HotOffsets
      <4>2. MutatorInv(c, m, Settled(e, m), also)
        BY <2>2, <3>1
      <4> HIDE DEF also
      <4> QED BY <2>3, <2>6, <3>1, <4>1, <4>2, MutatorMoreSettled
    <3>2. CASE e # n
      <4>1. MutatorInv(context[e], m, Settled(e, m), HotOffsets(e))
        BY <1>1 DEF ContextsInv
      <4>2. HotOffsets(e)' = HotOffsets(e) /\ context'[e] = context[e]
        BY <1>2, <2>3, <2>4, <3>2 DEF HotOffsets
      <4> QED BY <2>6, <4>1, <4>2, MutatorMoreSettled
    <3> QED BY <3>1, <3>2
  <2>8. ContextsInv'
    BY <1>3, <2>7 DEF ContextsInv
  <2> QED BY <1>4, <2>5, <2>8 DEF IInv
<1>7. \/ UNCHANGED << context, hot >>
      \/ /\ diff # NoDiff
         /\ context' = [context EXCEPT ![entry] = WithHotOffset(@, diff)]
         /\ hot' = [hot EXCEPT ![entry] = @ \cup {diff}]
  BY Zenon DEF NotifyResult
<1> QED BY <1>5, <1>6, <1>7

\* Every step keeps the invariant.
LEMMA NextIInv == ASSUME IInv, [Next]_vars PROVE IInv'
<1>1. CASE TakeJob
  BY <1>1, TakeJobKeeps
<1>2. CASE DeterministicMutate
  BY <1>2, DeterministicMutateKeeps
<1>3. CASE NondeterministicMutate
  BY <1>3, NondeterministicMutateKeeps
<1>4. CASE RoundEnds
  BY <1>4, RoundEndsKeeps
<1>5. CASE RunSample
  BY <1>5, RunSampleKeeps
<1>6. CASE NotifyResult
  BY <1>6, NotifyResultKeeps
<1>7. CASE UNCHANGED vars
  <2>1. UNCHANGED << options, queue, priority, context, pc, entry, current_round, last_mutator,
                     written, diff, hot, tried, finds, runs >>
    BY <1>7 DEF vars, job, history
  <2>2. Types /\ ContextsInv /\ AuthorIsCurrent
    BY DEF IInv
  <2>3. Types'
    BY <2>1, <2>2 DEF Types, Entries
  <2>4. ContextsInv'
    BY <2>1, <2>2, ContextsStay
  <2>5. AuthorIsCurrent'
    BY <2>1, <2>2 DEF AuthorIsCurrent
  <2> QED BY <2>3, <2>4, <2>5 DEF IInv
<1> QED BY <1>1, <1>2, <1>3, <1>4, <1>5, <1>6, <1>7 DEF Next

\* The invariant holds of any run.
THEOREM InductiveInvariant == Spec => []IInv
<1>1. Init => IInv
  BY InitIInv
<1>2. IInv /\ [Next]_vars => IInv'
  BY NextIInv
<1> QED BY <1>1, <1>2, PTL DEF Spec
-----------------------------------------------------------------------------
(* What follows from it. *)

\* The types of FuzzRounds, and the shape of the regions AddHotOffset builds.
LEMMA TypesFollow == IInv => TypeOK
<1> SUFFICES ASSUME IInv PROVE TypeOK
  OBVIOUS
<1>1. Types /\ ContextsInv
  BY DEF IInv
<1>2. ASSUME NEW e \in Entries, NEW m \in 1 .. 2
      PROVE  RegionsOK(context[e].children[m])
  <2> DEFINE child == context[e].children[m]
             size == Len(child.regions)
             mp == MaxProgress(m)
             top == Max({ByteValues, InterestingValues})
  <2>1. ChildInv(child, mp, Settled(e, m))
    BY <1>1 DEF ContextsInv, MutatorInv
  <2> HIDE DEF child, mp
  <2>2. /\ RegionsInv(child.regions, mp) /\ child.cur_region \in 1 .. size + 1
        /\ size \in Nat
    BY <2>1 DEF ChildInv, RegionsInv
  <2>3. mp \in Nat /\ top \in Nat /\ mp <= top
    <3>1. ByteValues \in Nat /\ InterestingValues \in Nat
      BY RoundsAssumption
    <3>2. top = IF ByteValues <= InterestingValues THEN InterestingValues ELSE ByteValues
      <4>1. ByteValues \in Int /\ InterestingValues \in Int
        BY <3>1
      <4> QED BY <4>1, MinMax, Zenon
    <3> QED BY <3>1, <3>2 DEF MaxProgress, mp
  <2> HIDE DEF top
  <2>4. ASSUME NEW i \in 1 .. size
        PROVE  LET r == child.regions[i] IN
               /\ r.start < r.end /\ r.end \in Positions /\ r.cur \in r.start .. r.end
               /\ r.cur_progress \in 0 .. top
    <3>1. child.regions[i] \in Region /\ RegionOK(child.regions[i], mp)
      BY <2>2 DEF RegionsInv
    <3>2. MaxOffset + BytesNext \in Nat
      BY Constants
    <3> QED BY <2>3, <3>1, <3>2 DEF Region, RegionOK, Positions
  <2>5. \A i \in 1 .. size - 1 : child.regions[i].start < child.regions[i + 1].start
    BY <2>2 DEF RegionsInv
  <2>6. RegionsOK(child)
    BY <2>2, <2>4, <2>5 DEF RegionsOK, top
  <2> QED BY <2>6 DEF child
<1>3. ASSUME NEW e \in Entries
      PROVE  priority[e] \in Int /\ context[e].current_mutator_index \in 1 .. 3
  <2>1. context[e] \in Context /\ priority[e] \in Int
    BY <1>1 DEF Types, Entries
  <2> QED BY <2>1 DEF Context
<1> QED BY <1>1, <1>2, <1>3 DEF Types, TypeOK

\* A value of a byte in a window is pending in a region that covers the byte, where the
\* scan still has to come, or was left behind.
LEMMA AheadOrSettled ==
  ASSUME NEW c, NEW m \in 1 .. 2, NEW settled, NEW offsets, NEW offset \in offsets,
         c.current_mutator_index \in 1 .. 3,
         MutatorInv(c, m, settled, offsets),
         NEW pos \in WindowStart(offset) .. WindowEnd(offset) - 1,
         NEW v \in 0 .. MaxProgress(m) - 1
  PROVE  Ahead(c, m, pos, v) \/ << pos, v >> \in settled
<1> DEFINE child == c.children[m]
           size == Len(child.regions)
           mp == MaxProgress(m)
<1>1. /\ mp \in Nat \ {0} /\ child \in Child /\ size \in Nat
      /\ child.cur_region \in 1 .. size + 1
      /\ \A i \in 1 .. size : child.regions[i] \in Region /\ RegionOK(child.regions[i], mp)
      /\ DoneBefore(child.regions, mp, child.cur_region)
      /\ Scanned(child.regions, mp, settled)
      /\ m < c.current_mutator_index => DoneBefore(child.regions, mp, size + 1)
      /\ Covers(child.regions, offset)
  BY Constants DEF MutatorInv, ChildInv, RegionsInv
<1> HIDE DEF child, mp
<1>2. PICK i \in 1 .. size : child.regions[i].start <= pos /\ pos < child.regions[i].end
  BY <1>1 DEF Covers
<1> DEFINE r == child.regions[i]
<1>3. r \in Region /\ RegionOK(r, mp) /\ r.start \in Nat /\ r.end \in Nat
  BY <1>1 DEF Region
<1>4. pos \in r.start .. r.end - 1 /\ v \in 0 .. mp - 1
  BY <1>2, <1>3 DEF mp
<1>5. Pending(r, pos, v) \/ << pos, v >> \in settled
  BY <1>1, <1>4 DEF Scanned
<1>6. ASSUME Pending(r, pos, v) PROVE Ahead(c, m, pos, v)
  <2>1. Live(r, mp)
    BY <1>1, <1>3, <1>4, <1>6, DoneNothingPending
  <2>2. i >= child.cur_region /\ m >= c.current_mutator_index
    <3>1. ~ (i < child.cur_region)
      BY <1>1, <2>1 DEF DoneBefore
    <3>2. ~ (m < c.current_mutator_index)
      <4>1. i < size + 1
        BY <1>1
      <4>2. ~DoneBefore(child.regions, mp, size + 1)
        BY <2>1, <4>1 DEF DoneBefore
      <4> QED BY <1>1, <4>2
    <3>3. child.cur_region \in Nat /\ c.current_mutator_index \in Nat
      BY <1>1
    <3> QED BY <3>1, <3>2, <3>3
  <2>3. i \in child.cur_region .. size
    BY <1>1, <2>2
  <2> QED BY <1>2, <1>6, <2>2, <2>3 DEF Ahead, Pending, child
<1> QED BY <1>5, <1>6

\* With no window left open the property follows for every value of its bytes.
LEMMA HotBytesFollow == IInv => EveryHotByteTried
<1> SUFFICES ASSUME IInv, options # "nondeterministic",
                    NEW e \in Entries, NEW offset \in hot[e], NEW m \in 1 .. 2,
                    NEW pos \in WindowStart(offset) .. WindowEnd(offset) - 1,
                    NEW v \in 0 .. MaxProgress(m) - 1
             PROVE  \/ Ahead(context[e], m, pos, v)
                    \/ Mutation(m, pos, v) \in tried[e]
                    \/ pc = "run" /\ entry = e /\ written = Mutation(m, pos, v)
                    \/ SizeAfter(m, pos) > MaxSampleSize
  BY DEF EveryHotByteTried, Mutation
<1>1. /\ MutatorInv(context[e], m, Settled(e, m), HotOffsets(e))
      /\ context[e].current_mutator_index \in 1 .. 3 /\ offset \in HotOffsets(e)
  <2>1. context[e] \in Context
    BY DEF IInv, Types, Entries
  <2> QED BY <2>1 DEF IInv, ContextsInv, Context, HotOffsets
<1>2. Ahead(context[e], m, pos, v) \/ << pos, v >> \in Settled(e, m)
  BY <1>1, AheadOrSettled
<1>3. << pos, v >> \in Settled(e, m) => IsSettled(e, m, pos, v)
  BY DEF Settled
<1> QED BY <1>2, <1>3 DEF IsSettled

\* The index of the sequence is that of a mutator, the one that made the sample.
LEMMA AuthorFollows == IInv => NotifiesAuthor
<1> SUFFICES ASSUME IInv, pc = "notify" PROVE NotifyTarget = written.by
  BY DEF NotifiesAuthor
<1>1. \/ /\ last_mutator = "deterministic"
         /\ context[entry].current_mutator_index \in 1 .. 2
         /\ written.by = Children[context[entry].current_mutator_index]
      \/ last_mutator = "nondeterministic" /\ written.by = "repeater"
  BY DEF IInv, AuthorIsCurrent
<1>2. \A m \in 1 .. 2 : (Children \o << "out of bounds" >>)[m] = Children[m]
  <2> DEFINE names == {"byte_flip", "interesting_value", "out of bounds"}
             more == << "out of bounds" >>
  <2>1. << "byte_flip", "interesting_value" >> \in Seq(names)
    OBVIOUS
  <2>2. more \in Seq(names) /\ Len(more) = 1
    OBVIOUS
  <2>3. Len(<< "byte_flip", "interesting_value" >>) = 2
    OBVIOUS
  <2>4. Children \in Seq(names) /\ Len(Children) = 2
    BY <2>1, <2>3 DEF Children
  <2> HIDE DEF names, more
  <2>5. \A m \in 1 .. 2 : (Children \o more)[m] = Children[m]
    BY <2>2, <2>4, ConcatProperties, SMTT(30)
  <2> QED BY <2>5, Zenon DEF more
<1>3. CASE last_mutator = "deterministic"
  <2>1. PICK m \in 1 .. 2 : m = context[entry].current_mutator_index /\ written.by = Children[m]
    BY <1>1, <1>3
  <2>2. NotifyTarget = (Children \o << "out of bounds" >>)[m]
    BY <1>3, <2>1 DEF NotifyTarget
  <2> QED BY <1>2, <2>1, <2>2, Zenon
<1>4. CASE last_mutator # "deterministic"
  BY <1>1, <1>4 DEF NotifyTarget
<1> QED BY <1>3, <1>4

\* The thread and the contexts keep their types: every region of bytes starts where a
\* window starts, in the order of the starts, and its next byte lies in it.
THEOREM TypeCorrect == Spec => []TypeOK
BY InductiveInvariant, TypesFollow, PTL

\* No value of a byte around a hot offset is left out by deterministic mutation, in
\* whatever order hot offsets are added and however far the scan is by then: AddHotOffset,
\* GetNextByteToMutate and MutatorSequence::Mutate fit together.
THEOREM HotBytesTried == Spec => []EveryHotByteTried
BY InductiveInvariant, HotBytesFollow, PTL

\* MutatorSequence::NotifyResult finds the mutator that made the sample at its index, which
\* it does not check to be inside the sequence.
THEOREM AuthorNotified == Spec => []NotifiesAuthor
BY InductiveInvariant, AuthorFollows, PTL
=============================================================================
