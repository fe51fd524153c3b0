---------------------------- MODULE CrashStoreProofs ----------------------------
(***************************************************************************)
(* CrashStore for any number of fuzzers, threads and crash names: nothing  *)
(* that is kept is written over, and the server has what it should have.   *)
(***************************************************************************)
EXTENDS CrashStore, FiniteSetTheorems, SequenceTheorems, TLAPS

(* A thread that is past Run's CRASH knows the name of its crash, and one that is *)
(* to write a file has a number for it.                                           *)
Working ==
  \A t \in Threads : /\ pc[t] # "idle" => crash_desc[t] \in Names
                     /\ pc[t] = "save" => duplicates[t] \in 1 .. MAX_IDENTICAL_CRASHES

(* The server's files are numbered no higher than its count of their name. *)
ServerNumbered ==
  \A n \in Names : \A i \in 1 .. MAX_SERVER_IDENTICAL_CRASHES :
    server_dir[<< n, i >>] # 0 => i <= server_crashes[n]

(* So are a fuzzer's, until a fuzzer is restarted; and a thread that holds a number *)
(* of a name, though it holds no mutex, holds it alone and before the file exists.  *)
FilesCounted ==
  \A f \in Fuzzers : \A n \in Names : \A i \in 1 .. MAX_IDENTICAL_CRASHES :
    crash_dir[f][<< n, i >>] # 0 => i <= unique_crashes[f][n]
NumberTaken ==
  \A t \in Threads : pc[t] = "save" =>
    /\ duplicates[t] <= unique_crashes[Process[t]][crash_desc[t]]
    /\ crash_dir[Process[t]][<< crash_desc[t], duplicates[t] >>] = 0
NumbersDistinct ==
  \A t, u \in Threads :
    t # u /\ pc[t] = "save" /\ pc[u] = "save" /\ Process[t] = Process[u]
      /\ crash_desc[t] = crash_desc[u] => duplicates[t] # duplicates[u]
Numbered == restarts = 0 => FilesCounted /\ NumberTaken /\ NumbersDistinct

(* The inductive invariant. *)
IInv == TypeOK /\ Working /\ ServerNumbered /\ Numbered /\ ServerHasWhatItKeeps
-----------------------------------------------------------------------------
(* What is known of the constants. *)
LEMMA Constants ==
  /\ MAX_IDENTICAL_CRASHES \in Nat \ {0} /\ MAX_SERVER_IDENTICAL_CRASHES \in Nat \ {0}
  /\ crash_reproduce_retries \in Nat /\ MaxCrashes \in Nat /\ MaxFailures \in Nat
  /\ Process \in [Threads -> Fuzzers] /\ IsFiniteSet(Fuzzers) /\ IsFiniteSet(Threads)
BY CrashAssumption

(* A sequence without its i-th element: the later ones move down by one. *)
LEMMA RemoveAtFacts ==
  ASSUME NEW S, NEW s \in Seq(S), NEW i \in 1 .. Len(s)
  PROVE  /\ RemoveAt(s, i) \in Seq(S)
         /\ Len(RemoveAt(s, i)) = Len(s) - 1
         /\ \A j \in 1 .. Len(s) - 1 :
              RemoveAt(s, i)[j] = IF j < i THEN s[j] ELSE s[j + 1]
<1> DEFINE a == SubSeq(s, 1, i - 1)
           b == SubSeq(s, i + 1, Len(s))
<1>1. /\ Len(s) \in Nat /\ i \in Nat /\ i >= 1 /\ i <= Len(s)
      /\ \A j \in 1 .. Len(s) : s[j] \in S
  BY LenProperties, ElementOfSeq
<1>2. \A j \in 1 .. i - 1 : s[j] \in S
  BY <1>1
<1>3. \A j \in i + 1 .. Len(s) : s[j] \in S
  BY <1>1
<1>4. /\ a \in Seq(S) /\ Len(a) = IF 1 <= i - 1 THEN (i - 1) - 1 + 1 ELSE 0
      /\ \A j \in 1 .. (i - 1) - 1 + 1 : a[j] = s[1 + j - 1]
  <2>1. 1 \in Int /\ i - 1 \in Int
    BY <1>1
  <2> QED
    BY <1>2, <2>1, SubSeqProperties
<1>5. /\ b \in Seq(S) /\ Len(b) = IF i + 1 <= Len(s) THEN Len(s) - (i + 1) + 1 ELSE 0
      /\ \A j \in 1 .. Len(s) - (i + 1) + 1 : b[j] = s[i + 1 + j - 1]
  <2>1. i + 1 \in Int /\ Len(s) \in Int
    BY <1>1
  <2> QED
    BY <1>3, <2>1, SubSeqProperties
<1>6. RemoveAt(s, i) = a \o b
  BY DEF RemoveAt
<1> HIDE DEF a, b
<1>7. Len(a) = i - 1 /\ Len(b) = Len(s) - i
  BY <1>1, <1>4, <1>5
<1>8. /\ a \o b \in Seq(S) /\ Len(a \o b) = Len(a) + Len(b)
      /\ \A j \in 1 .. Len(a) + Len(b) :
           (a \o b)[j] = IF j <= Len(a) THEN a[j] ELSE b[j - Len(a)]
  BY <1>4, <1>5, ConcatProperties
<1>9. ASSUME NEW j \in 1 .. Len(s) - 1
      PROVE  (a \o b)[j] = IF j < i THEN s[j] ELSE s[j + 1]
  <2>1. (a \o b)[j] = IF j <= i - 1 THEN a[j] ELSE b[j - (i - 1)]
    BY <1>1, <1>7, <1>8
  <2>2. CASE j < i
    <3>1. j \in 1 .. (i - 1) - 1 + 1 /\ 1 + j - 1 = j
      BY <1>1, <2>2
    <3> QED
      BY <1>1, <1>4, <2>1, <2>2, <3>1
  <2>3. CASE ~(j < i)
    <3>1. j - (i - 1) \in 1 .. Len(s) - (i + 1) + 1 /\ i + 1 + (j - (i - 1)) - 1 = j + 1
      BY <1>1, <2>3
    <3> QED
      BY <1>1, <1>5, <2>1, <2>3, <3>1
  <2> QED
    BY <2>2, <2>3
<1> QED
  BY <1>1, <1>6, <1>7, <1>8, <1>9

(* The reports of one name in a sequence of them: one fewer when one is taken out. *)
Report == [sample : Nat, name : Names]
Of(s, n) == { i \in 1 .. Len(s) : s[i].name = n }
LEMMA OfRemoveAt ==
  ASSUME NEW s \in Seq(Report), NEW i \in 1 .. Len(s), NEW n
  PROVE  /\ IsFiniteSet(Of(s, n)) /\ IsFiniteSet(Of(RemoveAt(s, i), n))
         /\ Cardinality(Of(RemoveAt(s, i), n)) =
              IF s[i].name = n THEN Cardinality(Of(s, n)) - 1 ELSE Cardinality(Of(s, n))
<1> DEFINE r == RemoveAt(s, i)
           A == Of(s, n) \ {i}
           B == Of(r, n)
           F == [j \in A |-> IF j < i THEN j ELSE j - 1]
<1>1. Len(s) \in Nat /\ i \in Nat /\ i >= 1 /\ i <= Len(s)
  BY LenProperties
<1>2. /\ Len(r) = Len(s) - 1
      /\ \A j \in 1 .. Len(s) - 1 : r[j] = IF j < i THEN s[j] ELSE s[j + 1]
  BY RemoveAtFacts
<1> HIDE DEF r
<1>3. IsFiniteSet(Of(s, n))
  <2>1. IsFiniteSet(1 .. Len(s))
    BY <1>1, FS_Interval
  <2>2. Of(s, n) \in SUBSET (1 .. Len(s))
    BY DEF Of
  <2> QED
    BY <2>1, <2>2, FS_Subset
<1>4. /\ IsFiniteSet(A)
      /\ Cardinality(A) = IF i \in Of(s, n) THEN Cardinality(Of(s, n)) - 1
                                            ELSE Cardinality(Of(s, n))
  BY <1>3, FS_RemoveElement
<1>5. F \in [A -> B]
  <2> SUFFICES ASSUME NEW j \in A PROVE (IF j < i THEN j ELSE j - 1) \in B
    OBVIOUS
  <2>1. j \in 1 .. Len(s) /\ j # i /\ s[j].name = n
    BY DEF Of
  <2>2. CASE j < i
    <3>1. j \in 1 .. Len(s) - 1 /\ r[j] = s[j]
      BY <1>1, <1>2, <2>1, <2>2
    <3> QED
      BY <1>2, <2>1, <2>2, <3>1 DEF Of
  <2>3. CASE ~(j < i)
    <3>1. j - 1 \in 1 .. Len(s) - 1 /\ ~(j - 1 < i) /\ (j - 1) + 1 = j
      BY <1>1, <2>1, <2>3
    <3>2. r[j - 1] = s[j]
      BY <1>2, <3>1
    <3> QED
      BY <1>2, <2>1, <2>3, <3>1, <3>2 DEF Of
  <2> QED
    BY <2>2, <2>3
<1>6. \A j, k \in A : F[j] = F[k] => j = k
  <2>1. A \subseteq Nat /\ i \notin A
    BY <1>1 DEF Of
  <2> QED
    BY <1>1, <2>1
<1>7. ASSUME NEW k \in B
      PROVE  \E j \in A : F[j] = k
  <2>1. k \in 1 .. Len(s) - 1 /\ r[k].name = n
    BY <1>2 DEF Of
  <2>2. CASE k < i
    <3>1. k \in A
      BY <1>1, <1>2, <2>1, <2>2 DEF Of
    <3> QED
      BY <2>2, <3>1
  <2>3. CASE ~(k < i)
    <3>1. r[k] = s[k + 1]
      BY <1>2, <2>1, <2>3
    <3>2. k + 1 \in A /\ ~(k + 1 < i) /\ (k + 1) - 1 = k
      BY <1>1, <2>1, <2>3, <3>1 DEF Of
    <3>3. F[k + 1] = k
      BY <3>2
    <3> QED
      BY <3>2, <3>3
  <2> QED
    BY <2>2, <2>3
<1> HIDE DEF F
<1>8. F \in Bijection(A, B)
  BY <1>5, <1>6, <1>7 DEF Bijection, Injection, Surjection, IsInjective
<1>9. ExistsBijection(A, B)
  BY <1>8 DEF ExistsBijection
<1> HIDE DEF A, B
<1>10. IsFiniteSet(B) /\ Cardinality(B) = Cardinality(A)
  BY <1>4, <1>9, FS_Bijection
<1>11. i \in Of(s, n) <=> s[i].name = n
  BY DEF Of
<1>12. B = Of(RemoveAt(s, i), n)
  BY DEF B, r
<1> QED
  BY <1>3, <1>4, <1>10, <1>11, <1>12
-----------------------------------------------------------------------------
(* The steps of Next, by name. *)
LEMMA NextCases ==
  ASSUME Next
  PROVE  \/ \E t \in Threads : \/ RunCrashes(t) \/ Reproduced(t) \/ NotReproduced(t)
                               \/ CountCrash(t) \/ SaveCrash(t) \/ ReportCrash(t)
         \/ \E i \in 1 .. Len(reports) : ServeReport(i) \/ LoseReport(i)
         \/ \E f \in Fuzzers : RestartFuzzer(f)
BY DEF Next, Thread, Serve

(* Types, and what a thread at work knows, are kept. *)
LEMMA TypeStep ==
  ASSUME TypeOK, Working, [Next]_vars
  PROVE  TypeOK' /\ Working'
<1> USE Constants DEF locals, fuzzers, server, counts
<1>1. ASSUME NEW t \in Threads, RunCrashes(t)
      PROVE  TypeOK' /\ Working'
  <2>1. PICK d \in Descs : Named(t, d, crash_reproduce_retries > 0)
    BY <1>1 DEF RunCrashes
  <2>2. [desc |-> d, flaky |-> crash_reproduce_retries > 0] \in Names
    BY DEF Names
  <2>3. /\ crash_desc' = [crash_desc EXCEPT ![t] =
                            [desc |-> d, flaky |-> crash_reproduce_retries > 0]]
        /\ pc' = [pc EXCEPT ![t] = IF crash_reproduce_retries > 0 THEN "reproduce" ELSE "count"]
        /\ sample' = [sample EXCEPT ![t] = crashes'] /\ crashes' = crashes + 1
        /\ UNCHANGED << tries, duplicates, fuzzers, reports, server, faults, restarts >>
    BY <1>1, <2>1 DEF RunCrashes, Goes, Named
  <2> DEFINE name == [desc |-> d, flaky |-> crash_reproduce_retries > 0]
  <2> HIDE DEF name
  <2>4. name \in Names /\ crash_desc' = [crash_desc EXCEPT ![t] = name]
    BY <2>2, <2>3 DEF name
  <2>5. TypeOK'
    <3>1. crashes \in Nat /\ faults \in Nat /\ restarts \in Nat
      BY DEF TypeOK
    <3>2. crashes' \in Nat
      BY <2>3, <3>1
    <3>3. sample' \in [Threads -> Nat] /\ {crashes', faults', restarts'} \subseteq Nat
      BY <2>3, <3>1, <3>2 DEF TypeOK
    <3>4. /\ pc' \in [Threads -> {"idle", "reproduce", "count", "save", "report"}]
          /\ crash_desc' \in [Threads -> Names \cup {NoName}]
      BY <2>3, <2>4 DEF TypeOK
    <3> QED
      BY <2>3, <3>3, <3>4 DEF TypeOK
  <2>6. Working'
    BY <2>3, <2>4 DEF Working, TypeOK
  <2> QED
    BY <2>5, <2>6
<1>2. ASSUME NEW t \in Threads, Reproduced(t)
      PROVE  TypeOK' /\ Working'
  <2>1. PICK d \in Descs : Named(t, d, FALSE)
    BY <1>2 DEF Reproduced
  <2> DEFINE name == [desc |-> d, flaky |-> FALSE]
  <2>2. name \in Names /\ crash_desc' = [crash_desc EXCEPT ![t] = name]
    BY <2>1 DEF Names, Named
  <2> HIDE DEF name
  <2>3. /\ pc' = [pc EXCEPT ![t] = "count"] /\ tries' = [tries EXCEPT ![t] = 0]
        /\ UNCHANGED << sample, duplicates, fuzzers, reports, server, counts >>
    BY <1>2 DEF Reproduced, Goes
  <2>4. TypeOK'
    BY <2>2, <2>3 DEF TypeOK
  <2>5. Working'
    BY <2>2, <2>3 DEF Working, TypeOK
  <2> QED
    BY <2>4, <2>5
<1>3. ASSUME NEW t \in Threads, NotReproduced(t)
      PROVE  TypeOK' /\ Working'
  <2>1. /\ pc[t] = "reproduce" /\ (UNCHANGED pc \/ pc' = [pc EXCEPT ![t] = "count"])
        /\ tries' \in [Threads -> 0 .. crash_reproduce_retries]
        /\ UNCHANGED << sample, crash_desc, duplicates, fuzzers, reports, server, counts >>
    <3>1. /\ tries \in [Threads -> 0 .. crash_reproduce_retries]
          /\ tries[t] \in 0 .. crash_reproduce_retries
      BY DEF TypeOK
    <3>2. ASSUME tries[t] + 1 < crash_reproduce_retries, tries' = [tries EXCEPT ![t] = @ + 1]
          PROVE  tries' \in [Threads -> 0 .. crash_reproduce_retries]
      <4>1. tries[t] + 1 \in 0 .. crash_reproduce_retries
        BY <3>1, <3>2
      <4> QED
        BY <3>1, <3>2, <4>1
    <3>3. ASSUME tries' = [tries EXCEPT ![t] = 0]
          PROVE  tries' \in [Threads -> 0 .. crash_reproduce_retries]
      BY <3>1, <3>3
    <3>4. tries' \in [Threads -> 0 .. crash_reproduce_retries]
      BY <1>3, <3>2, <3>3 DEF NotReproduced
    <3> QED
      BY <1>3, <3>4 DEF NotReproduced, Goes
  <2>2. TypeOK'
    BY <2>1 DEF TypeOK
  <2>3. Working'
    BY <2>1 DEF Working, TypeOK
  <2> QED
    BY <2>2, <2>3
<1>4. ASSUME NEW t \in Threads, CountCrash(t)
      PROVE  TypeOK' /\ Working'
  <2> DEFINE f == Process[t]
             k == unique_crashes[f][crash_desc[t]]
  <2>1. f \in Fuzzers /\ crash_desc[t] \in Names /\ k \in 0 .. MAX_IDENTICAL_CRASHES
    BY <1>4 DEF CountCrash, Working, TypeOK
  <2>2. CASE /\ k < MAX_IDENTICAL_CRASHES
             /\ unique_crashes' = [unique_crashes EXCEPT ![f][crash_desc[t]] = k + 1]
             /\ duplicates' = [duplicates EXCEPT ![t] = k + 1] /\ pc' = [pc EXCEPT ![t] = "save"]
             /\ UNCHANGED << sample, crash_desc, tries, crash_dir, reports, server, counts >>
    <3>1. k + 1 \in 1 .. MAX_IDENTICAL_CRASHES
      BY <2>1, <2>2
    <3>2. TypeOK'
      <4>1. unique_crashes' \in [Fuzzers -> [Names -> 0 .. MAX_IDENTICAL_CRASHES]]
        BY <2>1, <2>2, <3>1 DEF TypeOK
      <4>2. /\ duplicates' \in [Threads -> 0 .. MAX_IDENTICAL_CRASHES]
            /\ pc' \in [Threads -> {"idle", "reproduce", "count", "save", "report"}]
        BY <2>2, <3>1 DEF TypeOK
      <4> QED
        BY <2>2, <4>1, <4>2 DEF TypeOK
    <3>3. Working'
      BY <2>1, <2>2, <3>1 DEF Working, TypeOK
    <3> QED
      BY <3>2, <3>3
  <2>3. CASE /\ Returns({t}) /\ UNCHANGED unique_crashes
             /\ UNCHANGED << tries, crash_dir, reports, server, counts >>
    <3>1. TypeOK'
      BY <2>3 DEF TypeOK, Returns
    <3>2. Working'
      BY <2>3 DEF Working, TypeOK, Returns
    <3> QED
      BY <3>1, <3>2
  <2> QED
    BY <1>4, <2>2, <2>3 DEF CountCrash, Keeps, Goes
<1>5. ASSUME NEW t \in Threads, SaveCrash(t)
      PROVE  TypeOK' /\ Working'
  <2>1. << crash_desc[t], duplicates[t] >> \in Names \X (1 .. MAX_IDENTICAL_CRASHES)
    BY <1>5 DEF SaveCrash, Working
  <2>2. TypeOK'
    BY <1>5, <2>1 DEF SaveCrash, FileNumber, AfterSave, Goes, TypeOK, Dirs
  <2>3. Working'
    BY <1>5 DEF SaveCrash, AfterSave, Goes, Working, TypeOK
  <2> QED
    BY <2>2, <2>3
<1>6. ASSUME NEW t \in Threads, ReportCrash(t)
      PROVE  TypeOK' /\ Working'
  <2>1. [sample |-> sample[t], name |-> crash_desc[t]] \in [sample : Nat, name : Names]
    BY <1>6 DEF ReportCrash, Working, TypeOK
  <2>2. reports' \in Seq([sample : Nat, name : Names])
    BY <1>6, <2>1, AppendProperties DEF ReportCrash, TypeOK
  <2>3. TypeOK'
    BY <1>6, <2>2 DEF ReportCrash, Returns, TypeOK
  <2>4. Working'
    BY <1>6 DEF ReportCrash, Returns, Working, TypeOK
  <2> QED
    BY <2>3, <2>4
<1>7. ASSUME NEW i \in 1 .. Len(reports), ServeReport(i)
      PROVE  TypeOK' /\ Working'
  <2> DEFINE n == reports[i].name
             k == server_crashes[n]
  <2>1. reports \in Seq([sample : Nat, name : Names])
    BY DEF TypeOK
  <2>2. reports[i] \in [sample : Nat, name : Names]
    BY <2>1, ElementOfSeq
  <2>3. reports' \in Seq([sample : Nat, name : Names])
    BY <1>7, <2>1, RemoveAtFacts DEF ServeReport
  <2>4. n \in Names /\ reports[i].sample \in Nat /\ k \in 0 .. MAX_SERVER_IDENTICAL_CRASHES
    BY <2>2 DEF TypeOK
  <2>5. /\ server_crashes' \in [Names -> 0 .. MAX_SERVER_IDENTICAL_CRASHES]
        /\ server_dir' \in Dirs(MAX_SERVER_IDENTICAL_CRASHES)
    <3>1. CASE /\ k < MAX_SERVER_IDENTICAL_CRASHES
               /\ server_crashes' = [server_crashes EXCEPT ![n] = k + 1]
               /\ server_dir' = [server_dir EXCEPT ![<< n, k + 1 >>] = reports[i].sample]
      <4>1. k + 1 \in 1 .. MAX_SERVER_IDENTICAL_CRASHES
        BY <2>4, <3>1
      <4> HIDE DEF n, k
      <4>2. server_crashes' \in [Names -> 0 .. MAX_SERVER_IDENTICAL_CRASHES]
        BY <2>4, <3>1, <4>1 DEF TypeOK
      <4>3. server_dir' \in Dirs(MAX_SERVER_IDENTICAL_CRASHES)
        BY <2>4, <3>1, <4>1 DEF TypeOK, Dirs
      <4> QED
        BY <4>2, <4>3
    <3>2. CASE UNCHANGED server
      BY <3>2 DEF TypeOK
    <3> QED
      BY <1>7, <3>1, <3>2 DEF ServeReport, Keeps
  <2>6. UNCHANGED << locals, fuzzers, counts >>
    BY <1>7 DEF ServeReport
  <2>7. TypeOK'
    BY <2>3, <2>5, <2>6 DEF TypeOK
  <2>8. Working'
    BY <2>6 DEF Working
  <2> QED
    BY <2>7, <2>8
<1>8. ASSUME NEW i \in 1 .. Len(reports), LoseReport(i)
      PROVE  TypeOK' /\ Working'
  <2>1. reports \in Seq([sample : Nat, name : Names])
    BY DEF TypeOK
  <2>2. reports' \in Seq([sample : Nat, name : Names])
    BY <1>8, <2>1, RemoveAtFacts DEF LoseReport
  <2>3. TypeOK'
    <3>1. faults \in Nat /\ faults' = faults + 1
      BY <1>8 DEF LoseReport, TypeOK
    <3>2. faults' \in Nat
      BY <3>1
    <3>3. {crashes', faults', restarts'} \subseteq Nat
      BY <1>8, <3>2 DEF LoseReport, TypeOK
    <3> QED
      BY <1>8, <2>2, <3>3 DEF LoseReport, TypeOK
  <2>4. Working'
    BY <1>8 DEF LoseReport, Working
  <2> QED
    BY <2>3, <2>4
<1>9. ASSUME NEW f \in Fuzzers, RestartFuzzer(f)
      PROVE  TypeOK' /\ Working'
  <2>1. NoCrashes \in [Names -> 0 .. MAX_IDENTICAL_CRASHES]
    BY DEF NoCrashes
  <2>2. TypeOK'
    BY <1>9, <2>1 DEF RestartFuzzer, Returns, TypeOK
  <2>3. Working'
    BY <1>9 DEF RestartFuzzer, Returns, Working, TypeOK
  <2> QED
    BY <2>2, <2>3
<1>10. CASE UNCHANGED vars
  BY <1>10 DEF vars, TypeOK, Working
<1> QED
  BY <1>1, <1>2, <1>3, <1>4, <1>5, <1>6, <1>7, <1>8, <1>9, <1>10, NextCases
-----------------------------------------------------------------------------
(* The numbers of the files: a step keeps them, and writes over nothing. *)

(* The server. *)
LEMMA ServerStep ==
  ASSUME TypeOK, ServerNumbered, [Next]_vars
  PROVE  ServerNumbered' /\ Kept(server_dir, server_dir')
<1> USE Constants
<1>1. CASE UNCHANGED server
  BY <1>1 DEF ServerNumbered, Kept, server
<1>2. ASSUME NEW i \in 1 .. Len(reports), ServeReport(i)
      PROVE  ServerNumbered' /\ Kept(server_dir, server_dir')
  <2> DEFINE n == reports[i].name
             k == server_crashes[n]
  <2>1. reports[i] \in [sample : Nat, name : Names]
    BY ElementOfSeq DEF TypeOK
  <2>2. n \in Names /\ k \in 0 .. MAX_SERVER_IDENTICAL_CRASHES
    BY <2>1 DEF TypeOK
  <2>3. CASE /\ k < MAX_SERVER_IDENTICAL_CRASHES
             /\ server_crashes' = [server_crashes EXCEPT ![n] = k + 1]
             /\ server_dir' = [server_dir EXCEPT ![<< n, k + 1 >>] = reports[i].sample]
    <3> HIDE DEF n
    <3>1. k + 1 \in 1 .. MAX_SERVER_IDENTICAL_CRASHES /\ ~(k + 1 <= k)
      BY <2>2, <2>3
    <3>2. server_dir[<< n, k + 1 >>] = 0
      BY <2>2, <3>1 DEF ServerNumbered
    <3>3. Kept(server_dir, server_dir')
      BY <2>3, <3>2 DEF Kept, TypeOK, Dirs
    <3>4. ASSUME NEW m \in Names, NEW j \in 1 .. MAX_SERVER_IDENTICAL_CRASHES,
                 server_dir'[<< m, j >>] # 0
          PROVE  j <= server_crashes'[m]
      <4>1. server_crashes \in [Names -> 0 .. MAX_SERVER_IDENTICAL_CRASHES]
        BY DEF TypeOK
      <4>2. server_crashes'[m] = IF m = n THEN k + 1 ELSE server_crashes[m]
        BY <2>3, <4>1
      <4>3. CASE m = n /\ j = k + 1
        BY <2>2, <4>2, <4>3
      <4>4. CASE ~(m = n /\ j = k + 1)
        <5>1. << m, j >> # << n, k + 1 >>
          BY <4>4
        <5>2. server_dir'[<< m, j >>] = server_dir[<< m, j >>]
          BY <2>3, <5>1 DEF TypeOK, Dirs
        <5>3. j <= server_crashes[m]
          BY <3>4, <5>2 DEF ServerNumbered
        <5> QED
          BY <2>2, <4>1, <4>2, <5>3
      <4> QED
        BY <4>3, <4>4
    <3> QED
      BY <3>3, <3>4 DEF ServerNumbered
  <2> QED
    BY <1>1, <1>2, <2>3 DEF ServeReport, Keeps
<1>3. CASE UNCHANGED vars
  BY <1>1, <1>3 DEF vars
<1>4. CASE \E t \in Threads : \/ RunCrashes(t) \/ Reproduced(t) \/ NotReproduced(t)
                              \/ CountCrash(t) \/ SaveCrash(t) \/ ReportCrash(t)
  BY <1>1, <1>4 DEF RunCrashes, Reproduced, NotReproduced, CountCrash, SaveCrash, ReportCrash
<1>5. CASE (\E i \in 1 .. Len(reports) : LoseReport(i)) \/ \E f \in Fuzzers : RestartFuzzer(f)
  BY <1>1, <1>5 DEF LoseReport, RestartFuzzer
<1> QED
  BY <1>2, <1>3, <1>4, <1>5, NextCases

(* A fuzzer: what a step does that neither counts nor saves a crash. *)
LEMMA OtherStep ==
  ASSUME TypeOK, Numbered,
         restarts' = 0 => restarts = 0,
         restarts' = 0 => UNCHANGED unique_crashes,
         UNCHANGED crash_dir,
         \A t \in Threads : pc'[t] = "save" =>
           /\ pc[t] = "save" /\ crash_desc'[t] = crash_desc[t] /\ duplicates'[t] = duplicates[t]
  PROVE  /\ Numbered'
         /\ restarts = 0 => \A f \in Fuzzers : Kept(crash_dir[f], crash_dir'[f])
<1>1. \A f \in Fuzzers : Kept(crash_dir[f], crash_dir'[f])
  BY DEF Kept
<1>2. ASSUME restarts' = 0
      PROVE  (FilesCounted /\ NumberTaken /\ NumbersDistinct)'
  <2>1. FilesCounted /\ NumberTaken /\ NumbersDistinct /\ UNCHANGED unique_crashes
    BY <1>2 DEF Numbered
  <2>2. FilesCounted'
    BY <2>1 DEF FilesCounted
  <2>3. NumberTaken'
    BY <2>1 DEF NumberTaken
  <2>4. NumbersDistinct'
    BY <2>1 DEF NumbersDistinct
  <2> QED
    BY <2>2, <2>3, <2>4
<1> QED
  BY <1>1, <1>2 DEF Numbered

(* A fuzzer: counting takes a number nobody has, saving uses it up. *)
LEMMA NumberStep ==
  ASSUME TypeOK, Working, Numbered, [Next]_vars
  PROVE  /\ Numbered'
         /\ restarts = 0 => \A f \in Fuzzers : Kept(crash_dir[f], crash_dir'[f])
<1> USE Constants DEF fuzzers, counts, locals
<1> DEFINE Good == /\ Numbered'
                   /\ restarts = 0 => \A f \in Fuzzers : Kept(crash_dir[f], crash_dir'[f])
<1>1. ASSUME NEW t \in Threads, CountCrash(t)
      PROVE  Good
  <2> DEFINE g == Process[t]
             d == crash_desc[t]
             k == unique_crashes[g][d]
  <2>1. g \in Fuzzers /\ d \in Names /\ k \in 0 .. MAX_IDENTICAL_CRASHES
    BY <1>1 DEF CountCrash, Working, TypeOK
  <2>2. CASE Returns({t}) /\ UNCHANGED unique_crashes
    BY <1>1, <2>2, OtherStep DEF CountCrash, Returns
  <2>3. CASE /\ k < MAX_IDENTICAL_CRASHES
             /\ unique_crashes' = [unique_crashes EXCEPT ![g][d] = k + 1]
             /\ duplicates' = [duplicates EXCEPT ![t] = k + 1] /\ pc' = [pc EXCEPT ![t] = "save"]
             /\ UNCHANGED crash_desc
    <3>0. UNCHANGED << crash_dir, restarts >>
      BY <1>1 DEF CountCrash
    <3>1. \A f \in Fuzzers : Kept(crash_dir[f], crash_dir'[f])
      BY <3>0 DEF Kept
    <3>2. ASSUME restarts = 0
          PROVE  (FilesCounted /\ NumberTaken /\ NumbersDistinct)'
      <4>0. FilesCounted /\ NumberTaken /\ NumbersDistinct
        BY <3>2 DEF Numbered
      <4> HIDE DEF k, g, d
      <4>1. \A f \in Fuzzers, n \in Names :
              unique_crashes'[f][n] = IF f = g /\ n = d THEN k + 1 ELSE unique_crashes[f][n]
        BY <2>1, <2>3 DEF TypeOK
      <4>2. \A f \in Fuzzers, n \in Names :
              /\ unique_crashes[f][n] \in Nat /\ unique_crashes'[f][n] \in Nat
              /\ unique_crashes[f][n] <= unique_crashes'[f][n]
        <5>1. k = unique_crashes[g][d]
          BY DEF k
        <5>2. ASSUME NEW f \in Fuzzers, NEW n \in Names
              PROVE  unique_crashes[f][n] \in Nat
          BY DEF TypeOK
        <5> QED
          BY <4>1, <5>1, <5>2
      <4>3. FilesCounted'
        <5> SUFFICES ASSUME NEW f \in Fuzzers, NEW n \in Names,
                            NEW i \in 1 .. MAX_IDENTICAL_CRASHES, crash_dir[f][<< n, i >>] # 0
                     PROVE  i <= unique_crashes'[f][n]
          BY <3>0 DEF FilesCounted
        <5>1. i <= unique_crashes[f][n]
          BY <4>0 DEF FilesCounted
        <5> QED
          BY <4>2, <5>1
      <4>4. /\ duplicates'[t] = k + 1 /\ crash_desc'[t] = d
            /\ \A u \in Threads \ {t} : /\ pc'[u] = pc[u] /\ duplicates'[u] = duplicates[u]
                                        /\ crash_desc'[u] = crash_desc[u]
        BY <2>3 DEF TypeOK, d
      <4>5. crash_dir[g][<< d, k + 1 >>] = 0
        <5>1. k + 1 \in 1 .. MAX_IDENTICAL_CRASHES /\ ~(k + 1 <= k)
          BY <2>1, <2>3
        <5>2. k = unique_crashes[g][d]
          BY DEF k
        <5> QED
          BY <2>1, <4>0, <5>1, <5>2 DEF FilesCounted
      <4>6. ASSUME NEW u \in Threads, pc'[u] = "save"
            PROVE  /\ duplicates'[u] <= unique_crashes'[Process[u]][crash_desc'[u]]
                   /\ crash_dir'[Process[u]][<< crash_desc'[u], duplicates'[u] >>] = 0
        <5>1. CASE u = t
          <6>1. unique_crashes'[g][d] = k + 1
            BY <2>1, <4>1
          <6>2. k + 1 <= k + 1
            BY <2>1
          <6> QED
            BY <3>0, <4>4, <4>5, <5>1, <6>1, <6>2 DEF g
        <5>2. CASE u # t
          <6>1. /\ pc[u] = "save" /\ duplicates'[u] = duplicates[u]
                /\ crash_desc'[u] = crash_desc[u]
            BY <4>4, <4>6, <5>2
          <6>2. /\ duplicates[u] <= unique_crashes[Process[u]][crash_desc[u]]
                /\ crash_dir[Process[u]][<< crash_desc[u], duplicates[u] >>] = 0
            BY <4>0, <6>1 DEF NumberTaken
          <6>3. Process[u] \in Fuzzers /\ crash_desc[u] \in Names /\ duplicates[u] \in Nat
            BY <6>1 DEF Working, TypeOK
          <6>4. duplicates[u] <= unique_crashes'[Process[u]][crash_desc[u]]
            BY <4>2, <6>2, <6>3
          <6> QED
            BY <3>0, <6>1, <6>2, <6>4
        <5> QED
          BY <5>1, <5>2
      <4>7. ASSUME NEW u \in Threads \ {t}, pc'[u] = "save", Process[u] = g, crash_desc'[u] = d
            PROVE  duplicates'[u] # k + 1
        <5>1. /\ pc[u] = "save" /\ duplicates'[u] = duplicates[u] /\ crash_desc[u] = d
          BY <4>4, <4>7
        <5>2. duplicates[u] <= k /\ duplicates[u] \in Nat
          <6>1. duplicates[u] \in Nat
            BY <5>1 DEF Working
          <6>2. duplicates[u] <= unique_crashes[Process[u]][crash_desc[u]]
            BY <4>0, <5>1 DEF NumberTaken
          <6> QED
            BY <4>7, <5>1, <6>1, <6>2 DEF k
        <5> QED
          BY <2>1, <5>1, <5>2
      <4>8. NumbersDistinct'
        <5> SUFFICES ASSUME NEW u \in Threads, NEW v \in Threads, u # v,
                            pc'[u] = "save", pc'[v] = "save", Process[u] = Process[v],
                            crash_desc'[u] = crash_desc'[v]
                     PROVE  duplicates'[u] # duplicates'[v]
          BY DEF NumbersDistinct
        <5>1. CASE u = t
          BY <4>4, <4>7, <5>1 DEF g
        <5>2. CASE v = t
          BY <4>4, <4>7, <5>2 DEF g
        <5>3. CASE u # t /\ v # t
          BY <4>0, <4>4, <5>3 DEF NumbersDistinct
        <5> QED
          BY <5>1, <5>2, <5>3
      <4> QED
        BY <4>3, <4>6, <4>8 DEF NumberTaken
    <3> QED
      BY <3>0, <3>1, <3>2 DEF Numbered
  <2> QED
    BY <1>1, <2>2, <2>3 DEF CountCrash, Keeps, Goes
<1>2. ASSUME NEW t \in Threads, SaveCrash(t)
      PROVE  Good
  <2> DEFINE g == Process[t]
             file == << crash_desc[t], duplicates[t] >>
  <2>1. /\ g \in Fuzzers /\ crash_desc[t] \in Names /\ pc[t] = "save"
        /\ duplicates[t] \in 1 .. MAX_IDENTICAL_CRASHES
    BY <1>2 DEF SaveCrash, Working
  <2>2. /\ crash_dir' = [crash_dir EXCEPT ![g][file] = sample[t]]
        /\ pc' = [pc EXCEPT ![t] = "report"]
        /\ UNCHANGED << crash_desc, duplicates, unique_crashes, restarts >>
    BY <1>2 DEF SaveCrash, FileNumber, AfterSave, Goes
  <2>3. ASSUME NEW f \in Fuzzers, NEW n \in Names, NEW i \in 1 .. MAX_IDENTICAL_CRASHES,
               f # g \/ << n, i >> # file
        PROVE  crash_dir'[f][<< n, i >>] = crash_dir[f][<< n, i >>]
    BY <2>1, <2>2, <2>3 DEF TypeOK, Dirs
  <2>4. ASSUME restarts = 0
        PROVE  /\ (FilesCounted /\ NumberTaken /\ NumbersDistinct)'
               /\ \A f \in Fuzzers : Kept(crash_dir[f], crash_dir'[f])
    <3>1. FilesCounted /\ NumberTaken /\ NumbersDistinct
      BY <2>4 DEF Numbered
    <3>2. crash_dir[g][file] = 0 /\ duplicates[t] <= unique_crashes[g][crash_desc[t]]
      BY <2>1, <3>1 DEF NumberTaken
    <3>3. \A f \in Fuzzers : Kept(crash_dir[f], crash_dir'[f])
      <4> SUFFICES ASSUME NEW f \in Fuzzers, NEW x \in DOMAIN crash_dir[f], crash_dir[f][x] # 0
                   PROVE  crash_dir'[f][x] = crash_dir[f][x]
        BY DEF Kept
      <4>1. f # g \/ x # file
        BY <3>2
      <4> QED
        BY <2>1, <2>2, <4>1 DEF TypeOK, Dirs
    <3>4. FilesCounted'
      <4> SUFFICES ASSUME NEW f \in Fuzzers, NEW n \in Names,
                          NEW i \in 1 .. MAX_IDENTICAL_CRASHES, crash_dir'[f][<< n, i >>] # 0
                   PROVE  i <= unique_crashes[f][n]
        BY <2>2 DEF FilesCounted
      <4>1. CASE f = g /\ << n, i >> = file
        <5>1. n = crash_desc[t] /\ i = duplicates[t]
          BY <4>1
        <5> QED
          BY <3>2, <4>1, <5>1
      <4>2. CASE f # g \/ << n, i >> # file
        BY <2>3, <3>1, <4>2 DEF FilesCounted
      <4> QED
        BY <4>1, <4>2
    <3>5. ASSUME NEW u \in Threads, pc'[u] = "save"
          PROVE  /\ duplicates[u] <= unique_crashes[Process[u]][crash_desc[u]]
                 /\ crash_dir'[Process[u]][<< crash_desc[u], duplicates[u] >>] = 0
      <4>1. u # t /\ pc[u] = "save"
        BY <2>2, <3>5 DEF TypeOK
      <4>2. /\ Process[u] \in Fuzzers /\ crash_desc[u] \in Names
            /\ duplicates[u] \in 1 .. MAX_IDENTICAL_CRASHES
        BY <4>1 DEF Working
      <4>3. Process[u] # g \/ << crash_desc[u], duplicates[u] >> # file
        BY <2>1, <3>1, <4>1 DEF NumbersDistinct
      <4>4. crash_dir'[Process[u]][<< crash_desc[u], duplicates[u] >>]
              = crash_dir[Process[u]][<< crash_desc[u], duplicates[u] >>]
        BY <2>3, <4>2, <4>3
      <4> QED
        BY <3>1, <4>1, <4>4 DEF NumberTaken
    <3>6. NumbersDistinct'
      BY <2>2, <3>1 DEF NumbersDistinct, TypeOK
    <3> QED
      BY <2>2, <3>3, <3>4, <3>5, <3>6 DEF NumberTaken
  <2> QED
    BY <2>2, <2>4 DEF Numbered
<1>3. ASSUME NEW t \in Threads,
             RunCrashes(t) \/ Reproduced(t) \/ NotReproduced(t) \/ ReportCrash(t)
      PROVE  Good
  <2>1. UNCHANGED << fuzzers, restarts >>
    BY <1>3 DEF RunCrashes, Reproduced, NotReproduced, ReportCrash
  <2>2. ASSUME NEW u \in Threads, pc'[u] = "save"
        PROVE  pc[u] = "save" /\ crash_desc'[u] = crash_desc[u] /\ duplicates'[u] = duplicates[u]
    BY <1>3, <2>2 DEF RunCrashes, Reproduced, NotReproduced, ReportCrash, Goes, Named, Returns,
                      TypeOK
  <2> QED
    BY <2>1, <2>2, OtherStep
<1>4. ASSUME NEW i \in 1 .. Len(reports), ServeReport(i) \/ LoseReport(i)
      PROVE  Good
  BY <1>4, OtherStep DEF ServeReport, LoseReport
<1>5. ASSUME NEW f \in Fuzzers, RestartFuzzer(f)
      PROVE  Good
  <2>1. restarts' # 0 /\ UNCHANGED crash_dir
    BY <1>5 DEF RestartFuzzer, TypeOK
  <2> QED
    BY <2>1 DEF Numbered, Kept
<1>6. CASE UNCHANGED vars
  BY <1>6, OtherStep DEF vars
<1> QED
  BY <1>1, <1>2, <1>3, <1>4, <1>5, <1>6, NextCases
-----------------------------------------------------------------------------
(* How many crashes of a name are where: three finite sets. *)
AtWork(n) == { t \in Threads : pc[t] \in {"save", "report"} /\ crash_desc[t] = n }

(* They are finite, and Served is made of their sizes. *)
LEMMA CountsFinite ==
  ASSUME TypeOK, NEW n \in Names
  PROVE  /\ IsFiniteSet(Counted(n)) /\ Cardinality(Counted(n)) \in Nat
         /\ IsFiniteSet(AtWork(n)) /\ Reporting(n) \in Nat /\ Reporting(n) = Cardinality(AtWork(n))
         /\ IsFiniteSet(Of(reports, n)) /\ OnTheWay(n) \in Nat
         /\ OnTheWay(n) = Cardinality(Of(reports, n))
         /\ Served(n) = Cardinality(Counted(n)) - Cardinality(AtWork(n))
                          - Cardinality(Of(reports, n))
<1> USE Constants
<1>1. IsFiniteSet(Counted(n)) /\ Cardinality(Counted(n)) \in Nat
  <2>1. IsFiniteSet(1 .. MAX_IDENTICAL_CRASHES)
    BY FS_Interval
  <2>2. IsFiniteSet(Fuzzers \X (1 .. MAX_IDENTICAL_CRASHES))
    BY <2>1, FS_Product
  <2>3. Counted(n) \in SUBSET (Fuzzers \X (1 .. MAX_IDENTICAL_CRASHES))
    BY DEF Counted
  <2>4. IsFiniteSet(Counted(n))
    BY <2>2, <2>3, FS_Subset
  <2> QED
    BY <2>4, FS_CardinalityType
<1>2. IsFiniteSet(AtWork(n)) /\ Cardinality(AtWork(n)) \in Nat
  <2>1. AtWork(n) \in SUBSET Threads
    BY DEF AtWork
  <2>2. IsFiniteSet(AtWork(n))
    BY <2>1, FS_Subset
  <2> QED
    BY <2>2, FS_CardinalityType
<1>3. IsFiniteSet(Of(reports, n)) /\ Cardinality(Of(reports, n)) \in Nat
  <2>1. Len(reports) \in Nat
    BY LenProperties DEF TypeOK
  <2>2. IsFiniteSet(1 .. Len(reports))
    BY <2>1, FS_Interval
  <2>3. Of(reports, n) \in SUBSET (1 .. Len(reports))
    BY DEF Of
  <2>4. IsFiniteSet(Of(reports, n))
    BY <2>2, <2>3, FS_Subset
  <2> QED
    BY <2>4, FS_CardinalityType
<1>4. Reporting(n) = Cardinality(AtWork(n)) /\ OnTheWay(n) = Cardinality(Of(reports, n))
  BY DEF Reporting, AtWork, OnTheWay, Of
<1> QED
  BY <1>1, <1>2, <1>3, <1>4 DEF Served

(* What the server should have of a name: it changes as its count does. *)
Expected(n) == IF Served(n) < MAX_SERVER_IDENTICAL_CRASHES
                 THEN Served(n) ELSE MAX_SERVER_IDENTICAL_CRASHES

(* Steps that leave the three sets alone. *)
LEMMA SameSets ==
  ASSUME NEW n \in Names, Counted(n)' = Counted(n), AtWork(n)' = AtWork(n),
         Of(reports', n) = Of(reports, n), TypeOK, TypeOK'
  PROVE  Served(n)' = Served(n)
<1>1. Served(n)' = Cardinality(Counted(n)') - Cardinality(AtWork(n)')
                     - Cardinality(Of(reports', n))
  BY DEF Served, Reporting, OnTheWay, AtWork, Of
<1>2. Served(n) = Cardinality(Counted(n)) - Cardinality(AtWork(n)) - Cardinality(Of(reports, n))
  BY CountsFinite
<1> QED
  BY <1>1, <1>2

(* A step of a thread leaves the sum as it is; serving a report adds one. *)
LEMMA ThreadServes ==
  ASSUME TypeOK, TypeOK', Working, NEW t \in Threads, NEW n \in Names,
         \/ RunCrashes(t) \/ Reproduced(t) \/ NotReproduced(t)
         \/ CountCrash(t) \/ SaveCrash(t) \/ ReportCrash(t)
  PROVE  Served(n)' = Served(n)
<1> USE Constants DEF fuzzers, counts, locals, server
<1>0. /\ Served(n)' = Cardinality(Counted(n)') - Cardinality(AtWork(n)')
                        - Cardinality(Of(reports', n))
      /\ Served(n) = Cardinality(Counted(n)) - Cardinality(AtWork(n)) - Cardinality(Of(reports, n))
      /\ IsFiniteSet(Counted(n)) /\ Cardinality(Counted(n)) \in Nat
      /\ IsFiniteSet(AtWork(n)) /\ Cardinality(AtWork(n)) \in Nat
      /\ IsFiniteSet(Of(reports, n)) /\ Cardinality(Of(reports, n)) \in Nat
  <2>1. Served(n)' = Cardinality(Counted(n)') - Cardinality(AtWork(n)')
                       - Cardinality(Of(reports', n))
    BY DEF Served, Reporting, OnTheWay, AtWork, Of
  <2> QED
    BY <2>1, CountsFinite
<1>1. CASE RunCrashes(t) \/ Reproduced(t) \/ NotReproduced(t) \/ SaveCrash(t)
  <2>1. Counted(n)' = Counted(n) /\ Of(reports', n) = Of(reports, n)
    BY <1>1 DEF Counted, Of, RunCrashes, Reproduced, NotReproduced, SaveCrash
  <2>2. ASSUME NEW u \in Threads
        PROVE  u \in AtWork(n)' <=> u \in AtWork(n)
    <3>1. CASE RunCrashes(t) \/ Reproduced(t)
      <4>1. PICK name, label : /\ crash_desc' = [crash_desc EXCEPT ![t] = name]
                               /\ pc' = [pc EXCEPT ![t] = label]
                               /\ label \in {"reproduce", "count"}
                               /\ pc[t] \in {"idle", "reproduce"}
        BY <3>1 DEF RunCrashes, Reproduced, Goes, Named
      <4>2. CASE u = t
        BY <4>1, <4>2 DEF AtWork, TypeOK
      <4>3. CASE u # t
        BY <4>1, <4>3 DEF AtWork, TypeOK
      <4> QED
        BY <4>2, <4>3
    <3>2. CASE NotReproduced(t)
      BY <3>2 DEF AtWork, NotReproduced, Goes, TypeOK
    <3>3. CASE SaveCrash(t)
      BY <3>3 DEF AtWork, SaveCrash, AfterSave, Goes, TypeOK
    <3> QED
      BY <1>1, <3>1, <3>2, <3>3
  <2>3. AtWork(n)' = AtWork(n)
    BY <2>2 DEF AtWork
  <2> QED
    BY <2>1, <2>3, SameSets
<1>2. CASE CountCrash(t)
  <2> DEFINE g == Process[t]
             d == crash_desc[t]
             k == unique_crashes[g][d]
  <2>1. g \in Fuzzers /\ d \in Names /\ k \in 0 .. MAX_IDENTICAL_CRASHES
    BY <1>2 DEF CountCrash, Working, TypeOK
  <2>2. pc[t] = "count" /\ UNCHANGED reports
    BY <1>2 DEF CountCrash
  <2>3. CASE Returns({t}) /\ UNCHANGED unique_crashes
    <3>1. Counted(n)' = Counted(n) /\ Of(reports', n) = Of(reports, n)
      BY <2>2, <2>3 DEF Counted, Of
    <3>2. \A u \in Threads : u \in AtWork(n)' <=> u \in AtWork(n)
      BY <2>2, <2>3 DEF AtWork, Returns, TypeOK
    <3>3. AtWork(n)' = AtWork(n)
      BY <3>2 DEF AtWork
    <3> QED
      BY <3>1, <3>3, SameSets
  <2>4. CASE /\ k < MAX_IDENTICAL_CRASHES
             /\ unique_crashes' = [unique_crashes EXCEPT ![g][d] = k + 1]
             /\ pc' = [pc EXCEPT ![t] = "save"] /\ UNCHANGED crash_desc
    <3> HIDE DEF g, d, k
    <3>1. \A f \in Fuzzers : unique_crashes'[f][n] = IF f = g /\ n = d THEN k + 1
                                                                      ELSE unique_crashes[f][n]
      <4>1. unique_crashes \in [Fuzzers -> [Names -> 0 .. MAX_IDENTICAL_CRASHES]]
        BY DEF TypeOK
      <4> QED
        BY <2>1, <2>4, <4>1
    <3>2. k + 1 \in 1 .. MAX_IDENTICAL_CRASHES /\ k = unique_crashes[g][d]
      BY <2>1, <2>4 DEF k
    <3>3. CASE n = d
      <4>1. Counted(n)' = Counted(n) \cup {<< g, k + 1 >>}
        <5>1. ASSUME NEW f \in Fuzzers, NEW j \in 1 .. MAX_IDENTICAL_CRASHES
              PROVE  j <= unique_crashes'[f][n] <=>
                       j <= unique_crashes[f][n] \/ << f, j >> = << g, k + 1 >>
          BY <2>1, <3>1, <3>2, <3>3
        <5>2. ASSUME NEW c \in Fuzzers \X (1 .. MAX_IDENTICAL_CRASHES)
              PROVE  c \in Counted(n)' <=> c \in Counted(n) \cup {<< g, k + 1 >>}
          <6>1. PICK f \in Fuzzers, j \in 1 .. MAX_IDENTICAL_CRASHES : c = << f, j >>
            OBVIOUS
          <6> QED
            BY <5>1, <6>1 DEF Counted
        <5>3. << g, k + 1 >> \in Fuzzers \X (1 .. MAX_IDENTICAL_CRASHES)
          BY <2>1, <3>2
        <5> QED
          BY <5>2, <5>3 DEF Counted
      <4>2. << g, k + 1 >> \notin Counted(n)
        BY <2>1, <3>2, <3>3 DEF Counted
      <4>3. Cardinality(Counted(n)') = Cardinality(Counted(n)) + 1
        BY <1>0, <4>1, <4>2, FS_AddElement
      <4>4. AtWork(n)' = AtWork(n) \cup {t}
        <5>1. \A u \in Threads : u \in AtWork(n)' <=> u \in AtWork(n) \/ u = t
          BY <2>4, <3>3 DEF AtWork, TypeOK, d
        <5> QED
          BY <5>1 DEF AtWork
      <4>5. t \notin AtWork(n)
        BY <2>2 DEF AtWork
      <4>6. Cardinality(AtWork(n)') = Cardinality(AtWork(n)) + 1
        BY <1>0, <4>4, <4>5, FS_AddElement
      <4> QED
        BY <1>0, <2>2, <4>3, <4>6
    <3>4. CASE n # d
      <4>1. Counted(n)' = Counted(n) /\ Of(reports', n) = Of(reports, n)
        <5>1. \A f \in Fuzzers : unique_crashes'[f][n] = unique_crashes[f][n]
          BY <3>1, <3>4
        <5> QED
          BY <2>2, <5>1 DEF Counted
      <4>2. \A u \in Threads : u \in AtWork(n)' <=> u \in AtWork(n)
        BY <2>4, <3>4 DEF AtWork, TypeOK, d
      <4>3. AtWork(n)' = AtWork(n)
        BY <4>2 DEF AtWork
      <4> QED
        BY <4>1, <4>3, SameSets
    <3> QED
      BY <3>3, <3>4
  <2> QED
    BY <1>2, <2>3, <2>4 DEF CountCrash, Keeps, Goes
<1>3. CASE ReportCrash(t)
  <2> DEFINE r == [sample |-> sample[t], name |-> crash_desc[t]]
             k == Len(reports) + 1
  <2>1. pc[t] = "report" /\ crash_desc[t] \in Names /\ reports' = Append(reports, r)
    BY <1>3 DEF ReportCrash, Working
  <2>2. r \in Report /\ reports \in Seq(Report)
    BY <2>1 DEF TypeOK, Report
  <2>3. /\ Len(reports) \in Nat /\ Len(reports') = k /\ reports'[k] = r
        /\ \A i \in 1 .. Len(reports) : reports'[i] = reports[i]
    <3> HIDE DEF r
    <3> QED
      BY <2>1, <2>2, AppendProperties, LenProperties
  <2>4. r.name = crash_desc[t]
    OBVIOUS
  <2> HIDE DEF r
  <2>5. Counted(n)' = Counted(n)
    BY <1>3 DEF ReportCrash, Counted
  <2>6. CASE crash_desc[t] = n
    <3>1. Of(reports', n) = Of(reports, n) \cup {k}
      BY <2>3, <2>4, <2>6 DEF Of
    <3>2. k \notin Of(reports, n)
      BY <2>3 DEF Of
    <3> HIDE DEF k
    <3>3. Cardinality(Of(reports', n)) = Cardinality(Of(reports, n)) + 1
      BY <1>0, <3>1, <3>2, FS_AddElement
    <3>4. AtWork(n)' = AtWork(n) \ {t} /\ t \in AtWork(n)
      <4>1. \A u \in Threads : u \in AtWork(n)' <=> u \in AtWork(n) /\ u # t
        BY <1>3 DEF ReportCrash, Returns, AtWork, TypeOK
      <4> QED
        BY <2>1, <2>6, <4>1 DEF AtWork
    <3>5. Cardinality(AtWork(n)') = Cardinality(AtWork(n)) - 1
      <4>1. Cardinality(AtWork(n) \ {t}) = IF t \in AtWork(n) THEN Cardinality(AtWork(n)) - 1
                                                            ELSE Cardinality(AtWork(n))
        BY <1>0, FS_RemoveElement, Zenon
      <4> QED
        BY <3>4, <4>1
    <3> QED
      BY <1>0, <2>5, <3>3, <3>5
  <2>7. CASE crash_desc[t] # n
    <3>1. Of(reports', n) = Of(reports, n)
      BY <2>3, <2>4, <2>7 DEF Of
    <3>2. \A u \in Threads : u \in AtWork(n)' <=> u \in AtWork(n)
      BY <1>3, <2>7 DEF ReportCrash, Returns, AtWork, TypeOK
    <3>3. AtWork(n)' = AtWork(n)
      BY <3>2 DEF AtWork
    <3> QED
      BY <2>5, <3>1, <3>3, SameSets
  <2> QED
    BY <2>6, <2>7
<1> QED
  BY <1>1, <1>2, <1>3

(* Serving a report takes it from the way. *)
LEMMA ServeServes ==
  ASSUME TypeOK, TypeOK', NEW i \in 1 .. Len(reports), ServeReport(i), NEW n \in Names
  PROVE  Served(n)' = IF reports[i].name = n THEN Served(n) + 1 ELSE Served(n)
<1>1. Counted(n)' = Counted(n) /\ AtWork(n)' = AtWork(n) /\ reports' = RemoveAt(reports, i)
  BY DEF ServeReport, Counted, AtWork, fuzzers, locals
<1>2. reports \in Seq(Report)
  BY DEF TypeOK, Report
<1>3. Cardinality(Of(reports', n)) = IF reports[i].name = n
                                       THEN Cardinality(Of(reports, n)) - 1
                                       ELSE Cardinality(Of(reports, n))
  BY <1>1, <1>2, OfRemoveAt
<1>4. Served(n)' = Cardinality(Counted(n)') - Cardinality(AtWork(n)')
                     - Cardinality(Of(reports', n))
  BY DEF Served, Reporting, OnTheWay, AtWork, Of
<1>5. /\ Served(n) = Cardinality(Counted(n)) - Cardinality(AtWork(n)) - Cardinality(Of(reports, n))
      /\ Cardinality(Counted(n)) \in Nat /\ Cardinality(AtWork(n)) \in Nat
      /\ Cardinality(Of(reports, n)) \in Nat
  BY CountsFinite
<1> QED
  BY <1>1, <1>3, <1>4, <1>5

(* The server counts a served report of a name until it is full. *)
LEMMA ServedStep ==
  ASSUME TypeOK, TypeOK', Working, ServerHasWhatItKeeps, [Next]_vars
  PROVE  ServerHasWhatItKeeps'
<1> USE Constants
<1> SUFFICES ASSUME faults' = 0, restarts' = 0, NEW n \in Names, Valid(n)
             PROVE  server_crashes'[n] = Expected(n)'
  BY DEF ServerHasWhatItKeeps, Expected
<1>0. Served(n) \in Int /\ server_crashes[n] \in 0 .. MAX_SERVER_IDENTICAL_CRASHES
  BY CountsFinite DEF TypeOK
<1>1. ASSUME faults = 0, restarts = 0
      PROVE  server_crashes[n] = Expected(n)
  BY <1>1 DEF ServerHasWhatItKeeps, Expected
<1>2. ASSUME NEW t \in Threads, \/ RunCrashes(t) \/ Reproduced(t) \/ NotReproduced(t)
                                \/ CountCrash(t) \/ SaveCrash(t) \/ ReportCrash(t)
      PROVE  server_crashes'[n] = Expected(n)'
  <2>1. UNCHANGED << server, faults, restarts >>
    BY <1>2 DEF RunCrashes, Reproduced, NotReproduced, CountCrash, SaveCrash, ReportCrash, counts
  <2>2. Served(n)' = Served(n)
    BY <1>2, ThreadServes
  <2>3. Expected(n)' = Expected(n)
    BY <2>2 DEF Expected
  <2> QED
    BY <1>1, <2>1, <2>3 DEF server
<1>3. ASSUME NEW i \in 1 .. Len(reports), ServeReport(i)
      PROVE  server_crashes'[n] = Expected(n)'
  <2> DEFINE m == reports[i].name
             k == server_crashes[m]
  <2>1. Served(n)' = IF m = n THEN Served(n) + 1 ELSE Served(n)
    BY <1>3, ServeServes
  <2>2. faults = 0 /\ restarts = 0
    BY <1>3 DEF ServeReport, counts
  <2>3. server_crashes[n] = Expected(n)
    BY <1>1, <2>2
  <2>4. server_crashes'[n] = IF m = n /\ server_crashes[n] < MAX_SERVER_IDENTICAL_CRASHES
                               THEN server_crashes[n] + 1 ELSE server_crashes[n]
    <3>1. CASE /\ k < MAX_SERVER_IDENTICAL_CRASHES
               /\ server_crashes' = [server_crashes EXCEPT ![m] = k + 1]
      BY <3>1 DEF TypeOK
    <3>2. CASE UNCHANGED server /\ (Valid(m) => ~(k < MAX_SERVER_IDENTICAL_CRASHES))
      BY <3>2 DEF server
    <3> QED
      BY <1>3, <3>1, <3>2 DEF ServeReport, Keeps
  <2>5. Expected(n)' = IF Served(n)' < MAX_SERVER_IDENTICAL_CRASHES
                         THEN Served(n)' ELSE MAX_SERVER_IDENTICAL_CRASHES
    BY DEF Expected
  <2> HIDE DEF m
  <2> QED
    BY <1>0, <2>1, <2>3, <2>4, <2>5 DEF Expected
<1>4. ASSUME (\E i \in 1 .. Len(reports) : LoseReport(i)) \/ \E f \in Fuzzers : RestartFuzzer(f)
      PROVE  FALSE
  <2>1. faults \in Nat /\ restarts \in Nat
    BY DEF TypeOK
  <2>2. faults' = faults + 1 \/ restarts' = restarts + 1
    BY <1>4 DEF LoseReport, RestartFuzzer
  <2> QED
    BY <2>1, <2>2
<1>5. CASE UNCHANGED vars
  <2>1. Expected(n)' = Expected(n) /\ UNCHANGED << server_crashes, faults, restarts >>
    BY <1>5 DEF Expected, Served, Counted, Reporting, OnTheWay, vars, locals, fuzzers, server,
                counts
  <2> QED
    BY <1>1, <2>1
<1> QED
  BY <1>2, <1>3, <1>4, <1>5, NextCases
-----------------------------------------------------------------------------
(* The initial state satisfies the invariant. *)
LEMMA InitIInv ==
  ASSUME Init
  PROVE  IInv
<1> USE Constants
<1>1. TypeOK
  <2>1. reports \in Seq([sample : Nat, name : Names])
    BY EmptySeq DEF Init
  <2>2. NoCrashes \in [Names -> 0 .. MAX_IDENTICAL_CRASHES]
    BY DEF NoCrashes
  <2>3. NoCrashes \in [Names -> 0 .. MAX_SERVER_IDENTICAL_CRASHES]
    BY DEF NoCrashes
  <2>4. \A max : EmptyDir(max) \in Dirs(max)
    BY DEF EmptyDir, Dirs
  <2> QED
    BY <2>1, <2>2, <2>3, <2>4 DEF Init, TypeOK
<1>2. Working
  BY DEF Init, Working
<1>3. ServerNumbered
  BY DEF Init, ServerNumbered, EmptyDir
<1>4. Numbered
  BY DEF Init, Numbered, FilesCounted, NumberTaken, NumbersDistinct, EmptyDir
<1>5. ServerHasWhatItKeeps
  <2> SUFFICES ASSUME NEW n \in Names
               PROVE  server_crashes[n] = Expected(n)
    BY DEF ServerHasWhatItKeeps, Expected
  <2>1. Counted(n) = {}
    <3>1. \A f \in Fuzzers : unique_crashes[f][n] = 0
      BY DEF Init, NoCrashes
    <3> QED
      BY <3>1 DEF Counted
  <2>2. AtWork(n) = {}
    BY DEF AtWork, Init
  <2>3. Of(reports, n) = {}
    <3>1. Len(reports) = 0
      BY EmptySeq DEF Init
    <3> QED
      BY <3>1 DEF Of
  <2>4. Served(n) = 0
    <3>1. Served(n) = Cardinality(Counted(n)) - Cardinality(AtWork(n))
                        - Cardinality(Of(reports, n))
      BY <1>1, CountsFinite
    <3>2. Cardinality({}) = 0
      BY FS_EmptySet
    <3> QED
      BY <2>1, <2>2, <2>3, <3>1, <3>2
  <2>5. server_crashes[n] = 0
    BY DEF Init, NoCrashes
  <2> QED
    BY <2>4, <2>5 DEF Expected
<1> QED
  BY <1>1, <1>2, <1>3, <1>4, <1>5 DEF IInv

(* Every step keeps the invariant. *)
LEMMA StepIInv ==
  ASSUME IInv, [Next]_vars
  PROVE  IInv'
<1>1. TypeOK' /\ Working'
  BY TypeStep DEF IInv
<1>2. ServerNumbered'
  BY ServerStep DEF IInv
<1>3. Numbered'
  BY NumberStep DEF IInv
<1>4. ServerHasWhatItKeeps'
  BY <1>1, ServedStep DEF IInv
<1> QED
  BY <1>1, <1>2, <1>3, <1>4 DEF IInv

(* The inductive invariant holds: every number a thread or a file has was counted. *)
THEOREM InductiveInvariant == Spec => []IInv
<1>1. Init => IInv
  BY InitIInv
<1>2. IInv /\ [Next]_vars => IInv'
  BY StepIInv
<1> QED
  BY <1>1, <1>2, PTL DEF Spec

(* Every variable keeps its type; in particular no count of unique_crashes passes its *)
(* limit, of a fuzzer or of the server, and no file has a higher number.              *)
THEOREM TypeCorrect == Spec => []TypeOK
<1>1. IInv => TypeOK
  BY DEF IInv
<1> QED
  BY <1>1, InductiveInvariant, PTL

(* The server has all the crashes the fuzzers counted and have sent, up to its limit: *)
(* that fuzzers limit and number crashes each on its own costs a name nothing.        *)
THEOREM ServerHasThem == Spec => []ServerHasWhatItKeeps
<1>1. IInv => ServerHasWhatItKeeps
  BY DEF IInv
<1> QED
  BY <1>1, InductiveInvariant, PTL

(* RunSampleAndGetCoverage writes a crash's file after it released crash_mutex, and   *)
(* still no crash is written over: not on the server, and not in a fuzzer's directory *)
(* before a restart.                                                                  *)
THEOREM NoCrashOverwritten == Spec => CrashesKept
<1>1. IInv /\ [Next]_vars =>
        [/\ Kept(server_dir, server_dir')
         /\ restarts = 0 => \A f \in Fuzzers : Kept(crash_dir[f], crash_dir'[f])]_vars
  BY ServerStep, NumberStep DEF IInv
<1> QED
  BY <1>1, InductiveInvariant, PTL DEF Spec, CrashesKept
=============================================================================
