---------------------------- MODULE FuzzerLocksProofs ----------------------------
(***************************************************************************)
(* Deadlock freedom of FuzzerLocks for any number of fuzzers and threads.  *)
(*                                                                         *)
(* The mutexes have an order in which every operation nests its sections.  *)
(* That what is left of an operation keeps to it is an invariant, since    *)
(* the order of a sequence of steps is one of all its suffixes.  Of threads *)
(* that wait, one that wants the last mutex of all can then only wait for  *)
(* a thread that waits for nobody.                                         *)
(***************************************************************************)
EXTENDS FuzzerLocks, SequenceTheorems, NaturalsInduction, WellFoundedInduction, TLAPS

Mutexes == {"queue", "output", "server", "coverage", "context", "stats", "connections",
            "corpus", "server crashes", "crash", "trie"}
Step == [do : {"lock", "unlock", "choose"}, mutex : Mutexes \cup {"none"},
         mode : {"read", "write", "none"}, steps : Nat]

(* The order: outer sections have lower ranks. *)
LastRank == 12
Rank(mutex) ==
  CASE mutex = "queue" -> 1       [] mutex = "output" -> 2
    [] mutex = "server" -> 3      [] mutex = "coverage" -> 4
    [] mutex = "context" -> 5     [] mutex = "stats" -> 6
    [] mutex = "connections" -> 7 [] mutex = "corpus" -> 8
    [] mutex = "server crashes" -> 9
    [] mutex = "crash" -> 10      [] mutex = "trie" -> 11
    [] OTHER -> LastRank

(* Whatever is held when a mutex is locked comes before it.  Held is what is to be *)
(* unlocked before it is mentioned otherwise.                                      *)
Nested(s) ==
  \A i \in 1 .. Len(s) : \A j \in i .. Len(s) :
    /\ s[i].do = "lock" /\ s[j].do = "unlock"
    /\ \A k \in i .. j - 1 : s[k].mutex # s[j].mutex
    => Rank(s[j].mutex) < Rank(s[i].mutex)

(* Nothing is held when a sequence of steps begins. *)
Closed(s) ==
  \A j \in 1 .. Len(s) : s[j].do = "unlock" => \E k \in 1 .. j - 1 : s[k].mutex = s[j].mutex

(* Steps that nest well and can stand inside a section of a rank below r. *)
Inside(r, s) ==
  /\ s \in Seq(Step) /\ Nested(s) /\ Closed(s)
  /\ \A i \in 1 .. Len(s) : Rank(s[i].mutex) >= r

(* The inductive invariant. *)
IInv == todo \in [Agents -> Seq(Step)] /\ \A t \in Agents : Nested(todo[t])
-----------------------------------------------------------------------------
(* Ranks are small numbers. *)
LEMMA RankType ==
  ASSUME NEW mutex
  PROVE  Rank(mutex) \in 1 .. LastRank
BY DEF Rank, LastRank

(* Suffixes nest as well as the whole. *)
LEMMA NestedSuffix ==
  ASSUME NEW s \in Seq(Step), NEW r \in Seq(Step), NEW n \in Nat, Nested(s),
         Len(r) = Len(s) - n, \A i \in 1 .. Len(r) : r[i] = s[i + n]
  PROVE  Nested(r)
<1>1. Len(s) \in Nat /\ Len(r) \in Nat
  BY LenProperties
<1> SUFFICES ASSUME NEW i \in 1 .. Len(r), NEW j \in i .. Len(r),
                    r[i].do = "lock", r[j].do = "unlock",
                    \A k \in i .. j - 1 : r[k].mutex # r[j].mutex
             PROVE  Rank(r[j].mutex) < Rank(r[i].mutex)
  BY DEF Nested
<1>2. /\ i + n \in 1 .. Len(s) /\ j + n \in i + n .. Len(s) /\ j \in 1 .. Len(r)
  BY <1>1
<1>3. r[i] = s[i + n] /\ r[j] = s[j + n]
  BY <1>2
<1>4. ASSUME NEW k \in i + n .. (j + n) - 1
      PROVE  s[k].mutex # s[j + n].mutex
  <2>1. k - n \in i .. j - 1 /\ k - n \in 1 .. Len(r) /\ (k - n) + n = k
    BY <1>1
  <2>2. r[k - n] = s[k]
    BY <2>1
  <2> QED
    BY <1>3, <2>1, <2>2
<1> QED
  BY <1>2, <1>3, <1>4 DEF Nested

(* No steps at all nest well, *)
LEMMA InsideNothing ==
  ASSUME NEW r
  PROVE  Inside(r, Nothing)
<1>1. Nothing \in Seq(Step) /\ Len(Nothing) = 0
  BY EmptySeq DEF Nothing
<1> QED
  BY <1>1 DEF Inside, Nested, Closed

(* and what can stand inside a section can stand inside one of a lower rank. *)
LEMMA InsideLess ==
  ASSUME NEW r \in Nat, NEW q \in Nat, q <= r, NEW s, Inside(r, s)
  PROVE  Inside(q, s)
BY RankType DEF Inside, LastRank

(* One after the other. *)
LEMMA InsideConcat ==
  ASSUME NEW r \in Nat, NEW a, NEW b, Inside(r, a), Inside(r, b)
  PROVE  Inside(r, a \o b)
<1> DEFINE s == a \o b
           n == Len(a)
<1>1. a \in Seq(Step) /\ b \in Seq(Step) /\ Len(a) \in Nat /\ Len(b) \in Nat
  BY LenProperties DEF Inside
<1>2. /\ s \in Seq(Step) /\ Len(s) = n + Len(b)
      /\ \A i \in 1 .. n + Len(b) : s[i] = IF i <= n THEN a[i] ELSE b[i - n]
  BY <1>1, ConcatProperties
<1> HIDE DEF s
<1>3. \A i \in 1 .. n : i \in 1 .. Len(s) /\ s[i] = a[i]
  BY <1>1, <1>2
<1>4. \A i \in n + 1 .. Len(s) : i - n \in 1 .. Len(b) /\ s[i] = b[i - n]
  BY <1>1, <1>2
<1>5. \A i \in 1 .. Len(s) : i \in 1 .. n \/ i \in n + 1 .. Len(s)
  BY <1>1, <1>2
<1>6. Closed(s)
  <2> SUFFICES ASSUME NEW j \in 1 .. Len(s), s[j].do = "unlock"
               PROVE  \E k \in 1 .. j - 1 : s[k].mutex = s[j].mutex
    BY DEF Closed
  <2>1. CASE j \in 1 .. n
    <3>1. PICK k \in 1 .. j - 1 : a[k].mutex = a[j].mutex
      BY <1>3, <2>1 DEF Inside, Closed
    <3>2. k \in 1 .. n
      BY <1>1, <2>1
    <3> QED
      BY <1>3, <2>1, <3>1, <3>2
  <2>2. CASE j \in n + 1 .. Len(s)
    <3>1. j - n \in 1 .. Len(b) /\ s[j] = b[j - n]
      BY <1>4, <2>2
    <3>2. PICK k \in 1 .. (j - n) - 1 : b[k].mutex = b[j - n].mutex
      BY <3>1 DEF Inside, Closed
    <3>3. k + n \in n + 1 .. Len(s) /\ (k + n) - n = k /\ k + n \in 1 .. j - 1
      BY <1>1, <2>2, <3>1
    <3>4. s[k + n] = b[k]
      BY <1>4, <3>3
    <3> QED
      BY <3>1, <3>2, <3>3, <3>4
  <2> QED
    BY <1>5, <2>1, <2>2
<1>7. Nested(s)
  <2> SUFFICES ASSUME NEW i \in 1 .. Len(s), NEW j \in i .. Len(s),
                      s[i].do = "lock", s[j].do = "unlock",
                      \A k \in i .. j - 1 : s[k].mutex # s[j].mutex
               PROVE  Rank(s[j].mutex) < Rank(s[i].mutex)
    BY DEF Nested
  <2>0. j \in 1 .. Len(s)
    BY <1>1, <1>2
  <2>1. CASE j \in 1 .. n
    <3>1. i \in 1 .. n /\ j \in i .. n
      BY <1>1, <2>1
    <3>2. ASSUME NEW k \in i .. j - 1
          PROVE  a[k].mutex # a[j].mutex
      <4>1. k \in 1 .. n
        BY <1>1, <2>1
      <4> QED
        BY <1>3, <2>1, <4>1
    <3> QED
      BY <1>3, <2>1, <3>1, <3>2 DEF Inside, Nested
  <2>2. CASE i \in 1 .. n /\ j \in n + 1 .. Len(s)
    <3>1. j - n \in 1 .. Len(b) /\ s[j] = b[j - n]
      BY <1>4, <2>2
    <3>2. PICK k \in 1 .. (j - n) - 1 : b[k].mutex = b[j - n].mutex
      BY <3>1 DEF Inside, Closed
    <3>3. k + n \in n + 1 .. Len(s) /\ (k + n) - n = k /\ k + n \in i .. j - 1
      BY <1>1, <2>2, <3>1
    <3>4. s[k + n] = b[k]
      BY <1>4, <3>3
    <3> QED
      BY <3>1, <3>2, <3>3, <3>4
  <2>3. CASE i \in n + 1 .. Len(s)
    <3>1. j \in n + 1 .. Len(s) /\ j - n \in i - n .. Len(b)
      BY <1>1, <1>2, <2>3
    <3>2. /\ i - n \in 1 .. Len(b) /\ s[i] = b[i - n] /\ s[j] = b[j - n]
      BY <1>4, <2>3, <3>1
    <3>3. ASSUME NEW k \in i - n .. (j - n) - 1
          PROVE  b[k].mutex # b[j - n].mutex
      <4>1. k + n \in n + 1 .. Len(s) /\ (k + n) - n = k /\ k + n \in i .. j - 1
        BY <1>1, <2>3, <3>1
      <4>2. s[k + n] = b[k]
        BY <1>4, <4>1
      <4> QED
        BY <3>2, <4>1, <4>2
    <3> QED
      BY <3>1, <3>2, <3>3 DEF Inside, Nested
  <2> QED
    BY <1>5, <2>0, <2>1, <2>2, <2>3
<1>8. ASSUME NEW i \in 1 .. Len(s)
      PROVE  Rank(s[i].mutex) >= r
  BY <1>3, <1>4, <1>5 DEF Inside
<1> QED
  BY <1>2, <1>6, <1>7, <1>8 DEF Inside, s

(* A section around steps of higher ranks. *)
Guarded(mutex, mode, body) == << Lock(mutex, mode) >> \o body \o << Unlock(mutex, mode) >>
LEMMA InsideGuarded ==
  ASSUME NEW mutex \in Mutexes, NEW mode \in {"read", "write", "none"}, NEW body, Inside(Rank(mutex) + 1, body)
  PROVE  Inside(Rank(mutex), Guarded(mutex, mode, body))
<1> DEFINE l == Lock(mutex, mode)
           u == Unlock(mutex, mode)
           n == Len(body)
           a == << l >> \o body
           s == a \o << u >>
           r == Rank(mutex)
<1>0. r \in 1 .. LastRank
  BY RankType
<1>1. /\ body \in Seq(Step) /\ n \in Nat
      /\ \A i \in 1 .. n : body[i] \in Step /\ Rank(body[i].mutex) >= r + 1
  BY LenProperties, ElementOfSeq DEF Inside
<1>2. /\ l \in Step /\ l.do = "lock" /\ l.mutex = mutex
      /\ u \in Step /\ u.do = "unlock" /\ u.mutex = mutex
  BY DEF Lock, Unlock, Step
<1> HIDE DEF l, u, r
<1>3. /\ << l >> \in Seq(Step) /\ Len(<< l >>) = 1 /\ << l >>[1] = l
      /\ << u >> \in Seq(Step) /\ Len(<< u >>) = 1 /\ << u >>[1] = u
  BY <1>2
<1>4. /\ a \in Seq(Step) /\ Len(a) = 1 + n
      /\ \A i \in 1 .. 1 + n : a[i] = IF i <= 1 THEN << l >>[i] ELSE body[i - 1]
  BY <1>1, <1>3, ConcatProperties
<1> HIDE DEF a
<1>5. /\ s \in Seq(Step) /\ Len(s) = 1 + n + 1
      /\ \A i \in 1 .. 1 + n + 1 : s[i] = IF i <= 1 + n THEN a[i] ELSE << u >>[i - (1 + n)]
  BY <1>3, <1>4, ConcatProperties
<1> HIDE DEF s
<1>6. /\ Len(s) = n + 2 /\ s[1] = l /\ s[n + 2] = u
      /\ \A i \in 2 .. n + 1 : i - 1 \in 1 .. n /\ s[i] = body[i - 1]
  <2>1. 1 + n + 1 = n + 2 /\ 1 \in 1 .. 1 + n /\ 1 \in 1 .. n + 2 /\ n + 2 \in 1 .. n + 2
    BY <1>1
  <2>2. a[1] = l /\ s[1] = a[1]
    <3>1. a[1] = << l >>[1]
      BY <1>1, <1>4, <2>1
    <3>2. 1 \in 1 .. 1 + n + 1 /\ 1 <= 1 + n
      BY <1>1
    <3>3. s[1] = a[1]
      BY <1>5, <3>2
    <3> QED
      BY <1>3, <3>1, <3>3
  <2>3. ~(n + 2 <= 1 + n) /\ (n + 2) - (1 + n) = 1
    BY <1>1
  <2>4. s[n + 2] = << u >>[1]
    BY <1>5, <2>1, <2>3
  <2>5. ASSUME NEW i \in 2 .. n + 1
        PROVE  i - 1 \in 1 .. n /\ s[i] = body[i - 1]
    <3>1. i \in 1 .. 1 + n /\ i \in 1 .. 1 + n + 1 /\ i <= 1 + n /\ ~(i <= 1)
      BY <1>1
    <3>2. s[i] = a[i] /\ a[i] = body[i - 1]
      BY <1>4, <1>5, <3>1
    <3> QED
      BY <1>1, <3>2
  <2> QED
    BY <1>3, <1>5, <2>1, <2>2, <2>4, <2>5
<1>7. \A i \in 1 .. Len(s) : i = 1 \/ i = n + 2 \/ i \in 2 .. n + 1
  BY <1>1, <1>6
<1>8. ASSUME NEW j \in 2 .. n + 1, s[j].do = "unlock"
      PROVE  \E k \in 2 .. j - 1 : s[k].mutex = s[j].mutex
  <2>1. j - 1 \in 1 .. n /\ s[j] = body[j - 1]
    BY <1>6
  <2>2. PICK k \in 1 .. (j - 1) - 1 : body[k].mutex = body[j - 1].mutex
    BY <1>8, <2>1 DEF Inside, Closed
  <2>3. k + 1 \in 2 .. n + 1 /\ k + 1 \in 2 .. j - 1 /\ (k + 1) - 1 = k
    BY <1>1, <2>1
  <2>4. s[k + 1] = body[k]
    BY <1>6, <2>3
  <2> QED
    BY <2>1, <2>2, <2>3, <2>4
<1>9. Closed(s)
  <2> SUFFICES ASSUME NEW j \in 1 .. Len(s), s[j].do = "unlock"
               PROVE  \E k \in 1 .. j - 1 : s[k].mutex = s[j].mutex
    BY DEF Closed
  <2>1. CASE j = 1
    BY <1>2, <1>6, <2>1
  <2>2. CASE j = n + 2
    <3>1. 1 \in 1 .. j - 1
      BY <1>1, <2>2
    <3> QED
      BY <1>2, <1>6, <2>2, <3>1
  <2>3. CASE j \in 2 .. n + 1
    <3>1. PICK k \in 2 .. j - 1 : s[k].mutex = s[j].mutex
      BY <1>8, <2>3
    <3>2. k \in 1 .. j - 1
      BY <1>1, <2>3
    <3> QED
      BY <3>1, <3>2
  <2> QED
    BY <1>7, <2>1, <2>2, <2>3
<1>10. Nested(s)
  <2> SUFFICES ASSUME NEW i \in 1 .. Len(s), NEW j \in i .. Len(s),
                      s[i].do = "lock", s[j].do = "unlock",
                      \A k \in i .. j - 1 : s[k].mutex # s[j].mutex
               PROVE  Rank(s[j].mutex) < Rank(s[i].mutex)
    BY DEF Nested
  <2>0. j \in 1 .. Len(s) /\ j # 1 /\ i # n + 2
    BY <1>1, <1>2, <1>6
  <2>1. CASE i = 1 /\ j = n + 2
    <3>1. 1 \in i .. j - 1
      BY <1>1, <2>1
    <3> QED
      BY <1>2, <1>6, <2>1, <3>1
  <2>2. CASE i = 1 /\ j \in 2 .. n + 1
    <3>1. PICK k \in 2 .. j - 1 : s[k].mutex = s[j].mutex
      BY <1>8, <2>2
    <3>2. k \in i .. j - 1
      BY <1>1, <2>2
    <3> QED
      BY <3>1, <3>2
  <2>3. CASE i \in 2 .. n + 1 /\ j = n + 2
    <3>1. Rank(s[i].mutex) >= r + 1 /\ Rank(s[j].mutex) = r
      BY <1>1, <1>2, <1>6, <2>3 DEF r
    <3>2. Rank(s[i].mutex) \in 1 .. LastRank
      BY RankType
    <3> QED
      BY <1>0, <3>1, <3>2 DEF LastRank
  <2>4. CASE i \in 2 .. n + 1 /\ j \in 2 .. n + 1
    <3>1. /\ i - 1 \in 1 .. Len(body) /\ j - 1 \in i - 1 .. Len(body)
          /\ s[i] = body[i - 1] /\ s[j] = body[j - 1]
      BY <1>1, <1>6, <2>4
    <3>2. ASSUME NEW k \in i - 1 .. (j - 1) - 1
          PROVE  body[k].mutex # body[j - 1].mutex
      <4>1. k + 1 \in 2 .. n + 1 /\ (k + 1) - 1 = k /\ k + 1 \in i .. j - 1
        BY <1>1, <2>4
      <4>2. s[k + 1] = body[k]
        BY <1>6, <4>1
      <4> QED
        BY <3>1, <4>1, <4>2
    <3> QED
      BY <3>1, <3>2 DEF Inside, Nested
  <2> QED
    BY <1>7, <2>0, <2>1, <2>2, <2>3, <2>4
<1>11. ASSUME NEW i \in 1 .. Len(s)
       PROVE  Rank(s[i].mutex) >= r
  <2>1. CASE i = 1 \/ i = n + 2
    BY <1>0, <1>2, <1>6, <2>1 DEF r, LastRank
  <2>2. CASE i \in 2 .. n + 1
    <3>1. Rank(s[i].mutex) >= r + 1 /\ Rank(s[i].mutex) \in 1 .. LastRank
      BY <1>1, <1>6, <2>2, RankType
    <3> QED
      BY <1>0, <3>1 DEF LastRank
  <2> QED
    BY <1>7, <2>1, <2>2
<1>12. s = Guarded(mutex, mode, body)
  BY <1>1, <1>3, ConcatAssociative DEF s, a, l, u, Guarded
<1> QED
  BY <1>5, <1>9, <1>10, <1>11, <1>12 DEF Inside, r

(* The two kinds of sections. *)
LEMMA InsideSection ==
  ASSUME NEW mutex \in Mutexes, NEW r \in Nat, Rank(mutex) = r,
         NEW q \in Nat, r < q, NEW body, Inside(q, body)
  PROVE  Inside(r, Section(mutex, body)) /\ Inside(r, ReadSection(mutex, body))
<1>0. Inside(r + 1, body)
  BY InsideLess
<1>1. Inside(Rank(mutex), Guarded(mutex, "write", body))
  BY <1>0, InsideGuarded
<1>2. Inside(Rank(mutex), Guarded(mutex, "read", body))
  BY <1>0, InsideGuarded
<1> QED
  BY <1>1, <1>2 DEF Section, ReadSection, Guarded

(* What a condition can leave out. *)
LEMMA InsideOptional ==
  ASSUME NEW r \in 1 .. LastRank, NEW body, Inside(r, body)
  PROVE  Inside(r, Optional(body))
<1> DEFINE c == [do |-> "choose", mutex |-> "none", mode |-> "none", steps |-> Len(body)]
           s == << c >> \o body
           n == Len(body)
<1>1. body \in Seq(Step) /\ n \in Nat
  BY LenProperties DEF Inside
<1>2. c \in Step /\ c.do = "choose" /\ Rank(c.mutex) >= r
  <2>1. c \in Step /\ c.do = "choose" /\ c.mutex = "none"
    BY <1>1 DEF Step
  <2>2. Rank("none") = LastRank
    BY DEF Rank
  <2> QED
    BY <2>1, <2>2 DEF LastRank
<1> HIDE DEF c
<1>3. << c >> \in Seq(Step) /\ Len(<< c >>) = 1 /\ << c >>[1] = c
  BY <1>2
<1>4. /\ s \in Seq(Step) /\ Len(s) = 1 + n
      /\ \A i \in 1 .. 1 + n : s[i] = IF i <= 1 THEN << c >>[i] ELSE body[i - 1]
  BY <1>1, <1>3, ConcatProperties
<1> HIDE DEF s
<1>5. s[1] = c /\ \A i \in 2 .. 1 + n : i - 1 \in 1 .. n /\ s[i] = body[i - 1]
  BY <1>1, <1>3, <1>4
<1>6. \A i \in 1 .. Len(s) : i = 1 \/ i \in 2 .. 1 + n
  BY <1>1, <1>4
<1>7. Closed(s)
  <2> SUFFICES ASSUME NEW j \in 1 .. Len(s), s[j].do = "unlock"
               PROVE  \E k \in 1 .. j - 1 : s[k].mutex = s[j].mutex
    BY DEF Closed
  <2>1. j \in 2 .. 1 + n
    BY <1>2, <1>5, <1>6
  <2>2. j - 1 \in 1 .. n /\ s[j] = body[j - 1]
    BY <1>5, <2>1
  <2>3. PICK k \in 1 .. (j - 1) - 1 : body[k].mutex = body[j - 1].mutex
    BY <2>2 DEF Inside, Closed
  <2>4. k + 1 \in 2 .. 1 + n /\ k + 1 \in 1 .. j - 1 /\ (k + 1) - 1 = k
    BY <1>1, <2>1
  <2>5. s[k + 1] = body[k]
    BY <1>5, <2>4
  <2> QED
    BY <2>2, <2>3, <2>4, <2>5
<1>8. Nested(s)
  <2> SUFFICES ASSUME NEW i \in 1 .. Len(s), NEW j \in i .. Len(s),
                      s[i].do = "lock", s[j].do = "unlock",
                      \A k \in i .. j - 1 : s[k].mutex # s[j].mutex
               PROVE  Rank(s[j].mutex) < Rank(s[i].mutex)
    BY DEF Nested
  <2>1. i \in 2 .. 1 + n
    BY <1>2, <1>5, <1>6
  <2>2. j \in 2 .. 1 + n
    BY <1>1, <1>4, <2>1
  <2>3. /\ i - 1 \in 1 .. Len(body) /\ j - 1 \in i - 1 .. Len(body)
        /\ s[i] = body[i - 1] /\ s[j] = body[j - 1]
    BY <1>1, <1>5, <2>1, <2>2
  <2>4. ASSUME NEW k \in i - 1 .. (j - 1) - 1
        PROVE  body[k].mutex # body[j - 1].mutex
    <3>1. k + 1 \in 2 .. 1 + n /\ (k + 1) - 1 = k /\ k + 1 \in i .. j - 1
      BY <1>1, <2>1, <2>2
    <3>2. s[k + 1] = body[k]
      BY <1>5, <3>1
    <3> QED
      BY <2>3, <3>1, <3>2
  <2> QED
    BY <2>3, <2>4 DEF Inside, Nested
<1>9. ASSUME NEW i \in 1 .. Len(s)
      PROVE  Rank(s[i].mutex) >= r
  BY <1>2, <1>5, <1>6 DEF Inside
<1>10. s = Optional(body)
  BY DEF s, c, Optional
<1> QED
  BY <1>4, <1>7, <1>8, <1>9, <1>10 DEF Inside
-----------------------------------------------------------------------------
(* Every operation nests its sections in the order of the ranks. *)
LEMMA Ranks ==
  /\ "queue" \in Mutexes /\ Rank("queue") = 1
  /\ "output" \in Mutexes /\ Rank("output") = 2
  /\ "server" \in Mutexes /\ Rank("server") = 3
  /\ "coverage" \in Mutexes /\ Rank("coverage") = 4
  /\ "context" \in Mutexes /\ Rank("context") = 5
  /\ "stats" \in Mutexes /\ Rank("stats") = 6
  /\ "connections" \in Mutexes /\ Rank("connections") = 7
  /\ "corpus" \in Mutexes /\ Rank("corpus") = 8
  /\ "server crashes" \in Mutexes /\ Rank("server crashes") = 9
  /\ "crash" \in Mutexes /\ Rank("crash") = 10
  /\ "trie" \in Mutexes /\ Rank("trie") = 11
BY DEF Rank, Mutexes

(* A section of its own stands inside every lower rank. *)
LEMMA InsideAlone ==
  ASSUME NEW mutex \in Mutexes, NEW q \in Nat, Rank(mutex) = q, NEW r \in Nat, r <= q
  PROVE  Inside(r, Section(mutex, Nothing)) /\ Inside(r, ReadSection(mutex, Nothing))
<1>1. Inside(q + 1, Nothing)
  BY InsideNothing
<1>2. Inside(q, Section(mutex, Nothing)) /\ Inside(q, ReadSection(mutex, Nothing))
  BY <1>1, InsideSection
<1> QED
  BY <1>2, InsideLess

(* The server's side of the requests takes mutexes of the last ranks. *)
LEMMA InsideRequests == Inside(7, NewCoverage) /\ Inside(7, Updates) /\ Inside(7, CrashReport)
<1>1. ASSUME NEW body, Inside(7, body)
      PROVE  Inside(7, Served(body))
  <2>1. Inside(7, Section("connections", Nothing))
    <3>1. "connections" \in Mutexes /\ Rank("connections") = 7
      BY Ranks
    <3> QED
      BY <3>1, InsideAlone
  <2>2. Inside(7, Section("connections", Nothing) \o body)
    BY <1>1, <2>1, InsideConcat
  <2> QED
    BY <2>1, <2>2, InsideConcat DEF Served
<1>2. Inside(7, ReadSection("corpus", Nothing)) /\ Inside(7, Section("corpus", Nothing))
  <2>1. "corpus" \in Mutexes /\ Rank("corpus") = 8
    BY Ranks
  <2> QED
    BY <2>1, InsideAlone
<1>3. Inside(7, Section("server crashes", Nothing))
  <2>1. "server crashes" \in Mutexes /\ Rank("server crashes") = 9
    BY Ranks
  <2>2. 7 \in Nat /\ 9 \in Nat /\ 7 <= 9
    OBVIOUS
  <2> QED
    BY <2>1, <2>2, InsideAlone, Zenon
<1>4. Inside(7, Optional(Section("corpus", Nothing)))
  BY <1>2, InsideOptional DEF LastRank
<1>5. Inside(7, ReadSection("corpus", Nothing) \o Optional(Section("corpus", Nothing)))
  BY <1>2, <1>4, InsideConcat
<1> QED
  BY <1>1, <1>2, <1>3, <1>5 DEF NewCoverage, Updates, CrashReport

(* Saving or restoring the state of a fuzzer. *)
LEMMA InsideState == Inside(2, StateSection)
<1>1. Inside(5, Section("context", Nothing)) /\ Inside(5, Section("stats", Nothing))
  <2>1. "context" \in Mutexes /\ Rank("context") = 5
    BY Ranks
  <2>2. "stats" \in Mutexes /\ Rank("stats") = 6
    BY Ranks
  <2> QED
    BY <2>1, <2>2, InsideAlone
<1>2. Inside(5, Section("context", Nothing) \o Section("stats", Nothing))
  BY <1>1, InsideConcat
<1>3. Inside(4, Section("coverage", Section("context", Nothing) \o Section("stats", Nothing)))
  <2>1. "coverage" \in Mutexes /\ Rank("coverage") = 4
    BY Ranks
  <2> QED
    BY <1>2, <2>1, InsideSection
<1> DEFINE body == Section("coverage", Section("context", Nothing) \o Section("stats", Nothing))
<1> HIDE DEF body
<1>4. Inside(3, body)
  BY <1>3, InsideLess DEF body
<1>5. Inside(2, Section("output", body))
  <2>1. "output" \in Mutexes /\ Rank("output") = 2
    BY Ranks
  <2> QED
    BY <1>4, <2>1, InsideSection
<1> QED
  BY <1>5 DEF body, StateSection

(* The operation that nests deepest: it has all of the above inside. *)
LEMMA InsideSynchronize == Inside(1, SynchronizeAndGetJob)
<1> DEFINE report == Optional(Section("coverage", NewCoverage))
           sync == Section("server", report \o Updates)
           claim == Optional(Section("coverage", Nothing))
           save == Optional(StateSection)
<1>1. Inside(4, report)
  <2>1. Inside(5, NewCoverage)
    BY InsideRequests, InsideLess
  <2>2. Inside(4, Section("coverage", NewCoverage))
    <3>1. "coverage" \in Mutexes /\ Rank("coverage") = 4
      BY Ranks
    <3> QED
      BY <2>1, <3>1, InsideSection
  <2> QED
    BY <2>2, InsideOptional DEF LastRank
<1>2. Inside(2, Optional(sync))
  <2> HIDE DEF report
  <2>1. Inside(4, Updates)
    BY InsideRequests, InsideLess
  <2>2. Inside(4, report \o Updates)
    BY <1>1, <2>1, InsideConcat
  <2>3. Inside(3, sync)
    <3>1. "server" \in Mutexes /\ Rank("server") = 3
      BY Ranks
    <3> QED
      BY <2>2, <3>1, InsideSection
  <2> HIDE DEF sync
  <2>4. Inside(2, sync)
    BY <2>3, InsideLess
  <2> QED
    BY <2>4, InsideOptional DEF LastRank
<1>3. Inside(2, claim)
  <2>1. Inside(2, Section("coverage", Nothing))
    <3>1. "coverage" \in Mutexes /\ Rank("coverage") = 4
      BY Ranks
    <3> QED
      BY <3>1, InsideAlone
  <2> QED
    BY <2>1, InsideOptional DEF LastRank
<1>4. Inside(2, save)
  BY InsideState, InsideOptional DEF LastRank
<1> HIDE DEF sync, claim, save
<1>5. Inside(2, save \o claim)
  BY <1>3, <1>4, InsideConcat
<1>6. Inside(2, (save \o claim) \o Optional(sync))
  BY <1>2, <1>5, InsideConcat
<1> DEFINE body == (save \o claim) \o Optional(sync)
<1> HIDE DEF body
<1>7. Inside(1, Section("queue", body))
  <2>1. "queue" \in Mutexes /\ Rank("queue") = 1
    BY Ranks
  <2>2. Inside(2, body)
    BY <1>6 DEF body
  <2> QED
    BY <2>1, <2>2, InsideSection
<1> QED
  BY <1>7 DEF SynchronizeAndGetJob, body, save, claim, sync

(* All operations. *)
LEMMA OperationsNest ==
  ASSUME NEW t \in Agents, NEW operation \in Operations(t)
  PROVE  operation \in Seq(Step) /\ Nested(operation)
<1>1. \A mutex \in {"queue", "output", "coverage", "context", "stats", "corpus", "crash", "trie"} :
        Inside(1, Section(mutex, Nothing)) /\ Inside(1, ReadSection(mutex, Nothing))
  <2> SUFFICES ASSUME NEW mutex \in {"queue", "output", "coverage", "context", "stats", "corpus",
                                     "crash", "trie"}
               PROVE  Inside(1, Section(mutex, Nothing)) /\ Inside(1, ReadSection(mutex, Nothing))
    OBVIOUS
  <2>1. Rank(mutex) \in 1 .. LastRank /\ mutex \in Mutexes
    BY RankType DEF Mutexes
  <2>2. 1 <= Rank(mutex)
    BY <2>1 DEF LastRank
  <2> QED
    BY <2>1, <2>2, InsideAlone
<1>2. Inside(3, Section("server", NewCoverage)) /\ Inside(3, Section("server", CrashReport))
  <2>1. Inside(4, NewCoverage) /\ Inside(4, CrashReport)
    BY InsideRequests, InsideLess
  <2>2. "server" \in Mutexes /\ Rank("server") = 3
    BY Ranks
  <2> QED
    BY <2>1, <2>2, InsideSection
<1>3. \E r : Inside(r, operation)
  <2>1. \/ operation \in {SaveServerState, SynchronizeAndGetJob, ClaimCoverage, ReportCoverage,
                          JobDone, Section("coverage", Nothing)}
        \/ operation \in SaveCrash \/ operation \in SaveSample \/ operation \in NotifyResult
    BY DEF Operations
  <2>2. CASE operation \in {SaveServerState, SynchronizeAndGetJob, ClaimCoverage, ReportCoverage,
                            JobDone, Section("coverage", Nothing)}
    BY <1>1, <1>2, <2>2, InsideSynchronize DEF SaveServerState, ClaimCoverage, ReportCoverage,
                                               JobDone
  <2>3. CASE operation \in SaveCrash
    BY <1>1, <1>2, <2>3 DEF SaveCrash
  <2>4. CASE operation \in SaveSample
    BY <1>1, <2>4 DEF SaveSample
  <2>5. CASE operation \in NotifyResult
    BY <1>1, <2>5 DEF NotifyResult
  <2> QED
    BY <2>1, <2>2, <2>3, <2>4, <2>5
<1> QED
  BY <1>3 DEF Inside
-----------------------------------------------------------------------------
(* The initial state satisfies the invariant. *)
LEMMA InitIInv ==
  ASSUME Init
  PROVE  IInv
<1>1. << >> \in Seq(Step) /\ Len(<< >>) = 0
  BY EmptySeq
<1>2. Nested(<< >>)
  BY <1>1 DEF Nested
<1> QED
  BY <1>1, <1>2 DEF Init, IInv

(* What is left of an operation is a suffix of what was left before. *)
LEMMA StepIInv ==
  ASSUME IInv, [Next]_todo
  PROVE  IInv'
<1>1. ASSUME NEW t \in Agents, NEW rest \in Seq(Step), Nested(rest),
             todo' = [todo EXCEPT ![t] = rest]
      PROVE  IInv'
  BY <1>1 DEF IInv
<1>2. ASSUME NEW t \in Agents, Begin(t)
      PROVE  IInv'
  <2>1. PICK operation \in Operations(t) : todo' = [todo EXCEPT ![t] = operation]
    BY <1>2 DEF Begin
  <2> QED
    BY <1>1, <2>1, OperationsNest
<1>3. ASSUME NEW t \in Agents, LockOrUnlock(t)
      PROVE  IInv'
  <2> DEFINE s == todo[t]
  <2>1. s \in Seq(Step) /\ s # << >> /\ Nested(s) /\ todo' = [todo EXCEPT ![t] = Tail(s)]
    BY <1>3 DEF LockOrUnlock, IInv
  <2> HIDE DEF s
  <2>2. /\ Tail(s) \in Seq(Step) /\ Len(Tail(s)) = Len(s) - 1
        /\ \A i \in 1 .. Len(Tail(s)) : Tail(s)[i] = s[i + 1]
    BY <2>1, HeadTailProperties
  <2>3. Nested(Tail(s))
    BY <2>1, <2>2, NestedSuffix
  <2> QED
    BY <1>1, <2>1, <2>2, <2>3
<1>4. ASSUME NEW t \in Agents, Choose(t)
      PROVE  IInv'
  <2> DEFINE s == todo[t]
  <2>1. s \in Seq(Step) /\ s # << >> /\ Nested(s)
    BY <1>4 DEF Choose, IInv
  <2>2. PICK skipped \in {0, Head(s).steps} :
               todo' = [todo EXCEPT ![t] = SubSeq(s, skipped + 2, Len(s))]
    BY <1>4 DEF Choose
  <2> HIDE DEF s
  <2>3. skipped \in Nat /\ Len(s) \in Nat
    <3>1. Head(s) \in Step
      BY <2>1, HeadTailProperties
    <3>2. Head(s).steps \in Nat
      BY <3>1 DEF Step
    <3> QED
      BY <2>1, <3>2, LenProperties
  <2> DEFINE rest == SubSeq(s, skipped + 2, Len(s))
  <2>4. \A i \in skipped + 2 .. Len(s) : s[i] \in Step
    BY <2>1, <2>3, ElementOfSeq
  <2>5. skipped + 2 \in Int /\ Len(s) \in Int
    BY <2>3
  <2>6. /\ rest \in Seq(Step)
        /\ Len(rest) = IF skipped + 2 <= Len(s) THEN Len(s) - (skipped + 2) + 1 ELSE 0
        /\ \A i \in 1 .. Len(s) - (skipped + 2) + 1 : rest[i] = s[skipped + 2 + i - 1]
    BY <2>4, <2>5, SubSeqProperties
  <2> HIDE DEF rest
  <2>7. Nested(rest)
    <3>1. CASE skipped + 2 <= Len(s)
      <4>1. skipped + 1 \in Nat /\ Len(rest) = Len(s) - (skipped + 1)
        BY <2>3, <2>6, <3>1
      <4>2. ASSUME NEW i \in 1 .. Len(rest)
            PROVE  rest[i] = s[i + (skipped + 1)]
        <5>1. i \in 1 .. Len(s) - (skipped + 2) + 1 /\ skipped + 2 + i - 1 = i + (skipped + 1)
          BY <2>3, <4>1
        <5> QED
          BY <2>6, <5>1
      <4> QED
        BY <2>1, <2>6, <4>1, <4>2, NestedSuffix
    <3>2. CASE ~(skipped + 2 <= Len(s))
      BY <2>6, <3>2 DEF Nested
    <3> QED
      BY <3>1, <3>2
  <2> QED
    BY <1>1, <2>2, <2>6, <2>7 DEF rest
<1>5. CASE UNCHANGED todo
  BY <1>5 DEF IInv
<1> QED
  BY <1>2, <1>3, <1>4, <1>5 DEF Next

(* What is left of every operation nests its sections in the order of the ranks. *)
THEOREM InductiveInvariant == Spec => []IInv
<1>1. Init => IInv
  BY InitIInv
<1>2. IInv /\ [Next]_todo => IInv'
  BY StepIInv
<1> QED
  BY <1>1, <1>2, PTL DEF Spec

(* A thread that waits for a mutex holds only mutexes of lower ranks. *)
LEMMA HeldIsLower ==
  ASSUME IInv, NEW u \in Agents, Locking(u), NEW mutex, NEW mode, Holds(u, mutex, mode)
  PROVE  Rank(mutex) < Rank(Head(todo[u]).mutex)
<1> DEFINE s == todo[u]
<1>1. s \in Seq(Step) /\ s # << >> /\ Head(s).do = "lock" /\ Nested(s)
  BY DEF Locking, IInv
<1>2. PICK j \in 1 .. Len(s) : /\ s[j] = Unlock(mutex, mode)
                               /\ \A k \in 1 .. j - 1 : s[k].mutex # mutex
  BY DEF Holds
<1> HIDE DEF s
<1>3. s[j].do = "unlock" /\ s[j].mutex = mutex
  BY <1>2 DEF Unlock
<1>4. Head(s) = s[1] /\ 1 \in 1 .. Len(s)
  BY <1>1, HeadTailProperties, LenProperties, EmptySeq
<1>5. Rank(s[j].mutex) < Rank(s[1].mutex)
  BY <1>1, <1>2, <1>3, <1>4 DEF Nested
<1> QED
  BY <1>3, <1>4, <1>5 DEF s

(* Of some numbers below a bound, one is the greatest. *)
LEMMA Greatest ==
  ASSUME NEW bound \in Nat, NEW S \in SUBSET (0 .. bound), S # {}
  PROVE  \E x \in S : \A y \in S : y <= x
<1> DEFINE T == { bound - x : x \in S }
<1>1. T \subseteq Nat /\ T # {}
  <2>1. \A x \in S : bound - x \in Nat
    OBVIOUS
  <2>2. PICK x \in S : TRUE
    OBVIOUS
  <2> QED
    BY <2>1, <2>2
<1> DEFINE R == OpToRel(<, Nat)
<1>2. IsWellFoundedOn(R, Nat)
  BY NatLessThanWellFounded
<1> HIDE DEF R, T
<1>3. PICK x \in T : \A y \in T : ~(<< y, x >> \in R)
  BY <1>1, <1>2, WFMin
<1>4. \A y \in T : ~(y < x)
  BY <1>1, <1>3 DEF R, OpToRel
<1>5. PICK z \in S : x = bound - z
  BY DEF T
<1>6. ASSUME NEW y \in S
      PROVE  y <= z
  <2>1. bound - y \in T
    BY DEF T
  <2>2. ~(bound - y < bound - z)
    BY <1>4, <1>5, <2>1
  <2> QED
    BY <2>2
<1> QED
  BY <1>6

(* No threads wait for each other in a circle, however many fuzzers and threads there *)
(* are, whatever each is doing, and also when a shared mutex prefers writers: of the  *)
(* waiting ones take one that wants the mutex of the highest rank, a writer if there  *)
(* is one.  Whoever it waits for holds that mutex, so that it wants none itself.      *)
THEOREM DeadlockFree == Spec => []NoDeadlock
<1>1. ASSUME IInv
      PROVE  NoDeadlock
  <2> SUFFICES ASSUME NEW waiting \in (SUBSET Agents) \ {{}}
               PROVE  \E t \in waiting : \A u \in waiting : ~WaitsFor(t, u)
    BY Zenon DEF NoDeadlock
  <2>0. waiting \subseteq Agents /\ \E t \in waiting : TRUE
    BY Zenon
  <2> DEFINE wants(t) == 2 * Rank(Head(todo[t]).mutex)
                           + (IF Head(todo[t]).mode = "write" THEN 1 ELSE 0)
             locking == { t \in waiting : Locking(t) }
             S == { wants(t) : t \in locking }
  <2>1. ASSUME NEW t \in waiting, ~Locking(t)
        PROVE  \A u \in waiting : ~WaitsFor(t, u)
    BY <2>1 DEF WaitsFor
  <2>2. CASE locking = {}
    <3>1. PICK t \in waiting : TRUE
      BY <2>0
    <3>2. ~Locking(t)
      BY <2>2
    <3> QED
      BY <2>1, <3>2
  <2>3. CASE locking # {}
    <3>1. ASSUME NEW t \in locking
          PROVE  /\ wants(t) \in 0 .. 25 /\ Rank(Head(todo[t]).mutex) \in 1 .. 12
                 /\ wants(t) >= 2 * Rank(Head(todo[t]).mutex)
                 /\ wants(t) <= 2 * Rank(Head(todo[t]).mutex) + 1
      <4>1. Rank(Head(todo[t]).mutex) \in 1 .. 12
        BY RankType DEF LastRank
      <4> QED
        BY <4>1
    <3>2. PICK t \in locking : \A u \in locking : wants(u) <= wants(t)
      <4>1. S \in SUBSET (0 .. 25) /\ S # {}
        BY <2>3, <3>1
      <4> HIDE DEF wants, locking
      <4>2. PICK x \in S : \A y \in S : y <= x
        <5> HIDE DEF S
        <5>1. 25 \in Nat
          OBVIOUS
        <5> QED
          BY <4>1, <5>1, Greatest
      <4>3. PICK t \in locking : x = wants(t)
        OBVIOUS
      <4> QED
        BY <4>2, <4>3
    <3>3. CASE \A u \in waiting : ~WaitsFor(t, u)
      BY <3>3
    <3>4. CASE \E u \in waiting : WaitsFor(t, u)
      <4>1. PICK u \in waiting : WaitsFor(t, u)
        BY <3>4
      <4>2. CASE ~Locking(u)
        BY <2>1, <4>2
      <4>3. CASE Locking(u)
        <5>1. u \in locking /\ wants(u) <= wants(t)
          BY <3>2, <4>3
        <5>2. CASE Blocks(u, t)
          <6>1. PICK mode : Holds(u, Head(todo[t]).mutex, mode)
            BY <5>2 DEF Blocks
          <6>2. Rank(Head(todo[t]).mutex) < Rank(Head(todo[u]).mutex)
            BY <1>1, <4>3, <6>1, HeldIsLower
          <6> DEFINE a == Rank(Head(todo[t]).mutex)
                     b == Rank(Head(todo[u]).mutex)
          <6>3. /\ a \in 1 .. 12 /\ b \in 1 .. 12 /\ wants(t) <= 2 * a + 1 /\ wants(u) >= 2 * b
                /\ wants(t) \in 0 .. 25 /\ wants(u) \in 0 .. 25
            BY <3>1, <5>1
          <6> HIDE DEF a, b, wants
          <6>4. a < b
            BY <6>2 DEF a, b
          <6> QED
            BY <5>1, <6>3, <6>4
        <5>3. CASE WaitsBehind(t, u)
          <6>1. /\ Head(todo[t]).mode = "read"
                /\ Head(todo[u]) = [Head(todo[t]) EXCEPT !.mode = "write"]
            BY <5>3 DEF WaitsBehind
          <6>2. Head(todo[t]) \in Step
            BY <1>1, <3>2, HeadTailProperties DEF IInv, Locking
          <6>3. Head(todo[u]).mode = "write" /\ Head(todo[u]).mutex = Head(todo[t]).mutex
            BY <6>1, <6>2 DEF Step
          <6>4. wants(t) = 2 * Rank(Head(todo[t]).mutex)
                /\ wants(u) = 2 * Rank(Head(todo[t]).mutex) + 1
            BY <3>1, <5>1, <6>1, <6>3
          <6> HIDE DEF wants
          <6>5. Rank(Head(todo[t]).mutex) \in 1 .. 12
            BY <3>1
          <6> QED
            BY <5>1, <6>4, <6>5
        <5> QED
          BY <4>1, <5>2, <5>3 DEF WaitsFor
      <4> QED
        BY <4>2, <4>3
    <3> QED
      BY <3>3, <3>4
  <2> QED
    BY <2>2, <2>3
<1> QED
  BY <1>1, InductiveInvariant, PTL
=============================================================================
