---------------------------- MODULE ClientProofs ----------------------------
(***************************************************************************)
(* Proofs about what reaches the clients: the console reader (Console),    *)
(* for any sizes, limits and startup marker, and the websocket (Sessions), *)
(* for any tokens, permissions, loggers, requests and bounds.              *)
(***************************************************************************)
EXTENDS Sessions, Console, FiniteSetTheorems, SequenceTheorems, WellFoundedInduction, TLAPS

(***************************************************************************)
(* Numbers                                                                 *)
(***************************************************************************)

\* Every set of numbers has a least one: the intervals that end at them are finite sets, which
\* inclusion orders well.
LEMMA Least ==
  ASSUME NEW S \in SUBSET Nat, S # {}
  PROVE  \E m \in S : \A k \in S : m <= k
<1> DEFINE T == {0..n : n \in S}
<1>1. T # {} /\ T \subseteq FiniteSubsetsOf(Nat)
  <2>1. \A n \in Nat : IsFiniteSet(0..n) /\ 0..n \in SUBSET Nat
    BY FS_Interval
  <2>2. QED
    BY <2>1 DEF FiniteSubsetsOf
<1>2. IsWellFoundedOn(StrictSubsetOrdering(Nat), FiniteSubsetsOf(Nat))
  BY FS_StrictSubsetOrderingWellFounded
<1> HIDE DEF T
<1>3. \E x \in T : \A y \in T : ~(<<y, x>> \in StrictSubsetOrdering(Nat))
  BY <1>1, <1>2, WFMin
<1> USE DEF T
<1>4. PICK m \in S : \A k \in S : ~(<<0..k, 0..m>> \in StrictSubsetOrdering(Nat))
  BY <1>3
<1>5. ASSUME NEW k \in S, k < m
      PROVE  FALSE
  <2>1. m \in 0..m /\ m \notin 0..k
    BY <1>5
  <2>2. 0..k \subseteq 0..m /\ 0..k # 0..m /\ 0..k \in SUBSET Nat /\ 0..m \in SUBSET Nat
    BY <1>5, <2>1
  <2>3. QED
    BY <2>2, <1>4 DEF StrictSubsetOrdering
<1>6. QED
  BY <1>4, <1>5

\* Hence induction, on a set of numbers.
LEMMA Induction ==
  ASSUME NEW S \in SUBSET Nat, 0 \in S, \A n \in S : n + 1 \in S
  PROVE  S = Nat
<1> SUFFICES ASSUME Nat \ S # {}
             PROVE  FALSE
  OBVIOUS
<1>1. PICK m \in Nat \ S : \A k \in Nat \ S : m <= k
  BY Least
<1>2. m - 1 \in S
  BY <1>1
<1>3. QED
  BY <1>1, <1>2

\* Min is a member of the set and no member is below it.
LEMMA MinIsLeast ==
  ASSUME NEW S \in SUBSET Nat, S # {}
  PROVE  Min(S) \in S /\ \A k \in S : Min(S) <= k
BY Least DEF Min

\* Max is a member of the set and no member is above it.
LEMMA MaxIsGreatest ==
  ASSUME NEW n \in Nat, NEW S \in SUBSET (1..n), S # {}
  PROVE  Max(S) \in S /\ \A k \in S : k <= Max(S)
<1> DEFINE T == {k \in Nat : n - k \in S}
<1>1. PICK k \in S : TRUE
  OBVIOUS
<1>2. n - k \in T
  OBVIOUS
<1>3. PICK m \in T : \A i \in T : m <= i
  BY <1>2, Least
<1>4. ASSUME NEW i \in S
      PROVE  i <= n - m
  <2>1. n - i \in T
    OBVIOUS
  <2>2. m <= n - i
    BY <2>1, <1>3
  <2>3. m \in Nat
    OBVIOUS
  <2> HIDE DEF T
  <2>4. QED
    BY <2>2, <2>3
<1>5. n - m \in S
  OBVIOUS
<1>6. QED
  BY <1>4, <1>5 DEF Max

(***************************************************************************)
(* The console: sums                                                       *)
(***************************************************************************)

\* What was sent within a time is a number, and adds up.
LEMMA Sums ==
  ASSUME NEW r \in [1..Interval -> Nat]
  PROVE  /\ \A n \in 0..Interval : Within(r, n) \in Nat
         /\ Within(r, 0) = 0
         /\ \A m, n \in 0..Interval : n = m + 1 => Within(r, n) = Within(r, m) + r[n]
<1> DEFINE Def(s, n) == /\ s \in [0..n -> Nat]
                        /\ s[0] = 0 /\ \A i \in 1..n : s[i] = s[i - 1] + r[i]
           S == {n \in Nat : n <= Interval => \E s \in [0..n -> Nat] : Def(s, n)}
<1>1. Interval \in Nat
  BY ConsoleAssumption
<1>2. 0 \in S
  <2>1. Def([i \in 0..0 |-> 0], 0)
    OBVIOUS
  <2>2. QED
    BY <2>1
<1>3. ASSUME NEW n \in S
      PROVE  n + 1 \in S
  <2>1. CASE n + 1 <= Interval
    <3>1. PICK s \in [0..n -> Nat] : Def(s, n)
      BY <2>1, <1>1
    <3> DEFINE u == [i \in 0..(n + 1) |-> IF i = n + 1 THEN s[n] + r[n + 1] ELSE s[i]]
    <3>2. n \in Nat /\ s[n] \in Nat /\ r[n + 1] \in Nat
      BY <3>1, <2>1, <1>1
    <3>3. u \in [0..(n + 1) -> Nat]
      BY <3>1, <3>2
    <3>4. u[0] = 0
      BY <3>1, <3>2
    <3>5. ASSUME NEW i \in 1..(n + 1)
          PROVE  u[i] = u[i - 1] + r[i]
      BY <3>1, <3>2
    <3> HIDE DEF u
    <3>6. Def(u, n + 1)
      BY <3>3, <3>4, <3>5
    <3>7. \E v \in [0..(n + 1) -> Nat] : Def(v, n + 1)
      <4> HIDE DEF Def, S
      <4>1. QED
        BY <3>3, <3>6, Zenon
    <3>8. n + 1 \in Nat
      BY <3>2
    <3>9. QED
      <4> HIDE DEF Def
      <4>1. QED
        BY <3>7, <3>8, Zenon
  <2>2. CASE ~(n + 1 <= Interval)
    BY <2>2, <1>1
  <2>3. QED
    BY <2>1, <2>2
<1>4. Interval \in S
  <2> HIDE DEF S
  <2>1. S \in SUBSET Nat
    BY DEF S
  <2>2. QED
    BY <1>1, <1>2, <1>3, <2>1, Induction
<1>5. PICK s \in [0..Interval -> Nat] : Def(s, Interval)
  BY <1>4, <1>1
<1> DEFINE F(f) == [i \in 0..Interval |-> IF i = 0 THEN 0 ELSE f[i - 1] + r[i]]
           c == CHOOSE f : f = F(f)
<1>6. s = F(s)
  BY <1>1, <1>5
<1>7. c = F(c)
  BY <1>6
<1>8. c[0] = 0 /\ \A n \in 1..Interval : c[n] = c[n - 1] + r[n]
  <2> HIDE DEF c
  <2>1. \A i \in 0..Interval : c[i] = IF i = 0 THEN 0 ELSE c[i - 1] + r[i]
    BY <1>7
  <2>2. QED
    BY <2>1, <1>1
<1>9. \A n \in 0..Interval : Within(r, n) = c[n]
  BY DEF Within
<1>10. \A n \in Nat : n <= Interval => c[n] \in Nat
  <2> DEFINE N == {n \in Nat : n <= Interval => c[n] \in Nat}
  <2> HIDE DEF c
  <2>1. 0 \in N /\ N \in SUBSET Nat
    BY <1>8
  <2>2. \A n \in N : n + 1 \in N
    <3> SUFFICES ASSUME NEW n \in N, n + 1 <= Interval
                 PROVE  c[n + 1] \in Nat
      OBVIOUS
    <3>1. n + 1 \in 1..Interval /\ c[n] \in Nat /\ r[n + 1] \in Nat
      BY <1>1
    <3>2. c[n + 1] = c[n] + r[n + 1]
      BY <3>1, <1>8
    <3>3. QED
      BY <3>1, <3>2
  <2> HIDE DEF N
  <2>3. N = Nat
    BY <2>1, <2>2, Induction
  <2>4. QED
    BY <2>3 DEF N
<1> HIDE DEF c
<1>11. \A m, n \in 0..Interval : n = m + 1 => n \in 1..Interval /\ m = n - 1
  BY <1>1
<1>12. 0 \in 0..Interval /\ \A n \in 0..Interval : n \in Nat /\ n <= Interval
  BY <1>1
<1>13. QED
  BY <1>8, <1>9, <1>10, <1>11, <1>12

\* What was sent a tick ago is further back.
LEMMA SumsShift ==
  ASSUME Interval > 0, NEW r \in [1..Interval -> Nat], NEW q \in [1..Interval -> Nat],
         q[1] = 0, \A m, n \in 1..Interval : n = m + 1 => q[n] = r[m]
  PROVE  \A m, n \in 0..Interval : n = m + 1 => Within(q, n) = Within(r, m)
<1>1. Interval \in Nat
  BY ConsoleAssumption
<1>2. q \in [1..Interval -> Nat]
  OBVIOUS
<1>3. q[1] = 0 /\ \A m, n \in 1..Interval : n = m + 1 => q[n] = r[m]
  OBVIOUS
<1> DEFINE N == {m \in Nat : \A n \in 0..Interval : n = m + 1 => Within(q, n) = Within(r, m)}
<1>4. ASSUME NEW n \in 0..Interval, n = 0 + 1
      PROVE  Within(q, n) = Within(r, 0)
  <2>1. n = 1 /\ 0 \in 0..Interval
    BY <1>4, <1>1
  <2>2. Within(q, n) = Within(q, 0) + q[n] /\ Within(q, 0) = 0
    BY <1>2, <1>4, <2>1, Sums
  <2>3. Within(r, 0) = 0
    BY Sums
  <2>4. QED
    BY <2>1, <2>2, <2>3, <1>3
<1>5. ASSUME NEW k \in N, NEW m \in Nat, m = k + 1
      PROVE  m \in N
  <2> SUFFICES ASSUME NEW n \in 0..Interval, n = m + 1
               PROVE  Within(q, n) = Within(r, m)
    OBVIOUS
  <2>1. k \in 0..Interval /\ m \in 0..Interval /\ n \in 1..Interval /\ m \in 1..Interval
    BY <1>5, <1>1
  <2>2. Within(q, n) = Within(q, m) + q[n]
    BY <2>1, <1>2, Sums
  <2>3. Within(r, m) = Within(r, k) + r[m]
    BY <2>1, <1>5, Sums
  <2>4. Within(q, m) = Within(r, k)
    BY <2>1, <1>5
  <2>5. q[n] = r[m]
    BY <2>1, <1>3
  <2>6. QED
    BY <2>2, <2>3, <2>4, <2>5
<1>6. N = Nat
  <2>1. N \in SUBSET Nat /\ 0 \in N
    BY <1>4
  <2> HIDE DEF N
  <2>2. \A k \in N : k + 1 \in N
    BY <1>5, <2>1
  <2>3. QED
    BY <2>1, <2>2, Induction
<1>7. QED
  BY <1>2, <1>6

\* One more is sent now.
LEMMA SumsAdd ==
  ASSUME NEW r \in [1..Interval -> Nat], Interval > 0,
         NEW q, q = [r EXCEPT ![1] = @ + 1]
  PROVE  /\ q \in [1..Interval -> Nat]
         /\ \A n \in 1..Interval : Within(q, n) = Within(r, n) + 1
<1>1. Interval \in Nat
  BY ConsoleAssumption
<1>2. q \in [1..Interval -> Nat]
  BY <1>1
<1>3. /\ \A n \in 1..Interval : r[n] \in Nat
      /\ q[1] = r[1] + 1 /\ \A n \in 1..Interval : n # 1 => q[n] = r[n]
  BY <1>1
<1> DEFINE N == {n \in Nat : n \in 1..Interval => Within(q, n) = Within(r, n) + 1}
<1>4. ASSUME NEW m \in N, NEW n \in Nat, n = m + 1
      PROVE  n \in N
  <2> SUFFICES ASSUME n \in 1..Interval
               PROVE  Within(q, n) = Within(r, n) + 1
    OBVIOUS
  <2>1. m \in 0..Interval /\ n \in 0..Interval
    BY <1>4, <1>1
  <2>2. Within(q, n) = Within(q, m) + q[n] /\ Within(q, 0) = 0
    BY <2>1, <1>2, <1>4, Sums
  <2>3. Within(r, n) = Within(r, m) + r[n] /\ Within(r, 0) = 0 /\ Within(r, m) \in Nat
    BY <2>1, <1>4, Sums
  <2>4. CASE m = 0
    BY <2>2, <2>3, <2>4, <1>3, <1>4
  <2>5. CASE m # 0
    <3>1. n # 1 /\ m \in 1..Interval
      BY <2>1, <2>5, <1>4
    <3>2. Within(q, m) = Within(r, m) + 1 /\ q[n] = r[n] /\ r[n] \in Nat
      BY <3>1, <1>3
    <3>3. QED
      BY <2>2, <2>3, <3>2
  <2>6. QED
    BY <2>4, <2>5
<1>5. N = Nat
  <2>1. N \in SUBSET Nat /\ 0 \in N
    OBVIOUS
  <2> HIDE DEF N
  <2>2. \A m \in N : m + 1 \in N
    BY <1>4, <2>1
  <2>3. QED
    BY <2>1, <2>2, Induction
<1>6. ASSUME NEW n \in 1..Interval
      PROVE  Within(q, n) = Within(r, n) + 1
  <2>1. n \in N
    <3> HIDE DEF N
    <3>1. QED
      BY <1>5
  <2>2. QED
    BY <2>1
<1>7. QED
  BY <1>2, <1>6

\* Nothing was sent in the beginning.
LEMMA SumsZero ==
  ASSUME NEW r, r = [i \in 1..Interval |-> 0]
  PROVE  \A n \in 0..Interval : Within(r, n) = 0
<1> DEFINE N == {n \in Nat : n <= Interval => Within(r, n) = 0}
<1>1. Interval \in Nat /\ r \in [1..Interval -> Nat] /\ \A n \in 1..Interval : r[n] = 0
  BY ConsoleAssumption
<1>2. 0 \in N
  BY <1>1, Sums
<1>3. ASSUME NEW m \in N, NEW n \in Nat, n = m + 1
      PROVE  n \in N
  <2> SUFFICES ASSUME n <= Interval
               PROVE  Within(r, n) = 0
    OBVIOUS
  <2>1. n \in 1..Interval /\ n \in 0..Interval /\ m \in 0..Interval
    BY <1>3, <1>1
  <2>2. Within(r, n) = Within(r, m) + r[n]
    BY <2>1, <1>1, <1>3, Sums
  <2>3. QED
    BY <2>1, <2>2, <1>1, <1>3
<1>4. N = Nat
  <2>1. N \in SUBSET Nat
    OBVIOUS
  <2> HIDE DEF N
  <2>2. \A m \in N : m + 1 \in N
    BY <1>3, <2>1
  <2>3. QED
    BY <1>2, <2>1, <2>2, Induction
<1>5. \A n \in 0..Interval : n \in N /\ n <= Interval
  <2> HIDE DEF N
  <2>1. QED
    BY <1>1, <1>4
<1>6. QED
  BY <1>5

(***************************************************************************)
(* The console: the lines                                                  *)
(***************************************************************************)
Start == [lines |-> <<>>, rest |-> <<>>]

\* The reference definition goes from byte to byte, however long the text is.
LEMMA TakenForms ==
  ASSUME NEW s \in Seq(Byte)
  PROVE  /\ Taken(s, 0) = Start
         /\ \A n \in 1..Len(s) : Taken(s, n) = Taking(Taken(s, n - 1), s[n])
<1> DEFINE F(f, i) == IF i = 0 THEN Start ELSE Taking(f[i - 1], s[i])
           Def(f, n) == f = [i \in 0..n |-> F(f, i)]
           S == {n \in Nat : \E f : Def(f, n)}
<1>1. 0 \in S
  <2> DEFINE f == [i \in 0..0 |-> Start]
  <2>1. Def(f, 0)
    OBVIOUS
  <2> HIDE DEF f, Def
  <2>2. QED
    BY <2>1
<1>2. ASSUME NEW n \in S
      PROVE  n + 1 \in S
  <2>1. PICK f : Def(f, n)
    OBVIOUS
  <2> DEFINE g == [i \in 0..(n + 1) |-> IF i = n + 1 THEN Taking(f[n], s[n + 1]) ELSE f[i]]
  <2>2. n \in Nat
    OBVIOUS
  <2>3. ASSUME NEW i \in 0..(n + 1)
        PROVE  g[i] = F(g, i)
    <3>1. CASE i = n + 1
      <4>1. i # 0 /\ i - 1 = n /\ n \in 0..(n + 1) /\ n # n + 1
        BY <2>2, <3>1
      <4>2. g[n] = f[n] /\ g[i] = Taking(f[n], s[n + 1])
        BY <3>1, <4>1
      <4> HIDE DEF g
      <4>3. QED
        BY <3>1, <4>1, <4>2
    <3>2. CASE i # n + 1
      <4>1. i \in 0..n
        BY <2>2, <3>2
      <4>2. f[i] = F(f, i)
        BY <2>1, <4>1
      <4>3. g[i] = f[i]
        BY <3>2
      <4>4. i # 0 => g[i - 1] = f[i - 1]
        <5>1. i # 0 => i - 1 \in 0..(n + 1) /\ i - 1 # n + 1
          BY <2>2, <4>1
        <5>2. QED
          BY <5>1
      <4> HIDE DEF g
      <4>5. QED
        BY <4>2, <4>3, <4>4
    <3>3. QED
      BY <3>1, <3>2
  <2>4. g = [i \in 0..(n + 1) |-> g[i]]
    OBVIOUS
  <2> HIDE DEF g, F
  <2>5. Def(g, n + 1)
    BY <2>3, <2>4
  <2>6. n + 1 \in Nat
    BY <2>2
  <2> HIDE DEF Def
  <2>7. QED
    BY <2>5, <2>6
<1>3. Len(s) \in S
  <2>1. S \in SUBSET Nat /\ Len(s) \in Nat
    OBVIOUS
  <2> HIDE DEF S
  <2>2. S = Nat
    BY <1>1, <1>2, <2>1, Induction
  <2>3. QED
    BY <2>1, <2>2
<1> DEFINE c == CHOOSE f : Def(f, Len(s))
<1>4. Def(c, Len(s))
  <2> HIDE DEF Def
  <2>1. QED
    BY <1>3
<1>5. \A n : Taken(s, n) = c[n]
  BY DEF Taken, Start
<1> HIDE DEF c
<1>6. \A i \in 0..Len(s) : c[i] = F(c, i)
  <2> HIDE DEF F
  <2>1. QED
    BY <1>4
<1>7. Len(s) \in Nat
  OBVIOUS
<1>8. QED
  BY <1>5, <1>6, <1>7

\* What comes later changes nothing of what was taken before.
LEMMA TakenBefore ==
  ASSUME NEW s \in Seq(Byte), NEW d \in Seq(Byte), NEW n \in 0..Len(s)
  PROVE  Taken(s \o d, n) = Taken(s, n)
<1> DEFINE u == s \o d
           S == {k \in Nat : k <= Len(s) => Taken(u, k) = Taken(s, k)}
<1>1. /\ u \in Seq(Byte) /\ Len(s) \in Nat /\ Len(s) <= Len(u) /\ Len(u) \in Nat
      /\ \A i \in 1..Len(s) : u[i] = s[i]
  BY ConcatProperties, LenProperties
<1> HIDE DEF u
<1>2. 0 \in S
  BY <1>1, TakenForms
<1>3. ASSUME NEW k \in S
      PROVE  k + 1 \in S
  <2>1. k \in Nat /\ k + 1 \in Nat
    OBVIOUS
  <2>2. ASSUME k + 1 <= Len(s)
        PROVE  Taken(u, k + 1) = Taken(s, k + 1)
    <3>1. k + 1 \in 1..Len(s) /\ k + 1 \in 1..Len(u) /\ (k + 1) - 1 = k /\ k <= Len(s)
      BY <1>1, <2>1, <2>2
    <3>2. Taken(u, k + 1) = Taking(Taken(u, k), u[k + 1])
      BY <1>1, <3>1, TakenForms
    <3>3. Taken(s, k + 1) = Taking(Taken(s, k), s[k + 1])
      BY <3>1, TakenForms
    <3>4. u[k + 1] = s[k + 1] /\ Taken(u, k) = Taken(s, k)
      BY <1>1, <3>1
    <3>5. QED
      BY <3>2, <3>3, <3>4
  <2>3. QED
    BY <2>1, <2>2
<1>4. S = Nat
  <2>1. S \in SUBSET Nat
    OBVIOUS
  <2> HIDE DEF S
  <2>2. QED
    BY <1>2, <1>3, <2>1, Induction
<1>5. n \in S /\ n <= Len(s)
  BY <1>4
<1>6. QED
  BY <1>5 DEF u

(***************************************************************************)
(* The console: the reader                                                 *)
(***************************************************************************)

\* Between two reads the buffer is small.
Drained == phase = "read" => Len(buffer) <= Compact + Piece

\* What was sent since the last reset does not reach the limit, but for the line that reset
\* the counter; what was sent before that leaves the interval before the next reset.
Steady ==
  Interval > 0 =>
    /\ Within(recent, elapsed) <= ratelimit_counter
    /\ Within(recent, elapsed) <= Lines - 1
    /\ elapsed < Interval => /\ Within(recent, Interval) <= Lines + ratelimit_counter
                             /\ Within(recent, Interval) <= 2 * Lines - 1
    /\ ratelimit_counter >= Lines => warned

Reading == ConsoleTypeOK /\ Drained /\ StartupNoticed /\ Steady

\* What is cut is text.
LEMMA CutIsText ==
  ASSUME ConsoleTypeOK, NEW n \in 0..Left
  PROVE  Trimmed(Ahead(n)) \in Seq(Byte)
<1>1. buffer \in Seq(Byte) /\ line_start \in 0..Len(buffer) /\ Len(buffer) \in Nat
  BY DEF ConsoleTypeOK
<1> DEFINE s == Ahead(n)
<1>2. s \in Seq(Byte)
  <2>1. line_start + n <= Len(buffer)
    BY <1>1 DEF Left
  <2>2. QED
    BY <1>1, <2>1, SubSeqProperties DEF Ahead
<1> HIDE DEF s
<1> DEFINE ink == {i \in DOMAIN s : s[i] # Blank}
<1>3. CASE ink = {}
  BY <1>3 DEF Trimmed, s
<1>4. CASE ink # {}
  <2>1. DOMAIN s = 1..Len(s) /\ Len(s) \in Nat
    BY <1>2
  <2>2. ink \in SUBSET (1..Len(s)) /\ ink \in SUBSET Nat
    BY <2>1
  <2> HIDE DEF ink
  <2>3. Min(ink) \in ink /\ Max(ink) \in ink
    BY <1>4, <2>1, <2>2, MinIsLeast, MaxIsGreatest
  <2>4. Min(ink) \in 1..Len(s) /\ Max(ink) \in 1..Len(s)
    BY <2>2, <2>3
  <2>5. SubSeq(s, Min(ink), Max(ink)) \in Seq(Byte)
    BY <1>2, <2>4, SubSeqProperties
  <2>6. QED
    BY <1>4, <2>5 DEF Trimmed, s, ink
<1>5. QED
  BY <1>3, <1>4

\* The first line break found is in the unread part of the buffer.
LEMMA FirstBreak ==
  ASSUME ConsoleTypeOK, Breaks # {}
  PROVE  Min(Breaks) \in 1..Left
<1>1. line_start \in 0..Len(buffer) /\ Len(buffer) \in Nat
  BY DEF ConsoleTypeOK
<1>2. Breaks \in SUBSET (1..Left) /\ Breaks \in SUBSET Nat
  BY <1>1 DEF Breaks, Left
<1>3. QED
  BY <1>2, MinIsLeast

\* A line counts in the throttle as it should, and the client is not sent too much.
LEMMA DeliverSteady ==
  ASSUME ConsoleTypeOK, Steady, NEW text \in Seq(Byte), NEW ended \in BOOLEAN,
         Deliver(text, ended)
  PROVE  /\ Steady'
         /\ ratelimit_counter' \in Nat /\ elapsed' \in 0..Interval
         /\ recent' \in [1..Interval -> Nat] /\ warned' \in BOOLEAN
         /\ output' \in Seq(Line)
         /\ \E r \in Line : /\ output' = Append(output, r)
                            /\ r.text = text /\ r.ended = ended
<1>1. /\ Interval \in Nat /\ Lines \in Nat \ {0} /\ ratelimit_counter \in Nat
      /\ elapsed \in 0..Interval /\ recent \in [1..Interval -> Nat] /\ warned \in BOOLEAN
      /\ output \in Seq(Line)
  BY ConsoleAssumption DEF ConsoleTypeOK
<1>2. \E r \in Line : output' = Append(output, r) /\ r.text = text /\ r.ended = ended
  <2>1. Throttled \in BOOLEAN
    BY DEF Throttled, OverLimit
  <2>2. [text |-> text, ended |-> ended, sent |-> ~Throttled] \in Line
    BY <2>1 DEF Line
  <2>3. QED
    BY <2>2 DEF Deliver
<1>3. output' \in Seq(Line)
  BY <1>1, <1>2
<1>4. CASE Interval = 0
  BY <1>1, <1>2, <1>3, <1>4 DEF Deliver, CountLine, Throttled, OverLimit, Steady
<1>5. CASE Interval > 0 /\ Throttled
  <2>1. /\ ratelimit_counter' = ratelimit_counter + 1 /\ elapsed' = elapsed /\ recent' = recent
        /\ warned' \in BOOLEAN /\ elapsed < Interval /\ ratelimit_counter + 1 >= Lines
        /\ warned => warned'
        /\ ratelimit_counter + 1 = Lines => warned'
    BY <1>1, <1>5 DEF Deliver, CountLine, Throttled, OverLimit
  <2>2. /\ Within(recent', elapsed') = Within(recent, elapsed)
        /\ Within(recent', Interval) = Within(recent, Interval)
        /\ Within(recent, Interval) \in Int /\ Within(recent, elapsed) \in Int
    <3>1. \A n \in 0..Interval : Within(recent, n) \in Nat
      BY <1>1, Sums
    <3>2. QED
      BY <1>1, <2>1, <3>1
  <2>3. /\ ratelimit_counter >= Lines => warned
        /\ ratelimit_counter >= Lines \/ ratelimit_counter + 1 = Lines
    BY <1>1, <1>5, <2>1 DEF Steady
  <2>4. Steady'
    BY <1>1, <1>5, <2>1, <2>2, <2>3 DEF Steady
  <2>5. QED
    BY <1>1, <1>2, <1>3, <2>1, <2>4
<1>6. CASE Interval > 0 /\ ~Throttled
  <2>1. recent' = [recent EXCEPT ![1] = @ + 1]
    BY <1>6 DEF Deliver
  <2>2. /\ recent' \in [1..Interval -> Nat]
        /\ \A n \in 1..Interval : Within(recent', n) = Within(recent, n) + 1
    BY <1>1, <1>6, <2>1, SumsAdd
  <2>3. /\ \A n \in 0..Interval : Within(recent, n) \in Nat
        /\ Within(recent, 0) = 0 /\ Within(recent', 0) = 0
    BY <1>1, <2>2, Sums
  <2>4. Interval \in 1..Interval /\ Interval \in 0..Interval /\ 0 \in 0..Interval
    BY <1>1, <1>6
  <2>5. Within(recent', Interval) = Within(recent, Interval) + 1 /\ Within(recent, Interval) \in Nat
    BY <2>2, <2>3, <2>4
  <2>6. CASE OverLimit
    <3>1. /\ ratelimit_counter' = 0 /\ elapsed' = 0 /\ warned' = FALSE
          /\ elapsed = Interval
      BY <1>1, <1>6, <2>6 DEF Deliver, CountLine, Throttled
    <3>2. Within(recent', elapsed') = 0
      BY <3>1, <2>3
    <3>3. Within(recent', Interval) <= Lines
      BY <1>1, <1>6, <2>5, <3>1 DEF Steady
    <3>4. Steady'
      BY <1>1, <3>1, <3>2, <3>3, <2>5 DEF Steady
    <3>5. ratelimit_counter' \in Nat /\ elapsed' \in 0..Interval /\ warned' \in BOOLEAN
      BY <1>1, <3>1, <2>4
    <3>6. QED
      BY <1>2, <1>3, <2>2, <3>4, <3>5
  <2>7. CASE ~OverLimit
    <3>1. /\ ratelimit_counter' = ratelimit_counter + 1 /\ elapsed' = elapsed
          /\ warned' \in BOOLEAN /\ ratelimit_counter + 1 < Lines
      BY <1>1, <1>6, <2>7 DEF Deliver, CountLine, Throttled, OverLimit
    <3>2. Within(recent', elapsed) <= Within(recent, elapsed) + 1 /\ Within(recent, elapsed) \in Nat
      <4>1. CASE elapsed = 0
        BY <4>1, <2>3
      <4>2. CASE elapsed # 0
        <5>1. elapsed \in 1..Interval
          BY <4>2, <1>1
        <5>2. QED
          BY <5>1, <2>2, <2>3, <1>1
      <4>3. QED
        BY <4>1, <4>2
    <3>3. Within(recent', elapsed') \in Int /\ Within(recent', elapsed') = Within(recent', elapsed)
      <4>1. \A n \in 0..Interval : Within(recent', n) \in Nat
        BY <2>2, Sums
      <4>2. QED
        BY <3>1, <1>1, <4>1
    <3>4. Steady'
      <4>1. /\ Within(recent, elapsed) <= ratelimit_counter
            /\ elapsed < Interval => Within(recent, Interval) <= Lines + ratelimit_counter
            /\ elapsed = Interval => Within(recent, Interval) <= ratelimit_counter
        BY <1>1, <1>6 DEF Steady
      <4>2. /\ Within(recent', elapsed') <= ratelimit_counter'
            /\ Within(recent', elapsed') <= Lines - 1
        BY <1>1, <3>1, <3>2, <3>3, <4>1
      <4>3. elapsed' < Interval => /\ Within(recent', Interval) <= Lines + ratelimit_counter'
                                  /\ Within(recent', Interval) <= 2 * Lines - 1
        BY <1>1, <3>1, <2>5, <4>1
      <4>4. QED
        BY <1>1, <3>1, <4>2, <4>3 DEF Steady
    <3>5. QED
      BY <1>1, <1>2, <1>3, <2>2, <3>1, <3>4
  <2>8. QED
    BY <2>6, <2>7
<1>7. QED
  BY <1>1, <1>4, <1>5, <1>6

\* A round of the inner loop that cuts something.
LEMMA CutKeeps ==
  ASSUME Reading, phase = "scan", NEW text \in Seq(Byte), NEW ended \in BOOLEAN,
         Deliver(text, ended), CheckStartup(text) \/ (~ended /\ state' = state),
         line_start' \in 0..Len(buffer), UNCHANGED <<phase, buffer, received>>
  PROVE  Reading'
<1>1. ConsoleTypeOK /\ Steady /\ StartupNoticed
  BY DEF Reading
<1>2. /\ Steady'
      /\ ratelimit_counter' \in Nat /\ elapsed' \in 0..Interval
      /\ recent' \in [1..Interval -> Nat] /\ warned' \in BOOLEAN
      /\ output' \in Seq(Line)
      /\ \E r \in Line : output' = Append(output, r) /\ r.text = text /\ r.ended = ended
  BY <1>1, DeliverSteady
<1>3. state \in {"starting", "running"} /\ state' \in {"starting", "running"}
      /\ (state = "running" => state' = "running")
      /\ (ended /\ Shows(text, Done) => state' = "running")
  BY <1>1 DEF ConsoleTypeOK, CheckStartup
<1>4. ConsoleTypeOK' /\ Drained'
  BY <1>1, <1>2, <1>3 DEF ConsoleTypeOK, Drained
<1>5. StartupNoticed'
  <2>1. PICK r \in Line : output' = Append(output, r) /\ r.text = text /\ r.ended = ended
    BY <1>2
  <2>2. output \in Seq(Line)
    BY <1>1 DEF ConsoleTypeOK
  <2> SUFFICES ASSUME NEW i \in DOMAIN output', output'[i].ended, Shows(output'[i].text, Done)
               PROVE  state' = "running"
    BY DEF StartupNoticed, Shows
  <2>3. CASE i \in DOMAIN output
    <3>1. output'[i] = output[i]
      BY <2>1, <2>2, <2>3
    <3>2. QED
      BY <3>1, <2>3, <1>1, <1>3 DEF StartupNoticed
  <2>4. CASE i \notin DOMAIN output
    <3>1. output'[i] = r
      BY <2>1, <2>2, <2>4
    <3>2. QED
      BY <3>1, <2>1, <1>3
  <2>5. QED
    BY <2>3, <2>4
<1>6. QED
  BY <1>2, <1>4, <1>5 DEF Reading

\* A reader that has read nothing is in a good state.
LEMMA ReadingInit == ConsoleInit => Reading
<1> SUFFICES ASSUME ConsoleInit
             PROVE  Reading
  OBVIOUS
<1>1. ConsoleTypeOK /\ Drained /\ StartupNoticed
  <2>1. /\ buffer = <<>> /\ output = <<>> /\ received = <<>> /\ line_start = 0
        /\ Len(buffer) = 0 /\ DOMAIN output = {}
        /\ buffer \in Seq(Byte) /\ output \in Seq(Line) /\ received \in Seq(Byte)
    BY EmptySeq DEF ConsoleInit
  <2>2. Interval \in Nat /\ Compact \in Nat /\ Piece \in Nat
    BY ConsoleAssumption
  <2>3. recent \in [1..Interval -> Nat]
    BY DEF ConsoleInit
  <2>4. phase = "read" /\ ratelimit_counter = 0 /\ elapsed = 0 /\ state = "starting" /\ warned = FALSE
    BY DEF ConsoleInit
  <2>5. line_start \in 0..Len(buffer) /\ elapsed \in 0..Interval
    BY <2>1, <2>2, <2>4
  <2>6. ConsoleTypeOK
    BY <2>1, <2>3, <2>4, <2>5 DEF ConsoleTypeOK
  <2>7. QED
    BY <2>1, <2>2, <2>6 DEF Drained, StartupNoticed
<1>2. \A n \in 0..Interval : Within(recent, n) = 0
  BY SumsZero DEF ConsoleInit
<1>3. Steady
  <2>1. Within(recent, 0) = 0 /\ Within(recent, Interval) = 0
    BY <1>2, ConsoleAssumption
  <2>2. QED
    BY <2>1, ConsoleAssumption DEF ConsoleInit, Steady
<1>4. QED
  BY <1>1, <1>3 DEF Reading

\* Every step of the reader keeps it in one.
LEMMA ReadingStep == Reading /\ [ConsoleNext]_consoleVars => Reading'
<1> SUFFICES ASSUME Reading, [ConsoleNext]_consoleVars
             PROVE  Reading'
  OBVIOUS
<1>1. /\ ConsoleTypeOK /\ Steady /\ StartupNoticed /\ Drained
      /\ buffer \in Seq(Byte) /\ Len(buffer) \in Nat /\ line_start \in 0..Len(buffer)
      /\ Piece \in Nat \ {0} /\ Compact \in Nat /\ Compact >= Piece /\ Left \in Nat
  BY ConsoleAssumption DEF Reading, ConsoleTypeOK, Left
<1>2. ASSUME NEW data \in Chunks, Read(data)
      PROVE  Reading'
  <2>1. data \in Seq(Byte)
    BY SeqDef DEF Chunks
  <2>2. buffer' \in Seq(Byte) /\ received' \in Seq(Byte) /\ Len(buffer') >= Len(buffer)
    BY <1>1, <1>2, <2>1, ConcatProperties DEF Read, ConsoleTypeOK
  <2>3. ConsoleTypeOK'
    BY <1>1, <1>2, <2>2 DEF Read, ConsoleTypeOK, throttleVars
  <2>4. Drained' /\ StartupNoticed' /\ Steady'
    BY <1>1, <1>2 DEF Read, Drained, StartupNoticed, Shows, Steady, throttleVars
  <2>5. QED
    BY <2>3, <2>4 DEF Reading
<1>3. CASE CutLine
  <2> DEFINE n == Min(Breaks) - 1
  <2>1. n \in 0..Left /\ n + 1 <= Left /\ n \in Nat
    BY <1>1, <1>3, FirstBreak DEF CutLine
  <2>2. Trimmed(Ahead(n)) \in Seq(Byte)
    BY <1>1, <2>1, CutIsText
  <2>3. line_start' \in 0..Len(buffer)
    BY <1>1, <1>3, <2>1 DEF CutLine, Left
  <2>4. QED
    BY <1>3, <2>2, <2>3, CutKeeps DEF CutLine
<1>4. CASE CutPiece
  <2>1. Piece \in 0..Left /\ Piece <= Left
    BY <1>1, <1>4, FirstBreak DEF CutPiece
  <2>2. Trimmed(Ahead(Piece)) \in Seq(Byte)
    BY <1>1, <2>1, CutIsText
  <2>3. line_start' \in 0..Len(buffer)
    BY <1>1, <1>4, <2>1 DEF CutPiece, Left
  <2>4. QED
    BY <1>4, <2>2, <2>3, CutKeeps DEF CutPiece
<1>5. CASE CutUnended
  <2>1. Piece \in 0..Left /\ Piece <= Left
    BY <1>1, <1>5 DEF CutUnended
  <2>2. Trimmed(Ahead(Piece)) \in Seq(Byte)
    BY <1>1, <2>1, CutIsText
  <2>3. line_start' \in 0..Len(buffer)
    BY <1>1, <1>5, <2>1 DEF CutUnended, Left
  <2>4. QED
    BY <1>5, <2>2, <2>3, CutKeeps DEF CutUnended
<1>6. CASE EndScan
  <2>1. Left <= Piece /\ Left = Len(buffer) - line_start
    BY <1>6 DEF EndScan, Left
  <2>2. CASE line_start > Compact /\ line_start > Len(buffer) \div 2
    <3>1. buffer' \in Seq(Byte) /\ Len(buffer') <= Piece /\ Len(buffer') \in Nat
      <4>1. \A i \in (line_start + 1)..(line_start + Left) : buffer[i] \in Byte
        BY <1>1, <2>1
      <4>2. buffer' = SubSeq(buffer, line_start + 1, line_start + Left)
        BY <1>6, <2>2 DEF EndScan, Ahead
      <4>3. QED
        BY <1>1, <2>1, <4>1, <4>2, SubSeqProperties
    <3>2. ConsoleTypeOK' /\ Drained'
      BY <1>1, <1>6, <2>2, <3>1 DEF EndScan, ConsoleTypeOK, Drained, throttleVars
    <3>3. QED
      BY <1>1, <1>6, <3>2 DEF EndScan, Reading, StartupNoticed, Shows, Steady, throttleVars
  <2>3. CASE ~(line_start > Compact /\ line_start > Len(buffer) \div 2)
    <3>1. Len(buffer) <= Compact + Piece
      BY <1>1, <2>1, <2>3
    <3>2. ConsoleTypeOK' /\ Drained'
      BY <1>1, <1>6, <2>3, <3>1 DEF EndScan, ConsoleTypeOK, Drained, throttleVars
    <3>3. QED
      BY <1>1, <1>6, <3>2 DEF EndScan, Reading, StartupNoticed, Shows, Steady, throttleVars
  <2>4. QED
    BY <2>2, <2>3
<1>7. CASE Close
  <2>1. output' = output \/ \E r \in Line : output' = Append(output, r) /\ ~r.ended
    <3>1. Trimmed(Ahead(Left)) \in Seq(Byte)
      BY <1>1, CutIsText
    <3>2. [text |-> Trimmed(Ahead(Left)), ended |-> FALSE, sent |-> TRUE] \in Line
      BY <3>1 DEF Line
    <3>3. QED
      BY <1>7, <3>2 DEF Close
  <2>2. output \in Seq(Line) /\ output' \in Seq(Line)
    <3>1. output \in Seq(Line)
      BY <1>1 DEF ConsoleTypeOK
    <3>2. ASSUME NEW r \in Line
          PROVE  Append(output, r) \in Seq(Line)
      BY <3>1
    <3>3. QED
      BY <2>1, <3>1, <3>2
  <2>3. ConsoleTypeOK' /\ Drained'
    BY <1>1, <1>7, <2>2 DEF Close, ConsoleTypeOK, Drained, throttleVars, streamVars
  <2>4. StartupNoticed'
    <3> SUFFICES ASSUME NEW i \in DOMAIN output', output'[i].ended, Shows(output'[i].text, Done)
                 PROVE  state' = "running"
      BY DEF StartupNoticed, Shows
    <3>1. i \in DOMAIN output /\ output'[i] = output[i]
      BY <2>1, <2>2
    <3>2. QED
      BY <3>1, <1>1, <1>7 DEF StartupNoticed, Close
  <2>5. QED
    BY <1>1, <1>7, <2>3, <2>4 DEF Close, Reading, Steady, throttleVars
<1>8. CASE Tick
  <2>1. /\ Interval \in Nat /\ Interval > 0 /\ elapsed \in 0..Interval
        /\ recent \in [1..Interval -> Nat] /\ Lines \in Nat \ {0} /\ ratelimit_counter \in Nat
    BY <1>1, <1>8, ConsoleAssumption DEF Tick, ConsoleTypeOK
  <2>2. /\ recent' \in [1..Interval -> Nat]
        /\ \A m, n \in 0..Interval : n = m + 1 => Within(recent', n) = Within(recent, m)
    <3>1. recent' = [i \in 1..Interval |-> IF i = 1 THEN 0 ELSE recent[i - 1]]
      BY <1>8 DEF Tick
    <3>2. recent' \in [1..Interval -> Nat]
      BY <2>1, <3>1
    <3>3. recent'[1] = 0 /\ \A m, n \in 1..Interval : n = m + 1 => recent'[n] = recent[m]
      BY <2>1, <3>1
    <3>4. \A m, n \in 0..Interval : n = m + 1 => Within(recent', n) = Within(recent, m)
      BY <2>1, <3>2, <3>3, SumsShift
    <3>5. QED
      BY <3>2, <3>4
  <2>3. elapsed' = IF elapsed = Interval THEN Interval ELSE elapsed + 1
    <3>1. {elapsed + 1, Interval} \in SUBSET Nat
      BY <2>1
    <3>2. elapsed' \in {elapsed + 1, Interval} /\ \A k \in {elapsed + 1, Interval} : elapsed' <= k
      BY <1>8, <3>1, MinIsLeast DEF Tick
    <3>3. QED
      BY <3>2, <2>1
  <2>4. ConsoleTypeOK' /\ Drained' /\ StartupNoticed'
    <3>1. elapsed' \in 0..Interval
      BY <2>1, <2>3
    <3>2. /\ UNCHANGED <<phase, buffer, line_start, received, ratelimit_counter>>
          /\ UNCHANGED <<warned, state, output>>
      BY <1>8 DEF Tick, streamVars
    <3>3. recent' \in [1..Interval -> Nat]
      BY <2>2
    <3>4. ConsoleTypeOK'
      BY <1>1, <3>1, <3>2, <3>3 DEF ConsoleTypeOK
    <3>5. QED
      BY <1>1, <3>2, <3>4 DEF Drained, StartupNoticed, Shows
  <2>5. \A n \in 0..Interval : Within(recent, n) \in Nat /\ Within(recent', n) \in Nat
    BY <2>1, <2>2, Sums
  <2>6. Interval - 1 \in 0..Interval /\ Interval \in 0..Interval /\ Interval = (Interval - 1) + 1
        /\ Interval \in 1..Interval
    BY <2>1
  <2>7. Within(recent', Interval) <= Within(recent, Interval)
    <3>1. Within(recent', Interval) = Within(recent, Interval - 1)
      BY <2>2, <2>6
    <3>2. Within(recent, Interval) = Within(recent, Interval - 1) + recent[Interval]
      BY <2>1, <2>6, Sums
    <3>3. QED
      BY <2>1, <2>5, <2>6, <3>1, <3>2
  <2>8. Within(recent', elapsed') <= Within(recent, elapsed)
    <3>1. CASE elapsed = Interval
      BY <2>3, <2>7, <3>1
    <3>2. CASE elapsed # Interval
      <4>1. elapsed' \in 0..Interval /\ elapsed' = elapsed + 1
        BY <2>1, <2>3, <3>2
      <4>2. QED
        BY <2>1, <2>2, <2>5, <4>1
    <3>3. QED
      BY <3>1, <3>2
  <2>9. Steady'
    <3>1. elapsed' \in 0..Interval /\ elapsed \in Nat /\ (elapsed' < Interval => elapsed < Interval)
      BY <2>1, <2>3
    <3>2. /\ Within(recent, elapsed) \in Nat /\ Within(recent, Interval) \in Nat
          /\ Within(recent', elapsed') \in Nat /\ Within(recent', Interval) \in Nat
      BY <2>1, <2>5, <2>6, <3>1
    <3>3. ratelimit_counter' = ratelimit_counter /\ warned' = warned
      BY <1>8 DEF Tick
    <3>4. QED
      BY <1>1, <2>1, <2>7, <2>8, <3>1, <3>2, <3>3 DEF Steady
  <2>10. QED
    BY <2>4, <2>9 DEF Reading
<1>9. CASE UNCHANGED consoleVars
  BY <1>9 DEF consoleVars, streamVars, throttleVars, Reading, ConsoleTypeOK, Drained, StartupNoticed,
              Shows, Steady
<1>10. QED
  BY <1>2, <1>3, <1>4, <1>5, <1>6, <1>7, <1>8, <1>9 DEF ConsoleNext

\* So it always is.
LEMMA ReadingHolds == ConsoleSpec => []Reading
  BY ReadingInit, ReadingStep, PTL DEF ConsoleSpec

\* Every variable of the reader keeps its type, and between two reads the buffer holds no
\* more than a piece and what is not yet worth draining, however long the lines are.
THEOREM BufferIsBounded == ConsoleSpec => []BufferBounded
<1>1. Reading => BufferBounded
  BY DEF Reading, Drained, BufferBounded
<1>2. QED
  BY <1>1, ReadingHolds, PTL

\* The marker in a line that was read to its end marks the server as running.
THEOREM StartupIsNoticed == ConsoleSpec => []StartupNoticed
<1>1. Reading => StartupNoticed
  BY DEF Reading
<1>2. QED
  BY <1>1, ReadingHolds, PTL

\* No client is sent more than two allowances, less one line, in any interval, and it was
\* warned when lines are held back.
THEOREM BurstIsBounded == ConsoleSpec => []BurstBound
<1>1. Reading => BurstBound
  <2> SUFFICES ASSUME Reading, Interval > 0
               PROVE  /\ Within(recent, Interval) <= 2 * Lines - 1
                      /\ ratelimit_counter >= Lines => warned
    BY DEF BurstBound
  <2>1. elapsed \in 0..Interval /\ Interval \in Nat /\ Lines \in Nat \ {0}
    BY ConsoleAssumption DEF Reading, ConsoleTypeOK
  <2>2. CASE elapsed = Interval
    <3>1. recent \in [1..Interval -> Nat] /\ Interval \in 0..Interval
      BY <2>1 DEF Reading, ConsoleTypeOK
    <3>2. Within(recent, Interval) \in Nat
      BY <3>1, Sums
    <3>3. QED
      BY <2>1, <2>2, <3>2 DEF Reading, Steady
  <2>3. CASE elapsed < Interval
    BY <2>3 DEF Reading, Steady
  <2>4. QED
    BY <2>1, <2>2, <2>3
<1>2. QED
  BY <1>1, ReadingHolds, PTL

(***************************************************************************)
(* The console: what was cut is what was taken                             *)
(***************************************************************************)

\* How many bytes are cut, and the k-th that is not.
Cut == Len(received) - Left
Waits(k) == buffer[line_start + k]

\* The reference definition after the last line: it may still have the last piece in its hands,
\* but gives it away at the next byte, as if it had nothing.
Level(n, lines) ==
  IF n = Len(received) THEN Taken(received, n) = [lines |-> lines, rest |-> <<>>]
  ELSE Taken(received, n + 1) = Taking([lines |-> lines, rest |-> <<>>], received[n + 1])

Buffered ==
  /\ Left <= Len(received)
  /\ \A k \in 1..Left : Waits(k) = received[Cut + k]

Followed ==
  /\ Buffered
  /\ phase \in {"read", "scan"} => Level(Cut, Texts)
  /\ phase = "read" => Left <= Piece /\ \A k \in 1..Left : Waits(k) # Newline
  /\ LinesFaithful

\* Without a line feed, up to a piece is taken along.
LEMMA TakesAlong ==
  ASSUME ConsoleTypeOK, Buffered, Level(Cut, Texts), NEW n \in 1..Left, n <= Piece,
         \A k \in 1..n : Waits(k) # Newline
  PROVE  Taken(received, Cut + n) = [lines |-> Texts, rest |-> Ahead(n)]
<1>1. /\ buffer \in Seq(Byte) /\ line_start \in 0..Len(buffer) /\ Len(buffer) \in Nat
      /\ received \in Seq(Byte) /\ Len(received) \in Nat /\ Left \in Nat /\ Left <= Len(received)
      /\ Cut \in Nat /\ Cut + Left = Len(received) /\ line_start + Left = Len(buffer) /\ Piece \in Nat \ {0}
  BY ConsoleAssumption DEF ConsoleTypeOK, Left, Cut, Buffered
<1> DEFINE S == {m \in Nat : m + 1 <= n =>
                   Taken(received, Cut + (m + 1)) = [lines |-> Texts, rest |-> Ahead(m + 1)]}
<1>2. 0 \in S
  <2>1. Taken(received, Cut + 1) = Taking([lines |-> Texts, rest |-> <<>>], received[Cut + 1])
    BY <1>1 DEF Level
  <2>2. received[Cut + 1] = Waits(1) /\ Waits(1) # Newline
    BY <1>1 DEF Buffered
  <2>3. Taking([lines |-> Texts, rest |-> <<>>], Waits(1)) = [lines |-> Texts, rest |-> <<Waits(1)>>]
    BY <1>1, <2>2 DEF Taking
  <2>4. Ahead(1) = <<Waits(1)>>
    <3>1. line_start + 1 \in 1..Len(buffer)
      BY <1>1
    <3>2. /\ Ahead(1) \in Seq(Byte) /\ Len(Ahead(1)) = 1 /\ Ahead(1)[1] = Waits(1)
          /\ Waits(1) \in Byte
      BY <1>1, <3>1, SubSeqProperties DEF Ahead, Waits
    <3> DEFINE u == Ahead(1)
               v == <<Waits(1)>>
    <3>3. v \in Seq(Byte) /\ Len(v) = 1 /\ v[1] = Waits(1)
      BY <3>2
    <3>4. Len(u) = Len(v) /\ u \in Seq(Byte) /\ \A k \in 1..Len(u) : u[k] = v[k]
      BY <3>2, <3>3
    <3> HIDE DEF u, v
    <3>5. u = v
      BY <3>3, <3>4, SeqEqual
    <3>6. QED
      BY <3>5 DEF u, v
  <2>5. QED
    BY <2>1, <2>2, <2>3, <2>4
<1>3. ASSUME NEW m \in S
      PROVE  m + 1 \in S
  <2> SUFFICES ASSUME (m + 1) + 1 <= n
               PROVE  Taken(received, Cut + ((m + 1) + 1)) = [lines |-> Texts, rest |-> Ahead((m + 1) + 1)]
    OBVIOUS
  <2> DEFINE i == m + 1
             b == Waits(i + 1)
  <2>1. /\ i \in Nat /\ i >= 1 /\ i + 1 <= n /\ i < Piece /\ i + 1 \in 1..Left
        /\ Cut + (i + 1) \in 1..Len(received) /\ (Cut + (i + 1)) - 1 = Cut + i
    BY <1>1
  <2>2. Taken(received, Cut + i) = [lines |-> Texts, rest |-> Ahead(i)]
    BY <2>1
  <2> HIDE DEF i
  <2>3. Taken(received, Cut + (i + 1)) = Taking(Taken(received, Cut + i), received[Cut + (i + 1)])
    BY <1>1, <2>1, TakenForms
  <2>4. received[Cut + (i + 1)] = b /\ b # Newline
    BY <2>1 DEF Buffered
  <2>5. Ahead(i) \in Seq(Byte) /\ Len(Ahead(i)) = i /\ Append(Ahead(i), b) = Ahead(i + 1)
    <3>1. line_start + i \in 0..Len(buffer) /\ line_start + (i + 1) \in 1..Len(buffer)
      BY <1>1, <2>1
    <3>2. /\ Ahead(i) \in Seq(Byte) /\ Len(Ahead(i)) = i
          /\ \A k \in 1..i : Ahead(i)[k] = buffer[line_start + k]
      BY <1>1, <2>1, <3>1, SubSeqProperties DEF Ahead
    <3>3. /\ Ahead(i + 1) \in Seq(Byte) /\ Len(Ahead(i + 1)) = i + 1
          /\ \A k \in 1..(i + 1) : Ahead(i + 1)[k] = buffer[line_start + k]
      BY <1>1, <2>1, <3>1, SubSeqProperties DEF Ahead
    <3>4. b \in Byte
      BY <1>1, <3>1 DEF Waits
    <3> DEFINE u == Ahead(i)
               v == Ahead(i + 1)
               w == Append(u, b)
    <3>5. /\ w \in Seq(Byte) /\ Len(w) = i + 1 /\ w[i + 1] = b
          /\ \A k \in 1..i : w[k] = u[k]
      BY <2>1, <3>2, <3>4, AppendProperties
    <3>6. \A k \in 1..(i + 1) : w[k] = v[k]
      BY <2>1, <3>2, <3>3, <3>5 DEF Waits
    <3> HIDE DEF u, v, w
    <3>7. w = v
      BY <3>3, <3>5, <3>6, SeqEqual DEF v
    <3>8. QED
      BY <3>2, <3>7 DEF u, v, w
  <2>6. Taking([lines |-> Texts, rest |-> Ahead(i)], b) = [lines |-> Texts, rest |-> Append(Ahead(i), b)]
    BY <2>1, <2>4, <2>5 DEF Taking
  <2>7. QED
    BY <2>2, <2>3, <2>4, <2>5, <2>6 DEF i
<1>4. S = Nat
  <2>1. S \in SUBSET Nat
    OBVIOUS
  <2> HIDE DEF S
  <2>2. QED
    BY <1>2, <1>3, <2>1, Induction
<1>5. n - 1 \in S /\ (n - 1) + 1 = n
  <2>1. n - 1 \in Nat /\ (n - 1) + 1 = n
    OBVIOUS
  <2> HIDE DEF S
  <2>2. QED
    BY <1>4, <2>1
<1>6. QED
  BY <1>5

\* Sending one more line adds its text to the texts sent, and changes none of them.
LEMMA TextsGrow ==
  ASSUME ConsoleTypeOK, NEW r \in Line, output' = Append(output, r)
  PROVE  Texts' = Append(Texts, r.text) /\ Texts \in Seq(Seq(Byte))
<1>1. output \in Seq(Line) /\ Len(output) \in Nat /\ r.text \in Seq(Byte)
  BY DEF ConsoleTypeOK, Line
<1>2. /\ output' \in Seq(Line) /\ Len(output') = Len(output) + 1 /\ output'[Len(output) + 1] = r
      /\ \A i \in 1..Len(output) : output'[i] = output[i]
  BY <1>1, AppendProperties
<1>3. \A i \in 1..Len(output) : output[i].text \in Seq(Byte)
  <2>1. \A i \in 1..Len(output) : output[i] \in Line
    BY <1>1
  <2>2. QED
    BY <2>1 DEF Line
<1>4. DOMAIN output = 1..Len(output) /\ DOMAIN output' = 1..(Len(output) + 1)
  BY <1>1, <1>2
<1>5. Texts = [i \in 1..Len(output) |-> output[i].text]
      /\ Texts' = [i \in 1..(Len(output) + 1) |-> output'[i].text]
  BY <1>4 DEF Texts
<1>6. Texts \in Seq(Seq(Byte)) /\ Len(Texts) = Len(output)
  BY <1>1, <1>3, <1>5, IsASeq
<1>7. \A i \in 1..(Len(output) + 1) : output'[i].text \in Seq(Byte)
  BY <1>1, <1>2, <1>3
<1>8. Texts' \in Seq(Seq(Byte)) /\ Len(Texts') = Len(output) + 1
  BY <1>1, <1>5, <1>7, IsASeq
<1> DEFINE u == Texts'
           v == Append(Texts, r.text)
<1>9. /\ v \in Seq(Seq(Byte)) /\ Len(v) = Len(output) + 1 /\ v[Len(output) + 1] = r.text
      /\ \A i \in 1..Len(output) : v[i] = output[i].text
  BY <1>1, <1>5, <1>6, AppendProperties
<1>10. \A i \in 1..(Len(output) + 1) : u[i] = v[i]
  BY <1>2, <1>5, <1>9
<1>11. u \in Seq(Seq(Byte)) /\ Len(u) = Len(output) + 1
  BY <1>8
<1> HIDE DEF u, v
<1>12. u = v
  BY <1>9, <1>10, <1>11, SeqEqual
<1>13. QED
  BY <1>6, <1>12 DEF u, v

\* Where the reader cuts, the reference definition begins a line or a piece.
LEMMA CutLevel ==
  ASSUME ConsoleTypeOK, Buffered, Level(Cut, Texts), NEW n \in 0..Piece,
         \A k \in 1..n : Waits(k) # Newline, n < Left,
         NEW m, \/ m = n + 1 /\ Waits(n + 1) = Newline
                \/ m = n /\ n = Piece /\ Waits(n + 1) # Newline
  PROVE  Level(Cut + m, Append(Texts, Trimmed(Ahead(n))))
<1>1. /\ buffer \in Seq(Byte) /\ line_start \in 0..Len(buffer) /\ Len(buffer) \in Nat
      /\ received \in Seq(Byte) /\ Len(received) \in Nat /\ Left \in Nat /\ Left <= Len(received)
      /\ Cut \in Nat /\ Cut + Left = Len(received) /\ line_start + Left = Len(buffer) /\ Piece \in Nat \ {0}
  BY ConsoleAssumption DEF ConsoleTypeOK, Left, Cut, Buffered
<1> DEFINE i == Cut + n
           b == Waits(n + 1)
           lines == Append(Texts, Trimmed(Ahead(n)))
           t == [lines |-> Texts, rest |-> Ahead(n)]
<1>2. i \in Nat /\ i < Len(received) /\ i + 1 \in 1..Len(received) /\ (i + 1) - 1 = i
  BY <1>1
<1>3. received[i + 1] = b
  <2>1. n + 1 \in 1..Left /\ Cut + (n + 1) = i + 1
    BY <1>1
  <2>2. QED
    BY <2>1 DEF Buffered
<1>4. Taken(received, i + 1) = Taking(t, b)
  <2>1. CASE n = 0
    <3>1. Ahead(n) = <<>> /\ i = Cut
      BY <1>1, <2>1, SubSeqEmpty DEF Ahead
    <3>2. Taken(received, Cut + 1) = Taking([lines |-> Texts, rest |-> <<>>], received[Cut + 1])
      BY <1>1, <1>2, <2>1 DEF Level
    <3>3. QED
      BY <1>3, <3>1, <3>2
  <2>2. CASE n # 0
    <3>1. n \in 1..Left /\ n <= Piece
      BY <1>1, <2>2
    <3>2. Taken(received, Cut + n) = t
      BY <3>1, TakesAlong
    <3>3. Taken(received, i + 1) = Taking(Taken(received, i), received[i + 1])
      BY <1>1, <1>2, TakenForms
    <3>4. QED
      BY <1>3, <3>2, <3>3
  <2>3. QED
    BY <2>1, <2>2
<1>5. CASE m = n + 1 /\ b = Newline
  <2>1. Taking(t, b) = [lines |-> lines, rest |-> <<>>]
    BY <1>5 DEF Taking
  <2>2. Cut + m = i + 1
    BY <1>1, <1>5
  <2> HIDE DEF t, lines, i
  <2>3. Taken(received, Cut + m) = [lines |-> lines, rest |-> <<>>]
    BY <1>4, <2>1, <2>2
  <2>4. ASSUME Cut + m = Len(received)
        PROVE  Level(Cut + m, lines)
    BY <2>3, <2>4 DEF Level
  <2>5. ASSUME Cut + m # Len(received)
        PROVE  Level(Cut + m, lines)
    <3>1. i + 2 \in 1..Len(received) /\ (i + 1) + 1 = i + 2 /\ (i + 2) - 1 = i + 1
      BY <1>1, <1>2, <2>2, <2>5
    <3>2. Taken(received, i + 2) = Taking(Taken(received, i + 1), received[i + 2])
      BY <1>1, <3>1, TakenForms
    <3>3. Taken(received, (Cut + m) + 1) = Taking([lines |-> lines, rest |-> <<>>], received[(Cut + m) + 1])
      BY <2>2, <2>3, <3>1, <3>2
    <3>4. QED
      BY <2>5, <3>3 DEF Level
  <2>6. QED
    BY <2>4, <2>5 DEF lines
<1>6. CASE m = n /\ n = Piece /\ b # Newline
  <2>1. Cut + m = i /\ i # Len(received)
    BY <1>2, <1>6
  <2>2. Len(Ahead(n)) = Piece
    <3>1. line_start + n \in 0..Len(buffer)
      BY <1>1
    <3>2. QED
      BY <1>1, <1>6, <3>1, SubSeqProperties DEF Ahead
  <2>3. Taking(t, b) = [lines |-> lines, rest |-> <<b>>]
    BY <1>1, <1>6, <2>2 DEF Taking
  <2>4. Taking([lines |-> lines, rest |-> <<>>], b) = [lines |-> lines, rest |-> <<b>>]
    BY <1>1, <1>6 DEF Taking
  <2> HIDE DEF t, lines, i, b
  <2>5. Taken(received, i + 1) = Taking([lines |-> lines, rest |-> <<>>], received[i + 1])
    BY <1>3, <1>4, <2>3, <2>4
  <2>6. Level(i, lines)
    BY <2>1, <2>5 DEF Level
  <2>7. QED
    BY <2>1, <2>6 DEF lines
<1>7. QED
  BY <1>5, <1>6

\* A round of the inner loop that cuts n bytes, and passes m.
LEMMA CutFollowed ==
  ASSUME ConsoleTypeOK, Followed, phase = "scan", NEW n \in 0..Piece,
         \A k \in 1..n : Waits(k) # Newline, n < Left,
         NEW m, \/ m = n + 1 /\ Waits(n + 1) = Newline
                \/ m = n /\ n = Piece /\ Waits(n + 1) # Newline,
         NEW r \in Line, r.text = Trimmed(Ahead(n)), output' = Append(output, r),
         line_start' = line_start + m, UNCHANGED <<phase, buffer, received>>
  PROVE  Followed'
<1>1. /\ buffer \in Seq(Byte) /\ line_start \in 0..Len(buffer) /\ Len(buffer) \in Nat
      /\ Len(received) \in Nat /\ Left \in Nat /\ Left <= Len(received)
      /\ Left = Len(buffer) - line_start /\ Cut = Len(received) - Left /\ Piece \in Nat \ {0}
      /\ n \in Nat /\ m \in Nat /\ m <= Left
  BY ConsoleAssumption DEF ConsoleTypeOK, Left, Cut, Buffered, Followed
<1>2. Level(Cut + m, Append(Texts, Trimmed(Ahead(n))))
  BY CutLevel DEF Followed
<1>3. Texts' = Append(Texts, Trimmed(Ahead(n)))
  BY TextsGrow
<1>4. Left' = Left - m /\ Cut' = Cut + m
  BY <1>1 DEF Left, Cut
<1>5. Buffered'
  <2>1. ASSUME NEW k \in 1..(Left - m)
        PROVE  buffer[line_start' + k] = received[Cut' + k]
    <3>1. m + k \in 1..Left /\ line_start' + k = line_start + (m + k) /\ Cut' + k = Cut + (m + k)
      BY <1>1, <1>4
    <3>2. QED
      BY <3>1 DEF Followed, Buffered, Waits
  <2>2. Left' <= Len(received)
    BY <1>1, <1>4
  <2>3. QED
    BY <1>4, <2>1, <2>2 DEF Buffered, Waits
<1>6. Level(Cut', Texts')
  BY <1>2, <1>3, <1>4, Zenon
<1>7. Level(Cut, Texts)'
  BY <1>6 DEF Level
<1>8. QED
  BY <1>5, <1>7 DEF Followed, LinesFaithful

\* Between two reads everything was cut but the rest of the reference definition.
LEMMA RestWaits ==
  ASSUME ConsoleTypeOK, Buffered, Level(Cut, Texts), Left <= Piece,
         \A k \in 1..Left : Waits(k) # Newline
  PROVE  Taken(received, Len(received)) = [lines |-> Texts, rest |-> Ahead(Left)]
<1>1. /\ buffer \in Seq(Byte) /\ line_start \in 0..Len(buffer) /\ Len(buffer) \in Nat
      /\ Len(received) \in Nat /\ Left \in Nat /\ Cut \in Nat /\ Cut + Left = Len(received)
  BY DEF ConsoleTypeOK, Left, Cut, Buffered
<1>2. CASE Left = 0
  <2>1. Cut = Len(received)
    BY <1>1, <1>2
  <2>2. Ahead(0) = <<>>
    BY <1>1, SubSeqEmpty DEF Ahead
  <2>3. QED
    BY <1>2, <2>1, <2>2 DEF Level
<1>3. CASE Left # 0
  <2>1. Left \in 1..Left
    BY <1>1, <1>3
  <2>2. Taken(received, Cut + Left) = [lines |-> Texts, rest |-> Ahead(Left)]
    BY <2>1, TakesAlong
  <2>3. QED
    BY <1>1, <2>2
<1>4. QED
  BY <1>2, <1>3

\* Every step of the reader sends the next line that the bytes received call for, or none.
LEMMA FollowedStep == ConsoleTypeOK /\ Followed /\ [ConsoleNext]_consoleVars => Followed'
<1> SUFFICES ASSUME ConsoleTypeOK, Followed, [ConsoleNext]_consoleVars
             PROVE  Followed'
  OBVIOUS
<1>1. /\ buffer \in Seq(Byte) /\ line_start \in 0..Len(buffer) /\ Len(buffer) \in Nat
      /\ received \in Seq(Byte) /\ Len(received) \in Nat /\ Left \in Nat /\ Left <= Len(received)
      /\ Left = Len(buffer) - line_start /\ Cut = Len(received) - Left /\ Cut \in Nat
      /\ Piece \in Nat \ {0}
  BY ConsoleAssumption DEF ConsoleTypeOK, Left, Cut, Buffered, Followed
<1>2. Buffered /\ LinesFaithful
  BY DEF Followed
<1>3. ASSUME NEW data \in Chunks, Read(data)
      PROVE  Followed'
  <2>1. data \in Seq(Byte) /\ Len(data) \in Nat
    BY SeqDef DEF Chunks
  <2>2. /\ phase = "read" /\ phase' = "scan" /\ buffer' = buffer \o data /\ received' = received \o data
        /\ line_start' = line_start /\ output' = output
    BY <1>3 DEF Read
  <2>3. /\ Len(buffer') = Len(buffer) + Len(data) /\ Len(received') = Len(received) + Len(data)
        /\ \A k \in 1..Len(buffer) : buffer'[k] = buffer[k]
        /\ \A k \in 1..Len(data) : buffer'[Len(buffer) + k] = data[k]
        /\ \A k \in 1..Len(received) : received'[k] = received[k]
        /\ \A k \in 1..Len(data) : received'[Len(received) + k] = data[k]
        /\ received' \in Seq(Byte)
    BY <1>1, <2>1, <2>2, ConcatProperties
  <2>4. Left' = Left + Len(data) /\ Cut' = Cut /\ Texts' = Texts
    BY <1>1, <2>1, <2>2, <2>3 DEF Left, Cut, Texts
  <2>5. Buffered'
    <3>1. ASSUME NEW k \in 1..(Left + Len(data))
          PROVE  buffer'[line_start + k] = received'[Cut + k]
      <4>1. CASE k <= Left
        <5>1. k \in 1..Left /\ line_start + k \in 1..Len(buffer) /\ Cut + k \in 1..Len(received)
          BY <1>1, <4>1
        <5>2. buffer[line_start + k] = received[Cut + k]
          BY <1>2, <5>1 DEF Buffered, Waits
        <5>3. QED
          BY <2>3, <5>1, <5>2
      <4>2. CASE k > Left
        <5>1. /\ k - Left \in 1..Len(data) /\ line_start + k = Len(buffer) + (k - Left)
              /\ Cut + k = Len(received) + (k - Left)
          BY <1>1, <2>1, <4>2
        <5>2. QED
          BY <2>3, <5>1
      <4>3. QED
        BY <1>1, <2>1, <4>1, <4>2
    <3>2. Left' <= Len(received')
      BY <1>1, <2>1, <2>3, <2>4
    <3>3. QED
      BY <2>2, <2>4, <3>1, <3>2 DEF Buffered, Waits
  <2>6. Level(Cut, Texts)
    BY <2>2 DEF Followed
  <2>7. \A k \in 0..Len(received) : Taken(received', k) = Taken(received, k)
    BY <1>1, <2>1, <2>2, TakenBefore
  <2>8. Level(Cut, Texts)'
    <3>1. CASE Cut # Len(received)
      <4>1. Cut + 1 \in 1..Len(received) /\ Cut # Len(received')
        <5>1. Len(received') = Len(received) + Len(data)
          BY <2>3
        <5>2. Cut < Len(received)
          BY <1>1, <3>1
        <5>3. QED
          BY <1>1, <2>1, <5>1, <5>2
      <4>2. Taken(received', Cut + 1) = Taken(received, Cut + 1) /\ received'[Cut + 1] = received[Cut + 1]
        BY <2>3, <2>7, <4>1
      <4>3. QED
        BY <2>4, <2>6, <3>1, <4>1, <4>2 DEF Level
    <3>2. CASE Cut = Len(received)
      <4>1. Taken(received', Cut) = [lines |-> Texts, rest |-> <<>>]
        BY <1>1, <2>6, <2>7, <3>2 DEF Level
      <4>2. CASE Len(data) = 0
        <5>1. Len(received') = Cut
          BY <1>1, <2>3, <3>2, <4>2
        <5>2. QED
          BY <2>4, <4>1, <5>1 DEF Level
      <4>3. CASE Len(data) # 0
        <5>1. Cut + 1 \in 1..Len(received') /\ (Cut + 1) - 1 = Cut /\ Cut # Len(received')
          BY <1>1, <2>1, <2>3, <3>2, <4>3
        <5>2. Taken(received', Cut + 1) = Taking(Taken(received', Cut), received'[Cut + 1])
          BY <2>3, <5>1, TakenForms
        <5>3. QED
          BY <2>4, <4>1, <5>1, <5>2 DEF Level
      <4>4. QED
        BY <4>2, <4>3
    <3>3. QED
      BY <3>1, <3>2
  <2>9. QED
    BY <2>2, <2>5, <2>8 DEF Followed, LinesFaithful
<1>4. CASE CutLine \/ CutPiece
  <2> DEFINE b == Min(Breaks)
  <2>1. Breaks # {} /\ Breaks \in SUBSET Nat
    <3>1. Breaks # {}
      BY <1>4 DEF CutLine, CutPiece
    <3>2. Breaks \in SUBSET Nat
      BY <1>1 DEF Breaks
    <3>3. QED
      BY <3>1, <3>2
  <2>2. b \in Breaks /\ \A k \in Breaks : b <= k
    BY <2>1, MinIsLeast
  <2>3. b \in 1..Left /\ Waits(b) = Newline /\ \A k \in 1..(b - 1) : Waits(k) # Newline
    <3>1. b \in 1..Left /\ Waits(b) = Newline
      BY <1>1, <2>2 DEF Breaks, Waits
    <3>2. ASSUME NEW k \in 1..(b - 1), Waits(k) = Newline
          PROVE  FALSE
      <4>1. k \in Breaks
        BY <1>1, <3>1, <3>2 DEF Breaks, Waits
      <4>2. QED
        BY <2>2, <3>1, <4>1
    <3>3. QED
      BY <3>1, <3>2
  <2> HIDE DEF b
  <2>4. CASE CutLine
    <3>1. /\ b - 1 <= Piece /\ phase = "scan" /\ Deliver(Trimmed(Ahead(b - 1)), TRUE)
          /\ line_start' = line_start + (b - 1) + 1 /\ UNCHANGED <<phase, buffer, received>>
      BY <2>4 DEF CutLine, b
    <3>2. /\ b - 1 \in 0..Piece /\ b - 1 < Left /\ (b - 1) + 1 = b
          /\ line_start' = line_start + b
      BY <1>1, <2>3, <3>1
    <3>3. Trimmed(Ahead(b - 1)) \in Seq(Byte)
      BY <1>1, <3>2, CutIsText
    <3> DEFINE r == [text |-> Trimmed(Ahead(b - 1)), ended |-> TRUE, sent |-> ~Throttled]
    <3>4. r \in Line /\ r.text = Trimmed(Ahead(b - 1)) /\ output' = Append(output, r)
      BY <3>1, <3>3 DEF Deliver, Line
    <3> HIDE DEF r
    <3>5. QED
      BY <2>3, <3>1, <3>2, <3>4, CutFollowed
  <2>5. CASE CutPiece
    <3>1. /\ b - 1 > Piece /\ phase = "scan" /\ Deliver(Trimmed(Ahead(Piece)), FALSE)
          /\ line_start' = line_start + Piece /\ UNCHANGED <<phase, buffer, received>>
      BY <2>5 DEF CutPiece, b
    <3>2. /\ Piece \in 0..Piece /\ Piece < Left
          /\ \A k \in 1..Piece : Waits(k) # Newline
          /\ Waits(Piece + 1) # Newline
      BY <1>1, <2>3, <3>1
    <3>3. Trimmed(Ahead(Piece)) \in Seq(Byte)
      BY <1>1, <3>2, CutIsText
    <3> DEFINE r == [text |-> Trimmed(Ahead(Piece)), ended |-> FALSE, sent |-> ~Throttled]
    <3>4. r \in Line /\ r.text = Trimmed(Ahead(Piece)) /\ output' = Append(output, r)
      BY <3>1, <3>3 DEF Deliver, Line
    <3> HIDE DEF r
    <3>5. QED
      BY <3>1, <3>2, <3>4, CutFollowed
  <2>6. QED
    BY <1>4, <2>4, <2>5
<1>5. CASE CutUnended
  <2>1. /\ Breaks = {} /\ Left > Piece /\ phase = "scan" /\ Deliver(Trimmed(Ahead(Piece)), FALSE)
        /\ line_start' = line_start + Piece /\ UNCHANGED <<phase, buffer, received>>
    BY <1>5 DEF CutUnended
  <2>2. \A k \in 1..Left : Waits(k) # Newline
    BY <1>1, <2>1 DEF Breaks, Waits
  <2>3. /\ Piece \in 0..Piece /\ Piece < Left
        /\ \A k \in 1..Piece : Waits(k) # Newline
        /\ Waits(Piece + 1) # Newline
    BY <1>1, <2>1, <2>2
  <2>4. Trimmed(Ahead(Piece)) \in Seq(Byte)
    BY <1>1, <2>3, CutIsText
  <2> DEFINE r == [text |-> Trimmed(Ahead(Piece)), ended |-> FALSE, sent |-> ~Throttled]
  <2>5. r \in Line /\ r.text = Trimmed(Ahead(Piece)) /\ output' = Append(output, r)
    BY <2>1, <2>4 DEF Deliver, Line
  <2> HIDE DEF r
  <2>6. QED
    BY <2>1, <2>3, <2>5, CutFollowed
<1>6. CASE EndScan
  <2>1. /\ Breaks = {} /\ Left <= Piece /\ phase = "scan" /\ phase' = "read"
        /\ received' = received /\ output' = output
    BY <1>6 DEF EndScan
  <2>2. \A k \in 1..Left : Waits(k) # Newline
    BY <1>1, <2>1 DEF Breaks, Waits
  <2>3. Left' = Left /\ \A k \in 1..Left : buffer'[line_start' + k] = Waits(k)
    <3>1. CASE buffer' = buffer /\ line_start' = line_start
      BY <3>1 DEF Left, Waits
    <3>2. CASE buffer' = Ahead(Left) /\ line_start' = 0
      <4>1. line_start + Left = Len(buffer)
        BY <1>1
      <4>2. Len(buffer') = Left /\ \A k \in 1..Left : buffer'[k] = buffer[line_start + k]
        <5> DEFINE m == line_start + 1
                   n == line_start + Left
                   u == SubSeq(buffer, m, n)
        <5>1. /\ m \in Int /\ n \in Int /\ (IF m <= n THEN n - m + 1 ELSE 0) = Left
              /\ n - m + 1 = Left /\ \A k \in 1..Left : m + k - 1 = line_start + k
              /\ \A i \in m..n : i \in 1..Len(buffer)
          BY <1>1, <4>1
        <5>2. Len(u) = Left /\ \A k \in 1..Left : u[k] = buffer[line_start + k]
          <6>1. \A i \in m..n : buffer[i] \in Byte
            BY <1>1, <5>1
          <6> HIDE DEF m, n
          <6>2. /\ Len(u) = IF m <= n THEN n - m + 1 ELSE 0
                /\ \A k \in 1..(n - m + 1) : u[k] = buffer[m + k - 1]
            BY <5>1, <6>1, SubSeqProperties
          <6> HIDE DEF u
          <6>3. QED
            BY <5>1, <6>2
        <5>3. buffer' = u
          BY <3>2 DEF Ahead
        <5> HIDE DEF u, m, n
        <5>4. QED
          BY <5>2, <5>3
      <4>3. QED
        BY <1>1, <3>2, <4>2 DEF Left, Waits
    <3>3. QED
      BY <1>6, <3>1, <3>2 DEF EndScan
  <2>4. Cut' = Cut /\ Texts' = Texts
    BY <2>1, <2>3 DEF Cut, Texts
  <2>5. Buffered'
    BY <1>2, <2>1, <2>3, <2>4 DEF Buffered, Waits
  <2>6. Level(Cut, Texts)
    BY <2>1 DEF Followed
  <2>7. Level(Cut, Texts)'
    BY <2>1, <2>4, <2>6 DEF Level
  <2>8. Left' <= Piece /\ \A k \in 1..Left' : buffer'[line_start' + k] # Newline
    BY <2>1, <2>2, <2>3
  <2>9. LinesFaithful'
    <3>1. Taken(received, Len(received)) = [lines |-> Texts, rest |-> Ahead(Left)]
      BY <1>2, <2>1, <2>2, <2>6, RestWaits
    <3>2. Taken(received, Len(received)).lines = Texts
      BY <3>1
    <3>3. QED
      BY <2>1, <2>4, <3>2 DEF LinesFaithful
  <2>10. QED
    BY <2>5, <2>7, <2>8, <2>9 DEF Followed, Waits
<1>7. CASE Close
  <2>1. phase = "read" /\ phase' = "closed" /\ UNCHANGED <<buffer, line_start, received>>
    BY <1>7 DEF Close, streamVars
  <2>2. Buffered'
    BY <1>2, <2>1 DEF Buffered, Waits, Cut, Left
  <2> DEFINE all == Taken(received, Len(received))
  <2>3. all = [lines |-> Texts, rest |-> Ahead(Left)]
    BY <2>1, RestWaits DEF Followed
  <2> HIDE DEF all
  <2>4. all.lines = Texts /\ all.rest = Ahead(Left)
    BY <2>3
  <2>5. Texts \in Seq(Seq(Byte))
    <3>1. output \in Seq(Line) /\ DOMAIN output = 1..Len(output) /\ Len(output) \in Nat
      BY DEF ConsoleTypeOK
    <3>2. \A i \in 1..Len(output) : output[i] \in Line
      BY <3>1
    <3>3. \A i \in 1..Len(output) : output[i].text \in Seq(Byte)
      BY <3>2 DEF Line
    <3>4. QED
      BY <3>1, <3>3, IsASeq DEF Texts
  <2>6. Texts' = all.lines \o (IF all.rest = <<>> THEN <<>> ELSE <<Trimmed(all.rest)>>)
    <3>1. line_start + Left = Len(buffer)
      BY <1>1
    <3>2. Len(Ahead(Left)) = Left
      BY <1>1, <3>1, SubSeqProperties DEF Ahead
    <3>3. CASE Left = 0
      <4>1. Ahead(Left) = <<>> /\ output' = output
        BY <1>1, <1>7, <3>3, SubSeqEmpty DEF Ahead, Close
      <4>2. Texts' = Texts /\ Texts \o <<>> = Texts
        BY <2>5, <4>1, ConcatEmptySeq DEF Texts
      <4>3. QED
        BY <2>4, <4>1, <4>2
    <3>4. CASE Left # 0
      <4> DEFINE x == Trimmed(Ahead(Left))
                 r == [text |-> x, ended |-> FALSE, sent |-> TRUE]
      <4>1. Ahead(Left) # <<>>
        BY <3>2, <3>4
      <4>2. x \in Seq(Byte)
        BY <1>1, CutIsText
      <4>3. r \in Line /\ r.text = x /\ output' = Append(output, r)
        BY <1>7, <3>4, <4>2 DEF Line, Close
      <4> HIDE DEF x, r
      <4>4. Texts' = Append(Texts, x)
        BY <4>3, TextsGrow
      <4>5. Append(Texts, x) = Texts \o <<x>>
        BY <2>5, <4>2, AppendIsConcat
      <4>6. QED
        BY <2>4, <4>1, <4>4, <4>5 DEF x
    <3>5. QED
      BY <3>3, <3>4
  <2>7. LinesFaithful'
    <3>1. phase' # "read" /\ Taken(received, Len(received))' = all
      BY <2>1 DEF all
    <3>2. QED
      BY <2>6, <3>1 DEF LinesFaithful
  <2>8. QED
    BY <2>1, <2>2, <2>7 DEF Followed
<1>8. CASE Tick \/ UNCHANGED consoleVars
  <2>1. UNCHANGED <<phase, buffer, line_start, received, output>>
    BY <1>8 DEF Tick, consoleVars, streamVars
  <2>2. Left' = Left /\ Cut' = Cut /\ Texts' = Texts
    BY <2>1 DEF Left, Cut, Texts
  <2>3. QED
    BY <2>1, <2>2 DEF Followed, Buffered, Waits, Level, LinesFaithful
<1>9. QED
  BY <1>3, <1>4, <1>5, <1>6, <1>7, <1>8 DEF ConsoleNext

\* What the reader has cut between two reads, and at the end of the stream, is what a pass
\* over the bytes cuts that knows neither chunks nor a buffer nor the throttle: no chunk, no
\* compaction and no held back line changes, loses or repeats one (the stdout task of
\* Container::new), whatever Piece and Compact are.
THEOREM LinesAreFaithful == ConsoleSpec => []LinesFaithful
<1>1. ConsoleInit => Followed
  <2> SUFFICES ASSUME ConsoleInit
               PROVE  Followed
    OBVIOUS
  <2>1. /\ buffer = <<>> /\ output = <<>> /\ received = <<>> /\ line_start = 0 /\ phase = "read"
        /\ Len(buffer) = 0 /\ Len(received) = 0 /\ received \in Seq(Byte) /\ DOMAIN output = {}
    BY DEF ConsoleInit
  <2>2. Left = 0 /\ Cut = 0
    BY <2>1 DEF Left, Cut
  <2>3. Taken(received, 0) = [lines |-> <<>>, rest |-> <<>>]
    BY <2>1, TakenForms DEF Start
  <2>4. Texts = <<>>
    BY <2>1 DEF Texts
  <2>5. Piece \in Nat
    BY ConsoleAssumption
  <2>6. Buffered /\ Level(Cut, Texts)
    BY <2>1, <2>2, <2>3, <2>4 DEF Buffered, Level
  <2>7. LinesFaithful
    BY <2>1, <2>3, <2>4 DEF LinesFaithful
  <2>8. QED
    BY <2>1, <2>2, <2>5, <2>6, <2>7 DEF Followed
<1>2. Reading => ConsoleTypeOK
  BY DEF Reading
<1>3. Followed => LinesFaithful
  BY DEF Followed
<1>4. QED
  BY <1>1, <1>2, <1>3, ReadingHolds, FollowedStep, PTL DEF ConsoleSpec

(***************************************************************************)
(* The websocket: the inductive invariant                                  *)
(***************************************************************************)

\* The values of everything but the log, those at the mutexes as sequences; who is told
\* that a token is over is told of a token.
Typed ==
  /\ life \in [Token -> {"good", "ending", "over"}]
  /\ open \in BOOLEAN /\ jwt \in Token \cup {None}
  /\ readers \subseteq Listener
  /\ line \in Seq(Task) /\ waiting \in Seq(Logger \cup {"client"})
  /\ client \in TaskRecord /\ listener \in [Listener -> TaskRecord]
  /\ request \in [Request -> {"none", "checked", "served", "refused"}]
  /\ told \subseteq Token
  /\ client.what = "expired" => client.token \in Token
  /\ \A k \in Listener : listener[k].what = "expired" => listener[k].token \in Token

\* Whoever is being sent the output of an installation has a token in force that grants
\* it, and the task that sends it holds that token for reading, so nobody replaces it.
Granted ==
  /\ ~leaked
  /\ \A k \in Listener : listener[k].what = "install" => k \in readers /\ jwt \in Install

\* How many activities have left the log: what is being sent comes next.
Gone == logged - (Len(batch) + Len(queue))

\* The batch and the queue are the numbers after Gone, in order; what arrived and what
\* failed is not beyond it, and nothing up to it is neither.
InOrder ==
  /\ logged \in Nat /\ batch \in Seq(Nat) /\ queue \in Seq(Nat) /\ arrived \in Seq(Nat)
  /\ Gone \in Nat
  /\ \A i \in 1..Len(batch) : batch[i] = Gone + i
  /\ \A i \in 1..Len(queue) : queue[i] = Gone + Len(batch) + i
  /\ \A i \in 1..Len(arrived) : arrived[i] <= Gone
  /\ \A i \in 1..(Len(arrived) - 1) : arrived[i] < arrived[i + 1]
  /\ failed \subseteq 1..Gone
  /\ \A n \in 1..Gone : n \in failed \/ \E i \in 1..Len(arrived) : arrived[i] = n

\* As long as no two requests raced, one at most was let through the first look, and if
\* it was served the id is known.
Single ==
  ~raced =>
    /\ \A q, r \in Request : /\ request[q] \in {"checked", "served"}
                             /\ request[r] \in {"checked", "served"}
                             => q = r
    /\ (\E r \in Request : request[r] = "served") => seen

Inv == Typed /\ Granted /\ InOrder /\ Single

(***************************************************************************)
(* What the operators of the model return                                  *)
(***************************************************************************)

\* What a task does is a record of a task.
LEMMA Records ==
  /\ Rest \in TaskRecord /\ Rest.what = "none"
  /\ [k \in Listener |-> Rest] \in [Listener -> TaskRecord]
  /\ \A pc \in {"send", "write", "handle", "log"}, t \in Token \cup {None},
       what \in {"none", "success", "expired", "lines", "install", "status", "output",
                 "expiring", "ping"} :
       [pc |-> pc, token |-> t, what |-> what] \in TaskRecord
  /\ \A c \in TaskRecord :
       /\ [c EXCEPT !.pc = "write"] \in TaskRecord
       /\ c.token \in Token \cup {None}
  BY DEF Rest, TaskRecord

\* Who waits at the mutex of the sender and at that of the queue: after a task joined them,
\* after the first left, and after it left and joined them again.
Mutexes ==
  /\ <<>> \in Seq(Task) /\ <<>> \in Seq(Logger \cup {"client"})
  /\ \A k \in Task : Append(line, k) \in Seq(Task)
  /\ \A c \in Logger \cup {"client"} : Append(waiting, c) \in Seq(Logger \cup {"client"})
  /\ line # <<>> => Tail(line) \in Seq(Task)
  /\ line # <<>> => \A k \in Task : Append(Tail(line), k) \in Seq(Task)
  /\ waiting # <<>> => Tail(waiting) \in Seq(Logger \cup {"client"})

\* Joining and leaving the two queues leaves queues of the same kind.
LEMMA Waiting == Typed => Mutexes
  BY AppendProperties, HeadTailProperties, EmptySeq DEF Typed, Mutexes

(***************************************************************************)
(* Types                                                                   *)
(***************************************************************************)

\* Every step keeps the types.
LEMMA TypedStep == SessionsAssumption /\ Typed /\ [Next]_vars => Typed'
<1> SUFFICES ASSUME SessionsAssumption, Typed, [Next]_vars
             PROVE  Typed'
  OBVIOUS
<1>0. Mutexes
  BY Waiting
<1> USE Records, <1>0 DEF Typed, Mutexes
<1>1. ASSUME NEW t \in Token, Age(t)
      PROVE  Typed'
  BY <1>1 DEF Age, socket, log, tickets, Task, Listener
<1>2. ASSUME NEW t \in Token, Authenticate(t)
      PROVE  Typed'
  <2>0. PICK what \in {"success", "expired"} :
               client' = [pc |-> "send", token |-> t, what |-> what]
    BY <1>2 DEF Authenticate, Becomes
  <2>1. client' \in TaskRecord /\ client'.token \in Token
    BY <2>0
  <2>2. line' \in Seq(Task)
    BY <1>2 DEF Authenticate, Sends, Task
  <2>3. QED
    BY <1>2, <2>1, <2>2 DEF Authenticate, OffSocket, log, tickets
<1>3. ASSUME CloseSocket
      PROVE  Typed'
  BY <1>3 DEF CloseSocket, Closes, OffSocket, log, tickets, Task, Listener
<1>4. ASSUME AskForLines
      PROVE  Typed'
  BY <1>4 DEF AskForLines, Admitted, Receives, Becomes, Sends, OffSocket, log, tickets, Task, Listener
<1>5. ASSUME Command
      PROVE  Typed'
  BY <1>5 DEF Command, Admitted, Receives, OffSocket, log, tickets, Task, Listener
<1>6. ASSUME Handled
      PROVE  Typed'
  <2>1. client' \in TaskRecord
    BY <1>6 DEF Handled, Becomes
  <2>2. waiting' \in Seq(Logger \cup {"client"})
    BY <1>6 DEF Handled
  <2>3. client'.what # "expired"
    <3>1. client' \in {[pc |-> "log", token |-> client.token, what |-> "none"], Rest}
      BY <1>6 DEF Handled, Becomes
    <3>2. [pc |-> "log", token |-> client.token, what |-> "none"].what # "expired"
      OBVIOUS
    <3>3. QED
      BY <3>1, <3>2
  <2>4. QED
    BY <1>6, <2>1, <2>2, <2>3 DEF Handled, Kept, tickets
<1>7. ASSUME ClientSent
      PROVE  Typed'
  <2>1. client' \in TaskRecord /\ (client'.what = "expired" => client'.token \in Token)
    <3>1. [client EXCEPT !.pc = "write"] \in TaskRecord
      OBVIOUS
    <3>2. /\ [client EXCEPT !.pc = "write"].what = client.what
          /\ [client EXCEPT !.pc = "write"].token = client.token
      BY DEF TaskRecord
    <3>3. client' \in {client, Rest, [client EXCEPT !.pc = "write"]}
      BY <1>7 DEF ClientSent
    <3>4. QED
      BY <3>1, <3>2, <3>3
  <2>2. line' \in Seq(Task)
    BY <1>7 DEF ClientSent, Task
  <2>3. told' \subseteq Token
    BY <1>7 DEF ClientSent
  <2>4. QED
    BY <1>7, <2>1, <2>2, <2>3 DEF ClientSent, OffSocket, log, tickets
<1>8. ASSUME Replace
      PROVE  Typed'
  BY <1>8 DEF Replace, OffSocket, log, tickets, Task, Listener
<1>9. ASSUME Hear
      PROVE  Typed'
  <2>1. PICK what \in {"status", "install"} : Turn("events", what)
    BY <1>9 DEF Hear
  <2>2. [pc |-> "send", token |-> jwt, what |-> what] \in TaskRecord
    OBVIOUS
  <2>3. QED
    BY <1>9, <2>1, <2>2 DEF Hear, Turn, Sends, OffSocket, log, tickets, Task, Listener
<1>10. ASSUME Output
      PROVE  Typed'
  BY <1>10 DEF Output, Turn, Sends, OffSocket, log, tickets, Task, Listener
<1>11. ASSUME Announce
      PROVE  Typed'
  <2>1. PICK what \in {"expired", "expiring"} : Turn("expiry", what)
    BY <1>11 DEF Announce
  <2>2. [pc |-> "send", token |-> jwt, what |-> what] \in TaskRecord
    OBVIOUS
  <2>3. QED
    BY <1>11, <2>1, <2>2 DEF Announce, Turn, Sends, OffSocket, log, tickets, Task, Listener
<1>12. ASSUME Ping
      PROVE  Typed'
  BY <1>12 DEF Ping, Turn, Sends, OffSocket, log, tickets, Task, Listener
<1>13. ASSUME NEW k \in Listener, ListenerSent(k)
      PROVE  Typed'
  <2>1. listener' \in [Listener -> TaskRecord] /\ readers' \subseteq Listener
    BY <1>13 DEF ListenerSent
  <2>2. line' \in Seq(Task)
    BY <1>13 DEF ListenerSent
  <2>3. told' \subseteq Token
    BY <1>13 DEF ListenerSent
  <2>4. \A j \in Listener : listener'[j].what = "expired" => listener'[j].token \in Token
    BY <1>13 DEF ListenerSent
  <2>5. QED
    BY <1>13, <2>1, <2>2, <2>3, <2>4 DEF ListenerSent, OffSocket, log, tickets
<1>14. ASSUME NEW c \in Logger, LogActivity(c)
      PROVE  Typed'
  BY <1>14 DEF LogActivity, OffLog, tickets, Task, Listener
<1>15. ASSUME Push
      PROVE  Typed'
  BY <1>15 DEF Push, OffLog, tickets, Task, Listener
<1>16. ASSUME Drain
      PROVE  Typed'
  BY <1>16 DEF Drain, OffLog, tickets, Task, Listener
<1>17. ASSUME NEW f \in BOOLEAN, NEW a \in BOOLEAN, Answer(f, a)
      PROVE  Typed'
  BY <1>17 DEF Answer, OffLog, tickets, Task, Listener
<1>18. ASSUME NEW r \in Request, CheckId(r)
      PROVE  Typed'
  BY <1>18 DEF CheckId, OffTickets, socket, log, Task, Listener
<1>19. ASSUME NEW r \in Request, Insert(r)
      PROVE  Typed'
  BY <1>19 DEF Insert, OffTickets, socket, log, Task, Listener
<1>20. ASSUME Restart
      PROVE  Typed'
  BY <1>20 DEF Restart, Closes, Task, Listener
<1>21. ASSUME UNCHANGED vars
      PROVE  Typed'
  BY <1>21 DEF vars, socket, log, tickets, Task, Listener
<1>22. QED
  BY <1>1, <1>2, <1>3, <1>4, <1>5, <1>6, <1>7, <1>8, <1>9, <1>10, <1>11, <1>12, <1>13, <1>14, <1>15, <1>16, <1>17, <1>18, <1>19, <1>20, <1>21
     DEF Next, SocketNext, LogNext, TicketNext, ClientSteps, ListenerSteps, LogSteps

(***************************************************************************)
(* What a client is sent                                                   *)
(***************************************************************************)

\* The output of an installation is taken up only under a token that grants it, and the
\* token is held until the client has it.
LEMMA GrantedStep == Typed /\ Granted /\ [Next]_vars => Granted'
<1> SUFFICES ASSUME Typed, Granted, [Next]_vars
             PROVE  Granted'
  OBVIOUS
<1> USE Records DEF Granted
<1>1. ASSUME UNCHANGED <<jwt, readers, listener, leaked>>
      PROVE  Granted'
  BY <1>1
<1>2. CASE Closes
  BY <1>2 DEF Closes
<1>3. CASE Replace
  BY <1>3 DEF Replace
<1>4. CASE Hear
  <2>1. PICK what \in {"status", "install"} :
               /\ Turn("events", what)
               /\ what = "install" => jwt \in Install
    BY <1>4 DEF Hear
  <2>2. \A k \in Listener :
          listener'[k] = IF k = "events" THEN [pc |-> "send", token |-> jwt, what |-> what]
                                         ELSE listener[k]
    BY <2>1 DEF Turn, Typed
  <2>3. QED
    BY <1>4, <2>1, <2>2 DEF Hear
<1>5. CASE Output \/ Announce \/ Ping
  <2>1. PICK k \in Listener, what \in {"output", "expired", "expiring", "ping"} : Turn(k, what)
    BY <1>5 DEF Output, Announce, Ping, Listener
  <2>2. \A j \in Listener : listener'[j].what = "install" => listener[j].what = "install"
    BY <2>1 DEF Turn, Typed
  <2>3. jwt' = jwt /\ leaked' = leaked /\ readers \subseteq readers'
    BY <1>5 DEF Output, Announce, Ping
  <2>4. QED
    BY <2>2, <2>3
<1>6. ASSUME NEW k \in Listener, ListenerSent(k)
      PROVE  Granted'
  <2>1. ~leaked'
    BY <1>6 DEF ListenerSent
  <2>2. \A j \in Listener : listener'[j].what = "install" =>
          j # k /\ listener[j].what = "install"
    BY <1>6 DEF ListenerSent, Typed
  <2>3. QED
    BY <1>6, <2>1, <2>2 DEF ListenerSent
<1>7. ASSUME \/ \E t \in Token : Age(t) \/ Authenticate(t)
             \/ AskForLines \/ Command \/ Handled \/ ClientSent
             \/ LogSteps \/ \E c \in Logger : LogActivity(c)
             \/ \E r \in Request : CheckId(r) \/ Insert(r)
             \/ UNCHANGED vars
      PROVE  UNCHANGED <<jwt, readers, listener, leaked>>
  BY <1>7 DEF Age, Authenticate, AskForLines, Command, Handled, ClientSent, LogSteps, Push,
              Drain, Answer, LogActivity, CheckId, Insert, Kept, OffLog, OffTickets,
              socket, vars
<1>8. QED
  BY <1>1, <1>2, <1>3, <1>4, <1>5, <1>6, <1>7
     DEF Next, SocketNext, LogNext, TicketNext, ClientSteps, ListenerSteps, CloseSocket, Restart

(***************************************************************************)
(* One-time tokens                                                         *)
(***************************************************************************)

\* A request is let through the first look only when no other one is, or as one that raced.
LEMMA SingleStep == Typed /\ Single /\ [Next]_vars => Single'
<1> SUFFICES ASSUME Typed, Single, [Next]_vars, ~raced'
             PROVE  /\ \A q, r \in Request : /\ request'[q] \in {"checked", "served"}
                                             /\ request'[r] \in {"checked", "served"}
                                             => q = r
                    /\ (\E r \in Request : request'[r] = "served") => seen'
  BY DEF Single
<1> USE DEF Single
<1>1. ASSUME UNCHANGED tickets
      PROVE  Single'
  BY <1>1 DEF tickets
<1>2. ASSUME NEW r \in Request, CheckId(r)
      PROVE  Single'
  <2>1. ~raced /\ \A q \in Request : request[q] # "checked"
    BY <1>2 DEF CheckId
  <2>2. \A q \in Request : q # r => request'[q] = request[q]
    BY <1>2 DEF CheckId, Typed
  <2>3. request'[r] # "served" /\ (request'[r] = "checked" => ~seen)
    BY <1>2 DEF CheckId, Typed
  <2>4. QED
    BY <1>2, <2>1, <2>2, <2>3 DEF CheckId
<1>3. ASSUME NEW r \in Request, Insert(r)
      PROVE  Single'
  <2>1. ~raced /\ request[r] = "checked" /\ seen'
    BY <1>3 DEF Insert
  <2>2. \A q \in Request : q # r => request'[q] = request[q]
    BY <1>3 DEF Insert, Typed
  <2>3. QED
    BY <2>1, <2>2
<1>4. ~Restart
  BY DEF Restart
<1>5. QED
  BY <1>1, <1>2, <1>3, <1>4
     DEF Next, SocketNext, LogNext, TicketNext, ClientSteps, ListenerSteps, LogSteps, Age,
         Authenticate, CloseSocket, AskForLines, Command, Handled, ClientSent, Replace, Hear,
         Output, Announce, Ping, ListenerSent, Push, Drain, Answer, LogActivity, OffSocket,
         OffLog, Kept, vars

(***************************************************************************)
(* The log of activities                                                   *)
(***************************************************************************)

\* The steps that have to do with the log, and what all others leave as it is.
LEMMA OffTheLog ==
  [Next]_vars =>
    \/ Push \/ Drain \/ (\E f, a \in BOOLEAN : Answer(f, a)) \/ Restart
    \/ UNCHANGED <<queue, batch, logged, arrived, failed>>
  BY DEF Next, SocketNext, LogNext, TicketNext, ClientSteps, ListenerSteps, LogSteps, Age,
         Authenticate, CloseSocket, AskForLines, Command, Handled, ClientSent, Replace, Hear,
         Output, Announce, Ping, ListenerSent, LogActivity, CheckId, Insert, OffSocket,
         OffLog, OffTickets, Kept, log, vars

\* A sequence of consecutive numbers holds those numbers.
LEMMA Consecutive ==
  ASSUME NEW s \in Seq(Nat), NEW g \in Nat, \A i \in 1..Len(s) : s[i] = g + i
  PROVE  ToSet(s) = (g + 1)..(g + Len(s))
<1>0. Len(s) \in Nat /\ ToSet(s) = {s[i] : i \in 1..Len(s)}
  BY LenProperties DEF ToSet
<1>1. ASSUME NEW n \in ToSet(s)
      PROVE  n \in (g + 1)..(g + Len(s))
  <2>1. PICK i \in 1..Len(s) : n = g + i
    BY <1>0, <1>1
  <2>2. QED
    BY <1>0, <2>1
<1>2. ASSUME NEW n \in (g + 1)..(g + Len(s))
      PROVE  n \in ToSet(s)
  <2>1. n - g \in 1..Len(s) /\ n = g + (n - g)
    BY <1>0
  <2>2. QED
    BY <1>0, <2>1
<1>3. QED
  BY <1>1, <1>2

\* The numbers of activities stay in order, from the queue to the panel.
LEMMA InOrderStep == SessionsAssumption /\ InOrder /\ [Next]_vars => InOrder'
<1> SUFFICES ASSUME SessionsAssumption, InOrder, [Next]_vars
             PROVE  InOrder'
  OBVIOUS
<1> DEFINE b == Len(batch)
           q == Len(queue)
           a == Len(arrived)
<1>0. /\ logged \in Nat /\ b \in Nat /\ q \in Nat /\ a \in Nat
      /\ Gone \in Nat /\ logged = Gone + b + q
  BY LenProperties DEF InOrder, Gone
<1>s. batch \in Seq(Nat) /\ queue \in Seq(Nat) /\ arrived \in Seq(Nat)
  BY DEF InOrder
<1>e. <<>> \in Seq(Nat) /\ Len(<<>>) = 0
  BY EmptySeq
<1>b. \A i \in 1..b : batch[i] = Gone + i
  BY DEF InOrder
<1>q. \A i \in 1..q : queue[i] = Gone + b + i
  BY DEF InOrder
<1>a. /\ \A i \in 1..a : arrived[i] <= Gone /\ arrived[i] \in Nat
      /\ \A i \in 1..(a - 1) : arrived[i] < arrived[i + 1]
  BY <1>s, ElementOfSeq DEF InOrder
<1>f. /\ failed \subseteq 1..Gone
      /\ \A n \in 1..Gone : n \in failed \/ \E i \in 1..a : arrived[i] = n
  BY DEF InOrder
<1>t. ToSet(batch) = (Gone + 1)..(Gone + b)
  BY <1>0, <1>s, <1>b, Consecutive
<1>1. CASE Push
  <2>1. /\ logged' = logged + 1 /\ batch = <<>> /\ batch' = batch
        /\ queue' = Append(queue, logged + 1) /\ arrived' = arrived /\ failed' = failed
    BY <1>1 DEF Push
  <2>2. /\ queue' \in Seq(Nat) /\ Len(queue') = q + 1
        /\ \A i \in 1..q : queue'[i] = queue[i]
        /\ queue'[q + 1] = logged + 1
    BY <1>0, <1>s, <2>1, AppendProperties
  <2>3. Gone' = Gone /\ logged' \in Nat
    BY <1>0, <1>e, <2>1, <2>2 DEF Gone
  <2>4. \A i \in 1..(q + 1) : queue'[i] = Gone + b + i
    <3> HIDE DEF b, q
    <3>1. TAKE i \in 1..(q + 1)
    <3>2. CASE i = q + 1
      BY <1>0, <2>2, <3>2
    <3>3. CASE i # q + 1
      BY <1>0, <1>q, <2>2, <3>3
    <3>4. QED
      BY <3>2, <3>3
  <2>5. QED
    BY <2>1, <2>2, <2>3, <2>4 DEF InOrder
<1>2. CASE Drain
  <2> DEFINE c == Count
  <2>1. /\ batch = <<>> /\ batch' = SubSeq(queue, 1, c)
        /\ queue' = SubSeq(queue, c + 1, q)
        /\ logged' = logged /\ arrived' = arrived /\ failed' = failed
    BY <1>2 DEF Drain
  <2>2. c \in Nat /\ c <= q /\ b = 0
    BY <1>0, <1>e, <2>1 DEF Count, SessionsAssumption
  <2>3. \A i \in 1..q : queue[i] \in Nat
    BY <1>s, ElementOfSeq
  <2>4. /\ batch' \in Seq(Nat) /\ Len(batch') = c
        /\ \A i \in 1..c : batch'[i] = queue[i]
    <3> HIDE DEF c, q
    <3>1. \A i \in 1..c : queue[i] \in Nat
      BY <1>0, <2>2, <2>3
    <3>2. /\ SubSeq(queue, 1, c) \in Seq(Nat)
          /\ Len(SubSeq(queue, 1, c)) = IF 1 <= c THEN c - 1 + 1 ELSE 0
          /\ \A i \in 1..(c - 1 + 1) : SubSeq(queue, 1, c)[i] = queue[1 + i - 1]
      BY <2>2, <3>1, SubSeqProperties
    <3>3. QED
      BY <2>1, <2>2, <3>2
  <2>5. /\ queue' \in Seq(Nat) /\ Len(queue') = q - c
        /\ \A i \in 1..(q - c) : queue'[i] = queue[c + i] /\ c + i \in 1..q
    <3> HIDE DEF c, q
    <3>1. \A i \in (c + 1)..q : queue[i] \in Nat
      BY <1>0, <2>2, <2>3
    <3>2. LET r == SubSeq(queue, c + 1, q) IN
          /\ r \in Seq(Nat)
          /\ Len(r) = IF c + 1 <= q THEN q - (c + 1) + 1 ELSE 0
          /\ \A i \in 1..(q - (c + 1) + 1) : r[i] = queue[c + 1 + i - 1]
      BY <1>0, <2>2, <3>1, SubSeqProperties
    <3>3. QED
      BY <1>0, <2>1, <2>2, <3>2
  <2> HIDE DEF c
  <2>6. Gone' = Gone
    <3> HIDE DEF q, b
    <3>1. Gone' = logged - (c + (q - c))
      BY <2>1, <2>4, <2>5 DEF Gone
    <3>2. QED
      BY <1>0, <2>2, <3>1
  <2>7. \A i \in 1..c : batch'[i] = Gone + i
    <3> HIDE DEF q, b
    <3>1. QED
      BY <1>0, <1>q, <2>2, <2>4
  <2>8. \A i \in 1..(q - c) : queue'[i] = Gone + c + i
    <3> HIDE DEF q, b
    <3>1. QED
      BY <1>0, <1>q, <2>2, <2>5
  <2>9. QED
    BY <1>0, <1>s, <1>a, <1>f, <2>1, <2>4, <2>5, <2>6, <2>7, <2>8 DEF InOrder
<1>3. ASSUME NEW f \in BOOLEAN, NEW n \in BOOLEAN, Answer(f, n)
      PROVE  InOrder'
  <2> DEFINE t == arrived \o batch
  <2>1. /\ batch' = <<>> /\ queue' = queue /\ logged' = logged
        /\ arrived' = IF n THEN t ELSE arrived
        /\ failed' = IF f THEN failed \cup ToSet(batch) ELSE failed
        /\ f \/ n
    BY <1>3 DEF Answer
  <2>2. Gone' = Gone + b
    BY <1>0, <1>e, <2>1 DEF Gone
  <2>3. /\ t \in Seq(Nat) /\ Len(t) = a + b
        /\ \A i \in 1..(a + b) : t[i] = IF i <= a THEN arrived[i] ELSE batch[i - a]
    BY <1>s, ConcatProperties
  <2> HIDE DEF t, a, b, q
  <2>4. \A i \in 1..(a + b) : t[i] = IF i <= a THEN arrived[i] ELSE Gone + (i - a)
    <3>1. TAKE i \in 1..(a + b)
    <3>2. CASE i <= a
      BY <2>3, <3>2
    <3>3. CASE ~(i <= a)
      <4>1. i - a \in 1..b
        BY <1>0, <3>3
      <4>2. batch[i - a] = Gone + (i - a)
        BY <1>b, <4>1
      <4>3. QED
        BY <2>3, <3>3, <4>2
    <3>4. QED
      BY <3>2, <3>3
  <2>5. failed' \subseteq 1..(Gone + b)
    BY <1>0, <1>t, <1>f, <2>1
  <2>6. CASE n
    <3>1. \A i \in 1..(a + b) : t[i] <= Gone + b
      BY <1>0, <1>a, <2>4
    <3>2. \A i \in 1..(a + b - 1) : t[i] < t[i + 1]
      <4>1. TAKE i \in 1..(a + b - 1)
      <4>2. CASE i < a
        BY <1>0, <1>a, <2>4, <4>2
      <4>3. CASE i >= a
        BY <1>0, <1>a, <2>4, <4>3
      <4>4. QED
        BY <1>0, <4>2, <4>3
    <3>3. \A m \in 1..(Gone + b) : m \in failed' \/ \E i \in 1..(a + b) : t[i] = m
      <4>1. TAKE m \in 1..(Gone + b)
      <4>2. CASE m <= Gone
        <5>1. CASE m \in failed
          BY <2>1, <5>1
        <5>2. CASE \E i \in 1..a : arrived[i] = m
          BY <1>0, <2>4, <5>2
        <5>3. QED
          BY <1>0, <1>f, <4>2, <5>1, <5>2
      <4>3. CASE m > Gone
        <5>1. a + (m - Gone) \in 1..(a + b) /\ t[a + (m - Gone)] = m
          BY <1>0, <2>4, <4>3
        <5>2. QED
          BY <5>1
      <4>4. QED
        BY <1>0, <4>2, <4>3
    <3>4. arrived' = t
      BY <2>1, <2>6
    <3>5. Gone' \in Nat
      BY <1>0, <2>2
    <3>6. QED
      BY <1>0, <1>s, <1>e, <1>q, <2>1, <2>2, <2>3, <2>5, <3>1, <3>2, <3>3, <3>4, <3>5
         DEF InOrder, q, b
  <2>7. CASE ~n
    <3>1. arrived' = arrived /\ failed' = failed \cup ((Gone + 1)..(Gone + b))
      BY <1>t, <2>1, <2>7
    <3>2. \A m \in 1..(Gone + b) : m \in failed' \/ \E i \in 1..a : arrived[i] = m
      BY <1>0, <1>f, <3>1
    <3>3. \A i \in 1..a : arrived[i] <= Gone + b
      BY <1>0, <1>a
    <3>4. Gone' \in Nat
      BY <1>0, <2>2
    <3>5. /\ logged' \in Nat /\ batch' \in Seq(Nat) /\ queue' \in Seq(Nat)
          /\ arrived' \in Seq(Nat) /\ Len(batch') = 0 /\ Len(queue') = q
      BY <1>0, <1>s, <1>e, <2>1, <3>1 DEF q
    <3>6. \A i \in 1..q : queue'[i] = Gone' + 0 + i
      BY <1>0, <1>q, <2>1, <2>2
    <3>7. Len(arrived') = a /\ \A i \in 1..(a - 1) : arrived'[i] < arrived'[i + 1]
      BY <1>a, <3>1 DEF a
    <3>8. \A i \in 1..a : arrived'[i] <= Gone'
      BY <2>2, <3>1, <3>3
    <3>9. \A i \in 1..Len(batch') : batch'[i] = Gone' + i
      BY <3>5
    <3>10. failed' \subseteq 1..Gone'
      BY <2>2, <2>5
    <3>11. \A m \in 1..Gone' : m \in failed' \/ \E i \in 1..Len(arrived') : arrived'[i] = m
      BY <2>2, <3>1, <3>2 DEF a
    <3>12. QED
      BY <3>4, <3>5, <3>6, <3>7, <3>8, <3>9, <3>10, <3>11 DEF InOrder
  <2>8. QED
    BY <2>6, <2>7
<1>4. CASE Restart
  <2>1. /\ batch' = <<>> /\ queue' = <<>> /\ logged' = logged /\ arrived' = arrived
        /\ failed' = failed \cup ToSet(queue) \cup ToSet(batch)
    BY <1>4 DEF Restart
  <2>2. Gone' = logged
    BY <1>0, <1>e, <2>1 DEF Gone
  <2>3. ToSet(queue) = (Gone + b + 1)..(Gone + b + q)
    <3>1. Gone + b \in Nat
      BY <1>0
    <3>2. QED
      BY <1>s, <1>q, <3>1, Consecutive
  <2> HIDE DEF a, b, q
  <2>4. failed' \subseteq 1..logged
    BY <1>0, <1>t, <1>f, <2>1, <2>3
  <2>5. \A m \in 1..logged : m \in failed' \/ \E i \in 1..a : arrived[i] = m
    BY <1>0, <1>t, <1>f, <2>1, <2>3
  <2>6. \A i \in 1..a : arrived[i] <= logged
    BY <1>0, <1>a
  <2>7. QED
    BY <1>0, <1>s, <1>e, <1>a, <2>1, <2>2, <2>4, <2>5, <2>6 DEF InOrder, a
<1>5. CASE UNCHANGED <<queue, batch, logged, arrived, failed>>
  BY <1>5 DEF InOrder, Gone
<1>6. QED
  BY <1>1, <1>2, <1>3, <1>4, <1>5, OffTheLog

(***************************************************************************)
(* The theorems                                                            *)
(***************************************************************************)

\* The invariant holds at the start and every step keeps it.
LEMMA Invariant == Spec => []Inv
<1>1. Init => Inv
  <2> SUFFICES ASSUME Init
               PROVE  Inv
    OBVIOUS
  <2>1. Typed
    BY Records, EmptySeq DEF Init, Typed
  <2>2. Granted
    BY Records DEF Init, Granted
  <2>3. InOrder
    BY EmptySeq DEF Init, InOrder, Gone
  <2>4. Single
    BY DEF Init, Single
  <2>5. QED
    BY <2>1, <2>2, <2>3, <2>4 DEF Inv
<1>2. Inv /\ [Next]_vars => Inv'
  BY SessionsAssumption, TypedStep, GrantedStep, InOrderStep, SingleStep DEF Inv
<1>3. QED
  BY <1>1, <1>2, PTL DEF Spec

\* Every variable keeps its type, and no client is sent the output of an installation its
\* token does not grant when it is sent, however its tokens change meanwhile.
THEOREM OutputIsGranted == Spec => []GrantHolds
<1>1. Inv => GrantHolds
  <2> SUFFICES ASSUME Inv
               PROVE  GrantHolds
    OBVIOUS
  <2> USE DEF Inv
  <2>1. \A i \in 1..Len(line) : line[i] \in Task
    BY ElementOfSeq DEF Typed
  <2>2. \A i \in 1..Len(waiting) : waiting[i] \in Logger \cup {"client"}
    BY ElementOfSeq DEF Typed
  <2>3. failed \subseteq 1..logged
    <3>1. Gone \in Nat /\ Gone <= logged
      BY LenProperties DEF InOrder, Gone
    <3>2. QED
      BY <3>1 DEF InOrder
  <2>4. QED
    BY <2>1, <2>2, <2>3 DEF GrantHolds, TypeOK, Typed, Granted
<1>2. QED
  BY <1>1, Invariant, PTL

\* One-time tokens serve one request, unless two raced between the look and the insertion or
\* the daemon was restarted.
THEOREM TicketsServeOnce == Spec => []OneUse
<1>1. Inv => OneUse
  <2> SUFFICES ASSUME Inv, ~raced
               PROVE  Cardinality({r \in Request : request[r] = "served"}) <= 1
    BY DEF OneUse
  <2> DEFINE S == {r \in Request : request[r] = "served"}
  <2>1. CASE S = {}
    BY <2>1, FS_EmptySet
  <2>2. CASE S # {}
    <3>1. PICK r \in S : TRUE
      BY <2>2
    <3>2. S = {r}
      BY <3>1 DEF Inv, Single
    <3>3. QED
      BY <3>2, FS_Singleton
  <2>3. QED
    BY <2>1, <2>2
<1>2. QED
  BY <1>1, Invariant, PTL

\* The concatenation of the batch and the queue is the end of the numbers of activities.
LEMMA LogIsSuffix == InOrder => IsSuffix(batch \o queue, [i \in 1..logged |-> i])
<1> SUFFICES ASSUME InOrder
             PROVE  IsSuffix(batch \o queue, [i \in 1..logged |-> i])
  OBVIOUS
<1> DEFINE s == batch \o queue
           t == [i \in 1..logged |-> i]
           b == Len(batch)
           q == Len(queue)
<1>1. /\ logged \in Nat /\ b \in Nat /\ q \in Nat /\ Gone \in Nat /\ logged = Gone + b + q
      /\ batch \in Seq(Nat) /\ queue \in Seq(Nat)
  BY LenProperties DEF InOrder, Gone
<1>2. /\ s \in Seq(Nat) /\ Len(s) = b + q
      /\ \A i \in 1..(b + q) : s[i] = IF i <= b THEN batch[i] ELSE queue[i - b]
  BY <1>1, ConcatProperties
<1>3. \A i \in 1..b : batch[i] = Gone + i
  BY DEF InOrder
<1>4. \A i \in 1..q : queue[i] = Gone + b + i
  BY DEF InOrder
<1>5. t \in Seq(Nat) /\ Len(t) = logged /\ \A i \in 1..logged : t[i] = i
  BY <1>1
<1> HIDE DEF s, t, b, q
<1>6. \A i \in 1..(b + q) : s[i] = Gone + i
  <2>1. TAKE i \in 1..(b + q)
  <2>2. CASE i <= b
    <3>1. i \in 1..b
      BY <1>1, <2>2
    <3>2. QED
      BY <1>2, <1>3, <2>2, <3>1
  <2>3. CASE ~(i <= b)
    <3>1. i - b \in 1..q
      BY <1>1, <2>3
    <3>2. queue[i - b] = Gone + b + (i - b)
      BY <1>4, <3>1
    <3>3. QED
      BY <1>1, <1>2, <2>3, <3>2
  <2>4. QED
    BY <2>2, <2>3
<1>7. /\ Reverse(s) = [i \in 1..(b + q) |-> s[(b + q) - i + 1]]
      /\ Reverse(t) = [i \in 1..logged |-> t[logged - i + 1]]
  BY <1>2, <1>5 DEF Reverse
<1>8. \A i \in 1..(b + q) : Reverse(s)[i] = logged - i + 1 /\ Reverse(t)[i] = logged - i + 1
  <2>1. TAKE i \in 1..(b + q)
  <2>2. (b + q) - i + 1 \in 1..(b + q) /\ logged - i + 1 \in 1..logged /\ i \in 1..logged
    BY <1>1
  <2>3. s[(b + q) - i + 1] = Gone + ((b + q) - i + 1)
    BY <1>6, <2>2
  <2>4. QED
    BY <1>1, <1>5, <1>7, <2>2, <2>3
<1>9. /\ Len(Reverse(s)) = b + q /\ Len(Reverse(t)) = logged
      /\ DOMAIN Reverse(s) = 1..(b + q)
  BY <1>1, <1>7
<1>10. SubSeq(Reverse(s), 1, b + q) = SubSeq(Reverse(t), 1, b + q)
  BY <1>1, <1>8
<1>11. QED
  BY <1>1, <1>9, <1>10 DEF IsSuffix, IsPrefix, s, t

\* Activities arrive once and in order, and none is lost but with a batch that failed or in
\* a restart.
THEOREM ActivitiesInOrder == Spec => []ActivityFaithful
<1>1. Inv => ActivityFaithful
  <2> SUFFICES ASSUME InOrder
               PROVE  ActivityFaithful
    BY DEF Inv
  <2> DEFINE s == batch \o queue
  <2>1. /\ logged \in Nat /\ Len(batch) \in Nat /\ Len(queue) \in Nat /\ Gone \in Nat
        /\ logged = Gone + Len(batch) + Len(queue)
        /\ batch \in Seq(Nat) /\ queue \in Seq(Nat) /\ arrived \in Seq(Nat)
    BY LenProperties DEF InOrder, Gone
  <2>2. /\ s \in Seq(Nat) /\ Len(s) = Len(batch) + Len(queue)
        /\ \A i \in 1..Len(batch) + Len(queue) :
             s[i] = IF i <= Len(batch) THEN batch[i] ELSE queue[i - Len(batch)]
    BY <2>1, ConcatProperties
  <2>3. \A i \in 1..Len(s) : s[i] = Gone + i
    <3> HIDE DEF s
    <3>1. TAKE i \in 1..Len(s)
    <3>2. CASE i <= Len(batch)
      <4>1. i \in 1..Len(batch) /\ s[i] = batch[i]
        BY <2>1, <2>2, <3>2
      <4>2. batch[i] = Gone + i
        BY <4>1 DEF InOrder
      <4>3. QED
        BY <4>1, <4>2
    <3>3. CASE ~(i <= Len(batch))
      <4>1. i - Len(batch) \in 1..Len(queue)
        BY <2>1, <2>2, <3>3
      <4>2. queue[i - Len(batch)] = Gone + Len(batch) + (i - Len(batch))
        BY <4>1 DEF InOrder
      <4>3. QED
        BY <2>1, <2>2, <3>3, <4>2
    <3>4. QED
      BY <3>2, <3>3
  <2>4. ToSet(s) = (Gone + 1)..logged
    <3> HIDE DEF s
    <3>1. ToSet(s) = (Gone + 1)..(Gone + Len(s))
      BY <2>1, <2>2, <2>3, Consecutive
    <3>2. QED
      BY <2>1, <2>2, <3>1
  <2>5. ToSet(arrived) = {arrived[i] : i \in 1..Len(arrived)}
    BY <2>1, LenProperties DEF ToSet
  <2>6. \A n \in 1..logged : n \in ToSet(arrived) \cup failed \cup ToSet(s)
    <3>1. TAKE n \in 1..logged
    <3>2. CASE n <= Gone
      <4>1. n \in 1..Gone
        BY <2>1, <3>2
      <4>2. QED
        BY <2>5, <4>1 DEF InOrder
    <3>3. CASE n > Gone
      BY <2>1, <2>4, <3>3
    <3>4. QED
      BY <2>1, <3>2, <3>3
  <2>7. QED
    BY <2>6, LogIsSuffix DEF ActivityFaithful, InOrder
<1>2. QED
  BY <1>1, Invariant, PTL
=============================================================================
