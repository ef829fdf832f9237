-------------------------- MODULE ListPuzzleProofs --------------------------
(***************************************************************************)
(* The two programs of 链表/单链表 that compute with a list.  For circles and  *)
(* steps of any size yuesefu.c leaves the node of Josephus' recurrence, and  *)
(* for polynomials with any number of terms and any coefficients             *)
(* 多项式合并.c makes the list of the sum out of their nodes.                 *)
(***************************************************************************)
EXTENDS ListPuzzles, SequenceTheorems, FiniteSetTheorems, WellFoundedInduction, TLAPS

(* What is true of no smallest number is true of none.                      *)
LEMMA SmallestNat ==
  ASSUME NEW T \in SUBSET Nat, T # {}
  PROVE  \E m \in T : \A k \in T : m <= k
<1> DEFINE Less == {pair \in Nat \X Nat : pair[1] < pair[2]}
<1>1. IsWellFoundedOn(Less, Nat)
  BY NatLessThanWellFounded DEF OpToRel
<1>2. \A i, j \in Nat : <<j, i>> \in Less <=> j < i
  OBVIOUS
<1> HIDE DEF Less
<1>3. PICK m \in T : \A k \in T : ~ (<<k, m>> \in Less)
  BY <1>1, WFMin
<1>4. ASSUME NEW k \in T PROVE m <= k
  <2>1. m \in Nat /\ k \in Nat /\ ~ (k < m)
    BY <1>2, <1>3
  <2>2. QED
    BY <2>1
<1>5. QED
  BY <1>4

(* Remainders: what a sum leaves, with a step of less than one round.       *)
LEMMA Remainder ==
  ASSUME NEW m \in Nat \ {0}, NEW a \in Nat
  PROVE  a % m \in 0 .. m - 1 /\ a \div m \in Nat /\ a = m * (a \div m) + (a % m)
OBVIOUS

LEMMA RemainderIs ==
  ASSUME NEW m \in Nat \ {0}, NEW k \in Nat, NEW rest \in 0 .. m - 1
  PROVE  (m * k + rest) % m = rest
OBVIOUS

LEMMA RemainderOfSum ==
  ASSUME NEW m \in Nat \ {0}, NEW a \in Nat, NEW b \in 0 .. m
  PROVE  (a + b) % m = IF (a % m) + b < m THEN (a % m) + b ELSE (a % m) + b - m
<1> DEFINE d == a \div m
           e == a % m
<1>1. d \in Nat /\ e \in 0 .. m - 1 /\ a = m * d + e
  BY Remainder
<1> HIDE DEF d, e
<1>2. CASE e + b < m
  <2>1. a + b = m * d + (e + b) /\ e + b \in 0 .. m - 1
    BY <1>1, <1>2
  <2>2. QED
    BY <1>1, <1>2, <2>1, RemainderIs DEF e
<1>3. CASE ~(e + b < m)
  <2>1. e + b - m \in 0 .. m - 1 /\ d + 1 \in Nat
    BY <1>1, <1>3
  <2>2. m * (d + 1) = m * d + m
    BY <1>1
  <2>3. a + b = m * (d + 1) + (e + b - m)
    BY <1>1, <2>2
  <2> DEFINE d1 == d + 1
             e1 == e + b - m
  <2>4. d1 \in Nat /\ e1 \in 0 .. m - 1 /\ a + b = m * d1 + e1
    BY <2>1, <2>3
  <2> HIDE DEF d1, e1
  <2>5. (a + b) % m = e1
    BY <2>4, RemainderIs
  <2>6. QED
    BY <1>3, <2>5 DEF e, e1
<1>4. QED
  BY <1>2, <1>3

LEMMA SmallRemainder ==
  ASSUME NEW m \in Nat \ {0}, NEW a \in 0 .. m
  PROVE  a % m = IF a < m THEN a ELSE 0
OBVIOUS

(* Survivor(n) is a function that solves its equation: one that solves it   *)
(* up to k can be continued, and two that solve it agree as far as they go. *)
Solves(g, k, n) ==
  /\ g \in [1 .. k -> Nat] /\ g[1] = 0
  /\ \A m \in 2 .. k : g[m] = (g[m - 1] + n) % m

LEMMA SolutionsAgree ==
  ASSUME NEW n \in Nat, NEW k \in Nat, NEW l \in Nat, NEW g, NEW h,
         Solves(g, k, n), Solves(h, l, n), NEW m \in 1 .. k, m <= l
  PROVE  g[m] = h[m]
<1> DEFINE T == {i \in 1 .. k : i <= l /\ g[i] # h[i]}
<1> SUFFICES ASSUME T # {} PROVE FALSE
  OBVIOUS
<1>1. T \subseteq Nat
  OBVIOUS
<1>2. PICK i \in T : \A j \in T : i <= j
  BY <1>1, SmallestNat
<1>3. i # 1
  BY <1>2 DEF Solves
<1>4. i \in 2 .. k /\ i \in 2 .. l /\ i - 1 \in 1 .. k /\ i - 1 <= l /\ ~(i <= i - 1)
  BY <1>2, <1>3
<1>5. g[i - 1] = h[i - 1]
  BY <1>2, <1>4
<1>6. g[i] = h[i]
  BY <1>4, <1>5 DEF Solves
<1>7. QED
  BY <1>2, <1>6

LEMMA SolutionExists ==
  ASSUME NEW n \in Nat, NEW k \in Nat \ {0}
  PROVE  \E g : Solves(g, k, n)
<1> DEFINE T == {i \in Nat \ {0} : ~ \E g : Solves(g, i, n)}
<1> SUFFICES ASSUME T # {} PROVE FALSE
  OBVIOUS
<1>1. PICK i \in T : \A j \in T : i <= j
  <2>1. T \subseteq Nat
    OBVIOUS
  <2> HIDE DEF T
  <2>2. QED
    BY <2>1, SmallestNat
<1>2. i # 1
  <2> DEFINE g == [m \in 1 .. 1 |-> 0]
  <2>1. Solves(g, 1, n)
    BY DEF Solves
  <2>2. QED
    BY <1>1, <2>1
<1>3. i - 1 \in Nat \ {0} /\ ~(i <= i - 1) /\ i \in Nat
  BY <1>1, <1>2
<1>4. PICK g : Solves(g, i - 1, n)
  BY <1>1, <1>3
<1> DEFINE h == [m \in 1 .. i |-> IF m < i THEN g[m] ELSE (g[i - 1] + n) % i]
<1>5. (g[i - 1] + n) % i \in Nat
  <2>1. g[i - 1] \in Nat
    BY <1>3, <1>4 DEF Solves
  <2>2. g[i - 1] + n \in Nat /\ i \in Nat \ {0}
    BY <1>3, <2>1
  <2>3. QED
    BY <2>2, Remainder
<1>6. h \in [1 .. i -> Nat] /\ \A m \in 1 .. i - 1 : h[m] = g[m]
  BY <1>3, <1>4, <1>5 DEF Solves
<1>7. h[i] = (g[i - 1] + n) % i
  BY <1>3
<1> HIDE DEF h
<1>8. h[1] = 0
  BY <1>3, <1>4, <1>6 DEF Solves
<1>9. ASSUME NEW m \in 2 .. i PROVE h[m] = (h[m - 1] + n) % m
  <2>1. m - 1 \in 1 .. i - 1 /\ h[m - 1] = g[m - 1]
    BY <1>3, <1>6
  <2>2. CASE m = i
    BY <1>7, <2>1, <2>2
  <2>3. CASE m # i
    <3>1. m \in 2 .. i - 1 /\ m \in 1 .. i - 1
      BY <1>3, <2>3
    <3>2. QED
      BY <1>4, <1>6, <2>1, <3>1 DEF Solves
  <2>4. QED
    BY <2>2, <2>3
<1>10. Solves(h, i, n)
  BY <1>6, <1>8, <1>9 DEF Solves
<1>11. QED
  BY <1>1, <1>10

LEMMA SurvivorStep ==
  ASSUME NEW n \in Nat
  PROVE  /\ Survivor(n)[1] = 0
         /\ \A m \in Nat \ {0} : Survivor(n)[m] \in 0 .. m - 1
         /\ \A m \in Nat \ {0, 1} : Survivor(n)[m] = (Survivor(n)[m - 1] + n) % m
<1> DEFINE Recurs(last) == last = [m \in Nat \ {0} |-> IF m = 1 THEN 0 ELSE (last[m - 1] + n) % m]
           sol(m) == CHOOSE g : Solves(g, m, n)
           h == [m \in Nat \ {0} |-> sol(m)[m]]
<1>1. \A m \in Nat \ {0} : Solves(sol(m), m, n)
  BY SolutionExists
<1>2. h[1] = 0
  <2> DEFINE b == sol(1)
  <2>1. Solves(b, 1, n)
    BY <1>1
  <2>2. h[1] = b[1]
    OBVIOUS
  <2> HIDE DEF b, h
  <2>3. QED
    BY <2>1, <2>2 DEF Solves
<1>3. ASSUME NEW m \in Nat \ {0, 1} PROVE h[m] = (h[m - 1] + n) % m
  <2>1. m - 1 \in Nat \ {0} /\ m \in Nat \ {0} /\ m - 1 \in 1 .. m - 1 /\ m - 1 <= m /\ m \in 2 .. m
    OBVIOUS
  <2>2. Solves(sol(m), m, n) /\ Solves(sol(m - 1), m - 1, n)
    BY <1>1, <2>1
  <2>3. sol(m - 1)[m - 1] = sol(m)[m - 1]
    <3> DEFINE a == sol(m - 1)
               b == sol(m)
               l == m - 1
    <3>1. Solves(a, l, n) /\ Solves(b, m, n) /\ l \in Nat /\ m \in Nat /\ l \in 1 .. l /\ l <= m
      BY <2>1, <2>2
    <3> HIDE DEF a, b, l
    <3>2. a[l] = b[l]
      BY <3>1, SolutionsAgree
    <3>3. QED
      BY <3>2 DEF a, b, l
  <2>4. sol(m)[m] = (sol(m)[m - 1] + n) % m
    <3> DEFINE b == sol(m)
    <3> HIDE DEF b
    <3>1. QED
      BY <2>1, <2>2 DEF Solves, b
  <2>5. h[m] = sol(m)[m] /\ h[m - 1] = sol(m - 1)[m - 1]
    BY <2>1
  <2>6. QED
    BY <2>3, <2>4, <2>5
<1>4. Recurs(h)
  <2>1. \A m \in Nat \ {0} : h[m] = IF m = 1 THEN 0 ELSE (h[m - 1] + n) % m
    <3> HIDE DEF h
    <3>1. QED
      BY <1>2, <1>3
  <2>2. h = [m \in Nat \ {0} |-> h[m]]
    OBVIOUS
  <2> HIDE DEF h
  <2>3. QED
    BY <2>1, <2>2
<1> DEFINE last == CHOOSE last : Recurs(last)
<1>5. Recurs(last)
  <2> HIDE DEF Recurs
  <2>1. QED
    BY <1>4
<1>6. Survivor(n) = last
  BY DEF Survivor
<1> HIDE DEF last, h
<1>7. /\ last[1] = 0 /\ \A m \in Nat \ {0, 1} : last[m] = (last[m - 1] + n) % m
  <2>1. \A m \in Nat \ {0} : last[m] = IF m = 1 THEN 0 ELSE (last[m - 1] + n) % m
    BY <1>5
  <2>2. QED
    BY <2>1
<1> HIDE DEF Recurs
<1>8. \A m \in Nat \ {0} : last[m] \in 0 .. m - 1
  <2> DEFINE T == {i \in Nat \ {0} : last[i] \notin 0 .. i - 1}
  <2> SUFFICES ASSUME T # {} PROVE FALSE
    OBVIOUS
  <2>1. PICK i \in T : \A j \in T : i <= j
    <3>1. T \subseteq Nat
      OBVIOUS
    <3> HIDE DEF T
    <3>2. QED
      BY <3>1, SmallestNat
  <2>2. i # 1
    BY <1>7, <2>1
  <2>3. i \in Nat \ {0, 1} /\ i - 1 \in Nat \ {0} /\ ~(i <= i - 1)
    BY <2>1, <2>2
  <2>4. last[i - 1] \in 0 .. (i - 1) - 1
    BY <2>1, <2>3
  <2>5. last[i - 1] + n \in Nat /\ i \in Nat \ {0}
    BY <2>3, <2>4
  <2>6. (last[i - 1] + n) % i \in 0 .. i - 1
    BY <2>5, Remainder
  <2>7. QED
    BY <1>7, <2>1, <2>3, <2>6
<1>9. QED
  BY <1>6, <1>7, <1>8

(* A circle of m nodes: c is the way round, the links ci follow it.         *)
Wrapped(m, i) == IF i < m THEN i ELSE i - m
GoesRound(m, c, ci, size) ==
  /\ m \in Nat \ {0} /\ c \in [0 .. m - 1 -> 1 .. size]
  /\ \A i \in 0 .. m - 1 : ci[c[i]] = c[Wrapped(m, i + 1)]
  /\ \A i, j \in 0 .. m - 1 : c[i] = c[j] => i = j

LEMMA RoundAndRound ==
  ASSUME NEW m, NEW c, NEW ci, NEW size, GoesRound(m, c, ci, size), NEW k \in Nat
  PROVE  /\ k % m \in 0 .. m - 1 /\ c[k % m] \in 1 .. size
         /\ ci[c[k % m]] = c[(k + 1) % m]
<1>1. m \in Nat \ {0} /\ 1 \in 0 .. m
  BY DEF GoesRound
<1>2. k % m \in 0 .. m - 1
  BY <1>1, Remainder
<1>3. (k + 1) % m = Wrapped(m, (k % m) + 1)
  <2>1. (k + 1) % m = IF (k % m) + 1 < m THEN (k % m) + 1 ELSE (k % m) + 1 - m
    BY <1>1, RemainderOfSum
  <2> DEFINE i == (k % m) + 1
             j == (k + 1) % m
  <2>2. j = IF i < m THEN i ELSE i - m
    BY <1>1, <2>1
  <2> HIDE DEF i, j
  <2>3. j = Wrapped(m, i)
    BY <2>2 DEF Wrapped
  <2>4. QED
    BY <2>3 DEF i, j
<1> DEFINE i == k % m
<1> HIDE DEF i
<1>4. ci[c[i]] = c[Wrapped(m, i + 1)] /\ c[i] \in 1 .. size
  BY <1>2 DEF GoesRound, i
<1>5. QED
  BY <1>2, <1>3, <1>4 DEF i

(* Two places less than one round apart are different nodes.                *)
LEMMA WithinOneRound ==
  ASSUME NEW m, NEW c, NEW ci, NEW size, GoesRound(m, c, ci, size),
         NEW k \in Nat, NEW b \in 1 .. m - 1
  PROVE  c[k % m] # c[(k + b) % m]
<1>1. m \in Nat \ {0} /\ b \in 0 .. m /\ k + b \in Nat
  BY DEF GoesRound
<1>2. k % m \in 0 .. m - 1 /\ (k + b) % m \in 0 .. m - 1
  BY <1>1, Remainder
<1>3. (k + b) % m = IF (k % m) + b < m THEN (k % m) + b ELSE (k % m) + b - m
  BY <1>1, RemainderOfSum
<1>4. k % m # (k + b) % m
  BY <1>1, <1>2, <1>3
<1>5. QED
  BY <1>2, <1>4 DEF GoesRound

(* WalkOn goes that way.                                                    *)
LEMMA WalkGoesRound ==
  ASSUME NEW m, NEW c, NEW size, GoesRound(m, c, circle, size), c[0] = cur, NEW l \in Nat
  PROVE  WalkOn[l] = c[l % m]
<1> DEFINE Walks(w) == w = [k \in Nat |-> IF k = 0 THEN cur ELSE circle[w[k - 1]]]
           walk == CHOOSE w : Walks(w)
           h == [k \in Nat |-> c[k % m]]
<1>1. m \in Nat \ {0} /\ 0 % m = 0
  BY SmallRemainder DEF GoesRound
<1>2. ASSUME NEW k \in Nat \ {0} PROVE h[k] = circle[h[k - 1]]
  <2> DEFINE i == k - 1
  <2>1. i \in Nat /\ i + 1 = k
    OBVIOUS
  <2> HIDE DEF i
  <2>2. circle[c[i % m]] = c[(i + 1) % m]
    BY <2>1, RoundAndRound
  <2>3. h[i] = c[i % m] /\ h[k] = c[(i + 1) % m]
    BY <2>1
  <2>4. h[k] = circle[h[i]]
    BY <2>2, <2>3
  <2>5. QED
    BY <2>4 DEF i
<1>3. h[0] = cur
  BY <1>1
<1>4. Walks(h)
  <2>1. h = [k \in Nat |-> h[k]]
    OBVIOUS
  <2> HIDE DEF h
  <2>2. \A k \in Nat : h[k] = IF k = 0 THEN cur ELSE circle[h[k - 1]]
    BY <1>2, <1>3
  <2>3. QED
    BY <2>1, <2>2
<1>5. Walks(walk)
  <2> HIDE DEF Walks
  <2>1. QED
    BY <1>4
<1>6. WalkOn = walk
  BY DEF WalkOn
<1> HIDE DEF walk
<1>7. h[l] = c[l % m]
  OBVIOUS
<1> HIDE DEF h
<1>8. h[l] = walk[l]
  <2> DEFINE T == {k \in Nat : h[k] # walk[k]}
  <2> SUFFICES ASSUME T # {} PROVE FALSE
    OBVIOUS
  <2>1. PICK k \in T : \A j \in T : k <= j
    <3>1. T \subseteq Nat
      OBVIOUS
    <3> HIDE DEF T
    <3>2. QED
      BY <3>1, SmallestNat
  <2>2. k # 0
    BY <1>3, <1>5, <2>1
  <2>3. k \in Nat \ {0} /\ k - 1 \in Nat /\ ~(k <= k - 1)
    BY <2>1, <2>2
  <2>4. h[k - 1] = walk[k - 1]
    BY <2>1, <2>3
  <2>5. walk[k] = circle[walk[k - 1]]
    BY <1>5, <2>3
  <2>6. QED
    BY <1>2, <2>1, <2>3, <2>4, <2>5
<1>9. QED
  BY <1>6, <1>7, <1>8

(* Node n - 1 on taken out of the circle: the way round begins behind it.   *)
Without(m, c, ci, n) == [ci EXCEPT ![c[(n - 2) % m]] = ci[c[(n - 1) % m]]]
FromBehind(m, c, n) == [i \in 0 .. m - 2 |-> c[(n + i) % m]]

LEMMA OneLess ==
  ASSUME NEW m \in Nat \ {0, 1}, NEW c, NEW ci, NEW size, GoesRound(m, c, ci, size),
         ci \in [1 .. size -> 1 .. size], NEW n \in Nat \ {0, 1}
  PROVE  /\ GoesRound(m - 1, FromBehind(m, c, n), Without(m, c, ci, n), size)
         /\ Without(m, c, ci, n) \in [1 .. size -> 1 .. size]
<1> DEFINE c2 == FromBehind(m, c, n)
           ci2 == Without(m, c, ci, n)
<1>0. /\ c2 = [i \in 0 .. m - 2 |-> c[(n + i) % m]]
      /\ ci2 = [ci EXCEPT ![c[(n - 2) % m]] = ci[c[(n - 1) % m]]]
  BY DEF FromBehind, Without
<1> HIDE DEF c2, ci2
<1>1. /\ m - 1 \in Nat \ {0} /\ (m - 1) - 1 = m - 2 /\ n - 1 \in Nat /\ n - 2 \in Nat
      /\ (n - 1) + 1 = n /\ n \in Nat
  OBVIOUS
<1>2. \A i \in 0 .. m - 2 : c2[i] = c[(n + i) % m] /\ n + i \in Nat /\ c2[i] \in 1 .. size
  <2> SUFFICES ASSUME NEW i \in 0 .. m - 2
               PROVE  c2[i] = c[(n + i) % m] /\ n + i \in Nat /\ c2[i] \in 1 .. size
    OBVIOUS
  <2> DEFINE k == n + i
  <2>1. k \in Nat /\ c2[i] = c[k % m]
    BY <1>0
  <2> HIDE DEF k
  <2>2. c[k % m] \in 1 .. size
    BY <2>1, RoundAndRound
  <2>3. QED
    BY <2>1, <2>2 DEF k
<1>3. c2 \in [0 .. m - 2 -> 1 .. size]
  BY <1>0, <1>2
<1> DEFINE b == (n - 2) % m
           d == (n - 1) % m
<1>4. ci[c[d]] = c[n % m] /\ c[b] \in 1 .. size /\ c[n % m] \in 1 .. size
  <2>1. ci[c[(n - 1) % m]] = c[((n - 1) + 1) % m] /\ c[(n - 2) % m] \in 1 .. size
    <3> DEFINE k1 == n - 1
               k2 == n - 2
    <3>1. k1 \in Nat /\ k2 \in Nat
      BY <1>1
    <3> HIDE DEF k1, k2
    <3>2. ci[c[k1 % m]] = c[(k1 + 1) % m] /\ c[k2 % m] \in 1 .. size
      BY <3>1, RoundAndRound
    <3>3. QED
      BY <3>2 DEF k1, k2
  <2>2. c[n % m] \in 1 .. size
    BY <1>1, RoundAndRound
  <2>3. QED
    BY <1>1, <2>1, <2>2
<1>5. ci2 = [ci EXCEPT ![c[b]] = c[n % m]]
  BY <1>0, <1>4
<1> HIDE DEF b, d
<1>6. /\ ci2 \in [1 .. size -> 1 .. size] /\ ci2[c[b]] = c[n % m]
      /\ \A p1 \in 1 .. size : p1 # c[b] => ci2[p1] = ci[p1]
  BY <1>4, <1>5
<1>7. ASSUME NEW i \in 0 .. m - 2 PROVE ci2[c2[i]] = c2[Wrapped(m - 1, i + 1)]
  <2>1. CASE i = m - 2
    <3>1. (n + i) % m = (n - 2) % m
      <4> DEFINE k == n - 2
      <4>1. k \in Nat /\ n + i = k + m /\ m \in 0 .. m
        BY <1>1, <2>1
      <4> HIDE DEF k
      <4>2. (k + m) % m = k % m
        <5>1. k % m \in 0 .. m - 1
          BY <4>1, Remainder
        <5>2. (k + m) % m = IF (k % m) + m < m THEN (k % m) + m ELSE (k % m) + m - m
          BY <4>1, RemainderOfSum
        <5>3. QED
          BY <5>1, <5>2
      <4>3. QED
        BY <4>1, <4>2 DEF k
    <3>2. c2[i] = c[b]
      BY <1>2, <3>1 DEF b
    <3>3. Wrapped(m - 1, i + 1) = 0 /\ 0 \in 0 .. m - 2 /\ n + 0 = n
      BY <2>1 DEF Wrapped
    <3>4. c2[0] = c[n % m]
      BY <1>2, <3>3
    <3>5. QED
      BY <1>6, <3>2, <3>3, <3>4
  <2>2. CASE i # m - 2
    <3>1. i + 1 \in 0 .. m - 2 /\ Wrapped(m - 1, i + 1) = i + 1
      BY <2>2 DEF Wrapped
    <3>2. c2[i] # c[b]
      <4> DEFINE k == n - 2
                 e == i + 2
      <4>1. k \in Nat /\ e \in 1 .. m - 1 /\ n + i = k + e
        BY <1>1, <2>2
      <4> HIDE DEF k, e
      <4>2. c[k % m] # c[(k + e) % m]
        BY <4>1, WithinOneRound
      <4>3. QED
        BY <1>2, <4>1, <4>2 DEF k, b
    <3>3. ci2[c2[i]] = ci[c2[i]]
      BY <1>2, <1>6, <3>2
    <3>4. ci[c[(n + i) % m]] = c[(n + (i + 1)) % m]
      <4> DEFINE k == n + i
      <4>1. k \in Nat /\ k + 1 = n + (i + 1)
        OBVIOUS
      <4> HIDE DEF k
      <4>2. ci[c[k % m]] = c[(k + 1) % m]
        BY <4>1, RoundAndRound
      <4>3. QED
        BY <4>1, <4>2 DEF k
    <3>5. QED
      BY <1>2, <3>1, <3>3, <3>4
  <2>3. QED
    BY <2>1, <2>2
<1>8. \A i, j \in 0 .. m - 2 : i < j => c2[i] # c2[j]
  <2> SUFFICES ASSUME NEW i \in 0 .. m - 2, NEW j \in 0 .. m - 2, i < j PROVE c2[i] # c2[j]
    OBVIOUS
  <2> DEFINE k == n + i
             e == j - i
  <2>1. k \in Nat /\ e \in 1 .. m - 1 /\ n + j = k + e /\ n + i = k
    OBVIOUS
  <2> HIDE DEF k, e
  <2>2. c[k % m] # c[(k + e) % m]
    BY <2>1, WithinOneRound
  <2>3. QED
    BY <1>2, <2>1, <2>2
<1>9. \A i, j \in 0 .. m - 2 : c2[i] = c2[j] => i = j
  <2>1. \A i, j \in 0 .. m - 2 : i < j \/ j < i \/ i = j
    OBVIOUS
  <2>2. QED
    BY <1>8, <2>1
<1>10. GoesRound(m - 1, c2, ci2, size)
  BY <1>1, <1>3, <1>7, <1>9 DEF GoesRound
<1>11. QED
  BY <1>6, <1>10 DEF c2, ci2

(* What is left of the circle is a way round through its nodes from cur on, *)
(* and the survivor is where the recurrence puts it on that way.            *)
CircleOf(size, m, c) ==
  /\ size \in Nat \ {0} /\ circle \in [1 .. size -> 1 .. size]
  /\ GoesRound(m, c, circle, size) /\ c[0] = cur
  /\ c[Survivor(step)[m]] = Survivor(step)[size] + 1
CircleRight ==
  /\ step \in Nat \ {0, 1}
  /\ \E size, m, c : CircleOf(size, m, c)
  /\ task = "left" => circle[cur] = cur

LEMMA CircleInit == PuzzleInit => CircleRight
<1> SUFFICES ASSUME PuzzleInit PROVE CircleRight
  OBVIOUS
<1>1. step \in Nat \ {0, 1} /\ task # "left" /\ cur = 1
  BY PuzzleAssumption DEF PuzzleInit
<1>2. PICK size \in CircleSizes : circle = [n \in 1 .. size |-> (n % size) + 1]
  BY DEF PuzzleInit
<1>3. size \in Nat \ {0}
  BY PuzzleAssumption
<1> DEFINE c == [i \in 0 .. size - 1 |-> i + 1]
<1>4. \A n \in 1 .. size : circle[n] = IF n < size THEN n + 1 ELSE 1
  <2> SUFFICES ASSUME NEW n \in 1 .. size PROVE circle[n] = IF n < size THEN n + 1 ELSE 1
    OBVIOUS
  <2>1. n \in 0 .. size
    OBVIOUS
  <2>2. n % size = IF n < size THEN n ELSE 0
    BY <1>3, <2>1, SmallRemainder
  <2>3. QED
    BY <1>2, <2>2
<1>5. circle \in [1 .. size -> 1 .. size]
  <2>1. \A n \in 1 .. size : circle[n] \in 1 .. size
    BY <1>3, <1>4
  <2>2. DOMAIN circle = 1 .. size /\ circle = [n \in 1 .. size |-> circle[n]]
    BY <1>2
  <2>3. QED
    BY <2>1, <2>2
<1>6. c \in [0 .. size - 1 -> 1 .. size] /\ \A i \in 0 .. size - 1 : c[i] = i + 1
  BY <1>3
<1> HIDE DEF c
<1>7. GoesRound(size, c, circle, size)
  <2>1. \A i \in 0 .. size - 1 : circle[c[i]] = c[Wrapped(size, i + 1)]
    BY <1>3, <1>4, <1>6 DEF Wrapped
  <2>2. \A i, j \in 0 .. size - 1 : c[i] = c[j] => i = j
    BY <1>6
  <2>3. QED
    BY <1>3, <1>6, <2>1, <2>2 DEF GoesRound
<1>8. c[0] = 1 /\ c[Survivor(step)[size]] = Survivor(step)[size] + 1
  <2>1. Survivor(step)[size] \in 0 .. size - 1
    BY <1>1, <1>3, SurvivorStep
  <2>2. QED
    BY <1>3, <1>6, <2>1
<1>9. CircleOf(size, size, c)
  BY <1>1, <1>3, <1>5, <1>7, <1>8 DEF CircleOf
<1>10. QED
  BY <1>1, <1>9 DEF CircleRight

(* A turn takes the step-th node out: the way round begins behind it, and   *)
(* the recurrence says where on it the survivor now is.                     *)
LEMMA CircleTurn == CircleRight /\ kill_sl => CircleRight'
<1> SUFFICES ASSUME CircleRight, kill_sl PROVE CircleRight'
  OBVIOUS
<1>1. step \in Nat \ {0, 1} /\ step' = step /\ task' = task /\ task = "circle"
  BY DEF CircleRight, kill_sl
<1>2. PICK size, m, c : CircleOf(size, m, c)
  BY DEF CircleRight
<1>3. /\ size \in Nat \ {0} /\ circle \in [1 .. size -> 1 .. size] /\ m \in Nat \ {0}
      /\ GoesRound(m, c, circle, size) /\ c[0] = cur
  BY <1>2 DEF CircleOf, GoesRound
<1>4. m \in Nat \ {0, 1}
  <2>1. circle[cur] # cur
    BY DEF kill_sl
  <2>2. m = 1 => circle[c[0]] = c[0]
    BY <1>3 DEF GoesRound, Wrapped
  <2>3. QED
    BY <1>3, <2>1, <2>2
<1> DEFINE c2 == [i \in 0 .. m - 2 |-> c[(step + i) % m]]
           last == Survivor(step)
<1>5. Walked - 1 = step - 2 /\ Walked = step - 1 /\ step - 1 \in Nat /\ step - 2 \in Nat
  BY <1>1 DEF Walked
<1>6. WalkOn[Walked - 1] = c[(step - 2) % m] /\ WalkOn[Walked] = c[(step - 1) % m]
  <2>1. \A l \in Nat : WalkOn[l] = c[l % m]
    BY <1>3, WalkGoesRound
  <2> HIDE DEF c2, last
  <2>2. QED
    BY <1>5, <2>1
<1>7. circle' = [circle EXCEPT ![c[(step - 2) % m]] = circle[c[(step - 1) % m]]]
      /\ cur' = circle[c[(step - 1) % m]]
  BY <1>6 DEF kill_sl
<1>8. cur' = c[step % m]
  <2> DEFINE k == step - 1
  <2>1. k \in Nat /\ k + 1 = step
    BY <1>1
  <2> HIDE DEF k
  <2>2. circle[c[k % m]] = c[(k + 1) % m]
    BY <1>3, <2>1, RoundAndRound
  <2>3. QED
    BY <1>7, <2>1, <2>2 DEF k
<1>9. GoesRound(m - 1, c2, circle', size) /\ circle' \in [1 .. size -> 1 .. size]
  <2>1. circle' = Without(m, c, circle, step) /\ c2 = FromBehind(m, c, step)
    BY <1>7 DEF Without, FromBehind
  <2> HIDE DEF c2, last
  <2>2. QED
    BY <1>1, <1>3, <1>4, <2>1, OneLess
<1>10. c2[0] = cur'
  <2>1. 0 \in 0 .. m - 2 /\ step + 0 = step
    BY <1>1, <1>4
  <2>2. c2[0] = c[(step + 0) % m]
    BY <2>1
  <2>3. QED
    BY <1>8, <2>1, <2>2
<1>11. c2[last[m - 1]] = last[size] + 1
  <2>1. last[m - 1] \in 0 .. (m - 1) - 1 /\ last[m] = (last[m - 1] + step) % m
    BY <1>1, <1>4, SurvivorStep
  <2> HIDE DEF last
  <2>2. last[m - 1] \in 0 .. m - 2 /\ last[m - 1] + step = step + last[m - 1]
    BY <1>1, <1>4, <2>1
  <2>3. c2[last[m - 1]] = c[(step + last[m - 1]) % m]
    BY <2>2
  <2>4. c[last[m]] = last[size] + 1
    BY <1>2 DEF CircleOf, last
  <2>5. QED
    BY <2>1, <2>2, <2>3, <2>4
<1> HIDE DEF c2
<1>12. \E s, l, d : /\ s \in Nat \ {0} /\ circle' \in [1 .. s -> 1 .. s]
                    /\ GoesRound(l, d, circle', s) /\ d[0] = cur'
                    /\ d[Survivor(step)[l]] = Survivor(step)[s] + 1
  BY <1>3, <1>9, <1>10, <1>11 DEF last
<1>13. (\E s, l, d : CircleOf(s, l, d))'
  BY <1>1, <1>12 DEF CircleOf, GoesRound
<1>14. QED
  BY <1>1, <1>13 DEF CircleRight

LEMMA CircleStep == CircleRight /\ [PuzzleNext]_puzzleVars => CircleRight'
<1> SUFFICES ASSUME CircleRight, [PuzzleNext]_puzzleVars PROVE CircleRight'
  OBVIOUS
<1>1. CASE kill_sl
  BY <1>1, CircleTurn
<1>2. ASSUME UNCHANGED <<circle, step, cur>>, task' # "left" \/ circle[cur] = cur
      PROVE  CircleRight'
  BY <1>2 DEF CircleRight, CircleOf, GoesRound
<1>3. CASE un_LinkNode
  BY <1>2, <1>3 DEF un_LinkNode
<1>4. CASE AppendRest
  BY <1>2, <1>4 DEF AppendRest
<1>5. CASE OneLeft
  BY <1>2, <1>5 DEF OneLeft
<1>6. CASE UNCHANGED puzzleVars
  BY <1>2, <1>6 DEF puzzleVars, CircleRight
<1>7. QED
  BY <1>1, <1>3, <1>4, <1>5, <1>6 DEF PuzzleNext

LEMMA CircleSolved == CircleRight => SurvivorIsLast
<1> SUFFICES ASSUME CircleRight, task = "left"
             PROVE  cur = Survivor(step)[Cardinality(DOMAIN circle)] + 1
  BY DEF SurvivorIsLast
<1>1. PICK size, m, c : CircleOf(size, m, c)
  BY DEF CircleRight
<1>2. /\ size \in Nat \ {0} /\ circle \in [1 .. size -> 1 .. size] /\ m \in Nat \ {0}
      /\ c[0] = cur /\ step \in Nat /\ circle[cur] = cur
  BY <1>1 DEF CircleRight, CircleOf, GoesRound
<1>3. m = 1
  <2> SUFFICES ASSUME m # 1 PROVE FALSE
    OBVIOUS
  <2>1. 0 \in 0 .. m - 1 /\ 1 \in 0 .. m - 1 /\ Wrapped(m, 0 + 1) = 1
    BY <1>2 DEF Wrapped
  <2>2. GoesRound(m, c, circle, size)
    BY <1>1 DEF CircleOf
  <2>3. circle[c[0]] = c[1]
    BY <2>1, <2>2 DEF GoesRound
  <2>4. c[0] # c[1]
    BY <2>1, <2>2 DEF GoesRound
  <2>5. QED
    BY <1>2, <2>3, <2>4
<1>4. Cardinality(DOMAIN circle) = size
  <2>1. DOMAIN circle = 1 .. size /\ size \in Int /\ 1 \in Int
    BY <1>2
  <2>2. Cardinality(1 .. size) = IF 1 > size THEN 0 ELSE size - 1 + 1
    BY <2>1, FS_Interval
  <2>3. QED
    BY <1>2, <2>1, <2>2
<1>5. Survivor(step)[1] = 0
  BY <1>2, SurvivorStep
<1>6. cur = Survivor(step)[size] + 1
  BY <1>1, <1>2, <1>3, <1>5 DEF CircleOf
<1>7. QED
  BY <1>4, <1>6
-----------------------------------------------------------------------------
(* What the sum of a set of at most one number is.                          *)
LEMMA SumOfNothing == SumSet({}) = 0
<1> DEFINE Folds(f) == f = [s \in SUBSET {} |-> IF s = {} THEN 0
                                             ELSE LET v == CHOOSE v \in s : TRUE IN v + f[s \ {v}]]
           sum == CHOOSE f : Folds(f)
           h == [s \in SUBSET {} |-> 0]
<1>1. Folds(h)
  <2>1. \A s \in SUBSET {} : s = {}
    OBVIOUS
  <2>2. QED
    BY <2>1
<1>2. Folds(sum)
  <2> HIDE DEF Folds, h
  <2>1. QED
    BY <1>1
<1>3. SumSet({}) = sum[{}]
  BY DEF SumSet, FoldSet, MapThenFoldSet
<1> HIDE DEF sum
<1>4. {} \in SUBSET {}
  OBVIOUS
<1>5. sum[{}] = 0
  BY <1>2, <1>4
<1>6. QED
  BY <1>3, <1>5

LEMMA SumOfOne ==
  ASSUME NEW n \in Int
  PROVE  SumSet({n}) = n
<1> DEFINE Folds(f) == f = [s \in SUBSET {n} |-> IF s = {} THEN 0
                                             ELSE LET v == CHOOSE v \in s : TRUE IN v + f[s \ {v}]]
           sum == CHOOSE f : Folds(f)
           h == [s \in SUBSET {n} |-> IF s = {} THEN 0 ELSE n]
<1>0. \A s \in SUBSET {n} : s = {} \/ s = {n}
  OBVIOUS
<1>00. (CHOOSE v \in {n} : TRUE) = n /\ {n} \ {n} = {} /\ {n} # {} /\ {} \in SUBSET {n} /\ {n} \in SUBSET {n}
  OBVIOUS
<1>1. Folds(h)
  <2>1. h[{}] = 0 /\ h[{n}] = n
    BY <1>00
  <2>2. h = [s \in SUBSET {n} |-> h[s]]
    OBVIOUS
  <2> HIDE DEF h
  <2>3. ASSUME NEW s \in SUBSET {n}
        PROVE  h[s] = IF s = {} THEN 0 ELSE LET v == CHOOSE v \in s : TRUE IN v + h[s \ {v}]
    <3>1. CASE s = {}
      BY <3>1, <2>1
    <3>2. CASE s = {n}
      <4>1. n + h[{n} \ {n}] = n
        BY <2>1, <1>00
      <4>2. QED
      BY <3>2, <4>1, <2>1, <1>00
    <3>3. QED
      BY <3>1, <3>2, <1>0
  <2>4. QED
    BY <2>2, <2>3
<1>2. Folds(sum)
  <2> HIDE DEF Folds, h
  <2>1. QED
    BY <1>1
<1>3. SumSet({n}) = sum[{n}]
  BY DEF SumSet, FoldSet, MapThenFoldSet
<1> HIDE DEF sum
<1>5. sum[{}] = 0
  BY <1>2, <1>00
<1>6. sum[{n}] = n
  <2>1. sum[{n}] = LET v == CHOOSE v \in {n} : TRUE IN v + sum[{n} \ {v}]
    BY <1>2, <1>00
  <2>2. QED
    BY <1>5, <1>00, <2>1
<1>7. QED
  BY <1>3, <1>6

LEMMA TermsOf ==
  ASSUME NEW a \in Polynomials
  PROVE  /\ Len(a) \in Nat /\ DOMAIN a = 1 .. Len(a)
         /\ \A i \in 1 .. Len(a) : a[i][1] \in Int /\ a[i][2] \in Int /\ a[i][1] # 0
         /\ \A i, j \in 1 .. Len(a) : i < j => a[i][2] < a[j][2]
<1>1. a \in Seq(Int \X Int)
  BY PuzzleAssumption
<1>2. Len(a) \in Nat /\ DOMAIN a = 1 .. Len(a) /\ \A i \in 1 .. Len(a) : a[i] \in Int \X Int
  BY <1>1
<1>3. \A i \in 1 .. Len(a) : a[i][1] \in Int /\ a[i][2] \in Int
  BY <1>2
<1>4. QED
  BY <1>2, <1>3, PuzzleAssumption

LEMMA CoefficientOf ==
  ASSUME NEW a \in Polynomials
  PROVE  /\ \A i \in 1 .. Len(a) : Coefficient(a, a[i][2]) = a[i][1]
         /\ \A e : (\A i \in 1 .. Len(a) : a[i][2] # e) => Coefficient(a, e) = 0
<1>1. ASSUME NEW i \in 1 .. Len(a) PROVE Coefficient(a, a[i][2]) = a[i][1]
  <2>1. \A j \in 1 .. Len(a) : a[j][2] = a[i][2] => j = i
    <3> SUFFICES ASSUME NEW j \in 1 .. Len(a), a[j][2] = a[i][2], j # i PROVE FALSE
      OBVIOUS
    <3>1. j < i \/ i < j
      BY TermsOf
    <3>2. a[i][2] \in Int /\ a[j][2] \in Int
      BY TermsOf
    <3>3. j < i => a[j][2] < a[i][2]
      BY TermsOf
    <3>4. i < j => a[i][2] < a[j][2]
      BY TermsOf
    <3>5. QED
      BY <3>1, <3>2, <3>3, <3>4
  <2>2. {j \in DOMAIN a : a[j][2] = a[i][2]} = {i}
    BY <2>1, TermsOf
  <2>3. {a[k][1] : k \in {j \in DOMAIN a : a[j][2] = a[i][2]}} = {a[i][1]}
    BY <2>2
  <2>4. SumSet({a[i][1]}) = a[i][1]
    BY TermsOf, SumOfOne
  <2>5. QED
    BY <2>3, <2>4 DEF Coefficient
<1>2. ASSUME NEW e, \A i \in 1 .. Len(a) : a[i][2] # e PROVE Coefficient(a, e) = 0
  <2>1. {j \in DOMAIN a : a[j][2] = e} = {}
    BY <1>2, TermsOf
  <2>2. {a[k][1] : k \in {j \in DOMAIN a : a[j][2] = e}} = {}
    BY <2>1
  <2>3. QED
    BY <2>2, SumOfNothing DEF Coefficient
<1>3. QED
  BY <1>1, <1>2

(* The nodes that wait behind p and q are those of the terms i on and j on  *)
(* as main built them, and every term before is smaller than those of the   *)
(* other polynomial that wait.                                              *)
Node1(i) == IF i <= Len(a1) THEN i + 1 ELSE 0
Node2(j) == IF j <= Len(a2) THEN NodeOf2(j) ELSE 0
Waiting(i, j) ==
  /\ i \in 1 .. Len(a1) + 1 /\ j \in 1 .. Len(a2) + 1
  /\ p = Node1(i) /\ q = Node2(j)
  /\ \A k \in i .. Len(a1) : next[k + 1] = Node1(k + 1) /\ x[k + 1] = a1[k][1]
  /\ \A k \in j .. Len(a2) : next[NodeOf2(k)] = Node2(k + 1) /\ x[NodeOf2(k)] = a2[k][1]
  /\ \A k \in 1 .. i - 1 : \A l \in j .. Len(a2) : a1[k][2] < a2[l][2]
  /\ \A k \in i .. Len(a1) : \A l \in 1 .. j - 1 : a2[l][2] < a1[k][2]

(* The merged list so far: node 1 and l nodes behind it, with ascending     *)
(* exponents, each with the sum of the coefficients, which is not 0.        *)
SumAt(e) == Coefficient(a1, e) + Coefficient(a2, e)
Chained(l, ch) ==
  /\ l \in Nat /\ ch \in [0 .. l -> Nodes] /\ ch[0] = 1
  /\ \A k \in 1 .. l : ch[k] # 1 /\ x[ch[k]] # 0 /\ x[ch[k]] = SumAt(Exponent(ch[k]))
  /\ \A k, m \in 1 .. l : k < m => Exponent(ch[k]) < Exponent(ch[m])
  /\ \A k \in 0 .. l - 1 : next[ch[k]] = ch[k + 1]

(* Every exponent of the nodes ns at which the sum is not 0 is in the list. *)
Covers(l, ch, ns) ==
  \A n \in ns : SumAt(Exponent(n)) # 0 => \E k \in 1 .. l : Exponent(ch[k]) = Exponent(n)

Taken(i, j) == 2 .. i \cup NodeOf2(1) .. NodeOf2(j) - 1
Halfway(i, j, l, ch) ==
  /\ Waiting(i, j) /\ Chained(l, ch) /\ r = ch[l]
  /\ \A k \in 1 .. l : ch[k] \in Taken(i, j)
  /\ Covers(l, ch, Taken(i, j))
Complete(l, ch) ==
  /\ Chained(l, ch) /\ next[ch[l]] = 0
  /\ Covers(l, ch, Nodes \ {1})

MergeType ==
  /\ a1 \in Polynomials /\ a2 \in Polynomials
  /\ x \in [Nodes -> Int] /\ next \in [Nodes -> Nodes \cup {0}]
MergeRight ==
  /\ MergeType
  /\ task = "merge" => \E i, j, l, ch : Halfway(i, j, l, ch)
  /\ task = "merged" => \E l, ch : Complete(l, ch)

(* The nodes of the first polynomial, of the second, and their exponents.   *)
LEMMA NodeFacts ==
  ASSUME a1 \in Polynomials, a2 \in Polynomials
  PROVE  /\ Len(a1) \in Nat /\ Len(a2) \in Nat /\ 1 \in Nodes /\ Nodes \subseteq Nat
         /\ \A k \in 1 .. Len(a1) : /\ k + 1 \in Nodes \ {1} /\ Exponent(k + 1) = a1[k][2]
                                    /\ Term(k + 1)[1] = a1[k][1]
         /\ \A k \in 1 .. Len(a2) : /\ NodeOf2(k) \in Nodes \ {1} /\ Exponent(NodeOf2(k)) = a2[k][2]
                                    /\ Term(NodeOf2(k))[1] = a2[k][1]
         /\ \A n \in Nodes \ {1} : /\ Exponent(n) \in Int /\ Term(n)[1] \in Int
                                   /\ \/ \E k \in 1 .. Len(a1) : n = k + 1
                                      \/ \E k \in 1 .. Len(a2) : n = NodeOf2(k)
<1>1. Len(a1) \in Nat /\ Len(a2) \in Nat
  BY TermsOf
<1>2. /\ \A k \in 1 .. Len(a1) : a1[k][1] \in Int /\ a1[k][2] \in Int
      /\ \A k \in 1 .. Len(a2) : a2[k][1] \in Int /\ a2[k][2] \in Int
  BY TermsOf
<1>3. 1 \in Nodes /\ Nodes \subseteq Nat
  BY <1>1 DEF Nodes
<1>4. ASSUME NEW k \in 1 .. Len(a1)
      PROVE  k + 1 \in Nodes \ {1} /\ Exponent(k + 1) = a1[k][2] /\ Term(k + 1)[1] = a1[k][1]
  <2>1. k + 1 \in Nodes \ {1} /\ k + 1 <= Len(a1) + 1 /\ (k + 1) - 1 = k
    BY <1>1 DEF Nodes
  <2>2. Term(k + 1) = a1[k]
    BY <2>1 DEF Term
  <2>3. QED
    BY <2>1, <2>2 DEF Exponent
<1>5. ASSUME NEW k \in 1 .. Len(a2)
      PROVE  /\ NodeOf2(k) \in Nodes \ {1} /\ Exponent(NodeOf2(k)) = a2[k][2]
             /\ Term(NodeOf2(k))[1] = a2[k][1]
  <2> DEFINE n == NodeOf2(k)
  <2>1. n \in Nodes \ {1} /\ ~ (n <= Len(a1) + 1) /\ n - Len(a1) - 1 = k
    BY <1>1 DEF Nodes, NodeOf2
  <2> HIDE DEF n
  <2>2. Term(n) = a2[k]
    BY <2>1 DEF Term
  <2>3. QED
    BY <2>1, <2>2 DEF Exponent, n
<1>6. ASSUME NEW n \in Nodes \ {1}
      PROVE  \/ \E k \in 1 .. Len(a1) : n = k + 1
             \/ \E k \in 1 .. Len(a2) : n = NodeOf2(k)
  <2>1. CASE n <= Len(a1) + 1
    <3>1. n - 1 \in 1 .. Len(a1) /\ n = (n - 1) + 1
      BY <1>1, <2>1 DEF Nodes
    <3>2. QED
      BY <3>1
  <2>2. CASE ~ (n <= Len(a1) + 1)
    <3>1. n - Len(a1) - 1 \in 1 .. Len(a2) /\ n = NodeOf2(n - Len(a1) - 1)
      BY <1>1, <2>2 DEF Nodes, NodeOf2
    <3>2. QED
      BY <3>1
  <2>3. QED
    BY <2>1, <2>2
<1>7. \A n \in Nodes \ {1} : Exponent(n) \in Int /\ Term(n)[1] \in Int
  BY <1>2, <1>4, <1>5, <1>6
<1>8. QED
  BY <1>1, <1>3, <1>4, <1>5, <1>6, <1>7

(* What an exponent's sum is when both have it, and when only one has it.   *)
LEMMA SumOfBoth ==
  ASSUME a1 \in Polynomials, a2 \in Polynomials, NEW i \in 1 .. Len(a1), NEW j \in 1 .. Len(a2),
         a1[i][2] = a2[j][2]
  PROVE  SumAt(a1[i][2]) = a1[i][1] + a2[j][1]
BY CoefficientOf DEF SumAt

LEMMA SumOfFirst ==
  ASSUME a1 \in Polynomials, a2 \in Polynomials, NEW i \in 1 .. Len(a1),
         \A j \in 1 .. Len(a2) : a2[j][2] # a1[i][2]
  PROVE  SumAt(a1[i][2]) = a1[i][1]
<1>1. Coefficient(a1, a1[i][2]) = a1[i][1] /\ Coefficient(a2, a1[i][2]) = 0 /\ a1[i][1] \in Int
  BY CoefficientOf, TermsOf
<1>2. QED
  BY <1>1 DEF SumAt

LEMMA SumOfSecond ==
  ASSUME a1 \in Polynomials, a2 \in Polynomials, NEW j \in 1 .. Len(a2),
         \A i \in 1 .. Len(a1) : a1[i][2] # a2[j][2]
  PROVE  SumAt(a2[j][2]) = a2[j][1]
<1>1. Coefficient(a2, a2[j][2]) = a2[j][1] /\ Coefficient(a1, a2[j][2]) = 0 /\ a2[j][1] \in Int
  BY CoefficientOf, TermsOf
<1>2. QED
  BY <1>1 DEF SumAt

(* What waits is greater than what was taken.                               *)
LEMMA TakenIsSmaller ==
  ASSUME a1 \in Polynomials, a2 \in Polynomials, NEW i, NEW j, Waiting(i, j), NEW n \in Taken(i, j)
  PROVE  /\ n \in Nodes \ {1}
         /\ \A k \in i .. Len(a1) : Exponent(n) < a1[k][2]
         /\ \A k \in j .. Len(a2) : Exponent(n) < a2[k][2]
<1>1. /\ Len(a1) \in Nat /\ Len(a2) \in Nat /\ i \in 1 .. Len(a1) + 1 /\ j \in 1 .. Len(a2) + 1
      /\ \A k \in 1 .. i - 1 : \A l \in j .. Len(a2) : a1[k][2] < a2[l][2]
      /\ \A k \in i .. Len(a1) : \A l \in 1 .. j - 1 : a2[l][2] < a1[k][2]
  BY TermsOf DEF Waiting
<1>2. CASE n \in 2 .. i
  <2> DEFINE k == n - 1
  <2>1. k \in 1 .. i - 1 /\ k \in 1 .. Len(a1) /\ n = k + 1
    BY <1>1, <1>2
  <2> HIDE DEF k
  <2>2. n \in Nodes \ {1} /\ Exponent(n) = a1[k][2]
    BY <2>1, NodeFacts
  <2>3. ASSUME NEW m \in i .. Len(a1) PROVE a1[k][2] < a1[m][2]
    <3>1. m \in 1 .. Len(a1) /\ k < m
      BY <1>1, <2>1
    <3>2. QED
      BY <2>1, <3>1, TermsOf
  <2>4. QED
    BY <1>1, <2>1, <2>2, <2>3
<1>3. CASE n \in NodeOf2(1) .. NodeOf2(j) - 1
  <2> DEFINE k == n - Len(a1) - 1
  <2>1. k \in 1 .. j - 1 /\ k \in 1 .. Len(a2) /\ n = NodeOf2(k)
    BY <1>1, <1>3 DEF NodeOf2
  <2> HIDE DEF k
  <2>2. n \in Nodes \ {1} /\ Exponent(n) = a2[k][2]
    BY <2>1, NodeFacts
  <2>3. ASSUME NEW m \in j .. Len(a2) PROVE a2[k][2] < a2[m][2]
    <3>1. m \in 1 .. Len(a2) /\ k < m
      BY <1>1, <2>1
    <3>2. QED
      BY <2>1, <3>1, TermsOf
  <2>4. QED
    BY <1>1, <2>1, <2>2, <2>3
<1>4. QED
  BY <1>2, <1>3 DEF Taken

LEMMA MergeInit == PuzzleInit => MergeRight
<1> SUFFICES ASSUME PuzzleInit PROVE MergeRight
  OBVIOUS
<1>1. /\ a1 \in Polynomials /\ a2 \in Polynomials /\ task # "merged"
      /\ x = [n \in Nodes |-> IF n = 1 THEN 0 ELSE Term(n)[1]]
      /\ next = [n \in Nodes |-> IF n \in {Len(a1) + 1, Len(a1) + Len(a2) + 1} THEN 0 ELSE n + 1]
      /\ p = next[1] /\ q = (IF a2 = <<>> THEN 0 ELSE NodeOf2(1)) /\ r = 1
  BY DEF PuzzleInit
<1>2. /\ Len(a1) \in Nat /\ Len(a2) \in Nat /\ 1 \in Nodes
      /\ \A n \in Nodes \ {1} : Term(n)[1] \in Int
  BY <1>1, NodeFacts
<1>3. MergeType
  <2>1. x \in [Nodes -> Int]
    BY <1>1, <1>2
  <2>2. next \in [Nodes -> Nodes \cup {0}]
    <3>1. \A n \in Nodes : (IF n \in {Len(a1) + 1, Len(a1) + Len(a2) + 1} THEN 0 ELSE n + 1) \in Nodes \cup {0}
      BY <1>2 DEF Nodes
    <3>2. QED
      BY <1>1, <3>1
  <2>3. QED
    BY <1>1, <2>1, <2>2 DEF MergeType
<1> DEFINE ch == [k \in 0 .. 0 |-> 1]
<1>4. Chained(0, ch)
  BY <1>2 DEF Chained
<1>5. \A k \in 1 .. Len(a1) : next[k + 1] = Node1(k + 1) /\ x[k + 1] = a1[k][1]
  <2> SUFFICES ASSUME NEW k \in 1 .. Len(a1)
               PROVE  next[k + 1] = Node1(k + 1) /\ x[k + 1] = a1[k][1]
    OBVIOUS
  <2>1. k + 1 \in Nodes \ {1} /\ Term(k + 1)[1] = a1[k][1]
    BY <1>1, NodeFacts
  <2>2. k + 1 \in {Len(a1) + 1, Len(a1) + Len(a2) + 1} <=> ~ (k + 1 <= Len(a1))
    BY <1>2
  <2>3. QED
    BY <1>1, <2>1, <2>2 DEF Node1
<1>6. \A k \in 1 .. Len(a2) : next[NodeOf2(k)] = Node2(k + 1) /\ x[NodeOf2(k)] = a2[k][1]
  <2> SUFFICES ASSUME NEW k \in 1 .. Len(a2)
               PROVE  next[NodeOf2(k)] = Node2(k + 1) /\ x[NodeOf2(k)] = a2[k][1]
    OBVIOUS
  <2>1. NodeOf2(k) \in Nodes \ {1} /\ Term(NodeOf2(k))[1] = a2[k][1]
    BY <1>1, NodeFacts
  <2>2. NodeOf2(k) \in {Len(a1) + 1, Len(a1) + Len(a2) + 1} <=> ~ (k + 1 <= Len(a2))
    BY <1>2 DEF NodeOf2
  <2>3. NodeOf2(k) + 1 = NodeOf2(k + 1)
    BY <1>2 DEF NodeOf2
  <2>4. x[NodeOf2(k)] = a2[k][1]
    BY <1>1, <2>1
  <2>5. next[NodeOf2(k)] = IF ~ (k + 1 <= Len(a2)) THEN 0 ELSE NodeOf2(k) + 1
    BY <1>1, <2>1, <2>2
  <2>6. QED
    BY <2>3, <2>4, <2>5 DEF Node2
<1>7. p = Node1(1) /\ q = Node2(1)
  <2>1. a2 \in Seq(Int \X Int)
    BY <1>1, PuzzleAssumption
  <2>2. a2 = <<>> <=> Len(a2) = 0
    BY <2>1
  <2>3. q = Node2(1)
    BY <1>1, <1>2, <2>2 DEF Node2
  <2>4. next[1] = IF 1 \in {Len(a1) + 1, Len(a1) + Len(a2) + 1} THEN 0 ELSE 2
    BY <1>1, <1>2
  <2>5. 1 \in {Len(a1) + 1, Len(a1) + Len(a2) + 1} <=> ~ (1 <= Len(a1))
    BY <1>2
  <2>6. QED
    BY <1>1, <2>3, <2>4, <2>5 DEF Node1
<1>8. Waiting(1, 1)
  BY <1>2, <1>5, <1>6, <1>7 DEF Waiting
<1>9. Taken(1, 1) = {}
  BY <1>2 DEF Taken, NodeOf2
<1>10. Halfway(1, 1, 0, ch)
  <2>1. r = ch[0]
    BY <1>1
  <2>2. \A k \in 1 .. 0 : ch[k] \in Taken(1, 1)
    OBVIOUS
  <2>3. Covers(0, ch, Taken(1, 1))
    BY <1>9 DEF Covers
  <2>4. QED
    BY <1>4, <1>8, <2>1, <2>2, <2>3 DEF Halfway
<1> HIDE DEF ch
<1>11. QED
  BY <1>1, <1>3, <1>10 DEF MergeRight

(* The nodes of the list are all different, so it can grow at its end.      *)
LEMMA DifferentNodes ==
  ASSUME MergeType, NEW l, NEW ch, Chained(l, ch)
  PROVE  \A k, m \in 0 .. l : k # m => ch[k] # ch[m]
<1>1. /\ l \in Nat /\ ch \in [0 .. l -> Nodes] /\ ch[0] = 1 /\ \A k \in 1 .. l : ch[k] # 1
      /\ \A k, m \in 1 .. l : k < m => Exponent(ch[k]) < Exponent(ch[m])
  BY DEF Chained
<1>2. \A k \in 1 .. l : Exponent(ch[k]) \in Int
  BY <1>1, NodeFacts DEF MergeType
<1>3. \A k, m \in 0 .. l : k < m => ch[k] # ch[m]
  <2> SUFFICES ASSUME NEW k \in 0 .. l, NEW m \in 0 .. l, k < m, ch[k] = ch[m] PROVE FALSE
    OBVIOUS
  <2>1. CASE k = 0
    BY <1>1, <2>1
  <2>2. CASE k # 0
    <3>1. k \in 1 .. l /\ m \in 1 .. l
      BY <1>1, <2>2
    <3>2. Exponent(ch[k]) < Exponent(ch[m]) /\ Exponent(ch[k]) \in Int
      BY <1>1, <1>2, <3>1
    <3>3. QED
      BY <3>2
  <2>3. QED
    BY <2>1, <2>2
<1>4. \A k, m \in 0 .. l : k = m \/ k < m \/ m < k
  OBVIOUS
<1>5. QED
  BY <1>3, <1>4

Longer(l, ch, v) == [k \in 0 .. l + 1 |-> IF k = l + 1 THEN v ELSE ch[k]]

LEMMA OneMore ==
  ASSUME MergeType, NEW l, NEW ch, Chained(l, ch), NEW v \in Nodes \ {1}, UNCHANGED <<a1, a2>>,
         next' = [next EXCEPT ![ch[l]] = v],
         \A k \in 1 .. l : x'[ch[k]] = x[ch[k]],
         x'[v] # 0, x'[v] = SumAt(Exponent(v)),
         \A k \in 1 .. l : Exponent(ch[k]) < Exponent(v)
  PROVE  Chained(l + 1, Longer(l, ch, v))'
<1> DEFINE d == Longer(l, ch, v)
<1>1. /\ l \in Nat /\ ch \in [0 .. l -> Nodes] /\ ch[0] = 1
      /\ \A k \in 1 .. l : ch[k] # 1 /\ x[ch[k]] # 0 /\ x[ch[k]] = SumAt(Exponent(ch[k]))
      /\ \A k, m \in 1 .. l : k < m => Exponent(ch[k]) < Exponent(ch[m])
      /\ \A k \in 0 .. l - 1 : next[ch[k]] = ch[k + 1]
  BY DEF Chained
<1>2. d \in [0 .. l + 1 -> Nodes] /\ d[l + 1] = v /\ \A k \in 0 .. l : d[k] = ch[k]
  BY <1>1 DEF Longer
<1> HIDE DEF d
<1>3. \A k \in 1 .. l + 1 : k = l + 1 \/ k \in 1 .. l
  BY <1>1
<1>4. \A k \in 1 .. l + 1 : d[k] # 1 /\ x'[d[k]] # 0 /\ x'[d[k]] = SumAt(Exponent(d[k]))
  <2> SUFFICES ASSUME NEW k \in 1 .. l + 1
               PROVE  d[k] # 1 /\ x'[d[k]] # 0 /\ x'[d[k]] = SumAt(Exponent(d[k]))
    OBVIOUS
  <2>1. CASE k = l + 1
    BY <1>2, <2>1
  <2>2. CASE k \in 1 .. l
    <3>1. k \in 0 .. l
      BY <2>2
    <3>2. QED
      BY <1>1, <1>2, <2>2, <3>1
  <2>3. QED
    BY <1>3, <2>1, <2>2
<1>5. \A k, m \in 1 .. l + 1 : k < m => Exponent(d[k]) < Exponent(d[m])
  <2> SUFFICES ASSUME NEW k \in 1 .. l + 1, NEW m \in 1 .. l + 1, k < m
               PROVE  Exponent(d[k]) < Exponent(d[m])
    OBVIOUS
  <2>1. k \in 1 .. l /\ k \in 0 .. l /\ d[k] = ch[k]
    BY <1>1, <1>2
  <2>2. CASE m = l + 1
    BY <1>2, <2>1, <2>2
  <2>3. CASE m # l + 1
    <3>1. m \in 1 .. l /\ m \in 0 .. l /\ d[m] = ch[m]
      BY <1>1, <1>2, <2>3
    <3>2. QED
      BY <1>1, <2>1, <3>1
  <2>4. QED
    BY <2>2, <2>3
<1>6. \A k \in 0 .. (l + 1) - 1 : next'[d[k]] = d[k + 1]
  <2> SUFFICES ASSUME NEW k \in 0 .. l PROVE next'[d[k]] = d[k + 1]
    BY <1>1
  <2>1. d[k] = ch[k] /\ ch[k] \in Nodes /\ ch[l] \in Nodes /\ next \in [Nodes -> Nodes \cup {0}]
    BY <1>1, <1>2 DEF MergeType
  <2>2. CASE k = l
    BY <1>2, <2>1, <2>2
  <2>3. CASE k # l
    <3>1. k \in 0 .. l - 1 /\ k + 1 \in 0 .. l
      BY <1>1, <2>3
    <3>2. ch[k] # ch[l]
      BY <1>1, <2>3, DifferentNodes
    <3>3. next'[ch[k]] = next[ch[k]]
      BY <2>1, <3>2
    <3>4. QED
      BY <1>1, <1>2, <2>1, <3>1, <3>3
  <2>4. QED
    BY <2>2, <2>3
<1>7. l + 1 \in Nat /\ d[0] = 1
  BY <1>1, <1>2
<1>8. Nodes' = Nodes /\ \A n : Exponent(n)' = Exponent(n)
  BY DEF Nodes, Exponent, Term
<1>9. \A e : SumAt(e)' = SumAt(e)
  BY DEF SumAt
<1>10. Chained(l + 1, d)'
  BY <1>2, <1>4, <1>5, <1>6, <1>7, <1>8, <1>9 DEF Chained
<1>11. QED
  BY <1>10 DEF d

(* What a list covers, it covers with a node more, and the node's exponent. *)
LEMMA CoversMore ==
  ASSUME NEW l \in Nat, NEW ch, NEW v, NEW ns, Covers(l, ch, ns)
  PROVE  Covers(l + 1, Longer(l, ch, v), ns \cup {v})
<1> DEFINE d == Longer(l, ch, v)
<1>1. d[l + 1] = v /\ (\A k \in 1 .. l : d[k] = ch[k] /\ k \in 1 .. l + 1) /\ l + 1 \in 1 .. l + 1
  BY DEF Longer
<1> HIDE DEF d
<1>2. ASSUME NEW n \in ns \cup {v}, SumAt(Exponent(n)) # 0
      PROVE  \E k \in 1 .. l + 1 : Exponent(d[k]) = Exponent(n)
  <2>1. CASE n = v
    BY <1>1, <2>1
  <2>2. CASE n \in ns
    <3>1. PICK k \in 1 .. l : Exponent(ch[k]) = Exponent(n)
      BY <1>2, <2>2 DEF Covers
    <3>2. QED
      BY <1>1, <3>1
  <2>3. QED
    BY <2>1, <2>2
<1>3. Covers(l + 1, d, ns \cup {v})
  BY <1>2 DEF Covers
<1>4. QED
  BY <1>3 DEF d

(* A step that leaves the nodes behind p and q alone leaves them waiting.   *)
LEMMA StillWaiting ==
  ASSUME MergeType, NEW i, NEW j, Waiting(i, j), UNCHANGED <<a1, a2>>,
         NEW i2 \in {i, i + 1}, NEW j2 \in {j, j + 1}, i2 <= Len(a1) + 1, j2 <= Len(a2) + 1,
         p' = Node1(i2), q' = Node2(j2),
         \A k \in i2 .. Len(a1) : next'[k + 1] = next[k + 1] /\ x'[k + 1] = x[k + 1],
         \A k \in j2 .. Len(a2) : next'[NodeOf2(k)] = next[NodeOf2(k)] /\ x'[NodeOf2(k)] = x[NodeOf2(k)],
         i2 = i + 1 => \A k \in j2 .. Len(a2) : a1[i][2] < a2[k][2],
         j2 = j + 1 => \A k \in i2 .. Len(a1) : a2[j][2] < a1[k][2]
  PROVE  Waiting(i2, j2)'
<1>1. /\ i \in 1 .. Len(a1) + 1 /\ j \in 1 .. Len(a2) + 1
      /\ \A k \in i .. Len(a1) : next[k + 1] = Node1(k + 1) /\ x[k + 1] = a1[k][1]
      /\ \A k \in j .. Len(a2) : next[NodeOf2(k)] = Node2(k + 1) /\ x[NodeOf2(k)] = a2[k][1]
      /\ \A k \in 1 .. i - 1 : \A m \in j .. Len(a2) : a1[k][2] < a2[m][2]
      /\ \A k \in i .. Len(a1) : \A m \in 1 .. j - 1 : a2[m][2] < a1[k][2]
      /\ Len(a1) \in Nat /\ Len(a2) \in Nat
  BY TermsOf DEF Waiting, MergeType
<1>2. i2 \in 1 .. Len(a1) + 1 /\ j2 \in 1 .. Len(a2) + 1
  BY <1>1
<1>3. /\ \A k \in i2 .. Len(a1) : k \in i .. Len(a1)
      /\ \A k \in j2 .. Len(a2) : k \in j .. Len(a2)
      /\ \A k \in 1 .. i2 - 1 : k \in 1 .. i - 1 \/ (k = i /\ i2 = i + 1)
      /\ \A k \in 1 .. j2 - 1 : k \in 1 .. j - 1 \/ (k = j /\ j2 = j + 1)
  BY <1>1
<1>4. \A k \in i2 .. Len(a1) : next'[k + 1] = Node1(k + 1) /\ x'[k + 1] = a1[k][1]
  BY <1>1, <1>3
<1>5. \A k \in j2 .. Len(a2) : next'[NodeOf2(k)] = Node2(k + 1) /\ x'[NodeOf2(k)] = a2[k][1]
  BY <1>1, <1>3
<1>6. \A k \in 1 .. i2 - 1 : \A m \in j2 .. Len(a2) : a1[k][2] < a2[m][2]
  BY <1>1, <1>3
<1>7. \A k \in i2 .. Len(a1) : \A m \in 1 .. j2 - 1 : a2[m][2] < a1[k][2]
  BY <1>1, <1>3
<1>8. \A k : Node1(k)' = Node1(k) /\ Node2(k)' = Node2(k) /\ NodeOf2(k)' = NodeOf2(k)
  BY DEF Node1, Node2, NodeOf2
<1>9. QED
  BY <1>2, <1>4, <1>5, <1>6, <1>7, <1>8 DEF Waiting

(* Which nodes wait, and that they are not in the list.                     *)
LEMMA Apart ==
  ASSUME MergeType, NEW i, NEW j, NEW l, NEW ch, Halfway(i, j, l, ch)
  PROVE  /\ l \in Nat /\ r = ch[l] /\ r \in Nodes /\ ch \in [0 .. l -> Nodes]
         /\ \A k \in 0 .. l : \A m \in i .. Len(a1) : ch[k] # m + 1
         /\ \A k \in 0 .. l : \A m \in j .. Len(a2) : ch[k] # NodeOf2(m)
         /\ Len(a1) \in Nat /\ Len(a2) \in Nat /\ i \in 1 .. Len(a1) + 1 /\ j \in 1 .. Len(a2) + 1
         /\ p # 0 <=> i <= Len(a1)
         /\ q # 0 <=> j <= Len(a2)
         /\ p # 0 => p = i + 1 /\ p \in Nodes \ {1} /\ Exponent(p) = a1[i][2]
                     /\ next[p] = Node1(i + 1) /\ x[p] = a1[i][1]
         /\ q # 0 => q = NodeOf2(j) /\ q \in Nodes \ {1} /\ Exponent(q) = a2[j][2]
                     /\ next[q] = Node2(j + 1) /\ x[q] = a2[j][1]
<1>1. /\ l \in Nat /\ r = ch[l] /\ ch \in [0 .. l -> Nodes] /\ ch[0] = 1
      /\ \A k \in 1 .. l : ch[k] \in Taken(i, j)
      /\ i \in 1 .. Len(a1) + 1 /\ j \in 1 .. Len(a2) + 1
      /\ p = Node1(i) /\ q = Node2(j)
      /\ Len(a1) \in Nat /\ Len(a2) \in Nat
  BY TermsOf DEF Halfway, Chained, Waiting, MergeType
<1>2. \A m \in i .. Len(a1) : m + 1 \notin Taken(i, j) /\ m + 1 # 1
  BY <1>1 DEF Taken, NodeOf2
<1>3. \A m \in j .. Len(a2) : NodeOf2(m) \notin Taken(i, j) /\ NodeOf2(m) # 1
  BY <1>1 DEF Taken, NodeOf2
<1>4. \A k \in 0 .. l : k = 0 \/ k \in 1 .. l
  OBVIOUS
<1>5. p # 0 <=> i <= Len(a1)
  BY <1>1 DEF Node1
<1>6. q # 0 <=> j <= Len(a2)
  BY <1>1 DEF Node2, NodeOf2
<1>7. ASSUME p # 0
      PROVE  /\ p = i + 1 /\ p \in Nodes \ {1} /\ Exponent(p) = a1[i][2]
             /\ next[p] = Node1(i + 1) /\ x[p] = a1[i][1]
  <2>1. i \in 1 .. Len(a1) /\ i \in i .. Len(a1) /\ p = i + 1
    BY <1>1, <1>5, <1>7 DEF Node1
  <2>2. next[i + 1] = Node1(i + 1) /\ x[i + 1] = a1[i][1]
    BY <2>1 DEF Halfway, Waiting
  <2>3. i + 1 \in Nodes \ {1} /\ Exponent(i + 1) = a1[i][2]
    BY <2>1, NodeFacts DEF MergeType
  <2>4. QED
    BY <2>1, <2>2, <2>3
<1>8. ASSUME q # 0
      PROVE  /\ q = NodeOf2(j) /\ q \in Nodes \ {1} /\ Exponent(q) = a2[j][2]
             /\ next[q] = Node2(j + 1) /\ x[q] = a2[j][1]
  <2>1. j \in 1 .. Len(a2) /\ j \in j .. Len(a2) /\ q = NodeOf2(j)
    BY <1>1, <1>6, <1>8 DEF Node2
  <2>2. next[NodeOf2(j)] = Node2(j + 1) /\ x[NodeOf2(j)] = a2[j][1]
    BY <2>1 DEF Halfway, Waiting
  <2>3. NodeOf2(j) \in Nodes \ {1} /\ Exponent(NodeOf2(j)) = a2[j][2]
    BY <2>1, NodeFacts DEF MergeType
  <2>4. QED
    BY <2>1, <2>2, <2>3
<1>9. \A k \in 0 .. l : \A m \in i .. Len(a1) : ch[k] # m + 1
  BY <1>1, <1>2, <1>4
<1>10. \A k \in 0 .. l : \A m \in j .. Len(a2) : ch[k] # NodeOf2(m)
  BY <1>1, <1>3, <1>4
<1>11. r \in Nodes
  BY <1>1
<1>12. QED
  BY <1>1, <1>5, <1>6, <1>7, <1>8, <1>9, <1>10, <1>11

LEMMA TakenMore ==
  ASSUME MergeType, NEW i, NEW j, Waiting(i, j)
  PROVE  /\ Taken(i + 1, j) = Taken(i, j) \cup {i + 1}
         /\ Taken(i, j + 1) = Taken(i, j) \cup {NodeOf2(j)}
         /\ Taken(i + 1, j + 1) = (Taken(i, j) \cup {NodeOf2(j)}) \cup {i + 1}
<1>1. /\ Len(a1) \in Nat /\ Len(a2) \in Nat /\ i \in 1 .. Len(a1) + 1 /\ j \in 1 .. Len(a2) + 1
  BY TermsOf DEF Waiting, MergeType
<1>2. QED
  BY <1>1 DEF Taken, NodeOf2

(* The last node's next is written and nothing else: what the list and the  *)
(* rest need when v goes behind it.                                         *)
LEMMA NodeTaken ==
  ASSUME MergeType, NEW i, NEW j, NEW l, NEW ch, Halfway(i, j, l, ch), UNCHANGED <<a1, a2>>,
         NEW v \in Nodes \ {1}, next' = [next EXCEPT ![r] = v], r' = v,
         \A k \in 1 .. l : x'[ch[k]] = x[ch[k]],
         x'[v] # 0, x'[v] = SumAt(Exponent(v)),
         \A k \in 1 .. l : Exponent(ch[k]) < Exponent(v),
         NEW i2, NEW j2, Waiting(i2, j2)',
         Taken(i, j) \subseteq Taken(i2, j2), v \in Taken(i2, j2),
         \A n \in Taken(i2, j2) : n \notin Taken(i, j) => Exponent(n) = Exponent(v)
  PROVE  Halfway(i2, j2, l + 1, Longer(l, ch, v))'
<1> DEFINE d == Longer(l, ch, v)
<1>1. Chained(l + 1, d)'
  <2>1. Chained(l, ch) /\ r = ch[l]
    BY DEF Halfway
  <2> HIDE DEF d
  <2>2. QED
    BY <2>1, OneMore DEF d
<1>2. l \in Nat /\ (\A k \in 1 .. l : ch[k] \in Taken(i, j)) /\ Covers(l, ch, Taken(i, j))
  BY DEF Halfway, Chained
<1>3. d[l + 1] = v /\ (\A k \in 1 .. l : d[k] = ch[k] /\ k \in 1 .. l + 1) /\ l + 1 \in 1 .. l + 1
  BY <1>2 DEF Longer
<1>4. Covers(l + 1, d, Taken(i, j) \cup {v})
  BY <1>2, CoversMore
<1> HIDE DEF d
<1>5. \A k \in 1 .. l + 1 : d[k] \in Taken(i2, j2)
  <2>1. \A k \in 1 .. l + 1 : k = l + 1 \/ k \in 1 .. l
    BY <1>2
  <2>2. QED
    BY <1>2, <1>3, <2>1
<1>6. Covers(l + 1, d, Taken(i2, j2))
  <2> SUFFICES ASSUME NEW n \in Taken(i2, j2), SumAt(Exponent(n)) # 0
               PROVE  \E k \in 1 .. l + 1 : Exponent(d[k]) = Exponent(n)
    BY DEF Covers
  <2>1. CASE n \in Taken(i, j)
    BY <1>4, <2>1 DEF Covers
  <2>2. CASE n \notin Taken(i, j)
    BY <1>3, <2>2
  <2>3. QED
    BY <2>1, <2>2
<1>7. \A n : Exponent(n)' = Exponent(n)
  BY DEF Exponent, Term
<1>8. \A e : SumAt(e)' = SumAt(e)
  BY DEF SumAt
<1>9. Taken(i2, j2)' = Taken(i2, j2)
  BY DEF Taken, NodeOf2
<1>10. Covers(l + 1, d, Taken(i2, j2))'
  BY <1>6, <1>7, <1>8, <1>9 DEF Covers
<1>11. (r = d[l + 1])'
  BY <1>3
<1>12. Halfway(i2, j2, l + 1, d)'
  BY <1>1, <1>5, <1>9, <1>10, <1>11 DEF Halfway
<1>13. QED
  BY <1>12 DEF d

LEMMA TypeKept ==
  ASSUME MergeType, UNCHANGED <<a1, a2>>, x' \in [Nodes -> Int], next' \in [Nodes -> Nodes \cup {0}]
  PROVE  MergeType'
<1>1. Nodes' = Nodes
  BY DEF Nodes
<1>2. QED
  BY <1>1 DEF MergeType

(* p's exponent is smaller than all that waits at q: it is not in a2.       *)
LEMMA TakesP ==
  ASSUME MergeType, NEW i, NEW j, NEW l, NEW ch, Halfway(i, j, l, ch), p # 0, q # 0,
         Exponent(p) < Exponent(q), TakeP, UNCHANGED <<a1, a2>>, NEW v, v = p
  PROVE  MergeType' /\ Halfway(i + 1, j, l + 1, Longer(l, ch, v))'
<1>1. /\ l \in Nat /\ r = ch[l] /\ r \in Nodes /\ ch \in [0 .. l -> Nodes]
      /\ \A k \in 0 .. l : \A m \in i .. Len(a1) : ch[k] # m + 1
      /\ \A k \in 0 .. l : \A m \in j .. Len(a2) : ch[k] # NodeOf2(m)
      /\ Len(a1) \in Nat /\ Len(a2) \in Nat /\ i \in 1 .. Len(a1) /\ j \in 1 .. Len(a2)
      /\ p = i + 1 /\ p \in Nodes \ {1} /\ Exponent(p) = a1[i][2] /\ Exponent(q) = a2[j][2]
      /\ next[p] = Node1(i + 1) /\ x[p] = a1[i][1]
      /\ q = NodeOf2(j)
  BY Apart
<1>2. /\ next' = [next EXCEPT ![r] = p] /\ r' = p /\ p' = next[p] /\ x' = x /\ q' = q
  BY DEF TakeP
<1>3. a1 \in Polynomials /\ a2 \in Polynomials /\ x \in [Nodes -> Int]
      /\ next \in [Nodes -> Nodes \cup {0}]
  BY DEF MergeType
<1>4. MergeType'
  <2>1. x' \in [Nodes -> Int] /\ next' \in [Nodes -> Nodes \cup {0}]
    BY <1>1, <1>2, <1>3
  <2>2. QED
    BY <2>1, TypeKept
<1>5. Waiting(i, j)
  BY DEF Halfway
<1>6. /\ \A k, m \in 1 .. Len(a1) : k < m => a1[k][2] < a1[m][2]
      /\ \A k, m \in 1 .. Len(a2) : k < m => a2[k][2] < a2[m][2]
      /\ \A k \in 1 .. Len(a1) : a1[k][2] \in Int /\ a1[k][1] # 0
      /\ \A k \in 1 .. Len(a2) : a2[k][2] \in Int
  BY <1>3, TermsOf
<1>7. \A k \in j .. Len(a2) : a1[i][2] < a2[k][2]
  <2> SUFFICES ASSUME NEW k \in j .. Len(a2) PROVE a1[i][2] < a2[k][2]
    OBVIOUS
  <2>1. a1[i][2] < a2[j][2] /\ a1[i][2] \in Int /\ a2[j][2] \in Int /\ k \in 1 .. Len(a2)
    BY <1>1, <1>6
  <2>2. k = j \/ (j < k /\ a2[j][2] < a2[k][2] /\ a2[k][2] \in Int)
    BY <1>1, <1>6, <2>1
  <2>3. QED
    BY <2>1, <2>2
<1>8. Waiting(i + 1, j)'
  <2>1. p' = Node1(i + 1) /\ q' = Node2(j)
    BY <1>1, <1>2, <1>5 DEF Waiting
  <2>2. ASSUME NEW k \in i + 1 .. Len(a1) PROVE next'[k + 1] = next[k + 1] /\ x'[k + 1] = x[k + 1]
    <3>1. k \in i .. Len(a1) /\ k \in 1 .. Len(a1) /\ l \in 0 .. l
      BY <1>1
    <3>2. k + 1 # r /\ k + 1 \in Nodes
      BY <1>1, <1>3, <3>1, NodeFacts
    <3>3. QED
      BY <1>1, <1>2, <1>3, <3>2
  <2>3. ASSUME NEW k \in j .. Len(a2)
        PROVE  next'[NodeOf2(k)] = next[NodeOf2(k)] /\ x'[NodeOf2(k)] = x[NodeOf2(k)]
    <3>1. k \in 1 .. Len(a2) /\ l \in 0 .. l
      BY <1>1
    <3>2. NodeOf2(k) # r /\ NodeOf2(k) \in Nodes
      BY <1>1, <1>3, <3>1, NodeFacts
    <3>3. QED
      BY <1>1, <1>2, <1>3, <3>2
  <2>4. i + 1 \in {i, i + 1} /\ j \in {j, j + 1} /\ i + 1 <= Len(a1) + 1 /\ j <= Len(a2) + 1 /\ j # j + 1
    BY <1>1
  <2>5. QED
    BY <1>5, <1>7, <2>1, <2>2, <2>3, <2>4, StillWaiting
<1>9. x[p] = SumAt(Exponent(p)) /\ x[p] # 0
  <2>1. ASSUME NEW k \in 1 .. Len(a2) PROVE a2[k][2] # a1[i][2]
    <3>1. CASE k \in j .. Len(a2)
      BY <1>1, <1>6, <1>7, <3>1
    <3>2. CASE k \in 1 .. j - 1
      <4>1. a2[k][2] < a1[i][2]
        BY <1>1, <1>5, <3>2 DEF Waiting
      <4>2. QED
        BY <1>1, <1>6, <4>1
    <3>3. QED
      BY <1>1, <3>1, <3>2
  <2>2. SumAt(a1[i][2]) = a1[i][1]
    BY <1>1, <1>3, <2>1, SumOfFirst
  <2>3. QED
    BY <1>1, <1>6, <2>2
<1>10. \A k \in 1 .. l : Exponent(ch[k]) < Exponent(p)
  <2>1. \A k \in 1 .. l : ch[k] \in Taken(i, j)
    BY DEF Halfway
  <2>2. i \in i .. Len(a1)
    BY <1>1
  <2>3. \A n \in Taken(i, j) : Exponent(n) < a1[i][2]
    BY <1>3, <1>5, <2>2, TakenIsSmaller
  <2>4. QED
    BY <1>1, <2>1, <2>3
<1>11. Taken(i + 1, j) = Taken(i, j) \cup {p}
  BY <1>1, <1>5, TakenMore
<1>12. /\ Taken(i, j) \subseteq Taken(i + 1, j) /\ p \in Taken(i + 1, j)
       /\ \A n \in Taken(i + 1, j) : n \notin Taken(i, j) => Exponent(n) = Exponent(p)
  BY <1>11
<1>13. Halfway(i + 1, j, l + 1, Longer(l, ch, v))'
  <2> DEFINE i2 == i + 1
  <2>1. /\ v \in Nodes \ {1} /\ next' = [next EXCEPT ![r] = v] /\ r' = v
        /\ \A k \in 1 .. l : x'[ch[k]] = x[ch[k]]
        /\ x'[v] # 0 /\ x'[v] = SumAt(Exponent(v))
        /\ \A k \in 1 .. l : Exponent(ch[k]) < Exponent(v)
    BY <1>1, <1>2, <1>9, <1>10
  <2>2. /\ Waiting(i2, j)' /\ Taken(i, j) \subseteq Taken(i2, j) /\ v \in Taken(i2, j)
        /\ \A n \in Taken(i2, j) : n \notin Taken(i, j) => Exponent(n) = Exponent(v)
    BY <1>8, <1>12
  <2> HIDE DEF i2
  <2>3. Halfway(i2, j, l + 1, Longer(l, ch, v))'
    BY <2>1, <2>2, NodeTaken
  <2>4. QED
    BY <2>3 DEF i2
<1>14. QED
  BY <1>4, <1>13

(* q's exponent is smaller than all that waits at p: it is not in a1.       *)
LEMMA TakesQ ==
  ASSUME MergeType, NEW i, NEW j, NEW l, NEW ch, Halfway(i, j, l, ch), p # 0, q # 0,
         Exponent(p) > Exponent(q), TakeQ, UNCHANGED <<a1, a2>>, NEW v, v = q
  PROVE  MergeType' /\ Halfway(i, j + 1, l + 1, Longer(l, ch, v))'
<1>1. /\ l \in Nat /\ r = ch[l] /\ r \in Nodes /\ ch \in [0 .. l -> Nodes]
      /\ \A k \in 0 .. l : \A m \in i .. Len(a1) : ch[k] # m + 1
      /\ \A k \in 0 .. l : \A m \in j .. Len(a2) : ch[k] # NodeOf2(m)
      /\ Len(a1) \in Nat /\ Len(a2) \in Nat /\ i \in 1 .. Len(a1) /\ j \in 1 .. Len(a2)
      /\ q = NodeOf2(j) /\ q \in Nodes \ {1} /\ Exponent(p) = a1[i][2] /\ Exponent(q) = a2[j][2]
      /\ next[q] = Node2(j + 1) /\ x[q] = a2[j][1]
  BY Apart
<1>2. /\ next' = [next EXCEPT ![r] = q] /\ r' = q /\ q' = next[q] /\ x' = x /\ p' = p
  BY DEF TakeQ
<1>3. a1 \in Polynomials /\ a2 \in Polynomials /\ x \in [Nodes -> Int]
      /\ next \in [Nodes -> Nodes \cup {0}]
  BY DEF MergeType
<1>4. MergeType'
  <2>1. x' \in [Nodes -> Int] /\ next' \in [Nodes -> Nodes \cup {0}]
    BY <1>1, <1>2, <1>3
  <2>2. QED
    BY <2>1, TypeKept
<1>5. Waiting(i, j)
  BY DEF Halfway
<1>6. /\ \A k, m \in 1 .. Len(a1) : k < m => a1[k][2] < a1[m][2]
      /\ \A k \in 1 .. Len(a1) : a1[k][2] \in Int
      /\ \A k \in 1 .. Len(a2) : a2[k][2] \in Int /\ a2[k][1] # 0
  BY <1>3, TermsOf
<1>7. \A k \in i .. Len(a1) : a2[j][2] < a1[k][2]
  <2> SUFFICES ASSUME NEW k \in i .. Len(a1) PROVE a2[j][2] < a1[k][2]
    OBVIOUS
  <2>1. a2[j][2] < a1[i][2] /\ a1[i][2] \in Int /\ a2[j][2] \in Int /\ k \in 1 .. Len(a1)
    BY <1>1, <1>6
  <2>2. k = i \/ (i < k /\ a1[i][2] < a1[k][2] /\ a1[k][2] \in Int)
    BY <1>1, <1>6, <2>1
  <2>3. QED
    BY <2>1, <2>2
<1>8. Waiting(i, j + 1)'
  <2>1. p' = Node1(i) /\ q' = Node2(j + 1)
    BY <1>1, <1>2, <1>5 DEF Waiting
  <2>2. ASSUME NEW k \in i .. Len(a1) PROVE next'[k + 1] = next[k + 1] /\ x'[k + 1] = x[k + 1]
    <3>1. k \in 1 .. Len(a1) /\ l \in 0 .. l
      BY <1>1
    <3>2. k + 1 # r /\ k + 1 \in Nodes
      BY <1>1, <1>3, <3>1, NodeFacts
    <3>3. QED
      BY <1>1, <1>2, <1>3, <3>2
  <2>3. ASSUME NEW k \in j + 1 .. Len(a2)
        PROVE  next'[NodeOf2(k)] = next[NodeOf2(k)] /\ x'[NodeOf2(k)] = x[NodeOf2(k)]
    <3>1. k \in j .. Len(a2) /\ k \in 1 .. Len(a2) /\ l \in 0 .. l
      BY <1>1
    <3>2. NodeOf2(k) # r /\ NodeOf2(k) \in Nodes
      BY <1>1, <1>3, <3>1, NodeFacts
    <3>3. QED
      BY <1>1, <1>2, <1>3, <3>2
  <2>4. i \in {i, i + 1} /\ j + 1 \in {j, j + 1} /\ i <= Len(a1) + 1 /\ j + 1 <= Len(a2) + 1 /\ i # i + 1
    BY <1>1
  <2>5. QED
    BY <1>5, <1>7, <2>1, <2>2, <2>3, <2>4, StillWaiting
<1>9. x[q] = SumAt(Exponent(q)) /\ x[q] # 0
  <2>1. ASSUME NEW k \in 1 .. Len(a1) PROVE a1[k][2] # a2[j][2]
    <3>1. CASE k \in i .. Len(a1)
      BY <1>1, <1>6, <1>7, <3>1
    <3>2. CASE k \in 1 .. i - 1
      <4>1. \A m \in j .. Len(a2) : a1[k][2] < a2[m][2]
        BY <1>5, <3>2 DEF Waiting
      <4>2. j \in j .. Len(a2)
        BY <1>1
      <4>3. a1[k][2] < a2[j][2]
        BY <4>1, <4>2
      <4>4. QED
        BY <1>1, <1>6, <4>3
    <3>3. QED
      BY <1>1, <3>1, <3>2
  <2>2. SumAt(a2[j][2]) = a2[j][1]
    BY <1>1, <1>3, <2>1, SumOfSecond
  <2>3. QED
    BY <1>1, <1>6, <2>2
<1>10. \A k \in 1 .. l : Exponent(ch[k]) < Exponent(q)
  <2>1. \A k \in 1 .. l : ch[k] \in Taken(i, j)
    BY DEF Halfway
  <2>2. j \in j .. Len(a2)
    BY <1>1
  <2>3. \A n \in Taken(i, j) : Exponent(n) < a2[j][2]
    BY <1>3, <1>5, <2>2, TakenIsSmaller
  <2>4. QED
    BY <1>1, <2>1, <2>3
<1>11. Taken(i, j + 1) = Taken(i, j) \cup {q}
  BY <1>1, <1>5, TakenMore
<1>12. /\ Taken(i, j) \subseteq Taken(i, j + 1) /\ q \in Taken(i, j + 1)
       /\ \A n \in Taken(i, j + 1) : n \notin Taken(i, j) => Exponent(n) = Exponent(q)
  BY <1>11
<1>13. Halfway(i, j + 1, l + 1, Longer(l, ch, v))'
  <2> DEFINE j2 == j + 1
  <2>1. /\ v \in Nodes \ {1} /\ next' = [next EXCEPT ![r] = v] /\ r' = v
        /\ \A k \in 1 .. l : x'[ch[k]] = x[ch[k]]
        /\ x'[v] # 0 /\ x'[v] = SumAt(Exponent(v))
        /\ \A k \in 1 .. l : Exponent(ch[k]) < Exponent(v)
    BY <1>1, <1>2, <1>9, <1>10
  <2>2. /\ Waiting(i, j2)' /\ Taken(i, j) \subseteq Taken(i, j2) /\ v \in Taken(i, j2)
        /\ \A n \in Taken(i, j2) : n \notin Taken(i, j) => Exponent(n) = Exponent(v)
    BY <1>8, <1>12
  <2> HIDE DEF j2
  <2>3. Halfway(i, j2, l + 1, Longer(l, ch, v))'
    BY <2>1, <2>2, NodeTaken
  <2>4. QED
    BY <2>3 DEF j2
<1>14. QED
  BY <1>4, <1>13

(* Both have the exponent: what the two nodes add up to is its sum.         *)
LEMMA TakesSum ==
  ASSUME MergeType, NEW i, NEW j, NEW l, NEW ch, Halfway(i, j, l, ch), p # 0, q # 0,
         Exponent(p) = Exponent(q), TakeSum, UNCHANGED <<a1, a2>>, NEW v, v = p
  PROVE  /\ MergeType'
         /\ \/ Halfway(i + 1, j + 1, l + 1, Longer(l, ch, v))'
            \/ Halfway(i + 1, j + 1, l, ch)'
<1> DEFINE sum == x[p] + x[q]
<1>1. /\ l \in Nat /\ r = ch[l] /\ r \in Nodes /\ ch \in [0 .. l -> Nodes]
      /\ \A k \in 0 .. l : \A m \in i .. Len(a1) : ch[k] # m + 1
      /\ \A k \in 0 .. l : \A m \in j .. Len(a2) : ch[k] # NodeOf2(m)
      /\ Len(a1) \in Nat /\ Len(a2) \in Nat /\ i \in 1 .. Len(a1) /\ j \in 1 .. Len(a2)
      /\ p = i + 1 /\ p \in Nodes \ {1} /\ Exponent(p) = a1[i][2]
      /\ next[p] = Node1(i + 1) /\ x[p] = a1[i][1]
      /\ q = NodeOf2(j) /\ q \in Nodes \ {1} /\ Exponent(q) = a2[j][2]
      /\ next[q] = Node2(j + 1) /\ x[q] = a2[j][1]
  BY Apart
<1>2. /\ x' = [x EXCEPT ![p] = sum] /\ p' = next[p] /\ q' = next[q]
      /\ \/ sum # 0 /\ next' = [next EXCEPT ![r] = p] /\ r' = p
         \/ sum = 0 /\ next' = next /\ r' = r
  BY DEF TakeSum, StaysIn
<1>3. a1 \in Polynomials /\ a2 \in Polynomials /\ x \in [Nodes -> Int]
      /\ next \in [Nodes -> Nodes \cup {0}]
  BY DEF MergeType
<1>4. sum \in Int /\ sum = SumAt(Exponent(p))
  <2>1. x[p] \in Int /\ x[q] \in Int
    BY <1>1, <1>3
  <2>2. SumAt(a1[i][2]) = a1[i][1] + a2[j][1]
    BY <1>1, <1>3, SumOfBoth
  <2>3. QED
    BY <1>1, <2>1, <2>2
<1> HIDE DEF sum
<1>5. x' \in [Nodes -> Int] /\ x'[p] = sum /\ \A n \in Nodes : n # p => x'[n] = x[n]
  BY <1>1, <1>2, <1>3, <1>4
<1>6. next' \in [Nodes -> Nodes \cup {0}] /\ \A n \in Nodes : n # r => next'[n] = next[n]
  <2>1. CASE next' = [next EXCEPT ![r] = p]
    BY <1>1, <1>3, <2>1
  <2>2. CASE next' = next
    BY <1>3, <2>2
  <2>3. QED
    BY <1>2, <2>1, <2>2
<1>7. MergeType'
  BY <1>5, <1>6, TypeKept
<1>8. Waiting(i, j)
  BY DEF Halfway
<1>9. /\ \A k, m \in 1 .. Len(a1) : k < m => a1[k][2] < a1[m][2]
      /\ \A k, m \in 1 .. Len(a2) : k < m => a2[k][2] < a2[m][2]
  BY <1>3, TermsOf
<1>10. Waiting(i + 1, j + 1)'
  <2>1. p' = Node1(i + 1) /\ q' = Node2(j + 1)
    BY <1>1, <1>2
  <2>2. ASSUME NEW k \in i + 1 .. Len(a1) PROVE next'[k + 1] = next[k + 1] /\ x'[k + 1] = x[k + 1]
    <3>1. k \in i .. Len(a1) /\ k \in 1 .. Len(a1) /\ l \in 0 .. l /\ k + 1 # p
      BY <1>1
    <3>2. k + 1 # r /\ k + 1 \in Nodes
      BY <1>1, <1>3, <3>1, NodeFacts
    <3>3. QED
      BY <1>5, <1>6, <3>1, <3>2
  <2>3. ASSUME NEW k \in j + 1 .. Len(a2)
        PROVE  next'[NodeOf2(k)] = next[NodeOf2(k)] /\ x'[NodeOf2(k)] = x[NodeOf2(k)]
    <3>1. k \in j .. Len(a2) /\ k \in 1 .. Len(a2) /\ l \in 0 .. l
      BY <1>1
    <3>2. NodeOf2(k) # r /\ NodeOf2(k) \in Nodes
      BY <1>1, <1>3, <3>1, NodeFacts
    <3>3. NodeOf2(k) # p
      BY <1>1, <3>1 DEF NodeOf2
    <3>4. QED
      BY <1>5, <1>6, <3>2, <3>3
  <2>4. i + 1 \in {i, i + 1} /\ j + 1 \in {j, j + 1} /\ i + 1 <= Len(a1) + 1 /\ j + 1 <= Len(a2) + 1
    BY <1>1
  <2>5. \A k \in j + 1 .. Len(a2) : a1[i][2] < a2[k][2]
    BY <1>1, <1>9
  <2>6. \A k \in i + 1 .. Len(a1) : a2[j][2] < a1[k][2]
    BY <1>1, <1>9
  <2>7. QED
    BY <1>8, <2>1, <2>2, <2>3, <2>4, <2>5, <2>6, StillWaiting
<1>11. \A k \in 1 .. l : x'[ch[k]] = x[ch[k]]
  <2> SUFFICES ASSUME NEW k \in 1 .. l PROVE x'[ch[k]] = x[ch[k]]
    OBVIOUS
  <2>1. k \in 0 .. l /\ i \in i .. Len(a1)
    BY <1>1
  <2>2. ch[k] # p /\ ch[k] \in Nodes
    BY <1>1, <2>1
  <2>3. QED
    BY <1>5, <2>2
<1>12. \A k \in 1 .. l : Exponent(ch[k]) < Exponent(p)
  <2>1. \A k \in 1 .. l : ch[k] \in Taken(i, j)
    BY DEF Halfway
  <2>2. i \in i .. Len(a1)
    BY <1>1
  <2>3. \A n \in Taken(i, j) : Exponent(n) < a1[i][2]
    BY <1>3, <1>8, <2>2, TakenIsSmaller
  <2>4. QED
    BY <1>1, <2>1, <2>3
<1>13. Taken(i + 1, j + 1) = (Taken(i, j) \cup {q}) \cup {p}
  BY <1>1, <1>8, TakenMore
<1>14. /\ Taken(i, j) \subseteq Taken(i + 1, j + 1) /\ p \in Taken(i + 1, j + 1)
       /\ \A n \in Taken(i + 1, j + 1) : n \notin Taken(i, j) => Exponent(n) = Exponent(p)
  BY <1>13
<1>15. CASE sum # 0
  <2> DEFINE i2 == i + 1
             j2 == j + 1
  <2>1. /\ v \in Nodes \ {1} /\ next' = [next EXCEPT ![r] = v] /\ r' = v
        /\ \A k \in 1 .. l : x'[ch[k]] = x[ch[k]]
        /\ x'[v] # 0 /\ x'[v] = SumAt(Exponent(v))
        /\ \A k \in 1 .. l : Exponent(ch[k]) < Exponent(v)
    BY <1>1, <1>2, <1>4, <1>5, <1>11, <1>12, <1>15
  <2>2. /\ Waiting(i2, j2)' /\ Taken(i, j) \subseteq Taken(i2, j2) /\ v \in Taken(i2, j2)
        /\ \A n \in Taken(i2, j2) : n \notin Taken(i, j) => Exponent(n) = Exponent(v)
    BY <1>10, <1>14
  <2> HIDE DEF i2, j2
  <2>3. Halfway(i2, j2, l + 1, Longer(l, ch, v))'
    BY <2>1, <2>2, NodeTaken
  <2>4. QED
    BY <1>7, <2>3 DEF i2, j2
<1>16. CASE sum = 0
  <2>1. next' = next /\ r' = r
    BY <1>2, <1>16
  <2>2. Chained(l, ch) /\ (\A k \in 1 .. l : ch[k] \in Taken(i, j)) /\ Covers(l, ch, Taken(i, j))
    BY DEF Halfway
  <2>3. Nodes' = Nodes /\ \A n : Exponent(n)' = Exponent(n)
    BY DEF Nodes, Exponent, Term
  <2>4. \A e : SumAt(e)' = SumAt(e)
    BY DEF SumAt
  <2>5. Chained(l, ch)'
    BY <1>11, <2>1, <2>2, <2>3, <2>4 DEF Chained
  <2>6. Covers(l, ch, Taken(i + 1, j + 1))
    <3> SUFFICES ASSUME NEW n \in Taken(i + 1, j + 1), SumAt(Exponent(n)) # 0
                 PROVE  \E k \in 1 .. l : Exponent(ch[k]) = Exponent(n)
      BY DEF Covers
    <3>1. n \in Taken(i, j)
      BY <1>4, <1>14, <1>16
    <3>2. QED
      BY <2>2, <3>1 DEF Covers
  <2>7. Taken(i + 1, j + 1)' = Taken(i + 1, j + 1)
    BY DEF Taken, NodeOf2
  <2>8. Covers(l, ch, Taken(i + 1, j + 1))'
    BY <2>3, <2>4, <2>6, <2>7 DEF Covers
  <2>9. (\A k \in 1 .. l : ch[k] \in Taken(i + 1, j + 1))' /\ (r = ch[l])'
    BY <1>1, <1>14, <2>1, <2>2, <2>7
  <2>10. Halfway(i + 1, j + 1, l, ch)'
    BY <1>10, <2>5, <2>8, <2>9 DEF Halfway
  <2>11. QED
    BY <1>7, <2>10
<1>17. QED
  BY <1>15, <1>16

(* The c nodes from o on, which are linked to each other, behind the list.  *)
Appended(l, ch, o, c) == [k \in 0 .. l + c |-> IF k <= l THEN ch[k] ELSE o + (k - l)]

Rest(o, c) ==
  /\ \A k \in 1 .. c : o + k \in Nodes \ {1}
  /\ \A k \in 1 .. c : x[o + k] = SumAt(Exponent(o + k)) /\ x[o + k] # 0
  /\ \A k \in 1 .. c : next[o + k] = IF k = c THEN 0 ELSE o + (k + 1)
  /\ \A k, m \in 1 .. c : k < m => Exponent(o + k) < Exponent(o + m)
Beyond(l, ch, o, c) ==
  /\ \A k \in 1 .. l : \A m \in 1 .. c : Exponent(ch[k]) < Exponent(o + m)
  /\ \A k \in 0 .. l : \A m \in 1 .. c : ch[k] # o + m

LinksBehind(l, ch, o, c) == next' = [next EXCEPT ![ch[l]] = IF c = 0 THEN 0 ELSE o + 1]
GoesOn(d, l, ch, o, c) ==
  /\ d = [k \in 0 .. l + c |-> d[k]] /\ l + c \in Nat
  /\ \A k \in 0 .. l : k \in 0 .. l + c /\ d[k] = ch[k]
  /\ \A k \in 1 .. l : k \in 1 .. l + c /\ d[k] = ch[k]
  /\ \A k \in 1 .. c : l + k \in 1 .. l + c /\ d[l + k] = o + k
  /\ \A k \in 0 .. l + c : k \in 0 .. l \/ \E m \in 1 .. c : k = l + m
  /\ \A k \in 1 .. l + c : k \in 1 .. l \/ \E m \in 1 .. c : k = l + m

LEMMA AppendedNodes ==
  ASSUME NEW l \in Nat, NEW ch, NEW o \in Nat, NEW c \in Nat, NEW d, d = Appended(l, ch, o, c)
  PROVE  GoesOn(d, l, ch, o, c)
<1>1. \A k \in 1 .. c : l + k \in 0 .. l + c /\ l + k \in 1 .. l + c /\ ~ (l + k <= l) /\ (l + k) - l = k
  OBVIOUS
<1>2. d = [k \in 0 .. l + c |-> IF k <= l THEN ch[k] ELSE o + (k - l)]
  BY DEF Appended
<1>3. d = [k \in 0 .. l + c |-> d[k]] /\ l + c \in Nat
  BY <1>2
<1>4. \A k \in 0 .. l : k \in 0 .. l + c /\ d[k] = ch[k]
  BY <1>2
<1>5. \A k \in 1 .. c : l + k \in 1 .. l + c /\ d[l + k] = o + k
  BY <1>1, <1>2
<1>6. \A k \in 1 .. l : k \in 0 .. l /\ k \in 1 .. l + c
  OBVIOUS
<1>7. \A k \in 0 .. l + c : k \in 0 .. l \/ (k - l \in 1 .. c /\ k = l + (k - l))
  OBVIOUS
<1>8. \A k \in 1 .. l + c : k \in 1 .. l \/ (k - l \in 1 .. c /\ k = l + (k - l))
  OBVIOUS
<1>9. QED
  BY <1>3, <1>4, <1>5, <1>6, <1>7, <1>8 DEF GoesOn

LEMMA RestBehind ==
  ASSUME MergeType, NEW l, NEW ch, Chained(l, ch), UNCHANGED <<a1, a2, x>>, NEW o \in Nat, NEW c \in Nat,
         Rest(o, c), Beyond(l, ch, o, c),
         LinksBehind(l, ch, o, c), NEW d, d = Appended(l, ch, o, c)
  PROVE  Chained(l + c, d)' /\ next'[d[l + c]] = 0 /\ GoesOn(d, l, ch, o, c)
<1>1. /\ l \in Nat /\ ch \in [0 .. l -> Nodes] /\ ch[0] = 1
      /\ \A k \in 1 .. l : ch[k] # 1 /\ x[ch[k]] # 0 /\ x[ch[k]] = SumAt(Exponent(ch[k]))
      /\ \A k, m \in 1 .. l : k < m => Exponent(ch[k]) < Exponent(ch[m])
      /\ \A k \in 0 .. l - 1 : next[ch[k]] = ch[k + 1]
  BY DEF Chained
<1>20. GoesOn(d, l, ch, o, c)
  <2>1. l \in Nat
    BY <1>1
  <2>2. QED
    BY <2>1, AppendedNodes
<1>2. /\ d = [k \in 0 .. l + c |-> d[k]] /\ l + c \in Nat
      /\ \A k \in 0 .. l : k \in 0 .. l + c /\ d[k] = ch[k]
      /\ \A k \in 1 .. l : k \in 1 .. l + c /\ d[k] = ch[k]
      /\ \A k \in 1 .. c : l + k \in 1 .. l + c /\ d[l + k] = o + k
      /\ \A k \in 0 .. l + c : k \in 0 .. l \/ \E m \in 1 .. c : k = l + m
      /\ \A k \in 1 .. l + c : k \in 1 .. l \/ \E m \in 1 .. c : k = l + m
  BY <1>20 DEF GoesOn
<1>3. /\ \A k \in 0 .. l + c : k \in 0 .. l \/ \E m \in 1 .. c : k = l + m
      /\ \A k \in 1 .. l + c : k \in 1 .. l \/ \E m \in 1 .. c : k = l + m
  BY <1>2, Zenon
<1>4. d \in [0 .. l + c -> Nodes]
  <2>1. \A k \in 1 .. c : o + k \in Nodes
    BY DEF Rest
  <2>2. ASSUME NEW k \in 0 .. l + c PROVE d[k] \in Nodes
    <3>1. CASE k \in 0 .. l
      BY <1>1, <1>2, <3>1
    <3>2. CASE \E m \in 1 .. c : k = l + m
      BY <1>2, <2>1, <3>2
    <3>3. QED
      BY <1>3, <3>1, <3>2
  <2>3. QED
    BY <1>2, <2>2
<1>5. \A k \in 1 .. l + c : d[k] # 1 /\ x[d[k]] # 0 /\ x[d[k]] = SumAt(Exponent(d[k]))
  <2>1. \A k \in 1 .. c : o + k # 1 /\ x[o + k] # 0 /\ x[o + k] = SumAt(Exponent(o + k))
    BY DEF Rest
  <2> SUFFICES ASSUME NEW k \in 1 .. l + c
               PROVE  d[k] # 1 /\ x[d[k]] # 0 /\ x[d[k]] = SumAt(Exponent(d[k]))
    OBVIOUS
  <2>2. CASE k \in 1 .. l
    BY <1>1, <1>2, <2>2
  <2>3. CASE \E m \in 1 .. c : k = l + m
    BY <1>2, <2>1, <2>3
  <2>4. QED
    BY <1>3, <2>2, <2>3
<1>6. \A k, m \in 1 .. l + c : k < m => Exponent(d[k]) < Exponent(d[m])
  <2> SUFFICES ASSUME NEW k \in 1 .. l + c, NEW m \in 1 .. l + c, k < m
               PROVE  Exponent(d[k]) < Exponent(d[m])
    OBVIOUS
  <2>1. CASE m \in 1 .. l
    <3>1. k \in 1 .. l
      BY <1>1, <2>1
    <3>2. QED
      BY <1>1, <1>2, <2>1, <3>1
  <2>2. CASE \E b \in 1 .. c : m = l + b
    <3>1. PICK b \in 1 .. c : m = l + b
      BY <2>2
    <3>2. d[m] = o + b
      BY <1>2, <3>1
    <3>3. CASE k \in 1 .. l
      <4>1. d[k] = ch[k]
        BY <1>2, <3>3
      <4>2. Exponent(ch[k]) < Exponent(o + b)
        BY <3>3 DEF Beyond
      <4>3. QED
        BY <3>2, <4>1, <4>2
    <3>4. CASE \E g \in 1 .. c : k = l + g
      <4>1. PICK g \in 1 .. c : k = l + g
        BY <3>4
      <4>2. g < b
        <5>1. l \in Nat
          BY <1>1
        <5>2. QED
          BY <3>1, <4>1, <5>1
      <4>3. d[k] = o + g
        BY <1>2, <4>1
      <4>4. Exponent(o + g) < Exponent(o + b)
        BY <4>2 DEF Rest
      <4>5. QED
        BY <3>2, <4>3, <4>4
    <3>5. QED
      BY <1>3, <3>3, <3>4
  <2>3. QED
    BY <1>3, <2>1, <2>2
<1>7. /\ next \in [Nodes -> Nodes \cup {0}] /\ ch[l] \in Nodes
      /\ next'[ch[l]] = IF c = 0 THEN 0 ELSE o + 1
      /\ \A n \in Nodes : n # ch[l] => next'[n] = next[n]
  <2>1. next \in [Nodes -> Nodes \cup {0}] /\ ch[l] \in Nodes
    BY <1>1 DEF MergeType
  <2>2. next' = [next EXCEPT ![ch[l]] = IF c = 0 THEN 0 ELSE o + 1]
    BY DEF LinksBehind
  <2>3. QED
    BY <2>1, <2>2
<1>8. \A k \in 0 .. l - 1 : next'[ch[k]] = ch[k + 1]
  <2> SUFFICES ASSUME NEW k \in 0 .. l - 1 PROVE next'[ch[k]] = ch[k + 1]
    OBVIOUS
  <2>1. k \in 0 .. l /\ l \in 0 .. l /\ k # l
    BY <1>1
  <2>2. ch[k] # ch[l]
    BY <2>1, DifferentNodes
  <2>3. ch[k] \in Nodes
    BY <1>1, <2>1
  <2>4. QED
    BY <1>1, <1>7, <2>2, <2>3
<1>9. \A k \in 1 .. c : next'[o + k] = IF k = c THEN 0 ELSE o + (k + 1)
  <2> SUFFICES ASSUME NEW k \in 1 .. c PROVE next'[o + k] = IF k = c THEN 0 ELSE o + (k + 1)
    OBVIOUS
  <2>1. l \in 0 .. l
    BY <1>1
  <2>2. ch[l] # o + k
    BY <2>1 DEF Beyond
  <2>3. o + k \in Nodes /\ next[o + k] = IF k = c THEN 0 ELSE o + (k + 1)
    BY DEF Rest
  <2>4. QED
    BY <1>7, <2>2, <2>3
<1>10. \A k \in 0 .. (l + c) - 1 : next'[d[k]] = d[k + 1]
  <2> SUFFICES ASSUME NEW k \in 0 .. (l + c) - 1 PROVE next'[d[k]] = d[k + 1]
    OBVIOUS
  <2>1. k \in 0 .. l - 1 \/ (k = l /\ c # 0) \/ \E m \in 1 .. c : k = l + m /\ m # c
    <3>1. k \in 0 .. l + c /\ k # l + c
      BY <1>1
    <3>2. k \in 0 .. l \/ \E m \in 1 .. c : k = l + m
      BY <1>3, <3>1
    <3>3. k \in 0 .. l => k \in 0 .. l - 1 \/ (k = l /\ c # 0)
      BY <1>1, <3>1
    <3>4. QED
      BY <3>1, <3>2, <3>3
  <2>2. CASE k \in 0 .. l - 1
    <3>1. k \in 0 .. l /\ k + 1 \in 0 .. l
      BY <1>1, <2>2
    <3>2. QED
      BY <1>2, <1>8, <2>2, <3>1
  <2>3. CASE k = l /\ c # 0
    <3>1. l \in 0 .. l /\ 1 \in 1 .. c
      BY <1>1, <2>3
    <3>2. d[l] = ch[l] /\ d[l + 1] = o + 1
      BY <1>2, <3>1
    <3>3. QED
      BY <1>7, <2>3, <3>2
  <2>4. CASE \E m \in 1 .. c : k = l + m /\ m # c
    <3>1. PICK m \in 1 .. c : k = l + m /\ m # c
      BY <2>4
    <3>2. m + 1 \in 1 .. c /\ k + 1 = l + (m + 1)
      BY <1>1, <3>1
    <3>3. d[k] = o + m /\ d[k + 1] = o + (m + 1)
      BY <1>2, <3>1, <3>2
    <3>4. next'[o + m] = o + (m + 1)
      BY <1>9, <3>1
    <3>5. QED
      BY <3>3, <3>4
  <2>5. QED
    BY <2>1, <2>2, <2>3, <2>4
<1>11. next'[d[l + c]] = 0
  <2>1. CASE c = 0
    <3>1. d[l + c] = ch[l]
      <4>1. l + c = l /\ l \in 0 .. l
        BY <1>1, <2>1
      <4>2. QED
        BY <1>2, <4>1
    <3>2. QED
      BY <1>7, <2>1, <3>1
  <2>2. CASE c # 0
    <3>1. c \in 1 .. c
      BY <2>2
    <3>2. d[l + c] = o + c
      BY <1>2, <3>1
    <3>3. QED
      BY <1>9, <3>1, <3>2
  <2>3. QED
    BY <2>1, <2>2
<1>12. Nodes' = Nodes /\ \A n : Exponent(n)' = Exponent(n)
  BY DEF Nodes, Exponent, Term
<1>13. \A e : SumAt(e)' = SumAt(e)
  BY DEF SumAt
<1>14. d[0] = 1
  <2>1. 0 \in 0 .. l
    BY <1>1
  <2>2. QED
    BY <1>1, <1>2, <2>1
<1>15. Chained(l + c, d)'
  BY <1>2, <1>4, <1>5, <1>6, <1>10, <1>12, <1>13, <1>14 DEF Chained
<1>16. QED
  BY <1>11, <1>15, <1>20

(* What waits when one polynomial is used up is such a rest.                *)
LEMMA RestOfFirst ==
  ASSUME MergeType, NEW i, NEW j, NEW l, NEW ch, Halfway(i, j, l, ch), q = 0
  PROVE  Rest(i, Len(a1) - i + 1) /\ Beyond(l, ch, i, Len(a1) - i + 1)
<1> DEFINE c == Len(a1) - i + 1
<1>1. /\ l \in Nat /\ Len(a1) \in Nat /\ Len(a2) \in Nat
      /\ \A k \in 0 .. l : \A m \in i .. Len(a1) : ch[k] # m + 1
      /\ i \in 1 .. Len(a1) + 1 /\ j \in 1 .. Len(a2) + 1 /\ ~ (j <= Len(a2))
  BY Apart
<1>2. a1 \in Polynomials /\ a2 \in Polynomials
  BY DEF MergeType
<1>3. /\ \A k \in i .. Len(a1) : next[k + 1] = Node1(k + 1) /\ x[k + 1] = a1[k][1]
      /\ \A k \in i .. Len(a1) : \A m \in 1 .. j - 1 : a2[m][2] < a1[k][2]
  BY DEF Halfway, Waiting
<1>4. /\ \A k, m \in 1 .. Len(a1) : k < m => a1[k][2] < a1[m][2]
      /\ \A k \in 1 .. Len(a1) : a1[k][2] \in Int /\ a1[k][1] # 0
      /\ \A k \in 1 .. Len(a2) : a2[k][2] \in Int
  BY <1>2, TermsOf
<1>5. \A k \in 1 .. Len(a1) : k + 1 \in Nodes \ {1} /\ Exponent(k + 1) = a1[k][2]
  BY <1>2, NodeFacts
<1>6. \A k \in i .. Len(a1) : SumAt(a1[k][2]) = a1[k][1]
  <2> SUFFICES ASSUME NEW k \in i .. Len(a1) PROVE SumAt(a1[k][2]) = a1[k][1]
    OBVIOUS
  <2>1. k \in 1 .. Len(a1)
    BY <1>1
  <2>2. \A m \in 1 .. Len(a2) : m \in 1 .. j - 1
    BY <1>1
  <2>3. \A m \in 1 .. Len(a2) : a2[m][2] < a1[k][2]
    BY <1>3, <2>2
  <2>4. \A m \in 1 .. Len(a2) : a2[m][2] # a1[k][2]
    BY <1>4, <2>1, <2>3
  <2>5. QED
    BY <1>2, <2>1, <2>4, SumOfFirst
<1>7. c \in Nat /\ \A k \in 1 .. c : \E m \in i .. Len(a1) : m \in 1 .. Len(a1) /\ m = i + k - 1 /\ i + k = m + 1
  <2>1. \A k \in 1 .. c : /\ i + k - 1 \in i .. Len(a1) /\ i + k - 1 \in 1 .. Len(a1)
                          /\ i + k = (i + k - 1) + 1
    BY <1>1
  <2>2. c \in Nat
    BY <1>1
  <2>3. QED
    BY <2>1, <2>2
<1> HIDE DEF c
<1>8. ASSUME NEW k \in 1 .. c
      PROVE  /\ i + k \in Nodes \ {1} /\ x[i + k] = SumAt(Exponent(i + k)) /\ x[i + k] # 0
             /\ next[i + k] = IF k = c THEN 0 ELSE i + (k + 1)
             /\ \A b \in 0 .. l : ch[b] # i + k
  <2>1. PICK m \in i .. Len(a1) : m \in 1 .. Len(a1) /\ m = i + k - 1 /\ i + k = m + 1
    BY <1>7
  <2>2. x[m + 1] = SumAt(Exponent(m + 1)) /\ x[m + 1] # 0 /\ m + 1 \in Nodes \ {1}
    BY <1>3, <1>4, <1>5, <1>6, <2>1
  <2>3. next[m + 1] = IF k = c THEN 0 ELSE i + (k + 1)
    <3>1. next[m + 1] = IF m + 1 <= Len(a1) THEN (m + 1) + 1 ELSE 0
      BY <1>3 DEF Node1
    <3>2. m + 1 <= Len(a1) <=> k # c
      <4>1. Len(a1) \in Int /\ i \in Int /\ c = Len(a1) - i + 1
        BY <1>1 DEF c
      <4>2. QED
        BY <2>1, <4>1
    <3>3. (m + 1) + 1 = i + (k + 1)
      BY <1>1, <2>1
    <3>4. QED
      BY <3>1, <3>2, <3>3
  <2>4. \A b \in 0 .. l : ch[b] # m + 1
    BY <1>1
  <2>5. QED
    BY <2>1, <2>2, <2>3, <2>4
<1>9. ASSUME NEW k \in 1 .. c, NEW m \in 1 .. c, k < m
      PROVE  Exponent(i + k) < Exponent(i + m)
  <2>1. PICK b \in i .. Len(a1) : b \in 1 .. Len(a1) /\ b = i + k - 1 /\ i + k = b + 1
    BY <1>7
  <2>2. PICK g \in i .. Len(a1) : g \in 1 .. Len(a1) /\ g = i + m - 1 /\ i + m = g + 1
    BY <1>7
  <2>3. b < g
    BY <1>1, <1>9, <2>1, <2>2
  <2>4. Exponent(b + 1) < Exponent(g + 1)
    BY <1>4, <1>5, <2>1, <2>2, <2>3
  <2>5. QED
    BY <2>1, <2>2, <2>4
<1>10. ASSUME NEW k \in 1 .. l, NEW m \in 1 .. c
       PROVE  Exponent(ch[k]) < Exponent(i + m)
  <2>1. PICK g \in i .. Len(a1) : g \in 1 .. Len(a1) /\ g = i + m - 1 /\ i + m = g + 1
    BY <1>7
  <2>2. ch[k] \in Taken(i, j) /\ Waiting(i, j)
    BY DEF Halfway
  <2>3. Exponent(ch[k]) < a1[g][2]
    BY <1>2, <2>2, TakenIsSmaller
  <2>4. Exponent(g + 1) = a1[g][2]
    BY <1>5, <2>1
  <2>5. QED
    BY <2>1, <2>3, <2>4
<1>11. Rest(i, c)
  BY <1>8, <1>9 DEF Rest
<1>12. Beyond(l, ch, i, c)
  BY <1>8, <1>10 DEF Beyond
<1>13. QED
  BY <1>11, <1>12 DEF c

LEMMA RestOfSecond ==
  ASSUME MergeType, NEW i, NEW j, NEW l, NEW ch, Halfway(i, j, l, ch), p = 0,
         NEW o, o = NodeOf2(j) - 1
  PROVE  o \in Nat /\ Rest(o, Len(a2) - j + 1) /\ Beyond(l, ch, o, Len(a2) - j + 1)
<1> DEFINE c == Len(a2) - j + 1
<1>1. /\ l \in Nat /\ Len(a1) \in Nat /\ Len(a2) \in Nat
      /\ \A k \in 0 .. l : \A m \in j .. Len(a2) : ch[k] # NodeOf2(m)
      /\ i \in 1 .. Len(a1) + 1 /\ j \in 1 .. Len(a2) + 1 /\ ~ (i <= Len(a1))
  BY Apart
<1>2. a1 \in Polynomials /\ a2 \in Polynomials
  BY DEF MergeType
<1>3. /\ \A k \in j .. Len(a2) : next[NodeOf2(k)] = Node2(k + 1) /\ x[NodeOf2(k)] = a2[k][1]
      /\ \A k \in 1 .. i - 1 : \A m \in j .. Len(a2) : a1[k][2] < a2[m][2]
  BY DEF Halfway, Waiting
<1>4. /\ \A k, m \in 1 .. Len(a2) : k < m => a2[k][2] < a2[m][2]
      /\ \A k \in 1 .. Len(a2) : a2[k][2] \in Int /\ a2[k][1] # 0
      /\ \A k \in 1 .. Len(a1) : a1[k][2] \in Int
  BY <1>2, TermsOf
<1>5. \A k \in 1 .. Len(a2) : NodeOf2(k) \in Nodes \ {1} /\ Exponent(NodeOf2(k)) = a2[k][2]
  BY <1>2, NodeFacts
<1>6. \A k \in j .. Len(a2) : SumAt(a2[k][2]) = a2[k][1]
  <2> SUFFICES ASSUME NEW k \in j .. Len(a2) PROVE SumAt(a2[k][2]) = a2[k][1]
    OBVIOUS
  <2>1. k \in 1 .. Len(a2)
    BY <1>1
  <2>2. \A m \in 1 .. Len(a1) : m \in 1 .. i - 1
    BY <1>1
  <2>3. \A m \in 1 .. Len(a1) : a1[m][2] < a2[k][2]
    BY <1>3, <2>2
  <2>4. \A m \in 1 .. Len(a1) : a1[m][2] # a2[k][2]
    BY <1>4, <2>1, <2>3
  <2>5. QED
    BY <1>2, <2>1, <2>4, SumOfSecond
<1>7. o \in Nat /\ o = Len(a1) + j /\ c \in Nat
  BY <1>1 DEF NodeOf2
<1>8. \A k \in 1 .. c : \E m \in j .. Len(a2) : m \in 1 .. Len(a2) /\ m = j + k - 1 /\ o + k = NodeOf2(m)
  <2>1. \A k \in 1 .. c : /\ j + k - 1 \in j .. Len(a2) /\ j + k - 1 \in 1 .. Len(a2)
                          /\ o + k = NodeOf2(j + k - 1)
    BY <1>1, <1>7 DEF NodeOf2
  <2>2. QED
    BY <2>1
<1> HIDE DEF c
<1>9. ASSUME NEW k \in 1 .. c
      PROVE  /\ o + k \in Nodes \ {1} /\ x[o + k] = SumAt(Exponent(o + k)) /\ x[o + k] # 0
             /\ next[o + k] = IF k = c THEN 0 ELSE o + (k + 1)
             /\ \A b \in 0 .. l : ch[b] # o + k
  <2>1. PICK m \in j .. Len(a2) : m \in 1 .. Len(a2) /\ m = j + k - 1 /\ o + k = NodeOf2(m)
    BY <1>8
  <2>2. x[NodeOf2(m)] = SumAt(Exponent(NodeOf2(m))) /\ x[NodeOf2(m)] # 0 /\ NodeOf2(m) \in Nodes \ {1}
    BY <1>3, <1>4, <1>5, <1>6, <2>1
  <2>3. next[NodeOf2(m)] = IF k = c THEN 0 ELSE o + (k + 1)
    <3>1. next[NodeOf2(m)] = IF m + 1 <= Len(a2) THEN NodeOf2(m + 1) ELSE 0
      BY <1>3 DEF Node2
    <3>2. m + 1 <= Len(a2) <=> k # c
      BY <1>1, <2>1 DEF c
    <3>3. NodeOf2(m + 1) = o + (k + 1)
      BY <1>1, <1>7, <2>1 DEF NodeOf2
    <3>4. QED
      BY <3>1, <3>2, <3>3
  <2>4. \A b \in 0 .. l : ch[b] # NodeOf2(m)
    BY <1>1
  <2>5. QED
    BY <2>1, <2>2, <2>3, <2>4
<1>10. ASSUME NEW k \in 1 .. c, NEW m \in 1 .. c, k < m
       PROVE  Exponent(o + k) < Exponent(o + m)
  <2>1. PICK b \in j .. Len(a2) : b \in 1 .. Len(a2) /\ b = j + k - 1 /\ o + k = NodeOf2(b)
    BY <1>8
  <2>2. PICK g \in j .. Len(a2) : g \in 1 .. Len(a2) /\ g = j + m - 1 /\ o + m = NodeOf2(g)
    BY <1>8
  <2>3. b < g
    BY <1>1, <1>10, <2>1, <2>2
  <2>4. Exponent(NodeOf2(b)) < Exponent(NodeOf2(g))
    BY <1>4, <1>5, <2>1, <2>2, <2>3
  <2>5. QED
    BY <2>1, <2>2, <2>4
<1>11. ASSUME NEW k \in 1 .. l, NEW m \in 1 .. c
       PROVE  Exponent(ch[k]) < Exponent(o + m)
  <2>1. PICK g \in j .. Len(a2) : g \in 1 .. Len(a2) /\ g = j + m - 1 /\ o + m = NodeOf2(g)
    BY <1>8
  <2>2. ch[k] \in Taken(i, j) /\ Waiting(i, j)
    BY DEF Halfway
  <2>3. Exponent(ch[k]) < a2[g][2]
    BY <1>2, <2>2, TakenIsSmaller
  <2>4. Exponent(NodeOf2(g)) = a2[g][2]
    BY <1>5, <2>1
  <2>5. QED
    BY <2>1, <2>3, <2>4
<1>12. Rest(o, c)
  BY <1>9, <1>10 DEF Rest
<1>13. Beyond(l, ch, o, c)
  BY <1>9, <1>11 DEF Beyond
<1>14. QED
  BY <1>7, <1>12, <1>13 DEF c

(* The rest goes behind r, and the list has the nodes of both.              *)
LEMMA TakesRest ==
  ASSUME MergeType, NEW i, NEW j, NEW l, NEW ch, Halfway(i, j, l, ch), AppendRest
  PROVE  MergeType' /\ \E m, d : Complete(m, d)'
<1>1. /\ l \in Nat /\ r = ch[l] /\ r \in Nodes
      /\ Len(a1) \in Nat /\ Len(a2) \in Nat /\ i \in 1 .. Len(a1) + 1 /\ j \in 1 .. Len(a2) + 1
      /\ (p # 0 <=> i <= Len(a1)) /\ (q # 0 <=> j <= Len(a2))
      /\ (p # 0 => p = i + 1 /\ p \in Nodes)
      /\ (q # 0 => q = NodeOf2(j) /\ q \in Nodes)
  BY Apart
<1>2. /\ next' = [next EXCEPT ![r] = IF q = 0 THEN p ELSE q]
      /\ UNCHANGED <<a1, a2, x>> /\ (p = 0 \/ q = 0)
  BY DEF AppendRest
<1>3. MergeType'
  <2>1. x' \in [Nodes -> Int] /\ next' \in [Nodes -> Nodes \cup {0}]
    BY <1>1, <1>2 DEF MergeType
  <2>2. QED
    BY <1>2, <2>1, TypeKept
<1>4. Chained(l, ch) /\ Covers(l, ch, Taken(i, j))
  BY DEF Halfway
<1> DEFINE IsRest(o, c) == /\ o \in Nat /\ c \in Nat /\ Rest(o, c) /\ Beyond(l, ch, o, c)
                           /\ (IF q = 0 THEN p ELSE q) = (IF c = 0 THEN 0 ELSE o + 1)
                           /\ \A n \in Nodes \ {1} : n \in Taken(i, j) \/ \E k \in 1 .. c : n = o + k
<1>5. ASSUME NEW o, NEW c, IsRest(o, c) PROVE \E m, d : Complete(m, d)'
  <2> DEFINE w == Appended(l, ch, o, c)
  <2>1. PICK d : d = w
    OBVIOUS
  <2> HIDE DEF w
  <2>2. LinksBehind(l, ch, o, c)
    BY <1>1, <1>2, <1>5 DEF LinksBehind
  <2>3. Chained(l + c, d)' /\ next'[d[l + c]] = 0 /\ GoesOn(d, l, ch, o, c)
    <3>1. o \in Nat /\ c \in Nat /\ Rest(o, c) /\ Beyond(l, ch, o, c)
      BY <1>5
    <3> HIDE DEF IsRest
    <3>2. QED
      BY <1>2, <1>4, <2>1, <2>2, <3>1, RestBehind DEF w
  <2>4. Covers(l + c, d, Nodes \ {1})
    <3> SUFFICES ASSUME NEW n \in Nodes \ {1}, SumAt(Exponent(n)) # 0
                 PROVE  \E k \in 1 .. l + c : Exponent(d[k]) = Exponent(n)
      BY DEF Covers
    <3>1. CASE n \in Taken(i, j)
      <4>1. PICK k \in 1 .. l : Exponent(ch[k]) = Exponent(n)
        BY <1>4, <3>1 DEF Covers
      <4>2. QED
        BY <2>3, <4>1 DEF GoesOn
    <3>2. CASE \E k \in 1 .. c : n = o + k
      BY <2>3, <3>2 DEF GoesOn
    <3>3. QED
      BY <1>5, <3>1, <3>2
  <2>5. Nodes' = Nodes /\ \A n : Exponent(n)' = Exponent(n)
    BY <1>2 DEF Nodes, Exponent, Term
  <2>6. \A e : SumAt(e)' = SumAt(e)
    BY <1>2 DEF SumAt
  <2>7. Covers(l + c, d, Nodes \ {1})'
    BY <2>4, <2>5, <2>6 DEF Covers
  <2>8. Complete(l + c, d)'
    BY <2>3, <2>7 DEF Complete
  <2>9. QED
    BY <2>8
<1> HIDE DEF IsRest
<1>6. CASE q = 0
  <2> DEFINE c == Len(a1) - i + 1
  <2>1. c \in Nat /\ i \in Nat /\ (c = 0 <=> p = 0)
    BY <1>1
  <2>2. Rest(i, c) /\ Beyond(l, ch, i, c)
    BY <1>6, RestOfFirst
  <2>3. ASSUME NEW n \in Nodes \ {1}, n \notin Taken(i, j) PROVE \E k \in 1 .. c : n = i + k
    <3>1. n - i \in 1 .. c /\ n = i + (n - i)
      BY <1>1, <1>6, <2>3 DEF Nodes, Taken, NodeOf2
    <3>2. QED
      BY <3>1
  <2>4. (IF q = 0 THEN p ELSE q) = (IF c = 0 THEN 0 ELSE i + 1)
    BY <1>1, <1>6, <2>1
  <2> HIDE DEF c
  <2>5. IsRest(i, c)
    BY <2>1, <2>2, <2>3, <2>4 DEF IsRest
  <2>6. QED
    BY <1>3, <1>5, <2>5
<1>7. CASE q # 0
  <2> DEFINE c == Len(a2) - j + 1
             w == NodeOf2(j) - 1
  <2>1. PICK o : o = w
    OBVIOUS
  <2>2. p = 0 /\ c \in Nat /\ c # 0 /\ o = Len(a1) + j /\ o + 1 = NodeOf2(j)
    BY <1>1, <1>2, <1>7, <2>1 DEF NodeOf2
  <2>3. o \in Nat /\ Rest(o, c) /\ Beyond(l, ch, o, c)
    BY <2>1, <2>2, RestOfSecond
  <2>4. ASSUME NEW n \in Nodes \ {1}, n \notin Taken(i, j) PROVE \E k \in 1 .. c : n = o + k
    <3>1. n - o \in 1 .. c /\ n = o + (n - o)
      BY <1>1, <2>2, <2>4 DEF Nodes, Taken, NodeOf2
    <3>2. QED
      BY <3>1
  <2>5. (IF q = 0 THEN p ELSE q) = (IF c = 0 THEN 0 ELSE o + 1)
    BY <1>1, <1>7, <2>2
  <2> HIDE DEF c, w
  <2>6. IsRest(o, c)
    BY <2>2, <2>3, <2>4, <2>5 DEF IsRest
  <2>7. QED
    BY <1>3, <1>5, <2>6
<1>8. QED
  BY <1>3, <1>6, <1>7

LEMMA MergeStep == MergeRight /\ [PuzzleNext]_puzzleVars => MergeRight'
<1> SUFFICES ASSUME MergeRight, [PuzzleNext]_puzzleVars PROVE MergeRight'
  OBVIOUS
<1>1. MergeType
  BY DEF MergeRight
<1>2. CASE un_LinkNode
  <2>1. task = "merge" /\ task' # "merged" /\ p # 0 /\ q # 0 /\ UNCHANGED <<a1, a2>>
    BY <1>2 DEF un_LinkNode
  <2>2. PICK i, j, l, ch : Halfway(i, j, l, ch)
    BY <2>1 DEF MergeRight
  <2>3. ASSUME MergeType', NEW i2, NEW j2, NEW l2, NEW d, Halfway(i2, j2, l2, d)'
        PROVE  MergeRight'
    BY <2>1, <2>3 DEF MergeRight
  <2>4. CASE Exponent(p) < Exponent(q) /\ TakeP
    <3>1. PICK v : v = p
      OBVIOUS
    <3>2. MergeType' /\ Halfway(i + 1, j, l + 1, Longer(l, ch, v))'
      BY <1>1, <2>1, <2>2, <2>4, <3>1, TakesP
    <3>3. QED
      BY <2>3, <3>2
  <2>5. CASE Exponent(p) > Exponent(q) /\ TakeQ
    <3>1. PICK v : v = q
      OBVIOUS
    <3>2. MergeType' /\ Halfway(i, j + 1, l + 1, Longer(l, ch, v))'
      BY <1>1, <2>1, <2>2, <2>5, <3>1, TakesQ
    <3>3. QED
      BY <2>3, <3>2
  <2>6. CASE Exponent(p) = Exponent(q) /\ TakeSum
    <3>1. PICK v : v = p
      OBVIOUS
    <3>2. /\ MergeType'
          /\ \/ Halfway(i + 1, j + 1, l + 1, Longer(l, ch, v))'
             \/ Halfway(i + 1, j + 1, l, ch)'
      BY <1>1, <2>1, <2>2, <2>6, <3>1, TakesSum
    <3>3. QED
      BY <2>3, <3>2
  <2>7. QED
    BY <1>2, <2>4, <2>5, <2>6 DEF un_LinkNode
<1>3. CASE AppendRest
  <2>1. task = "merge" /\ task' = "merged"
    BY <1>3 DEF AppendRest
  <2>2. PICK i, j, l, ch : Halfway(i, j, l, ch)
    BY <2>1 DEF MergeRight
  <2>3. MergeType' /\ \E m, d : Complete(m, d)'
    BY <1>1, <1>3, <2>2, TakesRest
  <2>4. QED
    BY <2>1, <2>3 DEF MergeRight
<1>4. ASSUME UNCHANGED <<a1, a2, x, next, p, q, r>>, task' # "merge", task' # "merged"
      PROVE  MergeRight'
  <2>1. MergeType'
    BY <1>1, <1>4 DEF MergeType, Nodes
  <2>2. QED
    BY <1>4, <2>1 DEF MergeRight
<1>5. CASE kill_sl
  BY <1>4, <1>5 DEF kill_sl
<1>6. CASE OneLeft
  BY <1>4, <1>6 DEF OneLeft
<1>7. CASE UNCHANGED puzzleVars
  <2>1. UNCHANGED <<task, a1, a2, x, next, p, q, r>>
    BY <1>7 DEF puzzleVars
  <2>2. MergeType'
    BY <1>1, <2>1 DEF MergeType, Nodes
  <2>3. /\ Nodes' = Nodes /\ \A n : Exponent(n)' = Exponent(n)
        /\ \A e : SumAt(e)' = SumAt(e)
    BY <2>1 DEF Nodes, Exponent, Term, SumAt
  <2>4. \A l, ch : Chained(l, ch)' = Chained(l, ch)
    BY <2>1, <2>3 DEF Chained
  <2>5. \A l, ch, ns : Covers(l, ch, ns)' = Covers(l, ch, ns)
    BY <2>3 DEF Covers
  <2>6. \A i, j : Taken(i, j)' = Taken(i, j) /\ Waiting(i, j)' = Waiting(i, j)
    BY <2>1 DEF Taken, Waiting, Node1, Node2, NodeOf2
  <2>7. \A i, j, l, ch : Halfway(i, j, l, ch)' = Halfway(i, j, l, ch)
    BY <2>1, <2>3, <2>4, <2>5, <2>6 DEF Halfway, Covers
  <2>8. \A l, ch : Complete(l, ch)' = Complete(l, ch)
    BY <2>1, <2>3, <2>4, <2>5 DEF Complete, Covers
  <2>9. QED
    BY <2>1, <2>2, <2>7, <2>8 DEF MergeRight
<1>8. QED
  BY <1>2, <1>3, <1>5, <1>6, <1>7 DEF PuzzleNext

(* The list as ChainFrom1 reads it.                                         *)
LEMMA ChainOf ==
  ASSUME NEW l, NEW ch, Complete(l, ch), NEW k \in Nat
  PROVE  ChainFrom1[k] = IF k < l THEN ch[k + 1] ELSE 0
<1> DEFINE Follows(f) == f = [i \in Nat |-> IF i = 0 THEN next[1]
                                            ELSE IF f[i - 1] = 0 THEN 0 ELSE next[f[i - 1]]]
           chain == CHOOSE f : Follows(f)
           h == [i \in Nat |-> IF i < l THEN ch[i + 1] ELSE 0]
<1>1. /\ l \in Nat /\ ch \in [0 .. l -> Nodes] /\ ch[0] = 1 /\ next[ch[l]] = 0
      /\ \A i \in 0 .. l - 1 : next[ch[i]] = ch[i + 1]
  BY DEF Complete, Chained
<1>2. \A n \in Nodes : n # 0
  BY DEF Nodes
<1>3. \A i \in Nat : h[i] = IF i < l THEN ch[i + 1] ELSE 0
  OBVIOUS
<1>4. h = [i \in Nat |-> h[i]]
  OBVIOUS
<1> HIDE DEF h
<1>5. \A i \in Nat : h[i] = IF i = 0 THEN next[1] ELSE IF h[i - 1] = 0 THEN 0 ELSE next[h[i - 1]]
  <2> SUFFICES ASSUME NEW i \in Nat
               PROVE  h[i] = IF i = 0 THEN next[1] ELSE IF h[i - 1] = 0 THEN 0 ELSE next[h[i - 1]]
    OBVIOUS
  <2>1. CASE i = 0
    <3>1. 0 < l => 0 \in 0 .. l - 1
      BY <1>1
    <3>2. ~ (0 < l) => l = 0
      BY <1>1
    <3>3. QED
      BY <1>1, <1>3, <2>1, <3>1, <3>2
  <2>2. CASE i # 0
    <3>1. i - 1 \in Nat /\ (i - 1) + 1 = i
      BY <2>2
    <3>2. CASE i - 1 < l
      <4>1. h[i - 1] = ch[i] /\ i \in 0 .. l
        BY <1>1, <1>3, <3>1, <3>2
      <4>2. ch[i] \in Nodes /\ ch[i] # 0
        BY <1>1, <1>2, <4>1
      <4>3. i < l => i \in 0 .. l - 1
        BY <1>1
      <4>4. ~ (i < l) => i = l
        BY <1>1, <4>1
      <4>5. h[i] = next[ch[i]]
        BY <1>1, <1>3, <4>3, <4>4
      <4>6. QED
        BY <2>2, <4>1, <4>2, <4>5
    <3>3. CASE ~ (i - 1 < l)
      <4>1. h[i - 1] = 0 /\ ~ (i < l)
        BY <1>1, <1>3, <3>1, <3>3
      <4>2. QED
        BY <1>3, <2>2, <4>1
    <3>4. QED
      BY <3>2, <3>3
  <2>3. QED
    BY <2>1, <2>2
<1>6. Follows(h)
  BY <1>4, <1>5
<1>7. Follows(chain)
  <2> HIDE DEF Follows
  <2>1. QED
    BY <1>6
<1>8. ChainFrom1 = chain
  BY DEF ChainFrom1
<1> HIDE DEF chain
<1>9. \A i \in Nat : chain[i] = IF i = 0 THEN next[1] ELSE IF chain[i - 1] = 0 THEN 0 ELSE next[chain[i - 1]]
  BY <1>7
<1>10. h[k] = chain[k]
  <2> DEFINE T == {i \in Nat : h[i] # chain[i]}
  <2> SUFFICES ASSUME T # {} PROVE FALSE
    OBVIOUS
  <2>1. PICK i \in T : \A j \in T : i <= j
    <3>1. T \subseteq Nat
      OBVIOUS
    <3> HIDE DEF T
    <3>2. QED
      BY <3>1, SmallestNat
  <2>2. i # 0
    BY <1>5, <1>9, <2>1
  <2>3. i \in Nat /\ i - 1 \in Nat /\ ~ (i <= i - 1)
    BY <2>1, <2>2
  <2>4. h[i - 1] = chain[i - 1]
    BY <2>1, <2>3
  <2>5. h[i] = chain[i]
    BY <1>5, <1>9, <2>2, <2>3, <2>4
  <2>6. QED
    BY <2>1, <2>5
<1>11. QED
  BY <1>3, <1>8, <1>10

(* It ends, and within the nodes there are, for its nodes are different.    *)
LEMMA ChainEnds ==
  ASSUME MergeType, NEW l, NEW ch, Complete(l, ch)
  PROVE  l \in Nat /\ InChain = 0 .. l - 1 /\ Cardinality(InChain) < Cardinality(Nodes)
<1>1. l \in Nat /\ ch \in [0 .. l -> Nodes]
  BY DEF Complete, Chained
<1>2. Len(a1) \in Nat /\ Len(a2) \in Nat
  BY TermsOf DEF MergeType
<1> DEFINE N == Len(a1) + Len(a2) + 1
<1>3. N \in Nat /\ Nodes = 1 .. N
  BY <1>2 DEF Nodes
<1> HIDE DEF N
<1>4. IsFiniteSet(Nodes) /\ Cardinality(Nodes) = N
  <2>1. IsFiniteSet(1 .. N) /\ Cardinality(1 .. N) = IF 1 > N THEN 0 ELSE N - 1 + 1
    BY <1>3, FS_Interval
  <2>2. QED
    BY <1>3, <2>1
<1>5. IsFiniteSet(0 .. l) /\ Cardinality(0 .. l) = l + 1
  <2>1. IsFiniteSet(0 .. l) /\ Cardinality(0 .. l) = IF 0 > l THEN 0 ELSE l - 0 + 1
    BY <1>1, FS_Interval
  <2>2. QED
    BY <1>1, <2>1
<1>6. l + 1 <= N
  <2> SUFFICES ASSUME N < l + 1 PROVE FALSE
    BY <1>1, <1>3
  <2>1. \E k, m \in 0 .. l : k # m /\ ch[k] = ch[m]
    BY <1>1, <1>4, <1>5, FS_PigeonHole
  <2>2. \A k, m \in 0 .. l : k # m => ch[k] # ch[m]
    BY DifferentNodes DEF Complete
  <2>3. QED
    BY <2>1, <2>2
<1>7. InChain = 0 .. l - 1
  <2>1. \A k \in 0 .. N : ChainFrom1[k] = IF k < l THEN ch[k + 1] ELSE 0
    BY ChainOf
  <2>2. \A k \in 0 .. N : ChainFrom1[k] # 0 <=> k < l
    <3> SUFFICES ASSUME NEW k \in 0 .. N PROVE ChainFrom1[k] # 0 <=> k < l
      OBVIOUS
    <3>1. k < l => k + 1 \in 0 .. l
      BY <1>1
    <3>2. k < l => ch[k + 1] \in Nodes
      BY <1>1, <3>1
    <3>3. \A n \in Nodes : n # 0
      BY <1>3
    <3>4. QED
      BY <2>1, <3>2, <3>3
  <2>3. InChain = {k \in 0 .. N : k < l}
    BY <1>4, <2>2 DEF InChain
  <2>4. QED
    BY <1>1, <1>3, <1>6, <2>3
<1>8. Cardinality(0 .. l - 1) = l
  <2>1. l - 1 \in Int
    BY <1>1
  <2>2. Cardinality(0 .. l - 1) = IF 0 > l - 1 THEN 0 ELSE (l - 1) - 0 + 1
    BY <2>1, FS_Interval
  <2>3. QED
    BY <1>1, <2>2
<1>9. QED
  BY <1>1, <1>3, <1>4, <1>6, <1>7, <1>8

LEMMA MergeSolved == MergeRight => MergeIsTheSum
<1> SUFFICES ASSUME MergeRight, task = "merged" PROVE MergeIsTheSum
  BY DEF MergeIsTheSum
<1>1. MergeType
  BY DEF MergeRight
<1>2. PICK l, ch : Complete(l, ch)
  BY DEF MergeRight
<1>3. l \in Nat /\ InChain = 0 .. l - 1 /\ Cardinality(InChain) < Cardinality(Nodes)
  BY <1>1, <1>2, ChainEnds
<1>4. \A k \in InChain : ChainFrom1[k] = ch[k + 1] /\ k + 1 \in 1 .. l
  <2> SUFFICES ASSUME NEW k \in InChain PROVE ChainFrom1[k] = ch[k + 1] /\ k + 1 \in 1 .. l
    OBVIOUS
  <2>1. k \in Nat /\ k < l
    BY <1>3
  <2>2. ChainFrom1[k] = IF k < l THEN ch[k + 1] ELSE 0
    BY <1>2, <2>1, ChainOf
  <2>3. QED
    BY <1>3, <2>1, <2>2
<1>5. /\ ch \in [0 .. l -> Nodes]
      /\ \A k \in 1 .. l : ch[k] # 1 /\ x[ch[k]] # 0 /\ x[ch[k]] = SumAt(Exponent(ch[k]))
      /\ \A k, m \in 1 .. l : k < m => Exponent(ch[k]) < Exponent(ch[m])
      /\ Covers(l, ch, Nodes \ {1})
  BY <1>2 DEF Complete, Chained
<1> DEFINE node(k) == ChainFrom1[k]
           exps == {Exponent(node(k)) : k \in InChain}
           all == {a1[i][2] : i \in DOMAIN a1} \cup {a2[i][2] : i \in DOMAIN a2}
<1>6. ASSUME NEW k \in InChain
      PROVE  /\ x[node(k)] # 0
             /\ x[node(k)] = Coefficient(a1, Exponent(node(k))) + Coefficient(a2, Exponent(node(k)))
             /\ k + 1 \in InChain => Exponent(node(k)) < Exponent(node(k + 1))
  <2>1. node(k) = ch[k + 1] /\ k + 1 \in 1 .. l
    BY <1>4
  <2>2. x[ch[k + 1]] # 0 /\ x[ch[k + 1]] = SumAt(Exponent(ch[k + 1]))
    BY <1>5, <2>1
  <2>3. ASSUME k + 1 \in InChain PROVE Exponent(node(k)) < Exponent(node(k + 1))
    <3>1. node(k + 1) = ch[(k + 1) + 1] /\ (k + 1) + 1 \in 1 .. l /\ k + 1 < (k + 1) + 1
      BY <1>3, <1>4, <2>3
    <3>2. QED
      BY <1>5, <2>1, <3>1
  <2>4. QED
    BY <2>1, <2>2, <2>3 DEF SumAt
<1>7. /\ DOMAIN a1 = 1 .. Len(a1) /\ DOMAIN a2 = 1 .. Len(a2)
      /\ \A k \in 1 .. Len(a1) : k + 1 \in Nodes \ {1} /\ Exponent(k + 1) = a1[k][2]
      /\ \A k \in 1 .. Len(a2) : NodeOf2(k) \in Nodes \ {1} /\ Exponent(NodeOf2(k)) = a2[k][2]
      /\ \A n \in Nodes \ {1} : \/ \E k \in 1 .. Len(a1) : n = k + 1
                                \/ \E k \in 1 .. Len(a2) : n = NodeOf2(k)
  BY <1>1, TermsOf, NodeFacts DEF MergeType
<1>8. \A e : e \in all <=> \E n \in Nodes \ {1} : Exponent(n) = e
  <2>1. ASSUME NEW e \in all PROVE \E n \in Nodes \ {1} : Exponent(n) = e
    BY <1>7, <2>1
  <2>2. ASSUME NEW n \in Nodes \ {1} PROVE Exponent(n) \in all
    BY <1>7, <2>2
  <2>3. QED
    BY <2>1, <2>2
<1> HIDE DEF all
<1>9. ASSUME NEW e \in exps PROVE e \in all /\ SumAt(e) # 0
  <2>1. PICK k \in InChain : e = Exponent(node(k))
    OBVIOUS
  <2>2. k + 1 \in 1 .. l /\ e = Exponent(ch[k + 1])
    BY <1>4, <2>1
  <2>3. ch[k + 1] \in Nodes \ {1} /\ SumAt(e) # 0
    <3>1. k + 1 \in 0 .. l
      BY <2>2
    <3>2. QED
      BY <1>5, <2>2, <3>1
  <2>4. QED
    BY <1>8, <2>2, <2>3
<1>10. ASSUME NEW e \in all, SumAt(e) # 0 PROVE e \in exps
  <2>1. PICK n \in Nodes \ {1} : Exponent(n) = e
    BY <1>8
  <2>2. PICK k \in 1 .. l : Exponent(ch[k]) = e
    BY <1>5, <1>10, <2>1 DEF Covers
  <2>3. k - 1 \in InChain /\ (k - 1) + 1 = k
    BY <1>3
  <2>4. node(k - 1) = ch[k]
    BY <1>4, <2>3
  <2>5. QED
    BY <2>2, <2>3, <2>4
<1>11. exps = {e \in all : SumAt(e) # 0}
  <2> HIDE DEF exps
  <2>1. QED
    BY <1>9, <1>10
<1>12. QED
  BY <1>3, <1>6, <1>11 DEF MergeIsTheSum, SumAt, all
-----------------------------------------------------------------------------
(* SurvivorIsLast: for circles of any size, and whatever n kill_sl counts   *)
(* to, the node that main finds linked to itself is the last of Josephus'   *)
(* recurrence (yuesefu.c:47-69).                                            *)
THEOREM SurvivorIsTheOne == PuzzleSpec => []SurvivorIsLast
<1>1. QED
  BY CircleInit, CircleStep, CircleSolved, PTL DEF PuzzleSpec

(* MergeIsTheSum: for polynomials of any length and any coefficients, the   *)
(* chain that un_LinkNode leaves behind p1's header ends, and its nodes are *)
(* the terms of the sum in their order (多项式合并.c:41-77).                  *)
THEOREM MergeIsSum == PuzzleSpec => []MergeIsTheSum
<1>1. QED
  BY MergeInit, MergeStep, MergeSolved, PTL DEF PuzzleSpec

(* PuzzlesSolved: the two results together, as the run checks them.         *)
THEOREM PuzzlesAlwaysSolved == PuzzleSpec => []PuzzlesSolved
<1>1. MergeIsTheSum /\ SurvivorIsLast => PuzzlesSolved
  BY DEF PuzzlesSolved
<1>2. QED
  BY <1>1, SurvivorIsTheOne, MergeIsSum, PTL
=============================================================================
