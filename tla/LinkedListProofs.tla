--------------------------- MODULE LinkedListProofs ---------------------------
(***************************************************************************)
(* For any memory and any values: the nodes of llist.c stay one ring in     *)
(* both directions, and no loop ever stands on a freed node.                *)
(***************************************************************************)
EXTENDS LinkedList, SequenceTheorems, FiniteSetTheorems, TLAPS

(* The place with number i on the way through the nodes of s, which begins  *)
(* and ends at the head; the two kinds of pointers follow that way; and no  *)
(* node is on it twice.                                                     *)
Nth(s, i) == IF i \in 1 .. Len(s) THEN s[i] ELSE head
IsRing(s, nx, pv) ==
  \A i \in 0 .. Len(s) : nx[Nth(s, i)] = Nth(s, i + 1) /\ pv[Nth(s, i + 1)] = Nth(s, i)
Distinct(s) == \A i, j \in 1 .. Len(s) : s[i] = s[j] => i = j

(* Putting a new node between the head and its neighbour (llist.c:36-37,    *)
(* 49-50) makes it the first of the ring.                                   *)
LEMMA RingPush ==
  ASSUME NEW s \in Seq(Node), NEW nx \in [Place -> Ptr], NEW pv \in [Place -> Ptr],
         IsRing(s, nx, pv), Distinct(s),
         NEW n \in Node, \A i \in 1 .. Len(s) : s[i] # n
  PROVE  /\ <<n>> \o s \in Seq(Node)
         /\ Distinct(<<n>> \o s)
         /\ IsRing(<<n>> \o s, [nx EXCEPT ![n] = nx[head], ![head] = n],
                               [pv EXCEPT ![n] = head, ![nx[head]] = n])
<1> DEFINE t == <<n>> \o s
           nx2 == [nx EXCEPT ![n] = nx[head], ![head] = n]
           pv2 == [pv EXCEPT ![n] = head, ![nx[head]] = n]
<1>1. /\ t \in Seq(Node) /\ Len(t) = Len(s) + 1 /\ t[1] = n
      /\ \A i \in 2 .. Len(t) : t[i] = s[i - 1]
      /\ Len(s) \in Nat
  OBVIOUS
<1>2. Distinct(t)
  BY <1>1 DEF Distinct
<1>3. /\ head # n /\ head \in Place /\ n \in Place
      /\ \A i \in 1 .. Len(s) : s[i] \in Node /\ s[i] # head /\ s[i] \in Place
  BY ListAssumption DEF Place
<1>4. nx[head] = Nth(s, 1) /\ \A i \in 0 .. Len(s) + 1 : Nth(s, i) \in Place /\ Nth(s, i) # n
  BY <1>1, <1>3 DEF IsRing, Nth
<1>5. /\ Nth(t, 0) = head /\ Nth(t, 1) = n
      /\ \A i \in 2 .. Len(t) + 1 : Nth(t, i) = Nth(s, i - 1)
  BY <1>1 DEF Nth
<1>6. ASSUME NEW i \in 0 .. Len(t)
      PROVE  nx2[Nth(t, i)] = Nth(t, i + 1)
  <2>1. CASE i = 0
    BY <2>1, <1>3, <1>5
  <2>2. CASE i = 1
    <3>1. Nth(t, 2) = Nth(s, 1)
      BY <1>1, <1>5
    <3>2. QED
      BY <2>2, <3>1, <1>3, <1>4, <1>5
  <2>3. CASE i >= 2
    <3>1. i - 1 \in 1 .. Len(s)
      BY <2>3, <1>1
    <3>2. nx[Nth(s, i - 1)] = Nth(s, i)
      BY <3>1 DEF IsRing
    <3>3. Nth(t, i) = Nth(s, i - 1) /\ Nth(t, i + 1) = Nth(s, i)
      BY <3>1, <1>1, <1>5
    <3>4. Nth(s, i - 1) \in Place /\ Nth(s, i - 1) # n /\ Nth(s, i - 1) # head
      BY <3>1, <1>3, <1>4 DEF Nth
    <3>5. QED
      BY <3>2, <3>3, <3>4
  <2>4. QED
    BY <2>1, <2>2, <2>3, <1>1
<1>7. ASSUME NEW i \in 0 .. Len(t)
      PROVE  pv2[Nth(t, i + 1)] = Nth(t, i)
  <2>1. CASE i = 0
    BY <2>1, <1>3, <1>4, <1>5
  <2>2. CASE i = 1
    <3>1. Nth(t, 2) = Nth(s, 1) /\ Nth(s, 1) \in Place
      BY <1>1, <1>4, <1>5
    <3>2. QED
      BY <2>2, <3>1, <1>3, <1>4, <1>5
  <2>3. CASE i >= 2
    <3>1. i - 1 \in 1 .. Len(s) /\ i \in 2 .. Len(s) + 1
      BY <2>3, <1>1
    <3>2. pv[Nth(s, i)] = Nth(s, i - 1)
      BY <3>1 DEF IsRing
    <3>3. Nth(t, i) = Nth(s, i - 1) /\ Nth(t, i + 1) = Nth(s, i)
      BY <3>1, <1>1, <1>5
    <3>4. Nth(s, i) \in Place /\ Nth(s, i) # n /\ Nth(s, i) # Nth(s, 1)
      BY <3>1, <1>1, <1>3, <1>4 DEF Nth, Distinct
    <3>5. QED
      BY <3>2, <3>3, <3>4, <1>4
  <2>4. QED
    BY <2>1, <2>2, <2>3, <1>1
<1>8. QED
  BY <1>1, <1>2, <1>6, <1>7 DEF IsRing

(* The same at the other end (llist.c:41-42, 49-50).                        *)
LEMMA RingAppend ==
  ASSUME NEW s \in Seq(Node), NEW nx \in [Place -> Ptr], NEW pv \in [Place -> Ptr],
         IsRing(s, nx, pv), Distinct(s),
         NEW n \in Node, \A i \in 1 .. Len(s) : s[i] # n
  PROVE  /\ Append(s, n) \in Seq(Node)
         /\ Distinct(Append(s, n))
         /\ IsRing(Append(s, n), [nx EXCEPT ![n] = head, ![pv[head]] = n],
                                 [pv EXCEPT ![n] = pv[head], ![head] = n])
<1> DEFINE t == Append(s, n)
           L == Len(s)
           nx2 == [nx EXCEPT ![n] = head, ![pv[head]] = n]
           pv2 == [pv EXCEPT ![n] = pv[head], ![head] = n]
<1>1. /\ t \in Seq(Node) /\ Len(t) = L + 1 /\ t[L + 1] = n
      /\ \A i \in 1 .. L : t[i] = s[i]
      /\ L \in Nat
  OBVIOUS
<1>2. Distinct(t)
  BY <1>1 DEF Distinct
<1>3. /\ head # n /\ head \in Place /\ n \in Place
      /\ \A i \in 1 .. L : s[i] \in Node /\ s[i] # head /\ s[i] \in Place
  BY ListAssumption DEF Place
<1>4. pv[head] = Nth(s, L) /\ \A i \in 0 .. L + 1 : Nth(s, i) \in Place /\ Nth(s, i) # n
  <2>1. Nth(s, L + 1) = head
    BY <1>1 DEF Nth
  <2>2. pv[Nth(s, L + 1)] = Nth(s, L)
    BY <1>1 DEF IsRing
  <2>3. QED
    BY <2>1, <2>2, <1>1, <1>3 DEF Nth
<1>5. /\ Nth(t, L + 1) = n /\ Nth(t, L + 2) = head
      /\ \A i \in 0 .. L : Nth(t, i) = Nth(s, i)
  BY <1>1 DEF Nth
<1>6. ASSUME NEW i \in 0 .. Len(t)
      PROVE  nx2[Nth(t, i)] = Nth(t, i + 1)
  <2>1. CASE i = L + 1
    BY <2>1, <1>1, <1>3, <1>4, <1>5
  <2>2. CASE i = L
    BY <2>2, <1>1, <1>3, <1>4, <1>5
  <2>3. CASE i < L
    <3>1. i \in 0 .. L - 1
      BY <2>3, <1>1
    <3>2. nx[Nth(s, i)] = Nth(s, i + 1)
      BY <3>1, <1>1 DEF IsRing
    <3>3. Nth(t, i) = Nth(s, i) /\ Nth(t, i + 1) = Nth(s, i + 1)
      BY <3>1, <1>1, <1>5
    <3>4. Nth(s, i) \in Place /\ Nth(s, i) # n /\ Nth(s, i) # Nth(s, L)
      BY <3>1, <1>1, <1>3, <1>4 DEF Nth, Distinct
    <3>5. QED
      BY <3>2, <3>3, <3>4, <1>4
  <2>4. QED
    BY <2>1, <2>2, <2>3, <1>1
<1>7. ASSUME NEW i \in 0 .. Len(t)
      PROVE  pv2[Nth(t, i + 1)] = Nth(t, i)
  <2>1. CASE i = L + 1
    BY <2>1, <1>1, <1>3, <1>4, <1>5
  <2>2. CASE i = L
    BY <2>2, <1>1, <1>3, <1>4, <1>5
  <2>3. CASE i < L
    <3>1. i \in 0 .. L - 1
      BY <2>3, <1>1
    <3>2. pv[Nth(s, i + 1)] = Nth(s, i)
      BY <3>1, <1>1 DEF IsRing
    <3>3. Nth(t, i) = Nth(s, i) /\ Nth(t, i + 1) = Nth(s, i + 1)
      BY <3>1, <1>1, <1>5
    <3>4. Nth(s, i + 1) \in Place /\ Nth(s, i + 1) # n /\ Nth(s, i + 1) # head
      BY <3>1, <1>1, <1>3, <1>4 DEF Nth
    <3>5. QED
      BY <3>2, <3>3, <3>4
  <2>4. QED
    BY <2>1, <2>2, <2>3, <1>1
<1>8. QED
  BY <1>1, <1>2, <1>6, <1>7 DEF IsRing

(* What is left of a sequence without its element k.                        *)
LEMMA WithoutElements ==
  ASSUME NEW S, NEW s \in Seq(S), NEW k \in 1 .. Len(s)
  PROVE  /\ Without(s, k) \in Seq(S)
         /\ Len(Without(s, k)) = Len(s) - 1
         /\ \A i \in 1 .. Len(s) - 1 : /\ i < k => Without(s, k)[i] = s[i]
                                       /\ i >= k => Without(s, k)[i] = s[i + 1]
<1> DEFINE a == SubSeq(s, 1, k - 1)
           b == SubSeq(s, k + 1, Len(s))
<1>1. Len(s) \in Nat /\ k \in Nat /\ 1 <= k /\ k <= Len(s)
  OBVIOUS
<1>2. /\ a \in Seq(S) /\ Len(a) = k - 1
      /\ \A i \in 1 .. k - 1 : a[i] = s[i]
  BY <1>1
<1>3. /\ b \in Seq(S) /\ Len(b) = Len(s) - k
      /\ \A i \in 1 .. Len(s) - k : b[i] = s[i + k]
  BY <1>1
<1>4. /\ a \o b \in Seq(S) /\ Len(a \o b) = Len(s) - 1
      /\ \A i \in 1 .. Len(s) - 1 : /\ i < k => (a \o b)[i] = a[i]
                                    /\ i >= k => (a \o b)[i] = b[i - (k - 1)]
  <2> HIDE DEF a, b
  <2>1. /\ a \o b \in Seq(S) /\ Len(a \o b) = Len(a) + Len(b)
        /\ \A i \in 1 .. Len(a) + Len(b) :
             (a \o b)[i] = IF i <= Len(a) THEN a[i] ELSE b[i - Len(a)]
    BY <1>2, <1>3, ConcatProperties
  <2>2. QED
    BY <2>1, <1>1, <1>2, <1>3
<1>5. ASSUME NEW i \in 1 .. Len(s) - 1
      PROVE  /\ i < k => (a \o b)[i] = s[i]
             /\ i >= k => (a \o b)[i] = s[i + 1]
  <2> HIDE DEF a, b
  <2>1. CASE i < k
    BY <2>1, <1>1, <1>2, <1>4
  <2>2. CASE i >= k
    <3>1. i - (k - 1) \in 1 .. Len(s) - k /\ i - (k - 1) + k = i + 1 /\ ~(i < k)
      BY <2>2, <1>1
    <3>2. b[i - (k - 1)] = s[i - (k - 1) + k]
      BY <3>1, <1>3
    <3>3. (a \o b)[i] = b[i - (k - 1)]
      BY <2>2, <1>4
    <3>4. (a \o b)[i] = s[i + 1]
      BY <3>1, <3>2, <3>3
    <3>5. QED
      BY <3>1, <3>4
  <2>3. QED
    BY <2>1, <2>2, <1>1
<1>6. QED
  BY <1>4, <1>5 DEF Without

(* All nodes but the one taken out stay, each once.                         *)
LEMMA RemoveNodes ==
  ASSUME NEW s \in Seq(Node), Distinct(s), NEW k \in 1 .. Len(s)
  PROVE  /\ Without(s, k) \in Seq(Node)
         /\ Distinct(Without(s, k))
         /\ \A i \in 1 .. Len(Without(s, k)) : Without(s, k)[i] # s[k]
         /\ \A i \in 1 .. Len(Without(s, k)) : \E j \in 1 .. Len(s) : Without(s, k)[i] = s[j]
         /\ \A j \in 1 .. Len(s) : s[j] # s[k] => \E i \in 1 .. Len(Without(s, k)) : Without(s, k)[i] = s[j]
<1> DEFINE t == Without(s, k)
           L == Len(s)
<1>1. /\ L \in Nat /\ k \in 1 .. L
      /\ t \in Seq(Node) /\ Len(t) = L - 1
      /\ \A i \in 1 .. L - 1 : /\ i < k => t[i] = s[i]
                               /\ i >= k => t[i] = s[i + 1]
  <2>1. L \in Nat /\ k \in 1 .. L
    OBVIOUS
  <2>2. /\ t \in Seq(Node) /\ Len(t) = L - 1
        /\ \A i \in 1 .. L - 1 : (i < k => t[i] = s[i]) /\ (i >= k => t[i] = s[i + 1])
    <3> HIDE DEF L
    <3>1. QED
      BY WithoutElements DEF L
  <2>3. QED
    BY <2>1, <2>2
<1>2. Distinct(t)
  <2> SUFFICES ASSUME NEW i \in 1 .. Len(t), NEW j \in 1 .. Len(t), t[i] = t[j]
               PROVE  i = j
    BY DEF Distinct
  <2> DEFINE f(l) == IF l < k THEN l ELSE l + 1
  <2>1. f(i) \in 1 .. L /\ f(j) \in 1 .. L /\ t[i] = s[f(i)] /\ t[j] = s[f(j)]
    BY <1>1
  <2>2. f(i) = f(j)
    BY <2>1 DEF Distinct
  <2>3. QED
    BY <2>2, <1>1
<1>3. \A i \in 1 .. Len(t) : t[i] # s[k] /\ \E j \in 1 .. L : t[i] = s[j]
  BY <1>1 DEF Distinct
<1>4. ASSUME NEW j \in 1 .. L, s[j] # s[k]
      PROVE  \E i \in 1 .. Len(t) : t[i] = s[j]
  <2>1. CASE j < k
    BY <2>1, <1>1
  <2>2. CASE j > k
    <3>1. j - 1 \in 1 .. Len(t) /\ t[j - 1] = s[j]
      BY <2>2, <1>1
    <3>2. QED
      BY <3>1
  <2>3. QED
    BY <2>1, <2>2, <1>1, <1>4
<1>5. QED
  BY <1>1, <1>2, <1>3, <1>4

(* Taking a node out (llist.c:84-85) joins its two neighbours.              *)
LEMMA RingRemove ==
  ASSUME NEW s \in Seq(Node), NEW nx \in [Place -> Ptr], NEW pv \in [Place -> Ptr],
         IsRing(s, nx, pv), Distinct(s), NEW k \in 1 .. Len(s), NEW c, c = s[k]
  PROVE  IsRing(Without(s, k), [nx EXCEPT ![pv[c]] = nx[c], ![c] = Junk],
                               [pv EXCEPT ![nx[c]] = pv[c], ![c] = Junk])
<1> DEFINE t == Without(s, k)
           L == Len(s)
           nx2 == [nx EXCEPT ![pv[c]] = nx[c], ![c] = Junk]
           pv2 == [pv EXCEPT ![nx[c]] = pv[c], ![c] = Junk]
<1>1. /\ L \in Nat /\ k \in 1 .. L
      /\ t \in Seq(Node) /\ Len(t) = L - 1
      /\ \A i \in 1 .. L - 1 : /\ i < k => t[i] = s[i]
                               /\ i >= k => t[i] = s[i + 1]
  <2>1. L \in Nat /\ k \in 1 .. L
    OBVIOUS
  <2>2. /\ t \in Seq(Node) /\ Len(t) = L - 1
        /\ \A i \in 1 .. L - 1 : (i < k => t[i] = s[i]) /\ (i >= k => t[i] = s[i + 1])
    <3> HIDE DEF L
    <3>1. QED
      BY WithoutElements DEF L
  <2>3. QED
    BY <2>1, <2>2
<1>5. /\ c \in Node /\ c # head /\ c \in Place /\ head \in Place
      /\ \A i \in 1 .. L : s[i] \in Node /\ s[i] # head /\ s[i] \in Place
  BY <1>1, ListAssumption DEF Place
<1>6. /\ nx[c] = Nth(s, k + 1) /\ pv[c] = Nth(s, k - 1)
      /\ \A i \in 0 .. L + 1 : Nth(s, i) \in Place
      /\ \A i \in 0 .. L + 1 : Nth(s, i) = c => i = k
  <2>1. nx[Nth(s, k)] = Nth(s, k + 1)
    BY <1>1 DEF IsRing
  <2>2. k - 1 \in 0 .. L /\ (k - 1) + 1 = k
    BY <1>1
  <2>3. pv[Nth(s, (k - 1) + 1)] = Nth(s, k - 1)
    BY <2>2 DEF IsRing
  <2>4. Nth(s, k) = c
    BY <1>1 DEF Nth
  <2>5. \A i \in 0 .. L + 1 : Nth(s, i) \in Place /\ (Nth(s, i) = c => i = k)
    BY <1>1, <1>5 DEF Nth, Distinct
  <2>6. QED
    BY <2>1, <2>2, <2>3, <2>4, <2>5
<1>7. \A i \in 0 .. L : /\ i < k => Nth(t, i) = Nth(s, i)
                        /\ i >= k => Nth(t, i) = Nth(s, i + 1)
  BY <1>1 DEF Nth
<1>8. \A i, j \in 0 .. L : Nth(s, i) = Nth(s, j) => i = j
  BY <1>1, <1>5 DEF Nth, Distinct
<1>9. \A i, j \in 1 .. L + 1 : Nth(s, i) = Nth(s, j) => i = j
  BY <1>1, <1>5 DEF Nth, Distinct
<1>10. ASSUME NEW i \in 0 .. Len(t)
       PROVE  nx2[Nth(t, i)] = Nth(t, i + 1)
  <2>1. CASE i < k - 1
    <3>1. i \in 0 .. L /\ i + 1 \in 0 .. L /\ i + 1 < k /\ i < k /\ k - 1 \in 0 .. L
      BY <2>1, <1>1
    <3>2. Nth(t, i) = Nth(s, i) /\ Nth(t, i + 1) = Nth(s, i + 1)
      BY <3>1, <1>7
    <3>3. nx[Nth(s, i)] = Nth(s, i + 1)
      BY <3>1 DEF IsRing
    <3>4. Nth(s, i) # c /\ Nth(s, i) # pv[c] /\ Nth(s, i) \in Place
      BY <3>1, <2>1, <1>1, <1>6, <1>8
    <3>5. QED
      BY <3>2, <3>3, <3>4
  <2>2. CASE i = k - 1
    <3>1. i \in 0 .. L /\ i + 1 \in 0 .. L /\ ~(i + 1 < k) /\ i < k /\ i + 2 = k + 1
      BY <2>2, <1>1
    <3>2. Nth(t, i) = pv[c] /\ Nth(t, i + 1) = nx[c]
      BY <3>1, <2>2, <1>1, <1>6, <1>7
    <3>3. pv[c] # c /\ pv[c] \in Place
      BY <3>1, <2>2, <1>1, <1>6
    <3>4. QED
      BY <3>2, <3>3
  <2>3. CASE i >= k
    <3>1. i \in 0 .. L /\ i + 1 \in 0 .. L /\ ~(i < k) /\ ~(i + 1 < k) /\ k - 1 \in 0 .. L
      BY <2>3, <1>1
    <3>2. Nth(t, i) = Nth(s, i + 1) /\ Nth(t, i + 1) = Nth(s, i + 2)
      BY <3>1, <1>7
    <3>3. nx[Nth(s, i + 1)] = Nth(s, i + 2)
      BY <3>1 DEF IsRing
    <3>4. Nth(s, i + 1) # c /\ Nth(s, i + 1) # pv[c] /\ Nth(s, i + 1) \in Place
      BY <3>1, <2>3, <1>1, <1>6, <1>8
    <3>5. QED
      BY <3>2, <3>3, <3>4
  <2>4. QED
    BY <2>1, <2>2, <2>3, <1>1
<1>11. ASSUME NEW i \in 0 .. Len(t)
       PROVE  pv2[Nth(t, i + 1)] = Nth(t, i)
  <2>1. CASE i < k - 1
    <3>1. i \in 0 .. L /\ i + 1 \in 1 .. L /\ i + 1 < k /\ i < k /\ k + 1 \in 1 .. L + 1
      BY <2>1, <1>1
    <3>2. Nth(t, i) = Nth(s, i) /\ Nth(t, i + 1) = Nth(s, i + 1)
      BY <3>1, <1>7
    <3>3. pv[Nth(s, i + 1)] = Nth(s, i)
      BY <3>1 DEF IsRing
    <3>4. Nth(s, i + 1) # c /\ Nth(s, i + 1) # nx[c] /\ Nth(s, i + 1) \in Place
      BY <3>1, <2>1, <1>1, <1>6, <1>9
    <3>5. QED
      BY <3>2, <3>3, <3>4
  <2>2. CASE i = k - 1
    <3>1. i \in 0 .. L /\ i + 1 \in 0 .. L /\ ~(i + 1 < k) /\ i < k /\ i + 2 = k + 1
      BY <2>2, <1>1
    <3>2. Nth(t, i) = pv[c] /\ Nth(t, i + 1) = nx[c]
      BY <3>1, <2>2, <1>1, <1>6, <1>7
    <3>3. nx[c] # c /\ nx[c] \in Place
      BY <3>1, <2>2, <1>1, <1>6
    <3>4. QED
      BY <3>2, <3>3
  <2>3. CASE i >= k
    <3>1. /\ i \in 0 .. L /\ i + 1 \in 0 .. L /\ ~(i < k) /\ ~(i + 1 < k)
          /\ i + 2 \in 1 .. L + 1 /\ k + 1 \in 1 .. L + 1 /\ (i + 1) + 1 = i + 2
      BY <2>3, <1>1
    <3>2. Nth(t, i) = Nth(s, i + 1) /\ Nth(t, i + 1) = Nth(s, i + 2)
      BY <3>1, <1>7
    <3>3. pv[Nth(s, i + 2)] = Nth(s, i + 1)
      BY <3>1 DEF IsRing
    <3>4. Nth(s, i + 2) # c /\ Nth(s, i + 2) # nx[c] /\ Nth(s, i + 2) \in Place
      BY <3>1, <2>3, <1>1, <1>6, <1>9
    <3>5. QED
      BY <3>2, <3>3, <3>4
  <2>4. QED
    BY <2>1, <2>2, <2>3, <1>1
<1>12. QED
  BY <1>1, <1>10, <1>11 DEF IsRing
-----------------------------------------------------------------------------
(* The inductive invariant: the ring; what the heap holds; and where the    *)
(* running loop stands, with what it has established so far.                *)
RingInv == /\ Distinct(order)
           /\ life = "live" /\ call # "destroy" => IsRing(order, next, prve)
           /\ life # "live" => order = <<>>
HeapInv == /\ \A i \in 1 .. Len(order) : order[i] \in heap
           /\ \A n \in heap : /\ data[n] \in Item
                              /\ next[n] = Junk \/ \E i \in 1 .. Len(order) : order[i] = n
           /\ \A n \in Node \ heap : next[n] = Junk
Reached(j) ==
  /\ cur = Nth(order, j)
  /\ call = "travel" => /\ Len(printed) = j - 1
                        /\ \A i \in 1 .. j - 1 : printed[i] = data[order[i]]
  /\ call # "travel" => \A i \in 1 .. j - 1 : ~Matches(key, data[order[i]])
LoopInv == /\ call = Idle => cur = head
           /\ call \notin {Idle, "destroy"} => \E j \in 1 .. Len(order) + 1 : Reached(j)
           /\ call = "destroy" =>
                /\ cur = Nth(order, 1)
                /\ \A i \in 1 .. Len(order) : next[order[i]] = Nth(order, i + 1)
IInv == TypeOK /\ RingInv /\ HeapInv /\ LoopInv

(* The names of the three loops are no names of look-ups.                   *)
LEMMA CallNames ==
  ASSUME api \in DOMAIN InsertOf
  PROVE  /\ \A op \in Lookups[api] : op \notin {Idle, "travel", "destroy"}
         /\ Keys[api] \subseteq Item \cup {Any}
  BY DEF InsertOf, Lookups, Keys, Idle

(* What every step may use: places are pointers, the head is no node, and   *)
(* Junk is neither.                                                         *)
LEMMA Places ==
  ASSUME TypeOK
  PROVE  /\ head \in Place /\ head \notin Node /\ Node \subseteq Place
         /\ Junk \notin Place /\ Place \subseteq Ptr /\ Junk \in Ptr
         /\ Len(order) \in Nat /\ DOMAIN order = 1 .. Len(order)
         /\ \A i \in 1 .. Len(order) : order[i] \in Node
         /\ \A i \in 0 .. Len(order) + 1 : Nth(order, i) \in Place
<1>1. /\ Len(order) \in Nat /\ DOMAIN order = 1 .. Len(order)
      /\ \A i \in 1 .. Len(order) : order[i] \in Node
  BY DEF TypeOK
<1>2. QED
  BY <1>1, ListAssumption DEF Place, Ptr, Nth

(* It holds at the start.                                                  *)
LEMMA InitInv == Init => IInv
<1> SUFFICES ASSUME Init PROVE IInv
  OBVIOUS
<1>1. TypeOK
  BY DEF Init, TypeOK, Place, Ptr, Idle
<1>2. Len(order) = 0
  BY DEF Init
<1>3. QED
  BY <1>1, <1>2 DEF Init, IInv, RingInv, HeapInv, LoopInv, Distinct, Place, Idle

(* llist_create (llist.c:9-22) makes the empty ring.                       *)
LEMMA CreateInv == ASSUME IInv, llist_create PROVE IInv'
<1> USE DEF IInv
<1>0. order = <<>> /\ Len(order) = 0
  BY DEF llist_create, RingInv
<1>1. TypeOK'
  BY Places DEF TypeOK, llist_create, loop, links
<1>2. RingInv'
  <2>1. CASE life' = "live"
    <3>1. next'[head] = head /\ prve'[head] = head
      BY <2>1, Places DEF llist_create, TypeOK
    <3>2. IsRing(order, next', prve')
      BY <3>1, <1>0 DEF IsRing, Nth
    <3>3. QED
      BY <2>1, <3>2, <1>0 DEF RingInv, llist_create
  <2>2. CASE life' # "live"
    BY <2>2, <1>0 DEF RingInv, llist_create
  <2>3. QED
    BY <2>1, <2>2
<1>3. HeapInv'
  <2>1. heap' = heap /\ order' = order /\ data' = data /\ \A n \in Node : next'[n] = next[n]
    BY Places DEF llist_create, TypeOK, links
  <2>2. heap \subseteq Node
    BY DEF TypeOK
  <2>3. QED
    BY <2>1, <2>2 DEF HeapInv
<1>4. LoopInv'
  <2>1. call = Idle
    BY DEF TypeOK, llist_create
  <2>2. QED
    BY <2>1 DEF llist_create, loop, LoopInv, Idle
<1>5. QED
  BY <1>1, <1>2, <1>3, <1>4

(* llist_insert (llist.c:24-52) keeps it, in either mode, with an unknown  
   mode and without memory.                                                *)
LEMMA InsertInv ==
  ASSUME IInv, NEW x \in Item, NEW mode \in Modes[api], llist_insert(x, mode)
  PROVE  IInv'
<1> USE DEF IInv
<1>0. /\ life = "live" /\ call = Idle /\ cur = head
      /\ api' = api /\ life' = life /\ call' = call /\ key' = key /\ cur' = cur
      /\ printed' = printed
      /\ call # "destroy" /\ IsRing(order, next, prve) /\ Distinct(order)
      /\ next \in [Place -> Ptr] /\ prve \in [Place -> Ptr]
      /\ order \in Seq(Node) /\ heap \subseteq Node /\ data \in [Node -> Item \cup {Junk}]
  BY DEF llist_insert, Calling, loop, RingInv, LoopInv, TypeOK, Idle
<1>1. LoopInv'
  BY <1>0 DEF LoopInv, Idle
<1>2. CASE UNCHANGED <<heap, data, links, order>>
  <2>1. TypeOK'
    BY <1>0, <1>2 DEF TypeOK, links
  <2>2. RingInv' /\ HeapInv'
    BY <1>0, <1>2 DEF RingInv, HeapInv, links
  <2>3. QED
    BY <1>1, <2>1, <2>2
<1>3. ASSUME NEW n \in Node \ heap, heap' = heap \cup {n}, data' = [data EXCEPT ![n] = x],
             \/ mode = "FORWARD" /\ Between(n, head, next[head]) /\ order' = <<n>> \o order
             \/ mode = "BACKWARD" /\ Between(n, Behind, head) /\ order' = Append(order, n)
             \/ mode = "other" /\ UNCHANGED <<links, order>>
      PROVE  IInv'
  <2>1. \A i \in 1 .. Len(order) : order[i] # n
    BY <1>3 DEF HeapInv
  <2>2. \A m \in Node : m # n => data'[m] = data[m]
    BY <1>0, <1>3
  <2>3. data'[n] = x /\ data' \in [Node -> Item \cup {Junk}] /\ heap' \subseteq Node
    BY <1>0, <1>3
  <2>4. /\ order' \in Seq(Node) /\ Distinct(order')
        /\ next' \in [Place -> Ptr] /\ prve' \in [Place -> Ptr]
        /\ IsRing(order', next', prve')
        /\ \A i \in 1 .. Len(order') : order'[i] \in heap'
        /\ \A i \in 1 .. Len(order) : \E j \in 1 .. Len(order') : order'[j] = order[i]
        /\ next'[n] = Junk \/ \E j \in 1 .. Len(order') : order'[j] = n
        /\ \A m \in Node : m # n => next'[m] = next[m] \/ \E i \in 1 .. Len(order) : order[i] = m
    <3>1. CASE mode = "FORWARD"
      <4>1. /\ next' = [next EXCEPT ![n] = next[head], ![head] = n]
            /\ prve' = [prve EXCEPT ![n] = head, ![next[head]] = n]
            /\ order' = <<n>> \o order
        BY <1>3, <3>1 DEF Between
      <4>2. order' \in Seq(Node) /\ Distinct(order') /\ IsRing(order', next', prve')
        BY <1>0, <1>3, <2>1, <4>1, RingPush
      <4>3. /\ Len(order') = Len(order) + 1 /\ order'[1] = n
            /\ \A i \in 1 .. Len(order) : order'[i + 1] = order[i] /\ i + 1 \in 1 .. Len(order')
            /\ \A i \in 2 .. Len(order') : order'[i] = order[i - 1] /\ i - 1 \in 1 .. Len(order)
        BY <1>0, <4>1
      <4>4. \A i \in 1 .. Len(order') : order'[i] \in heap'
        BY <1>0, <1>3, <4>3 DEF HeapInv
      <4>5. next' \in [Place -> Ptr] /\ prve' \in [Place -> Ptr]
        BY <1>0, <1>3, <4>1, Places
      <4>6. \A m \in Node : m # n => next'[m] = next[m]
        BY <1>0, <4>1, Places
      <4>7. 1 \in 1 .. Len(order')
        BY <1>0, <4>3
      <4>8. QED
        BY <4>2, <4>3, <4>4, <4>5, <4>6, <4>7
    <3>2. CASE mode = "BACKWARD"
      <4>1. /\ next' = [next EXCEPT ![n] = head, ![prve[head]] = n]
            /\ prve' = [prve EXCEPT ![n] = prve[head], ![head] = n]
            /\ order' = Append(order, n)
        BY <1>3, <3>2 DEF Between, Behind, LastNode
      <4>2. order' \in Seq(Node) /\ Distinct(order') /\ IsRing(order', next', prve')
        BY <1>0, <1>3, <2>1, <4>1, RingAppend
      <4>3. /\ Len(order') = Len(order) + 1 /\ order'[Len(order) + 1] = n
            /\ Len(order) + 1 \in 1 .. Len(order')
            /\ \A i \in 1 .. Len(order) : order'[i] = order[i] /\ i \in 1 .. Len(order')
        BY <1>0, <4>1
      <4>4. \A i \in 1 .. Len(order') : order'[i] \in heap'
        BY <1>0, <1>3, <4>3 DEF HeapInv
      <4>5. next' \in [Place -> Ptr] /\ prve' \in [Place -> Ptr]
        BY <1>0, <1>3, <4>1, Places
      <4>6. prve[head] = Nth(order, Len(order))
        <5>1. Len(order) \in Nat /\ Nth(order, Len(order) + 1) = head
          BY <1>0 DEF Nth
        <5>2. prve[Nth(order, Len(order) + 1)] = Nth(order, Len(order))
          BY <1>0, <5>1 DEF IsRing
        <5>3. QED
          BY <5>1, <5>2
      <4>7. ASSUME NEW m \in Node, m # n
            PROVE  next'[m] = next[m] \/ \E i \in 1 .. Len(order) : order[i] = m
        <5>1. CASE m = prve[head]
          BY <5>1, <4>6, Places DEF Nth
        <5>2. CASE m # prve[head]
          BY <5>2, <4>7, <4>1, <1>0, Places
        <5>3. QED
          BY <5>1, <5>2
      <4>8. QED
        BY <4>2, <4>3, <4>4, <4>5, <4>7
    <3>3. CASE mode = "other"
      <4>1. order' = order /\ next' = next /\ prve' = prve
        BY <1>3, <3>3, <1>0 DEF links, Modes
      <4>2. next[n] = Junk
        BY <1>3 DEF HeapInv
      <4>3. \A i \in 1 .. Len(order) : order[i] \in heap'
        BY <1>3 DEF HeapInv
      <4>4. QED
        BY <1>0, <4>1, <4>2, <4>3
    <3>4. QED
      BY <1>3, <3>1, <3>2, <3>3
  <2>5. TypeOK'
    BY <1>0, <2>3, <2>4 DEF TypeOK
  <2>6. RingInv'
    BY <1>0, <2>4 DEF RingInv
  <2>7. HeapInv'
    <3>1. ASSUME NEW m \in heap'
          PROVE  data'[m] \in Item /\ (next'[m] = Junk \/ \E j \in 1 .. Len(order') : order'[j] = m)
      <4>1. CASE m = n
        BY <4>1, <2>3, <2>4
      <4>2. CASE m # n
        <5>1. m \in heap /\ m \in Node
          BY <4>2, <3>1, <1>0, <1>3
        <5>2. data'[m] \in Item /\ (next[m] = Junk \/ \E i \in 1 .. Len(order) : order[i] = m)
          <6>1. data'[m] = data[m]
            BY <5>1, <4>2, <2>2
          <6>2. data[m] \in Item /\ (next[m] = Junk \/ \E i \in 1 .. Len(order) : order[i] = m)
            BY <5>1 DEF HeapInv
          <6>3. QED
            BY <6>1, <6>2
        <5>3. QED
          BY <5>1, <5>2, <4>2, <2>4
      <4>3. QED
        BY <4>1, <4>2
    <3>2. ASSUME NEW m \in Node \ heap'
          PROVE  next'[m] = Junk
      <4>1. m # n /\ m \in Node \ heap
        BY <3>2, <1>3
      <4>2. next[m] = Junk /\ \A i \in 1 .. Len(order) : order[i] # m
        BY <4>1 DEF HeapInv
      <4>3. QED
        BY <4>1, <4>2, <2>4
    <3>3. QED
      BY <3>1, <3>2, <2>4 DEF HeapInv
  <2>8. QED
    BY <1>1, <2>5, <2>6, <2>7
<1>4. \/ UNCHANGED <<heap, data, links, order>>
      \/ \E n \in Node \ heap :
           /\ heap' = heap \cup {n} /\ data' = [data EXCEPT ![n] = x]
           /\ \/ mode = "FORWARD" /\ Between(n, head, next[head]) /\ order' = <<n>> \o order
              \/ mode = "BACKWARD" /\ Between(n, Behind, head) /\ order' = Append(order, n)
              \/ mode = "other" /\ UNCHANGED <<links, order>>
  <2> HIDE DEF IInv
  <2>1. QED
    BY DEF llist_insert
<1>5. QED
  BY <1>2, <1>3, <1>4

(* The entry of a loop.                                                     *)
LEMMA EnterInv ==
  ASSUME IInv, Calling, NEW op \in Lookups[api] \cup {"travel", "destroy"},
         NEW k \in Item \cup {Any}, Enter(op, k),
         UNCHANGED <<api, life, heap, links, data, order>>
  PROVE  IInv'
<1> USE DEF IInv
<1>0. /\ life = "live" /\ call = Idle
      /\ call' = op /\ key' = k /\ cur' = next[head] /\ printed' = <<>>
      /\ api' = api /\ life' = life /\ heap' = heap /\ next' = next /\ prve' = prve
      /\ data' = data /\ order' = order
  BY DEF Calling, Enter, Start, StartAtFirst, links
<1>1. IsRing(order, next, prve) /\ op # Idle /\ call # "destroy"
  BY <1>0, CallNames DEF RingInv, TypeOK, Idle
<1>2. next[head] = Nth(order, 1) /\ Nth(order, 1) \in Place /\ 1 \in 1 .. Len(order) + 1
  <2>1. Len(order) \in Nat /\ Nth(order, 0) = head
    BY Places DEF Nth
  <2>2. next[Nth(order, 0)] = Nth(order, 0 + 1)
    BY <1>1, <2>1 DEF IsRing
  <2>3. QED
    BY <2>1, <2>2, Places
<1>3. TypeOK'
  BY <1>0, <1>2 DEF TypeOK
<1>4. RingInv' /\ HeapInv'
  BY <1>0, <1>1 DEF RingInv, HeapInv
<1>5. LoopInv'
  <2>1. Reached(1)'
    BY <1>0, <1>2 DEF Reached
  <2>2. \A i \in 1 .. Len(order) : next[order[i]] = Nth(order, i + 1)
    <3> SUFFICES ASSUME NEW i \in 1 .. Len(order)
                 PROVE  next[order[i]] = Nth(order, i + 1)
      OBVIOUS
    <3>1. i \in 0 .. Len(order) /\ Nth(order, i) = order[i]
      BY Places DEF Nth
    <3>2. QED
      BY <3>1, <1>1 DEF IsRing
  <2>3. QED
    BY <2>1, <2>2, <1>0, <1>1, <1>2 DEF LoopInv
<1>6. QED
  BY <1>3, <1>4, <1>5

(* The end of one.                                                          *)
LEMMA ReturnInv ==
  ASSUME IInv, Return, call # "destroy", UNCHANGED <<api, life, heap, links, data, order>>
  PROVE  IInv'
<1> USE DEF IInv
<1>0. /\ call' = Idle /\ key' = Any /\ cur' = head /\ printed' = <<>>
      /\ api' = api /\ life' = life /\ heap' = heap /\ next' = next /\ prve' = prve
      /\ data' = data /\ order' = order
  BY DEF Return, links
<1>1. TypeOK'
  BY <1>0, Places DEF TypeOK, Idle
<1>2. RingInv' /\ HeapInv'
  BY <1>0 DEF RingInv, HeapInv, Idle
<1>3. LoopInv'
  BY <1>0 DEF LoopInv, Idle
<1>4. QED
  BY <1>1, <1>2, <1>3

(* A loop that is not a destruction and has not come back to the head       *)
(* stands on a node of the ring, in the heap, and the next place is next.   *)
LEMMA OnNode ==
  ASSUME IInv, call \notin {Idle, "destroy"}, NEW j \in 1 .. Len(order) + 1, Reached(j),
         cur # head
  PROVE  /\ j \in 1 .. Len(order) /\ cur = order[j] /\ cur \in Node /\ cur \in heap
         /\ data[cur] \in Item
         /\ next[cur] = Nth(order, j + 1) /\ next[cur] \in Place
         /\ prve[cur] = Nth(order, j - 1) /\ prve[cur] \in Place
         /\ IsRing(order, next, prve)
<1>1. IsRing(order, next, prve) /\ TypeOK
  BY DEF IInv, RingInv, TypeOK
<1>2. Len(order) \in Nat
  BY <1>1, Places
<1>3. j \in 1 .. Len(order) /\ cur = order[j]
  BY <1>2 DEF Reached, Nth
<1>4. cur \in Node /\ cur \in heap /\ data[cur] \in Item
  BY <1>1, <1>3, Places DEF IInv, HeapInv
<1>5. next[cur] = Nth(order, j + 1)
  BY <1>1, <1>2, <1>3 DEF IsRing, Nth
<1>6. prve[cur] = Nth(order, j - 1)
  <2>1. j - 1 \in 0 .. Len(order) /\ (j - 1) + 1 = j /\ Nth(order, j) = cur
    BY <1>2, <1>3 DEF Nth
  <2>2. prve[Nth(order, (j - 1) + 1)] = Nth(order, j - 1)
    BY <1>1, <2>1 DEF IsRing
  <2>3. QED
    BY <2>1, <2>2
<1>7. Nth(order, j + 1) \in Place /\ Nth(order, j - 1) \in Place
  BY <1>1, <1>2, <1>3, Places
<1>8. QED
  BY <1>1, <1>3, <1>4, <1>5, <1>6, <1>7

(* A turn of the loop in find_ (llist.c:58-62) goes to the next node.      *)
LEMMA FindStepInv == ASSUME IInv, FindStep PROVE IInv'
<1>0. /\ call \in Lookups[api] /\ cur # head /\ ~Matches(key, data[cur]) /\ cur' = next[cur]
      /\ api' = api /\ life' = life /\ heap' = heap /\ next' = next /\ prve' = prve
      /\ data' = data /\ order' = order /\ call' = call /\ key' = key /\ printed' = printed
  BY DEF FindStep, Looking, links
<1>1. call \notin {Idle, "travel", "destroy"} /\ TypeOK
  BY <1>0, CallNames DEF IInv, TypeOK
<1>2. PICK j \in 1 .. Len(order) + 1 : Reached(j)
  BY <1>1 DEF IInv, LoopInv
<1>3. /\ j \in 1 .. Len(order) /\ cur = order[j] /\ Len(order) \in Nat
      /\ next[cur] = Nth(order, j + 1) /\ next[cur] \in Place
  BY <1>0, <1>1, <1>2, OnNode, Places
<1>4. Reached(j + 1)' /\ j + 1 \in 1 .. Len(order) + 1
  BY <1>0, <1>1, <1>2, <1>3 DEF Reached
<1>5. TypeOK'
  BY <1>0, <1>1, <1>3 DEF TypeOK
<1>6. RingInv' /\ HeapInv'
  BY <1>0 DEF IInv, RingInv, HeapInv
<1>7. LoopInv'
  BY <1>0, <1>1, <1>4 DEF LoopInv
<1>8. QED
  BY <1>5, <1>6, <1>7 DEF IInv

(* A turn of llist_travel (llist.c:112-115), or its end.                   *)
LEMMA TravelStepInv == ASSUME IInv, TravelStep PROVE IInv'
<1>0. /\ call = "travel" /\ TypeOK
      /\ api' = api /\ life' = life /\ heap' = heap /\ next' = next /\ prve' = prve
      /\ data' = data /\ order' = order
  BY DEF TravelStep, links, IInv
<1>1. CASE cur # head
  <2>0. cur' = next[cur] /\ printed' = Append(printed, data[cur]) /\ call' = call /\ key' = key
    BY <1>1 DEF TravelStep
  <2>1. call \notin {Idle, "destroy"}
    BY <1>0 DEF Idle
  <2>2. PICK j \in 1 .. Len(order) + 1 : Reached(j)
    BY <2>1 DEF IInv, LoopInv
  <2>3. /\ j \in 1 .. Len(order) /\ cur = order[j] /\ Len(order) \in Nat
        /\ next[cur] = Nth(order, j + 1) /\ next[cur] \in Place /\ data[cur] \in Item
    BY <1>0, <1>1, <2>1, <2>2, OnNode, Places
  <2>4. printed \in Seq(Item) /\ Len(printed) = j - 1 /\ \A i \in 1 .. j - 1 : printed[i] = data[order[i]]
    BY <1>0, <2>2 DEF Reached, TypeOK
  <2>5. /\ printed' \in Seq(Item) /\ Len(printed') = j
        /\ \A i \in 1 .. j : printed'[i] = data[order[i]]
    BY <2>0, <2>3, <2>4
  <2>6. Reached(j + 1)' /\ j + 1 \in 1 .. Len(order) + 1
    BY <1>0, <2>0, <2>3, <2>5 DEF Reached
  <2>7. TypeOK'
    BY <1>0, <2>0, <2>3, <2>5 DEF TypeOK
  <2>8. RingInv' /\ HeapInv'
    BY <1>0, <2>0 DEF IInv, RingInv, HeapInv
  <2>9. LoopInv'
    BY <1>0, <2>0, <2>1, <2>6 DEF LoopInv
  <2>10. QED
    BY <2>7, <2>8, <2>9 DEF IInv
<1>2. CASE cur = head
  <2>1. Return /\ call # "destroy" /\ UNCHANGED <<api, life, heap, links, data, order>>
    BY <1>2 DEF TravelStep, links
  <2>2. QED
    BY <2>1, ReturnInv
<1>3. QED
  BY <1>1, <1>2

(* The node the loop stands on is the one Position finds.                   *)
LEMMA PositionIs ==
  ASSUME TypeOK, Distinct(order), NEW j \in 1 .. Len(order)
  PROVE  Position(order[j]) = j
<1>1. DOMAIN order = 1 .. Len(order)
  BY Places
<1>2. \E i \in DOMAIN order : order[i] = order[j]
  BY <1>1
<1>3. Position(order[j]) \in 1 .. Len(order) /\ order[Position(order[j])] = order[j]
  BY <1>1, <1>2 DEF Position
<1>4. QED
  BY <1>3 DEF Distinct

(* llist_fetch and llist_delete (llist.c:84-89) take the node out.         *)
LEMMA HitInv == ASSUME IInv, Hit PROVE IInv'
<1>0. /\ call \in Lookups[api] /\ cur # head /\ TypeOK
      /\ api' = api /\ life' = life /\ Return
  BY DEF Hit, Looking, IInv
<1>1. call \notin {Idle, "travel", "destroy"}
  BY <1>0, CallNames DEF TypeOK
<1>2. CASE UNCHANGED <<heap, data, links, order>>
  BY <1>0, <1>1, <1>2, ReturnInv DEF links
<1>3. CASE /\ next' = [next EXCEPT ![prve[cur]] = next[cur], ![cur] = Junk]
           /\ prve' = [BackPointers EXCEPT ![cur] = Junk]
           /\ Freed(cur)
           /\ order' = Without(order, Position(cur))
  <2>1. PICK j \in 1 .. Len(order) + 1 : Reached(j)
    BY <1>1 DEF IInv, LoopInv
  <2>2. /\ j \in 1 .. Len(order) /\ cur = order[j] /\ cur \in Node /\ cur \in heap
        /\ next[cur] \in Place /\ prve[cur] \in Place /\ prve[cur] = Nth(order, j - 1)
        /\ IsRing(order, next, prve) /\ Distinct(order)
        /\ next \in [Place -> Ptr] /\ prve \in [Place -> Ptr] /\ order \in Seq(Node)
    BY <1>0, <1>1, <2>1, OnNode DEF IInv, RingInv, TypeOK
  <2>3. order' = Without(order, j)
    BY <1>0, <1>3, <2>2, PositionIs
  <2>4. prve' = [prve EXCEPT ![next[cur]] = prve[cur], ![cur] = Junk]
    BY <1>3 DEF BackPointers, BothWays
  <2>5. /\ order' \in Seq(Node) /\ Distinct(order') /\ IsRing(order', next', prve')
        /\ \A i \in 1 .. Len(order') : order'[i] # cur
        /\ \A i \in 1 .. Len(order') : \E m \in 1 .. Len(order) : order'[i] = order[m]
        /\ \A m \in 1 .. Len(order) : order[m] # cur => \E i \in 1 .. Len(order') : order'[i] = order[m]
    <3>1. /\ Without(order, j) \in Seq(Node) /\ Distinct(Without(order, j))
          /\ \A i \in 1 .. Len(Without(order, j)) : Without(order, j)[i] # order[j]
          /\ \A i \in 1 .. Len(Without(order, j)) :
               \E m \in 1 .. Len(order) : Without(order, j)[i] = order[m]
          /\ \A m \in 1 .. Len(order) : order[m] # order[j] =>
               \E i \in 1 .. Len(Without(order, j)) : Without(order, j)[i] = order[m]
      <4>1. order \in Seq(Node) /\ Distinct(order) /\ j \in 1 .. Len(order)
        BY <2>2
      <4>2. QED
        BY <4>1, RemoveNodes, Zenon
    <3>2. IsRing(Without(order, j), [next EXCEPT ![prve[cur]] = next[cur], ![cur] = Junk],
                                    [prve EXCEPT ![next[cur]] = prve[cur], ![cur] = Junk])
      BY <2>2, RingRemove
    <3>3. IsRing(order', next', prve')
      <4>1. next' = [next EXCEPT ![prve[cur]] = next[cur], ![cur] = Junk]
        BY <1>3
      <4>2. QED
        BY <2>3, <2>4, <3>2, <4>1, Zenon
    <3>4. cur = order[j]
      BY <2>2
    <3>5. QED
      BY <2>3, <3>1, <3>3, <3>4, Zenon
  <2>6. heap' = heap \ {cur} /\ data' = [data EXCEPT ![cur] = Junk]
    BY <1>3 DEF Freed
  <2>7. next' \in [Place -> Ptr] /\ prve' \in [Place -> Ptr] /\ next'[cur] = Junk
    <3>1. /\ cur \in Place /\ Junk \in Ptr /\ next[cur] \in Ptr /\ prve[cur] \in Ptr
      BY <1>0, <2>2, Places
    <3>2. next' \in [Place -> Ptr] /\ next'[cur] = Junk
      BY <1>3, <2>2, <3>1
    <3>3. prve' \in [Place -> Ptr]
      BY <2>2, <2>4, <3>1
    <3>4. QED
      BY <3>2, <3>3
  <2>8. ASSUME NEW m \in Node, m # cur
        PROVE  next'[m] = next[m] \/ \E i \in 1 .. Len(order) : order[i] = m
    <3>1. CASE m = prve[cur]
      BY <1>0, <2>2, <3>1, Places DEF Nth
    <3>2. CASE m # prve[cur]
      BY <1>0, <1>3, <2>2, <2>8, <3>2, Places
    <3>3. QED
      BY <3>1, <3>2
  <2>9. TypeOK'
    <3>1. call' = Idle /\ key' = Any /\ cur' = head /\ printed' = <<>> /\ head \in Place
      BY <1>0, Places DEF Return
    <3>2. heap' \subseteq Node /\ data' \in [Node -> Item \cup {Junk}]
      BY <1>0, <2>6 DEF TypeOK
    <3>3. QED
      BY <1>0, <2>5, <2>7, <3>1, <3>2 DEF TypeOK, Idle
  <2>10. RingInv'
    <3>1. life = "live"
      BY <1>0, <1>1 DEF TypeOK
    <3>2. QED
      BY <1>0, <2>5, <3>1 DEF RingInv
  <2>11. HeapInv'
    <3>1. \A i \in 1 .. Len(order') : order'[i] \in heap'
      BY <2>5, <2>6 DEF IInv, HeapInv
    <3>2. ASSUME NEW m \in heap'
          PROVE  data'[m] \in Item /\ (next'[m] = Junk \/ \E i \in 1 .. Len(order') : order'[i] = m)
      <4>1. m \in heap /\ m # cur /\ m \in Node
        BY <1>0, <2>6, <3>2 DEF TypeOK
      <4>2. data[m] \in Item /\ (next[m] = Junk \/ \E i \in 1 .. Len(order) : order[i] = m)
        BY <4>1 DEF IInv, HeapInv
      <4>3. data'[m] = data[m]
        BY <1>0, <2>6, <4>1 DEF TypeOK
      <4>4. CASE next[m] = Junk
        <5>1. CASE next'[m] = next[m]
          BY <4>2, <4>3, <4>4, <5>1
        <5>2. ASSUME NEW i \in 1 .. Len(order), order[i] = m
              PROVE  \E l \in 1 .. Len(order') : order'[l] = m
          BY <4>1, <5>2, <2>5
        <5>3. QED
          BY <4>1, <4>2, <4>3, <5>1, <5>2, <2>8
      <4>5. ASSUME NEW i \in 1 .. Len(order), order[i] = m
            PROVE  \E l \in 1 .. Len(order') : order'[l] = m
        BY <4>1, <4>5, <2>5
      <4>6. QED
        BY <4>2, <4>3, <4>4, <4>5
    <3>3. ASSUME NEW m \in Node \ heap'
          PROVE  next'[m] = Junk
      <4>1. CASE m = cur
        BY <4>1, <2>7
      <4>2. CASE m # cur
        <5>1. m \in Node \ heap
          BY <2>6, <3>3, <4>2
        <5>2. next[m] = Junk /\ \A i \in 1 .. Len(order) : order[i] # m
          BY <5>1 DEF IInv, HeapInv
        <5>3. QED
          BY <5>1, <5>2, <4>2, <2>8
      <4>3. QED
        BY <4>1, <4>2
    <3>4. QED
      BY <3>1, <3>2, <3>3 DEF HeapInv
  <2>12. LoopInv'
    BY <1>0 DEF LoopInv, Return, Idle
  <2>13. QED
    BY <2>9, <2>10, <2>11, <2>12 DEF IInv
<1>4. QED
  BY <1>2, <1>3 DEF Hit

(* A turn of llist_destroy (llist.c:124-128), or its end.                  *)
LEMMA DestroyStepInv == ASSUME IInv, DestroyStep PROVE IInv'
<1>0. /\ call = "destroy" /\ TypeOK /\ api' = api /\ life = "live"
      /\ cur = Nth(order, 1)
      /\ \A i \in 1 .. Len(order) : next[order[i]] = Nth(order, i + 1)
      /\ Distinct(order) /\ Len(order) \in Nat
      /\ next \in [Place -> Ptr] /\ prve \in [Place -> Ptr] /\ order \in Seq(Node)
      /\ \A i \in 1 .. Len(order) : order[i] \in Node
  BY Places DEF DestroyStep, IInv, LoopInv, RingInv, TypeOK, Idle
<1>1. CASE cur # head
  <2>1. /\ next' = [next EXCEPT ![cur] = Junk] /\ prve' = [prve EXCEPT ![cur] = Junk]
        /\ heap' = heap \ {cur} /\ data' = [data EXCEPT ![cur] = Junk]
        /\ cur' = next[cur] /\ order' = Tail(order)
        /\ life' = life /\ call' = call /\ key' = key /\ printed' = printed
    BY <1>1 DEF DestroyStep, Freed, Following, BeforeFree
  <2>2. 1 \in 1 .. Len(order) /\ cur = order[1] /\ cur \in Node /\ order # <<>>
    BY <1>0, <1>1 DEF Nth
  <2>3. /\ order' \in Seq(Node) /\ Len(order') = Len(order) - 1
        /\ \A i \in 1 .. Len(order') : order'[i] = order[i + 1] /\ i + 1 \in 1 .. Len(order)
    BY <1>0, <2>1, <2>2
  <2>4. Distinct(order') /\ \A i \in 1 .. Len(order') : order'[i] # cur /\ order'[i] \in Node
    <3>1. Distinct(order')
      <4> SUFFICES ASSUME NEW i \in 1 .. Len(order'), NEW l \in 1 .. Len(order'), order'[i] = order'[l]
                   PROVE  i = l
        BY DEF Distinct
      <4>1. i + 1 \in 1 .. Len(order) /\ l + 1 \in 1 .. Len(order) /\ order[i + 1] = order[l + 1]
        BY <2>3
      <4>2. i + 1 = l + 1
        BY <1>0, <4>1 DEF Distinct
      <4>3. QED
        BY <4>2, <1>0, <2>3
    <3>2. ASSUME NEW i \in 1 .. Len(order')
          PROVE  order'[i] # cur /\ order'[i] \in Node
      <4>1. i + 1 \in 1 .. Len(order) /\ order'[i] = order[i + 1] /\ i + 1 # 1
        BY <1>0, <2>3
      <4>2. QED
        BY <1>0, <2>2, <4>1 DEF Distinct
    <3>3. QED
      BY <3>1, <3>2
  <2>5. \A i \in 1 .. Len(order') + 1 : Nth(order', i) = Nth(order, i + 1)
    BY <1>0, <2>3 DEF Nth
  <2>6. cur' = Nth(order', 1) /\ cur' \in Place
    <3>1. next[cur] = Nth(order, 2)
      BY <1>0, <2>2
    <3>2. 1 \in 1 .. Len(order') + 1 /\ 2 \in 0 .. Len(order) + 1
      BY <1>0, <2>2, <2>3
    <3>3. QED
      BY <1>0, <2>1, <2>5, <3>1, <3>2, Places
  <2>7. /\ \A m \in Node : m # cur => next'[m] = next[m] /\ data'[m] = data[m]
        /\ next'[cur] = Junk
    BY <1>0, <2>1, <2>2, Places DEF TypeOK
  <2>8. TypeOK'
    BY <1>0, <2>1, <2>2, <2>3, <2>6, Places DEF TypeOK
  <2>9. RingInv'
    BY <1>0, <2>1, <2>4 DEF RingInv
  <2>10. HeapInv'
    <3>1. \A i \in 1 .. Len(order') : order'[i] \in heap'
      BY <2>1, <2>3, <2>4 DEF IInv, HeapInv
    <3>2. ASSUME NEW m \in heap'
          PROVE  data'[m] \in Item /\ (next'[m] = Junk \/ \E i \in 1 .. Len(order') : order'[i] = m)
      <4>1. m \in heap /\ m # cur /\ m \in Node
        BY <1>0, <2>1, <3>2 DEF TypeOK
      <4>2. data[m] \in Item /\ (next[m] = Junk \/ \E i \in 1 .. Len(order) : order[i] = m)
        BY <4>1 DEF IInv, HeapInv
      <4>3. CASE next[m] = Junk
        BY <4>1, <4>2, <4>3, <2>7
      <4>4. ASSUME NEW i \in 1 .. Len(order), order[i] = m
            PROVE  \E l \in 1 .. Len(order') : order'[l] = m
        <5>1. i # 1
          BY <4>1, <4>4, <2>2
        <5>2. i - 1 \in 1 .. Len(order') /\ (i - 1) + 1 = i
          BY <5>1, <1>0, <2>3
        <5>3. order'[i - 1] = m
          BY <5>2, <2>3, <4>4
        <5>4. QED
          BY <5>2, <5>3
      <4>5. QED
        BY <4>1, <4>2, <4>3, <4>4, <2>7
    <3>3. \A m \in Node \ heap' : next'[m] = Junk
      BY <2>1, <2>7 DEF IInv, HeapInv
    <3>4. QED
      BY <3>1, <3>2, <3>3 DEF HeapInv
  <2>11. LoopInv'
    <3>1. \A i \in 1 .. Len(order') : next'[order'[i]] = Nth(order', i + 1)
      <4> SUFFICES ASSUME NEW i \in 1 .. Len(order')
                   PROVE  next'[order'[i]] = Nth(order', i + 1)
        OBVIOUS
      <4>1. i + 1 \in 1 .. Len(order) /\ order'[i] = order[i + 1] /\ i + 1 \in 1 .. Len(order') + 1
        BY <1>0, <2>3
      <4>2. next[order[i + 1]] = Nth(order, (i + 1) + 1)
        BY <4>1, <1>0
      <4>3. QED
        BY <4>1, <4>2, <2>4, <2>5, <2>7
    <3>2. QED
      BY <1>0, <2>1, <2>6, <3>1 DEF LoopInv, Idle
  <2>12. QED
    BY <2>8, <2>9, <2>10, <2>11 DEF IInv
<1>2. CASE cur = head
  <2>1. /\ life' = "freed" /\ Return
        /\ heap' = heap /\ next' = next /\ prve' = prve /\ data' = data /\ order' = order
    BY <1>2 DEF DestroyStep, links
  <2>2. order = <<>>
    <3>1. ~(1 \in 1 .. Len(order))
      BY <1>0, <1>2, Places DEF Nth
    <3>2. Len(order) = 0
      BY <1>0, <3>1
    <3>3. QED
      BY <1>0, <3>2, EmptySeq
  <2>3. TypeOK'
    BY <1>0, <2>1, Places DEF TypeOK, Return, Idle
  <2>4. RingInv' /\ HeapInv'
    BY <2>1, <2>2 DEF IInv, RingInv, HeapInv
  <2>5. LoopInv'
    BY <2>1 DEF LoopInv, Return, Idle
  <2>6. QED
    BY <2>3, <2>4, <2>5 DEF IInv
<1>3. QED
  BY <1>1, <1>2

(* Every step keeps it.                                                    *)
LEMMA NextInv == IInv /\ [Next]_vars => IInv'
<1> SUFFICES ASSUME IInv, [Next]_vars PROVE IInv'
  OBVIOUS
<1>1. CASE llist_create
  BY <1>1, CreateInv
<1>2. ASSUME NEW x \in Item, NEW mode \in Modes[api], llist_insert(x, mode)
      PROVE  IInv'
  BY <1>2, InsertInv
<1>3. ASSUME NEW op \in Lookups[api], NEW k \in Keys[api], Lookup(op, k)
      PROVE  IInv'
  <2>1. k \in Item \cup {Any}
    BY CallNames DEF IInv, TypeOK
  <2>2. QED
    BY <1>3, <2>1, EnterInv DEF Lookup, links
<1>4. CASE FindStep
  BY <1>4, FindStepInv
<1>5. CASE Miss
  <2>1. call # "destroy"
    BY <1>5, CallNames DEF Miss, Looking, IInv, TypeOK
  <2>2. QED
    BY <1>5, <2>1, ReturnInv DEF Miss
<1>6. CASE Hit
  BY <1>6, HitInv
<1>7. CASE llist_travel \/ llist_destroy
  BY <1>7, EnterInv DEF llist_travel, llist_destroy
<1>8. CASE TravelStep
  BY <1>8, TravelStepInv
<1>9. CASE DestroyStep
  BY <1>9, DestroyStepInv
<1>10. CASE UNCHANGED vars
  BY <1>10 DEF vars, links, loop, IInv, TypeOK, RingInv, HeapInv, LoopInv, Reached
<1>11. QED
  BY <1>1, <1>2, <1>3, <1>4, <1>5, <1>6, <1>7, <1>8, <1>9, <1>10 DEF Next

(* So it always holds.                                                     *)
LEMMA AlwaysIInv == Spec => []IInv
  BY InitInv, NextInv, PTL DEF Spec

(* The types, for any memory.                                               *)
THEOREM ListTypeOK == Spec => []TypeOK
<1>1. IInv => TypeOK
  BY DEF IInv
<1>2. QED
  BY <1>1, AlwaysIInv, PTL

(* llist.c never tears the ring: after any sequence of insertions (24-52)   *)
(* and removals (77-106) next and prve run through the same nodes in        *)
(* opposite directions.                                                     *)
THEOREM RingStaysWhole == Spec => []Linked
<1>1. IInv => Linked
  <2> SUFFICES ASSUME IInv, life = "live", call # "destroy"
               PROVE  /\ \A i \in 0 .. Len(order) : next[At(i)] = At(i + 1) /\ prve[At(i + 1)] = At(i)
                      /\ \A i, j \in DOMAIN order : order[i] = order[j] => i = j
    BY DEF Linked
  <2>1. IsRing(order, next, prve) /\ Distinct(order) /\ DOMAIN order = 1 .. Len(order)
    BY Places DEF IInv, RingInv
  <2>2. QED
    BY <2>1 DEF IsRing, Distinct, At, Nth
<1>2. QED
  BY <1>1, AlwaysIInv, PTL

(* No loop of llist.c, that of llist_destroy (124-128) included, stands on  *)
(* a freed node, and only a call with an unknown mode (46) loses one.       *)
THEOREM NoFreedNodeTouched == Spec => []MemorySafe
<1>1. IInv => MemorySafe
  <2> SUFFICES ASSUME IInv PROVE MemorySafe
    OBVIOUS
  <2>1. DOMAIN order = 1 .. Len(order) /\ Len(order) \in Nat /\ TypeOK
    BY Places DEF IInv
  <2>2. /\ {order[i] : i \in DOMAIN order} \subseteq heap
        /\ \A n \in heap : next[n] = Junk \/ \E i \in DOMAIN order : order[i] = n
    BY <2>1 DEF IInv, HeapInv
  <2>3. cur \in heap \cup {head}
    <3>1. \A j \in 1 .. Len(order) + 1 : Nth(order, j) \in heap \cup {head}
      BY <2>1 DEF Nth, IInv, HeapInv
    <3>2. CASE call \notin {Idle, "destroy"}
      BY <3>1, <3>2 DEF IInv, LoopInv, Reached
    <3>3. CASE call \in {Idle, "destroy"}
      BY <2>1, <3>1, <3>3 DEF IInv, LoopInv
    <3>4. QED
      BY <3>2, <3>3
  <2>4. QED
    BY <2>2, <2>3 DEF MemorySafe
<1>2. QED
  BY <1>1, AlwaysIInv, PTL
-----------------------------------------------------------------------------
(* The list as the sequence of Deque.                                       *)
LEMMA SameValues ==
  ASSUME NEW S, NEW s \in Seq(S), NEW t \in Seq(S), Len(s) = Len(t),
         \A k \in 1 .. Len(s) : s[k] = t[k]
  PROVE  s = t
OBVIOUS

(* The contents are as many values as there are nodes.                      *)
LEMMA ContentsAre ==
  IInv => /\ Contents \in Seq(Item) /\ Len(Contents) = Len(order) /\ Len(order) \in Nat
          /\ DOMAIN Contents = 1 .. Len(order)
          /\ \A i \in 1 .. Len(order) : Contents[i] = data[order[i]]
<1> SUFFICES ASSUME IInv
             PROVE  /\ Contents \in Seq(Item) /\ Len(Contents) = Len(order) /\ Len(order) \in Nat
                    /\ DOMAIN Contents = 1 .. Len(order)
                    /\ \A i \in 1 .. Len(order) : Contents[i] = data[order[i]]
  OBVIOUS
<1>1. /\ Len(order) \in Nat /\ DOMAIN order = 1 .. Len(order)
      /\ \A i \in 1 .. Len(order) : data[order[i]] \in Item
  BY Places DEF IInv, HeapInv
<1>2. QED
  BY <1>1 DEF Contents

(* The same of the next state.                                             *)
LEMMA ContentsNext ==
  ASSUME IInv'
  PROVE  /\ Contents' \in Seq(Item) /\ Len(Contents') = Len(order') /\ Len(order') \in Nat
         /\ DOMAIN Contents' = 1 .. Len(order')
         /\ \A i \in 1 .. Len(order') : Contents'[i] = data'[order'[i]]
<1>1. (IInv => /\ Contents \in Seq(Item) /\ Len(Contents) = Len(order) /\ Len(order) \in Nat
               /\ DOMAIN Contents = 1 .. Len(order)
               /\ \A i \in 1 .. Len(order) : Contents[i] = data[order[i]])'
  BY ContentsAre, PTL
<1>2. QED
  BY <1>1

(* A step that touches neither nodes nor answer is no step of the sequence. *)
LEMMA Stutters ==
  ASSUME UNCHANGED <<life, data, order, answer>>, call = "destroy" <=> call' = "destroy"
  PROVE  UNCHANGED List!dequeVars
  BY DEF List!dequeVars, AbstractLife, AbstractItems, Contents

(* The list begins as Deque does.                                          *)
LEMMA ListInit == Init => List!Init
  BY DEF Init, List!Init, AbstractLife, AbstractItems, Answer, List!Answer, Idle

(* Creation is creation.                                                   *)
LEMMA CreateIsCreate == ASSUME IInv, llist_create PROVE List!Create
<1>1. /\ life = "none" /\ call # "destroy" /\ call' = call /\ order = <<>>
      /\ order' = order /\ data' = data
  BY DEF llist_create, loop, IInv, TypeOK, RingInv, Idle
<1>2. AbstractItems = <<>> /\ AbstractItems' = <<>>
  BY <1>1 DEF AbstractItems, AbstractLife, Contents
<1>3. QED
  BY <1>1, <1>2 DEF llist_create, List!Create, AbstractLife, Answer, List!Answer

(* An insertion adds the value at the end its mode names, or nothing.      *)
LEMMA InsertIsGrow ==
  ASSUME IInv, IInv', NEW x \in Item, NEW mode \in Modes[api], llist_insert(x, mode)
  PROVE  List!Grow(InsertOf[api], x)
<1>0. /\ life = "live" /\ call = Idle /\ life' = life /\ call' = call /\ api \in DOMAIN InsertOf
      /\ data \in [Node -> Item \cup {Junk}]
  BY DEF llist_insert, Calling, loop, IInv, TypeOK
<1>1. /\ AbstractLife = "live" /\ AbstractLife' = "live"
      /\ AbstractItems = Contents /\ AbstractItems' = Contents'
  BY <1>0 DEF AbstractLife, AbstractItems, Idle
<1>2. /\ Contents \in Seq(Item) /\ Len(Contents) = Len(order) /\ Len(order) \in Nat
      /\ \A i \in 1 .. Len(order) : Contents[i] = data[order[i]]
  BY ContentsAre
<1>3. /\ Contents' \in Seq(Item) /\ Len(Contents') = Len(order')
      /\ \A i \in 1 .. Len(order') : Contents'[i] = data'[order'[i]]
  BY ContentsNext
<1>4. \A i \in 1 .. Len(order) : order[i] \in heap /\ order[i] \in Node
  BY Places DEF IInv, HeapInv
<1>5. CASE UNCHANGED <<data, order>> /\ \E rc \in {-1, -3} : answer' = Answer(InsertOf[api], rc, <<>>)
  <2>1. Contents' = Contents
    BY <1>5 DEF Contents
  <2>2. QED
    BY <1>1, <1>5, <2>1 DEF List!Grow, Answer, List!Answer
<1>6. ASSUME NEW n \in Node \ heap, data' = [data EXCEPT ![n] = x],
             answer' = Answer(InsertOf[api], IF mode = "other" THEN -3 ELSE 0, <<>>),
             \/ mode = "FORWARD" /\ order' = <<n>> \o order
             \/ mode = "BACKWARD" /\ order' = Append(order, n)
             \/ mode = "other" /\ order' = order
      PROVE  List!Grow(InsertOf[api], x)
  <2>1. data'[n] = x /\ \A i \in 1 .. Len(order) : data'[order[i]] = data[order[i]]
    BY <1>0, <1>4, <1>6
  <2>2. CASE mode = "FORWARD"
    <3>1. InsertOf[api] \in {"insert", "push"}
      BY <1>0, <2>2 DEF InsertOf, Modes
    <3>2. order \in Seq(Node) /\ order' = <<n>> \o order
      BY <1>6, <2>2 DEF IInv, TypeOK
    <3>3. /\ Len(order') = Len(order) + 1 /\ order'[1] = n
          /\ \A i \in 2 .. Len(order) + 1 : order'[i] = order[i - 1] /\ i - 1 \in 1 .. Len(order)
      BY <3>2
    <3>4. /\ <<x>> \o Contents \in Seq(Item) /\ Len(<<x>> \o Contents) = Len(order) + 1
          /\ (<<x>> \o Contents)[1] = x
          /\ \A i \in 2 .. Len(order) + 1 : (<<x>> \o Contents)[i] = Contents[i - 1]
      BY <1>2
    <3>5. \A i \in 1 .. Len(order) + 1 : Contents'[i] = (<<x>> \o Contents)[i]
      <4> SUFFICES ASSUME NEW i \in 1 .. Len(order) + 1
                   PROVE  Contents'[i] = (<<x>> \o Contents)[i]
        OBVIOUS
      <4>1. CASE i = 1
        BY <1>2, <1>3, <2>1, <3>3, <3>4, <4>1
      <4>2. CASE i # 1
        <5>1. i \in 2 .. Len(order) + 1 /\ i - 1 \in 1 .. Len(order)
          BY <1>2, <4>2
        <5>2. Contents'[i] = data[order[i - 1]]
          BY <1>3, <2>1, <3>3, <5>1
        <5>3. QED
          BY <1>2, <3>4, <5>1, <5>2
      <4>3. QED
        BY <4>1, <4>2
    <3>6. Contents' = <<x>> \o Contents
      BY <1>3, <3>3, <3>4, <3>5, SameValues
    <3>7. QED
      BY <1>1, <1>6, <2>2, <3>1, <3>6 DEF List!Grow, Answer, List!Answer
  <2>3. CASE mode = "BACKWARD"
    <3>1. InsertOf[api] \in {"insert", "enqueue"}
      BY <1>0, <2>3 DEF InsertOf, Modes
    <3>2. order \in Seq(Node) /\ order' = Append(order, n)
      BY <1>6, <2>3 DEF IInv, TypeOK
    <3>3. /\ Len(order') = Len(order) + 1 /\ order'[Len(order) + 1] = n
          /\ \A i \in 1 .. Len(order) : order'[i] = order[i]
      BY <3>2
    <3>4. /\ Append(Contents, x) \in Seq(Item) /\ Len(Append(Contents, x)) = Len(order) + 1
          /\ Append(Contents, x)[Len(order) + 1] = x
          /\ \A i \in 1 .. Len(order) : Append(Contents, x)[i] = Contents[i]
      BY <1>2
    <3>5. \A i \in 1 .. Len(order) + 1 : Contents'[i] = Append(Contents, x)[i]
      <4> SUFFICES ASSUME NEW i \in 1 .. Len(order) + 1
                   PROVE  Contents'[i] = Append(Contents, x)[i]
        OBVIOUS
      <4>1. CASE i = Len(order) + 1
        BY <1>2, <1>3, <2>1, <3>3, <3>4, <4>1
      <4>2. CASE i # Len(order) + 1
        <5>1. i \in 1 .. Len(order)
          BY <1>2, <4>2
        <5>2. Contents'[i] = data[order[i]]
          BY <1>2, <1>3, <2>1, <3>3, <5>1
        <5>3. QED
          BY <1>2, <3>4, <5>1, <5>2
      <4>3. QED
        BY <4>1, <4>2
    <3>6. Contents' = Append(Contents, x)
      BY <1>3, <3>3, <3>4, <3>5, SameValues
    <3>7. QED
      BY <1>1, <1>6, <2>3, <3>1, <3>6 DEF List!Grow, Answer, List!Answer
  <2>4. CASE mode = "other"
    <3>1. order' = order
      BY <1>6, <2>4
    <3>2. Contents' = Contents
      BY <1>2, <1>3, <2>1, <3>1, SameValues
    <3>3. QED
      BY <1>1, <1>6, <2>4, <3>2 DEF List!Grow, Answer, List!Answer
  <2>5. QED
    BY <1>6, <2>2, <2>3, <2>4
<1>7. QED
  BY <1>5, <1>6 DEF llist_insert

(* The loop of find_ has come to the end without a match.                   *)
LEMMA MissIsMiss ==
  ASSUME IInv, Miss
  PROVE  List!Next /\ (call # "find" => List!TakeFirst(call, key))
<1>0. /\ call \in Lookups[api] /\ api \in DOMAIN InsertOf /\ cur = head /\ life = "live" /\ key \in Item \cup {Any}
      /\ life' = life /\ data' = data /\ order' = order /\ call' = Idle
      /\ answer' = Answer(call, -1, <<>>)
  BY CallNames DEF Miss, Looking, Return, IInv, TypeOK
<1>1. call \notin {Idle, "travel", "destroy"}
  BY <1>0, CallNames
<1>2. /\ AbstractLife = "live" /\ AbstractLife' = "live"
      /\ AbstractItems = Contents /\ AbstractItems' = Contents
  BY <1>0, <1>1 DEF AbstractLife, AbstractItems, Contents, Idle
<1>3. PICK j \in 1 .. Len(order) + 1 : Reached(j)
  BY <1>1 DEF IInv, LoopInv
<1>4. Len(order) \in Nat /\ \A i \in 1 .. Len(order) : order[i] # head
  BY Places DEF IInv
<1>5. j = Len(order) + 1
  BY <1>0, <1>3, <1>4 DEF Reached, Nth
<1>6. \A i \in 1 .. Len(order) : ~Matches(key, data[order[i]])
  BY <1>1, <1>3, <1>4, <1>5 DEF Reached
<1>7. List!NoMatch(key)
  BY <1>2, <1>6, ContentsAre DEF List!NoMatch, List!Matches, Matches
<1>8. call \in {"find", "fetch", "delete", "dequeue", "pop"}
  BY <1>0 DEF Lookups, InsertOf
<1>9. CASE call = "find"
  <2>1. List!Find(key)
    BY <1>0, <1>2, <1>7, <1>9 DEF List!Find, Answer, List!Answer
  <2>2. QED
    BY <1>0, <1>9, <2>1 DEF List!Next
<1>10. CASE call # "find"
  <2>1. List!TakeFirst(call, key)
    BY <1>0, <1>2, <1>7 DEF List!TakeFirst, Answer, List!Answer
  <2>2. QED
    BY <1>0, <1>8, <1>10, <2>1 DEF List!Next
<1>11. QED
  BY <1>9, <1>10

(* It stands on a match: the first.                                         *)
LEMMA HitIsFirst ==
  ASSUME IInv, IInv', Hit
  PROVE  List!Next /\ (call # "find" => List!TakeFirst(call, key))
<1>0. /\ call \in Lookups[api] /\ api \in DOMAIN InsertOf /\ cur # head /\ Matches(key, data[cur])
      /\ life = "live" /\ key \in Item \cup {Any} /\ life' = life /\ call' = Idle /\ TypeOK
      /\ answer' = Answer(call, 0, IF call = "delete" THEN <<>> ELSE <<data[cur]>>)
  BY CallNames DEF Hit, Looking, Return, IInv, TypeOK
<1>1. call \notin {Idle, "travel", "destroy"}
  BY <1>0, CallNames
<1>2. /\ AbstractLife = "live" /\ AbstractLife' = "live"
      /\ AbstractItems = Contents /\ AbstractItems' = Contents'
  BY <1>0, <1>1 DEF AbstractLife, AbstractItems, Idle
<1>3. PICK j \in 1 .. Len(order) + 1 : Reached(j)
  BY <1>1 DEF IInv, LoopInv
<1>4. /\ j \in 1 .. Len(order) /\ cur = order[j] /\ Len(order) \in Nat /\ cur \in Node
      /\ Distinct(order) /\ order \in Seq(Node)
  BY <1>0, <1>1, <1>3, OnNode, Places DEF IInv, RingInv, TypeOK
<1>c. /\ Contents \in Seq(Item) /\ Len(Contents) = Len(order) /\ DOMAIN Contents = 1 .. Len(order)
      /\ \A i \in 1 .. Len(order) : Contents[i] = data[order[i]]
  BY ContentsAre
<1>5. \A i \in 1 .. j - 1 : ~Matches(key, data[order[i]])
  BY <1>1, <1>3 DEF Reached
<1>6. /\ j \in DOMAIN AbstractItems /\ List!IsFirst(j, key)
      /\ Contents[j] = data[cur] /\ \A i \in 1 .. j - 1 : i \in 1 .. Len(order)
  BY <1>0, <1>2, <1>4, <1>5, <1>c DEF List!IsFirst, List!Matches, Matches
<1>7. call \in {"find", "fetch", "delete", "dequeue", "pop"}
  BY <1>0 DEF Lookups, InsertOf
<1>8. CASE call = "find"
  <2>1. data' = data /\ order' = order
    BY <1>8 DEF Hit
  <2>2. AbstractItems' = AbstractItems
    BY <1>2, <2>1 DEF Contents
  <2>3. ASSUME NEW i \in DOMAIN AbstractItems, List!IsFirst(i, key)
        PROVE  i = j
    <3>1. i \in 1 .. Len(order) /\ j \in 1 .. Len(order)
      BY <1>2, <1>4, <1>c, <2>3
    <3>2. ~(i < j)
      <4> SUFFICES ASSUME i < j PROVE FALSE
        OBVIOUS
      <4>1. i \in 1 .. j - 1
        BY <1>4, <3>1
      <4>2. QED
        BY <1>6, <2>3, <4>1 DEF List!IsFirst
    <3>3. ~(j < i)
      <4> SUFFICES ASSUME j < i PROVE FALSE
        OBVIOUS
      <4>1. j \in 1 .. i - 1
        BY <1>4, <3>1
      <4>2. QED
        BY <1>6, <2>3, <4>1 DEF List!IsFirst
    <3>4. QED
      BY <1>4, <3>1, <3>2, <3>3
  <2>4. (CHOOSE i \in DOMAIN AbstractItems : List!IsFirst(i, key)) = j
    BY <1>6, <2>3
  <2>5. ~List!NoMatch(key)
    BY <1>6 DEF List!NoMatch, List!IsFirst
  <2>6. List!Find(key)
    BY <1>0, <1>2, <1>6, <1>8, <2>2, <2>4, <2>5 DEF List!Find, Answer, List!Answer
  <2>7. QED
    BY <1>0, <1>8, <2>6 DEF List!Next
<1>9. CASE call # "find"
  <2>1. data' = [data EXCEPT ![cur] = Junk] /\ order' = Without(order, Position(cur))
    BY <1>9 DEF Hit, Freed
  <2>2. order' = Without(order, j)
    BY <1>0, <1>4, <2>1, PositionIs
  <2>3. /\ Len(order') = Len(order) - 1
        /\ \A i \in 1 .. Len(order) - 1 : (i < j => order'[i] = order[i]) /\ (i >= j => order'[i] = order[i + 1])
    BY <1>4, <2>2, WithoutElements
  <2>4. /\ Without(Contents, j) \in Seq(Item) /\ Len(Without(Contents, j)) = Len(order) - 1
        /\ \A i \in 1 .. Len(order) - 1 : (i < j => Without(Contents, j)[i] = Contents[i])
                                          /\ (i >= j => Without(Contents, j)[i] = Contents[i + 1])
    <3>1. Contents \in Seq(Item) /\ j \in 1 .. Len(Contents) /\ Len(Contents) = Len(order)
      BY <1>4, <1>c
    <3> HIDE DEF Contents
    <3>2. QED
      BY <3>1, WithoutElements
  <2>5. /\ Contents' \in Seq(Item) /\ Len(Contents') = Len(order')
        /\ \A i \in 1 .. Len(order') : Contents'[i] = data'[order'[i]]
    BY ContentsNext
  <2>6. ASSUME NEW i \in 1 .. Len(order) - 1
        PROVE  Contents'[i] = Without(Contents, j)[i]
    <3>1. /\ i \in 1 .. Len(order) /\ i + 1 \in 1 .. Len(order)
          /\ order[i] \in Node /\ order[i + 1] \in Node
      BY <1>4
    <3>2. CASE i < j
      <4>1. order[i] # cur
        BY <1>4, <3>1, <3>2 DEF Distinct
      <4>2. data'[order[i]] = data[order[i]]
        BY <1>0, <2>1, <3>1, <4>1 DEF TypeOK
      <4>3. QED
        BY <1>c, <2>3, <2>4, <2>5, <3>1, <3>2, <4>2
    <3>3. CASE i >= j
      <4>1. order[i + 1] # cur
        BY <1>4, <3>1, <3>3 DEF Distinct
      <4>2. data'[order[i + 1]] = data[order[i + 1]]
        BY <1>0, <2>1, <3>1, <4>1 DEF TypeOK
      <4>3. QED
        BY <1>c, <2>3, <2>4, <2>5, <3>1, <3>3, <4>2
    <3>4. QED
      BY <3>2, <3>3, <1>4
  <2>7. Contents' = Without(Contents, j)
    BY <2>3, <2>4, <2>5, <2>6, SameValues
  <2>8. AbstractItems' = List!Without(AbstractItems, j)
    BY <1>2, <2>7 DEF Without, List!Without
  <2>9. AbstractItems[j] = data[cur]
    BY <1>2, <1>6
  <2>10. List!TakeFirst(call, key)
    BY <1>0, <1>2, <1>6, <1>7, <2>8, <2>9 DEF List!TakeFirst, Answer, List!Answer
  <2>11. QED
    BY <1>0, <1>7, <1>9, <2>10 DEF List!Next
<1>10. QED
  BY <1>8, <1>9

(* llist_travel has handed over the whole contents when it returns.         *)
LEMMA TravelIsTravel ==
  ASSUME IInv, TravelStep
  PROVE  List!Travel \/ UNCHANGED List!dequeVars
<1>0. /\ call = "travel" /\ life = "live" /\ printed \in Seq(Item)
      /\ life' = life /\ data' = data /\ order' = order
  BY DEF TravelStep, IInv, TypeOK, Idle
<1>1. CASE cur # head
  BY <1>0, <1>1, Stutters DEF TravelStep
<1>2. CASE cur = head
  <2>1. call' = Idle /\ answer' = Answer("travel", 0, printed)
    BY <1>2 DEF TravelStep, Return
  <2>2. /\ AbstractLife = "live" /\ AbstractLife' = "live"
        /\ AbstractItems = Contents /\ AbstractItems' = Contents
    BY <1>0, <2>1 DEF AbstractLife, AbstractItems, Contents, Idle
  <2>3. PICK j \in 1 .. Len(order) + 1 : Reached(j)
    BY <1>0 DEF IInv, LoopInv, Idle
  <2>4. Len(order) \in Nat /\ \A i \in 1 .. Len(order) : order[i] # head
    BY Places DEF IInv
  <2>5. j = Len(order) + 1
    BY <1>2, <2>3, <2>4 DEF Reached, Nth
  <2>6. Len(printed) = Len(order) /\ \A i \in 1 .. Len(order) : printed[i] = data[order[i]]
    BY <1>0, <2>3, <2>4, <2>5 DEF Reached
  <2>7. printed = Contents
    BY <1>0, <2>6, ContentsAre, SameValues
  <2>8. List!Travel
    BY <2>1, <2>2, <2>7 DEF List!Travel, Answer, List!Answer
  <2>9. QED
    BY <2>8
<1>3. QED
  BY <1>1, <1>2

(* For the caller the list is gone when its destruction begins.            *)
LEMMA DestroyIsDestroy == ASSUME IInv, llist_destroy PROVE List!Destroy
<1>1. /\ life = "live" /\ call = Idle /\ call' = "destroy" /\ answer' = Answer("destroy", 0, <<>>)
  BY DEF llist_destroy, Calling, Enter
<1>2. QED
  BY <1>1 DEF List!Destroy, AbstractLife, AbstractItems, Answer, List!Answer, Idle

(* The turns of the loops are no steps of the sequence.                     *)
Quiet == \/ FindStep \/ llist_travel \/ DestroyStep \/ UNCHANGED vars
         \/ \E op \in Lookups[api], k \in Keys[api] : Lookup(op, k)

LEMMA QuietIsQuiet == ASSUME IInv, Quiet PROVE UNCHANGED List!dequeVars
<1>1. ASSUME NEW op \in Lookups[api], NEW k \in Keys[api], Lookup(op, k)
      PROVE  UNCHANGED List!dequeVars
  <2>1. call' = op /\ op # "destroy" /\ call = Idle
    BY <1>1, CallNames DEF Lookup, Enter, Calling, IInv, TypeOK
  <2>2. QED
    BY <1>1, <2>1, Stutters DEF Lookup, Idle
<1>2. CASE FindStep
  BY <1>2, Stutters DEF FindStep
<1>3. CASE llist_travel
  <2>1. call' = "travel" /\ call = Idle
    BY <1>3 DEF llist_travel, Enter, Calling
  <2>2. QED
    BY <1>3, <2>1, Stutters DEF llist_travel, Idle
<1>4. CASE DestroyStep
  <2>1. /\ AbstractLife = "freed" /\ AbstractLife' = "freed" /\ answer' = answer
    BY <1>4 DEF DestroyStep, AbstractLife, Return, Idle
  <2>2. QED
    BY <2>1 DEF List!dequeVars, AbstractItems
<1>5. CASE UNCHANGED vars
  BY <1>5, Stutters DEF vars, loop
<1>6. QED
  BY <1>1, <1>2, <1>3, <1>4, <1>5 DEF Quiet

(* Every step of the list is one of Deque, or none.                        *)
LEMMA ListStep == IInv /\ IInv' /\ [Next]_vars => [List!Next]_(List!dequeVars)
<1> SUFFICES ASSUME IInv, IInv', [Next]_vars
             PROVE  List!Next \/ UNCHANGED List!dequeVars
  OBVIOUS
<1>1. CASE llist_create
  BY <1>1, CreateIsCreate DEF List!Next
<1>2. ASSUME NEW x \in Item, NEW mode \in Modes[api], llist_insert(x, mode)
      PROVE  List!Next
  <2>1. InsertOf[api] \in {"insert", "push"} \cup {"insert", "enqueue"}
    BY DEF InsertOf, IInv, TypeOK
  <2>2. List!Grow(InsertOf[api], x)
    BY <1>2, InsertIsGrow
  <2>3. QED
    BY <2>1, <2>2 DEF List!Next
<1>3. CASE Quiet
  BY <1>3, QuietIsQuiet
<1>4. CASE Miss
  BY <1>4, MissIsMiss
<1>5. CASE Hit
  BY <1>5, HitIsFirst
<1>6. CASE TravelStep
  BY <1>6, TravelIsTravel DEF List!Next
<1>7. CASE llist_destroy
  BY <1>7, DestroyIsDestroy DEF List!Next
<1>8. QED
  BY <1>1, <1>2, <1>3, <1>4, <1>5, <1>6, <1>7 DEF Next, Quiet

(* For any memory and any values llist.c is the sequence of Deque: what is  *)
(* found or taken is the first match, what is inserted goes to the end its  *)
(* mode names, and a failing call changes nothing.                          *)
THEOREM ListRefinesDeque == Spec => ImplementsDeque
<1>1. IInv /\ [Next]_vars => IInv'
  BY NextInv
<1>2. QED
  BY InitInv, ListInit, ListStep, <1>1, PTL DEF Spec, ImplementsDeque, List!Spec
-----------------------------------------------------------------------------
(* queue.c and stack.c know every mode, so they lose no node: what is       *)
(* allocated is in the list.  They look for any value.                      *)
Held == \A n \in heap : \E i \in 1 .. Len(order) : order[i] = n
HeldInv == /\ life = "none" => heap = {}
           /\ api # "list" => Held
KeyInv == api # "list" => key = Any

LEMMA HeldInit == Init => HeldInv
  BY DEF Init, HeldInv, Held

LEMMA HeldStep == IInv /\ HeldInv /\ [Next]_vars => HeldInv'
<1> SUFFICES ASSUME IInv, HeldInv, [Next]_vars PROVE HeldInv'
  OBVIOUS
<1>0. TypeOK /\ order \in Seq(Node) /\ heap \subseteq Node /\ api \in DOMAIN InsertOf
  BY DEF IInv, TypeOK
<1>1. CASE llist_create
  BY <1>1 DEF llist_create, HeldInv, Held
<1>2. ASSUME NEW x \in Item, NEW mode \in Modes[api], llist_insert(x, mode)
      PROVE  HeldInv'
  <2>1. life = "live" /\ life' = life /\ api' = api
    BY <1>2 DEF llist_insert, Calling
  <2>2. SUFFICES ASSUME api # "list" PROVE Held'
    BY <2>1 DEF HeldInv
  <2>3. Held
    BY <2>2 DEF HeldInv
  <2>4. CASE UNCHANGED <<heap, order>>
    BY <2>3, <2>4 DEF Held
  <2>5. ASSUME NEW n \in Node, heap' = heap \cup {n},
               order' = <<n>> \o order \/ order' = Append(order, n)
        PROVE  Held'
    <3>1. ASSUME NEW m \in heap' PROVE \E i \in 1 .. Len(order') : order'[i] = m
      <4>1. CASE order' = <<n>> \o order
        <5>1. /\ Len(order') = Len(order) + 1 /\ order'[1] = n /\ Len(order) \in Nat
              /\ \A i \in 1 .. Len(order) : order'[i + 1] = order[i] /\ i + 1 \in 1 .. Len(order')
          BY <1>0, <4>1
        <5>2. QED
          BY <2>3, <2>5, <3>1, <5>1 DEF Held
      <4>2. CASE order' = Append(order, n)
        <5>1. /\ Len(order') = Len(order) + 1 /\ order'[Len(order) + 1] = n /\ Len(order) \in Nat
              /\ \A i \in 1 .. Len(order) : order'[i] = order[i] /\ i \in 1 .. Len(order')
          BY <1>0, <4>2
        <5>2. Len(order) + 1 \in 1 .. Len(order')
          BY <5>1
        <5>3. QED
          BY <2>3, <2>5, <3>1, <5>1, <5>2 DEF Held
      <4>3. QED
        BY <2>5, <4>1, <4>2
    <3>2. QED
      BY <3>1 DEF Held
  <2>6. mode \in {"FORWARD", "BACKWARD"}
    BY <1>0, <2>2 DEF Modes, InsertOf
  <2>7. QED
    BY <1>2, <2>4, <2>5, <2>6 DEF llist_insert
<1>3. ASSUME NEW op \in Lookups[api], NEW k \in Keys[api], Lookup(op, k)
      PROVE  HeldInv'
  BY <1>3 DEF Lookup, HeldInv, Held
<1>4. CASE FindStep \/ Miss \/ llist_travel \/ TravelStep \/ llist_destroy
  BY <1>4 DEF FindStep, Miss, llist_travel, TravelStep, llist_destroy, HeldInv, Held
<1>5. CASE Hit
  <2>1. /\ cur # head /\ call \in Lookups[api] /\ api' = api /\ life' = life
    BY <1>5 DEF Hit, Looking
  <2>2. CASE UNCHANGED <<heap, order>>
    BY <2>1, <2>2 DEF HeldInv, Held
  <2>3. CASE heap' = heap \ {cur} /\ order' = Without(order, Position(cur))
    <3>1. call \notin {Idle, "travel", "destroy"}
      BY <1>0, <2>1, CallNames
    <3>2. PICK j \in 1 .. Len(order) + 1 : Reached(j)
      BY <3>1 DEF IInv, LoopInv
    <3>3. /\ j \in 1 .. Len(order) /\ cur = order[j] /\ Distinct(order)
      BY <2>1, <3>1, <3>2, OnNode DEF IInv, RingInv
    <3>4. order' = Without(order, j)
      BY <1>0, <2>3, <3>3, PositionIs
    <3>5. \A i \in 1 .. Len(order) : order[i] # cur => \E m \in 1 .. Len(order') : order'[m] = order[i]
      BY <1>0, <3>3, <3>4, RemoveNodes
    <3>6. api # "list" => Held'
      BY <2>3, <3>5 DEF HeldInv, Held
    <3>7. life = "none" => heap' = {}
      BY <2>3 DEF HeldInv
    <3>8. QED
      BY <2>1, <3>6, <3>7 DEF HeldInv
  <2>4. QED
    BY <1>5, <2>2, <2>3 DEF Hit, Freed
<1>6. CASE DestroyStep
  <2>1. call = "destroy" /\ api' = api /\ life' \in {life, "freed"}
    BY <1>6 DEF DestroyStep
  <2>2. life = "live"
    BY <1>0, <2>1 DEF TypeOK, Idle
  <2>3. CASE cur = head
    BY <1>6, <2>2, <2>3, <2>1 DEF DestroyStep, HeldInv, Held
  <2>4. CASE cur # head
    <3>1. heap' = heap \ {cur} /\ order' = Tail(order) /\ life' = life
      BY <1>6, <2>4 DEF DestroyStep, Freed
    <3>2. cur = Nth(order, 1)
      BY <2>1 DEF IInv, LoopInv
    <3>3. 1 \in 1 .. Len(order) /\ cur = order[1]
      BY <2>4, <3>2 DEF Nth
    <3>4. /\ Len(order) \in Nat /\ order # <<>>
          /\ Len(Tail(order)) = Len(order) - 1
          /\ \A i \in 2 .. Len(order) : Tail(order)[i - 1] = order[i]
      BY <1>0, <3>3
    <3>5. ASSUME api # "list" PROVE Held'
      <4>1. ASSUME NEW n \in heap' PROVE \E i \in 1 .. Len(order') : order'[i] = n
        <5>1. PICK i \in 1 .. Len(order) : order[i] = n
          BY <3>1, <3>5, <4>1 DEF HeldInv, Held
        <5>2. i # 1
          BY <3>1, <3>3, <4>1, <5>1
        <5>3. i \in 2 .. Len(order) /\ i - 1 \in 1 .. Len(order')
          BY <3>1, <3>4, <5>1, <5>2
        <5>4. QED
          BY <3>1, <3>4, <5>1, <5>3
      <4>2. QED
        BY <4>1 DEF Held
    <3>6. QED
      BY <2>1, <2>2, <3>1, <3>5 DEF HeldInv
  <2>5. QED
    BY <2>3, <2>4
<1>7. CASE UNCHANGED vars
  BY <1>7 DEF vars, HeldInv, Held
<1>8. QED
  BY <1>1, <1>2, <1>3, <1>4, <1>5, <1>6, <1>7 DEF Next

LEMMA KeyStep == IInv /\ KeyInv /\ [Next]_vars => KeyInv'
<1> SUFFICES ASSUME IInv, KeyInv, [Next]_vars PROVE KeyInv'
  OBVIOUS
<1>1. /\ api \in DOMAIN InsertOf
      /\ api # "list" => Keys[api] = {Any}
  BY DEF IInv, TypeOK, InsertOf, Keys
<1>2. api' = api /\ (key' = key \/ key' = Any \/ key' \in Keys[api])
  BY DEF Next, llist_create, llist_insert, Lookup, FindStep, Miss, Hit, llist_travel, TravelStep,
         llist_destroy, DestroyStep, vars, loop, Enter, Return
<1>3. QED
  BY <1>1, <1>2 DEF KeyInv

(* Then the list is as long as the heap is large.                           *)
LEMMA LengthIsHeap ==
  ASSUME IInv, Held
  PROVE  /\ Len(order) = Cardinality(heap) /\ Cardinality(Node) \in Nat
         /\ Cardinality(heap) <= Cardinality(Node)
         /\ heap = Node <=> Cardinality(heap) = Cardinality(Node)
<1>1. /\ Len(order) \in Nat /\ Distinct(order) /\ heap \subseteq Node /\ IsFiniteSet(Node)
      /\ \A i \in 1 .. Len(order) : order[i] \in heap
      /\ order \in [1 .. Len(order) -> Node]
  BY ListAssumption DEF IInv, TypeOK, RingInv, HeapInv
<1>2. order \in [1 .. Len(order) -> heap] /\ DOMAIN order = 1 .. Len(order)
  BY <1>1
<1>3. order \in Bijection(1 .. Len(order), heap)
  BY <1>1, <1>2 DEF Held, Distinct, Bijection, Injection, Surjection, IsInjective
<1>4. ExistsBijection(1 .. Len(order), heap)
  BY <1>3 DEF ExistsBijection
<1>5. Cardinality(heap) = Len(order)
  BY <1>1, <1>4, FS_CountingElements
<1>6. /\ Cardinality(Node) \in Nat /\ Cardinality(heap) <= Cardinality(Node)
      /\ Cardinality(Node) = Cardinality(heap) => Node = heap
  BY <1>1, FS_Subset, FS_CardinalityType
<1>7. QED
  BY <1>5, <1>6

(* Of the steps of Deque a queue makes those of FifoQueue: what matches Any *)
(* first is the oldest item.                                                *)
LEMMA TakeIsDequeue ==
  ASSUME api = "queue", api' = api, AbstractItems \in Seq(Item),
         List!TakeFirst("dequeue", Any)
  PROVE  Fifo!Dequeue
<1> DEFINE c == AbstractItems
<1>1. /\ AbstractLife = "live" /\ AbstractLife' = AbstractLife
      /\ \A i \in DOMAIN c : List!Matches(Any, c[i])
  BY DEF List!TakeFirst, List!Matches
<1>2. CASE List!NoMatch(Any) /\ answer' = Answer("dequeue", -1, <<>>) /\ AbstractItems' = c
  <2>1. c = <<>>
    <3>1. Len(c) \in Nat /\ DOMAIN c = 1 .. Len(c)
      OBVIOUS
    <3>2. ~(1 \in DOMAIN c)
      BY <1>1, <1>2 DEF List!NoMatch
    <3>3. QED
      BY <3>1, <3>2
  <2>2. QED
    BY <1>1, <1>2, <2>1 DEF Fifo!Dequeue, Answer, Fifo!Answer
<1>3. ASSUME NEW i \in DOMAIN c, List!IsFirst(i, Any), AbstractItems' = List!Without(c, i),
             answer' = Answer("dequeue", 0, <<c[i]>>)
      PROVE  Fifo!Dequeue
  <2>1. Len(c) \in Nat /\ DOMAIN c = 1 .. Len(c) /\ c # <<>>
    BY <1>3
  <2>2. i = 1
    <3>1. \A j \in 1 .. i - 1 : j \in DOMAIN c
      BY <2>1
    <3>2. ~(1 \in 1 .. i - 1)
      BY <1>1, <1>3, <3>1 DEF List!IsFirst
    <3>3. QED
      BY <2>1, <3>2
  <2>3. List!Without(c, 1) = Tail(c)
    <3>1. SubSeq(c, 1, 1 - 1) = <<>> /\ SubSeq(c, 1 + 1, Len(c)) = Tail(c)
      BY <2>1, SubSeqEmpty, TailIsSubSeq
    <3>2. Tail(c) \in Seq(Item)
      BY <2>1
    <3>3. <<>> \o Tail(c) = Tail(c)
      BY <3>2, ConcatEmptySeq
    <3>4. QED
      BY <3>1, <3>3 DEF List!Without
  <2>4. c[1] = Head(c)
    BY <2>1
  <2>5. QED
    BY <1>1, <1>3, <2>1, <2>2, <2>3, <2>4 DEF Fifo!Dequeue, Answer, Fifo!Answer
<1>4. QED
  BY <1>2, <1>3 DEF List!TakeFirst, Answer, List!Answer

LEMMA FifoInit == Init => Fifo!Init
  BY DEF Init, Fifo!Init, AbstractLife, AbstractItems, Answer, Fifo!Answer, Idle

LEMMA FifoStep ==
  IInv /\ IInv' /\ HeldInv /\ KeyInv /\ [Next]_vars => [Fifo!Next]_(Fifo!fifoVars)
<1> SUFFICES ASSUME IInv, IInv', HeldInv, KeyInv, [Next]_vars
             PROVE  Fifo!Next \/ UNCHANGED Fifo!fifoVars
  OBVIOUS
<1>a. api' = api
  BY DEF Next, llist_create, llist_insert, Lookup, FindStep, Miss, Hit, llist_travel, TravelStep,
         llist_destroy, DestroyStep, vars
<1>b. CASE api # "queue"
  BY <1>a, <1>b DEF Fifo!fifoVars, Answer
<1>c. UNCHANGED List!dequeVars => UNCHANGED Fifo!fifoVars
  BY <1>a DEF List!dequeVars, Fifo!fifoVars
<1>q. CASE api = "queue"
  <2>0. /\ Contents \in Seq(Item) /\ Len(Contents) = Len(order)
        /\ Lookups[api] = {"dequeue"} /\ Keys[api] = {Any} /\ Modes[api] = {"BACKWARD"}
        /\ InsertOf[api] = "enqueue"
    BY <1>q, ContentsAre DEF Lookups, Keys, Modes, InsertOf
  <2>1. CASE llist_create
    <3>1. List!Create
      BY <2>1, CreateIsCreate
    <3>2. Fifo!Create
      BY <1>a, <1>q, <3>1 DEF List!Create, Fifo!Create, Answer, List!Answer, Fifo!Answer
    <3>3. QED
      BY <3>2 DEF Fifo!Next
  <2>2. ASSUME NEW x \in Item, NEW mode \in Modes[api], llist_insert(x, mode)
        PROVE  Fifo!Enqueue(x)
    <3>1. /\ AbstractLife = "live" /\ AbstractLife' = "live"
          /\ AbstractItems = Contents /\ AbstractItems' = Contents'
      BY <2>2 DEF llist_insert, Calling, loop, AbstractLife, AbstractItems, Idle
    <3>2. /\ Len(order) = Cardinality(heap) /\ Cardinality(heap) <= Cardinality(Node)
          /\ Cardinality(Node) \in Nat /\ Cardinality(heap) \in Nat
          /\ heap = Node <=> Cardinality(heap) = Cardinality(Node)
      BY <1>q, <2>0, LengthIsHeap DEF HeldInv
    <3>3. CASE heap = Node /\ answer' = Answer("enqueue", -1, <<>>) /\ UNCHANGED <<data, order>>
      <4>1. Contents' = Contents
        BY <3>3 DEF Contents
      <4>2. Len(Contents) = Cardinality(Node)
        BY <2>0, <3>2, <3>3
      <4>3. QED
        BY <1>a, <1>q, <3>1, <3>3, <4>1, <4>2 DEF Fifo!Enqueue, Answer, Fifo!Answer
    <3>4. CASE heap # Node /\ answer' = Answer("enqueue", 0, <<>>)
      <4>1. List!Grow("enqueue", x)
        BY <2>0, <2>2, InsertIsGrow
      <4>2. Contents' = Append(Contents, x)
        BY <3>1, <3>4, <4>1 DEF List!Grow, Answer, List!Answer
      <4>3. Len(Contents) < Cardinality(Node)
        BY <2>0, <3>2, <3>4
      <4>4. QED
        BY <1>a, <1>q, <3>1, <3>4, <4>2, <4>3 DEF Fifo!Enqueue, Answer, Fifo!Answer
    <3>5. mode = "BACKWARD"
      BY <2>0, <2>2
    <3>6. QED
      BY <2>0, <2>2, <3>3, <3>4, <3>5 DEF llist_insert, links
  <2>3. CASE Miss \/ Hit
    <3>1. call = "dequeue" /\ key \in Item \cup {Any} /\ life = "live"
      BY <2>0, <2>3 DEF Miss, Hit, Looking, IInv, TypeOK, Idle
    <3>2. List!TakeFirst("dequeue", key)
      BY <2>3, <3>1, MissIsMiss, HitIsFirst
    <3>3. AbstractItems = Contents
      BY <3>1 DEF AbstractItems, AbstractLife
    <3>4. key = Any
      BY <1>q DEF KeyInv
    <3>5. Fifo!Dequeue
      BY <1>a, <1>q, <2>0, <3>2, <3>3, <3>4, TakeIsDequeue
    <3>6. QED
      BY <3>5 DEF Fifo!Next
  <2>4. CASE TravelStep
    <3>1. List!Travel \/ UNCHANGED List!dequeVars
      BY <2>4, TravelIsTravel
    <3>2. List!Travel => Fifo!Travel
      BY <1>a, <1>q DEF List!Travel, Fifo!Travel, Answer, List!Answer, Fifo!Answer
    <3>3. QED
      BY <1>c, <3>1, <3>2 DEF Fifo!Next
  <2>5. CASE llist_destroy
    <3>1. List!Destroy
      BY <2>5, DestroyIsDestroy
    <3>2. Fifo!Destroy
      BY <1>a, <1>q, <3>1 DEF List!Destroy, Fifo!Destroy, Answer, List!Answer, Fifo!Answer
    <3>3. QED
      BY <3>2 DEF Fifo!Next
  <2>6. CASE Quiet
    BY <1>c, <2>6, QuietIsQuiet
  <2>7. QED
    BY <2>1, <2>2, <2>3, <2>4, <2>5, <2>6 DEF Next, Quiet, Fifo!Next
<1>d. QED
  BY <1>b, <1>q

(* queue.c over llist.c is the same bounded queue as the ring of the array  *)
(* queue: first in, first out, and full when there is no memory.            *)
THEOREM ListRefinesFifo == Spec => ImplementsFifo
<1>1. IInv /\ [Next]_vars => IInv'
  BY NextInv
<1>2. Init => KeyInv
  BY DEF Init, KeyInv
<1>3. QED
  BY InitInv, FifoInit, FifoStep, HeldInit, HeldStep, KeyStep, <1>1, <1>2, PTL
  DEF Spec, ImplementsFifo, Fifo!Spec
=============================================================================
