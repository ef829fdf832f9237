----------------------------- MODULE ListPuzzles -----------------------------
(***************************************************************************)
(* The two programs of 链表/单链表 that compute with a list: 多项式合并.c, which *)
(* merges two polynomials ordered by exponent into the nodes of the first,   *)
(* and yuesefu.c, in whose circle every n-th node is removed until one is    *)
(* left.  Both are modelled by the assignments to the next pointers, one     *)
(* turn of the loop at a time.                                               *)
(***************************************************************************)
EXTENDS Integers, Sequences, FiniteSetsExt

CONSTANTS Polynomials, \* sequences of <<coefficient, exponent>>
          CircleSizes, \* the circles, and the n that kill_sl counts to
          Steps

\* Polynomials list their terms as main's arrays do; kill_sl counts from 2.
ASSUME PuzzleAssumption ==
  /\ Polynomials \subseteq Seq(Int \X Int)
  /\ \A a \in Polynomials : /\ \A i \in DOMAIN a : a[i][1] # 0
                            /\ \A i, j \in DOMAIN a : i < j => a[i][2] < a[j][2]
  /\ CircleSizes \subseteq Nat \ {0} /\ Steps \subseteq Nat \ {0, 1}

VARIABLES task,        \* "merge" and then "merged", or "circle" and then "left"
          a1, a2,      \* the polynomials
          x, next,     \* a node's coefficient and successor; 0 is NULL
          p, q, r,     \* un_LinkNode's pointers
          circle, step, cur, tmp   \* the circle's successors, n, cur and tmp

puzzleVars == <<task, a1, a2, x, next, p, q, r, circle, step, cur, tmp>>

\* Node 1 is p1's header, behind it a1's nodes, then a2's.
NodeOf2(i) == Len(a1) + i + 1
Nodes == 1 .. Len(a1) + Len(a2) + 1
Term(n) == IF n <= Len(a1) + 1 THEN a1[n - 1] ELSE a2[n - Len(a1) - 1]
Exponent(n) == Term(n)[2]

PuzzleInit ==
  /\ task \in {"merge", "circle"}
  /\ a1 \in Polynomials /\ a2 \in Polynomials
  /\ x = [n \in Nodes |-> IF n = 1 THEN 0 ELSE Term(n)[1]]
  /\ next = [n \in Nodes |-> IF n \in {Len(a1) + 1, Len(a1) + Len(a2) + 1} THEN 0 ELSE n + 1]
  /\ p = next[1] /\ q = (IF a2 = <<>> THEN 0 ELSE NodeOf2(1)) /\ r = 1
  /\ \E size \in CircleSizes : circle = [n \in 1 .. size |-> (n % size) + 1]
  /\ step \in Steps /\ cur = 1 /\ tmp = 0
-----------------------------------------------------------------------------
TakeP == /\ next' = [next EXCEPT ![r] = p] /\ r' = p /\ p' = next[p]
         /\ UNCHANGED <<x, q>>
TakeQ == /\ next' = [next EXCEPT ![r] = q] /\ r' = q /\ q' = next[q]
         /\ UNCHANGED <<x, p>>

StaysIn(sum) == sum # 0

\* Equal exponents: p's node stays if the coefficients do not cancel.
TakeSum ==
  LET sum == x[p] + x[q]
  IN  /\ x' = [x EXCEPT ![p] = sum]
      /\ IF StaysIn(sum) THEN next' = [next EXCEPT ![r] = p] /\ r' = p
         ELSE UNCHANGED <<next, r>>
      /\ p' = next[p] /\ q' = next[q]

un_LinkNode ==
  /\ task = "merge" /\ p # 0 /\ q # 0
  /\ \/ Exponent(p) < Exponent(q) /\ TakeP
     \/ Exponent(p) > Exponent(q) /\ TakeQ
     \/ Exponent(p) = Exponent(q) /\ TakeSum
  /\ UNCHANGED <<task, a1, a2, circle, step, cur, tmp>>

\* What is left of either goes behind r.
AppendRest ==
  /\ task = "merge" /\ (p = 0 \/ q = 0)
  /\ next' = [next EXCEPT ![r] = IF q = 0 THEN p ELSE q]
  /\ task' = "merged"
  /\ UNCHANGED <<a1, a2, x, p, q, r, circle, step, cur, tmp>>
-----------------------------------------------------------------------------
\* n - 1 nodes on, with tmp one behind.
WalkOn[k \in Nat] == IF k = 0 THEN cur ELSE circle[WalkOn[k - 1]]

CountsOneMore == step                                              \* (mutant)
Walked == step - 1

kill_sl ==
  /\ task = "circle" /\ circle[cur] # cur
  /\ LET behind == WalkOn[Walked - 1]  killed == WalkOn[Walked]
     IN  /\ tmp' = behind
         /\ circle' = [circle EXCEPT ![behind] = circle[killed]]
         /\ cur' = circle[killed]
  /\ UNCHANGED <<task, a1, a2, x, next, p, q, r, step>>

OneLeft ==
  /\ task = "circle" /\ circle[cur] = cur
  /\ task' = "left"
  /\ UNCHANGED <<a1, a2, x, next, p, q, r, circle, step, cur, tmp>>

PuzzleNext == un_LinkNode \/ AppendRest \/ kill_sl \/ OneLeft

PuzzleSpec == PuzzleInit /\ [][PuzzleNext]_puzzleVars
-----------------------------------------------------------------------------
\* Bounded by the nodes, so that a cycle shows as a chain too long.
ChainFrom1[k \in Nat] == IF k = 0 THEN next[1]
                         ELSE IF ChainFrom1[k - 1] = 0 THEN 0 ELSE next[ChainFrom1[k - 1]]
InChain == {k \in 0 .. Cardinality(Nodes) : ChainFrom1[k] # 0}

Coefficient(a, e) == SumSet({a[i][1] : i \in {j \in DOMAIN a : a[j][2] = e}})

(* The merged list is the sum: exponents ascend, no coefficient is 0, every *)
(* exponent of either has the sum of its coefficients, and the chain ends,  *)
(* although the nodes of the second list are now links of the first.        *)
MergeIsTheSum ==
  task = "merged" =>
    LET node(k) == ChainFrom1[k]
        exps == {Exponent(node(k)) : k \in InChain}
        all == {a1[i][2] : i \in DOMAIN a1} \cup {a2[i][2] : i \in DOMAIN a2}
    IN  /\ Cardinality(InChain) < Cardinality(Nodes)
        /\ \A k \in InChain : /\ x[node(k)] # 0
                              /\ x[node(k)] = Coefficient(a1, Exponent(node(k)))
                                              + Coefficient(a2, Exponent(node(k)))
                              /\ k + 1 \in InChain => Exponent(node(k)) < Exponent(node(k + 1))
        /\ exps = {e \in all : Coefficient(a1, e) + Coefficient(a2, e) # 0}

\* The last one of a circle of m, counted from 0, when every n-th goes.
Survivor(n) == LET last[m \in Nat \ {0}] == IF m = 1 THEN 0 ELSE (last[m - 1] + n) % m
               IN  last

(* The node that kill_sl finds linked to itself, whatever it has counted    *)
(* through, is the last one by Josephus' recurrence.                        *)
SurvivorIsLast ==
  task = "left" =>
    cur = Survivor(step)[Cardinality(DOMAIN circle)] + 1

(* The two programs compute what they should: MergeIsTheSum, SurvivorIsLast. *)
PuzzlesSolved == MergeIsTheSum /\ SurvivorIsLast
=============================================================================
