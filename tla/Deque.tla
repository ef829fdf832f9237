-------------------------------- MODULE Deque --------------------------------
(***************************************************************************)
(* What a caller of the list library may rely on: a sequence that grows at *)
(* either end, from which the first value that matches a key is found or   *)
(* taken, and that can be read from front to back.                         *)
(***************************************************************************)
EXTENDS Integers, Sequences

CONSTANTS Item,      \* the values a caller stores
          Any,       \* the key that every value matches
          AtFront,   \* names of the calls that insert at the front,
          AtBack,    \* at the back,
          Take,      \* that take the first match out
          Silent     \* and, of the latter, that do not hand it back

VARIABLES life, items, answer

dequeVars == <<life, items, answer>>

Answer(op, rc, out) == [op |-> op, rc |-> rc, out |-> out]
Matches(key, x) == key \in {Any, x}
Without(s, i) == SubSeq(s, 1, i - 1) \o SubSeq(s, i + 1, Len(s))

IsFirst(i, key) == /\ Matches(key, items[i])
                   /\ \A j \in 1 .. i - 1 : ~Matches(key, items[j])
NoMatch(key) == \A i \in DOMAIN items : ~Matches(key, items[i])

Init == life = "none" /\ items = <<>> /\ answer = Answer("start", 0, <<>>)

Create == /\ life = "none"
          /\ \/ life' = "live" /\ answer' = Answer("create", 0, <<>>)
             \/ life' = "none" /\ answer' = Answer("create", -1, <<>>)
          /\ UNCHANGED items

(* An insertion that fails, for want of memory or for its mode, changes     *)
(* nothing.                                                                 *)
Grow(op, x) ==
  /\ life = "live"
  /\ \/ op \in AtFront /\ items' = <<x>> \o items /\ answer' = Answer(op, 0, <<>>)
     \/ op \in AtBack /\ items' = Append(items, x) /\ answer' = Answer(op, 0, <<>>)
     \/ \E rc \in {-1, -3} : answer' = Answer(op, rc, <<>>) /\ UNCHANGED items
  /\ UNCHANGED life

TakeFirst(op, key) ==
  /\ life = "live"
  /\ \/ \E i \in DOMAIN items :
          /\ IsFirst(i, key)
          /\ items' = Without(items, i)
          /\ answer' = Answer(op, 0, IF op \in Silent THEN <<>> ELSE <<items[i]>>)
     \/ /\ NoMatch(key)
        /\ answer' = Answer(op, -1, <<>>)
        /\ UNCHANGED items
  /\ UNCHANGED life

Find(key) ==
  /\ life = "live"
  /\ answer' = IF NoMatch(key) THEN Answer("find", -1, <<>>)
               ELSE Answer("find", 0, <<items[CHOOSE i \in DOMAIN items : IsFirst(i, key)]>>)
  /\ UNCHANGED <<life, items>>

Travel == life = "live" /\ answer' = Answer("travel", 0, items) /\ UNCHANGED <<life, items>>

Destroy == /\ life = "live"
           /\ life' = "freed" /\ items' = <<>>
           /\ answer' = Answer("destroy", 0, <<>>)

Next == \/ Create \/ Travel \/ Destroy
        \/ \E op \in AtFront \cup AtBack, x \in Item : Grow(op, x)
        \/ \E key \in Item \cup {Any} : Find(key) \/ \E op \in Take : TakeFirst(op, key)

Spec == Init /\ [][Next]_dequeVars
=============================================================================
