------------------------------ MODULE FifoQueue ------------------------------
(***************************************************************************)
(* What a caller of a queue library of this repository may rely on: a      *)
(* bounded first-in first-out queue whose operations answer through        *)
(* `answer'.  The array queue (queue_队列/arr) implements this module.      *)
(***************************************************************************)
EXTENDS Integers, Sequences

CONSTANTS Item,      \* the values a caller stores
          Capacity   \* how many of them fit

VARIABLES life,      \* "none" before create, "live", "freed" after destroy
          items,     \* the stored values, oldest first
          answer     \* the last call that returned, its result code, its output

fifoVars == <<life, items, answer>>

\* `out' is the sequence of values the call hands back.
Answer(op, rc, out) == [op |-> op, rc |-> rc, out |-> out]

Init == /\ life = "none"
        /\ items = <<>>
        /\ answer = Answer("start", 0, <<>>)

Create == /\ life = "none"
          /\ \/ life' = "live" /\ answer' = Answer("create", 0, <<>>)
             \/ life' = "none" /\ answer' = Answer("create", -1, <<>>)
          /\ UNCHANGED items

Enqueue(x) ==
  /\ life = "live"
  /\ \/ /\ Len(items) < Capacity
        /\ items' = Append(items, x)
        /\ answer' = Answer("enqueue", 0, <<>>)
     \/ /\ Len(items) = Capacity
        /\ answer' = Answer("enqueue", -1, <<>>)
        /\ UNCHANGED items
  /\ UNCHANGED life

Dequeue ==
  /\ life = "live"
  /\ \/ /\ items # <<>>
        /\ items' = Tail(items)
        /\ answer' = Answer("dequeue", 0, <<Head(items)>>)
     \/ /\ items = <<>>
        /\ answer' = Answer("dequeue", -1, <<>>)
        /\ UNCHANGED items
  /\ UNCHANGED life

Travel == /\ life = "live"
          /\ answer' = Answer("travel", 0, items)
          /\ UNCHANGED <<life, items>>

Clear == /\ life = "live"
         /\ items' = <<>>
         /\ answer' = Answer("clear", 0, <<>>)
         /\ UNCHANGED life

Destroy == /\ life = "live"
           /\ life' = "freed"
           /\ items' = <<>>
           /\ answer' = Answer("destroy", 0, <<>>)

Next == \/ Create
        \/ \E x \in Item : Enqueue(x)
        \/ Dequeue
        \/ Travel
        \/ Clear
        \/ Destroy

Spec == Init /\ [][Next]_fifoVars
=============================================================================
