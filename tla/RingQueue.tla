------------------------------ MODULE RingQueue ------------------------------
(***************************************************************************)
(* The array queue of 数据结构/queue_队列/arr/queue.c: a ring of MAXSIZE     *)
(* slots in which head stands one before the oldest item and tail on the   *)
(* newest, so that one slot always stays unused.  One caller, as in        *)
(* main.c; qu_travel prints slot by slot and is modelled loop step by loop *)
(* step.                                                                   *)
(***************************************************************************)
EXTENDS Integers, Sequences

CONSTANTS MAXSIZE,   \* slots of the ring (queue.h:6)
          Item       \* the values stored (datatype)

ASSUME RingAssumption == MAXSIZE \in Nat \ {0}

VARIABLES life,      \* "none" before qu_create, "live", "freed"
          data,      \* sq->data
          head,      \* sq->head
          tail,      \* sq->tail
          walk,      \* qu_travel's i, or Outside when the caller is not inside it
          printed,   \* what qu_travel has printed
          answer     \* the last call that returned

ring == <<data, head, tail>>
vars == <<life, data, head, tail, walk, printed, answer>>

Slot == 0 .. MAXSIZE - 1
Outside == -1
Answer(op, rc, out) == [op |-> op, rc |-> rc, out |-> out]
Ops == {"start", "create", "enqueue", "dequeue", "travel", "clear", "destroy"}
Answers == [op : Ops, rc : {0, -1}, out : Seq(Item)]
NextSlot(i) == (i + 1) % MAXSIZE
FullNoWrap == tail + 1 = head                                     \* (mutant)
Full == NextSlot(tail) = head
First == NextSlot(head)                \* the slot of the oldest item

\* malloc leaves the slots with whatever the memory held.
Init == /\ life = "none"
        /\ data \in [Slot -> Item]
        /\ head = 0
        /\ tail = 0
        /\ walk = Outside
        /\ printed = <<>>
        /\ answer = Answer("start", 0, <<>>)

\* The caller makes its next call only when the previous one returned.
Calling == life = "live" /\ walk = Outside

qu_create ==
  /\ life = "none"
  /\ \/ /\ life' = "live"
        /\ head' = 0
        /\ tail' = 0
        /\ answer' = Answer("create", 0, <<>>)
     \/ /\ answer' = Answer("create", -1, <<>>)       \* malloc returned NULL
        /\ UNCHANGED <<life, head, tail>>
  /\ UNCHANGED <<data, walk, printed>>

qu_enqueue(x) ==
  /\ Calling
  /\ \/ /\ Full
        /\ answer' = Answer("enqueue", -1, <<>>)
        /\ UNCHANGED ring
     \/ /\ ~Full
        /\ tail' = NextSlot(tail)
        /\ data' = [data EXCEPT ![tail'] = x]
        /\ answer' = Answer("enqueue", 0, <<>>)
        /\ UNCHANGED head
  /\ UNCHANGED <<life, walk, printed>>

qu_isempty == head = tail

qu_dequeue ==
  /\ Calling
  /\ \/ /\ qu_isempty
        /\ answer' = Answer("dequeue", -1, <<>>)
        /\ UNCHANGED head
     \/ /\ ~qu_isempty
        /\ head' = NextSlot(head)
        /\ answer' = Answer("dequeue", 0, <<data[head']>>)
  /\ UNCHANGED <<life, data, tail, walk, printed>>

\* Entering qu_travel: an empty queue returns at once, printing nothing.
qu_travel ==
  /\ Calling
  /\ printed' = <<>>
  /\ \/ /\ qu_isempty
        /\ answer' = Answer("travel", 0, <<>>)
        /\ UNCHANGED walk
     \/ /\ ~qu_isempty
        /\ walk' = First
        /\ UNCHANGED answer
  /\ UNCHANGED <<life, ring>>

\* One turn of its loop, and the last printf and return when i reaches tail.
TravelStep ==
  /\ walk # Outside
  /\ printed' = Append(printed, data[walk])
  /\ \/ /\ walk # tail
        /\ walk' = NextSlot(walk)
        /\ UNCHANGED answer
     \/ /\ walk = tail
        /\ walk' = Outside
        /\ answer' = Answer("travel", 0, printed')
  /\ UNCHANGED <<life, ring>>

qu_clear ==
  /\ Calling
  /\ head' = tail
  /\ answer' = Answer("clear", 0, <<>>)
  /\ UNCHANGED <<life, data, tail, walk, printed>>

qu_destroy ==
  /\ Calling
  /\ life' = "freed"
  /\ answer' = Answer("destroy", 0, <<>>)
  /\ UNCHANGED <<ring, walk, printed>>

Next == \/ qu_create
        \/ \E x \in Item : qu_enqueue(x)
        \/ qu_dequeue
        \/ qu_travel
        \/ TravelStep
        \/ qu_clear
        \/ qu_destroy

Spec == Init /\ [][Next]_vars
-----------------------------------------------------------------------------
\* How many items the ring holds, and which, oldest first.
Count == IF tail >= head THEN tail - head ELSE tail - head + MAXSIZE
At(k) == IF head + k < MAXSIZE THEN head + k ELSE head + k - MAXSIZE
Contents == [k \in 1 .. Count |-> data[At(k)]]

(* The ring's indices stay inside the array and the walk inside the ring.   *)
TypeOK ==
  /\ life \in {"none", "live", "freed"}
  /\ data \in [Slot -> Item]
  /\ head \in Slot
  /\ tail \in Slot
  /\ walk \in Slot \cup {Outside}
  /\ printed \in Seq(Item)
  /\ answer \in Answers

(* While qu_travel is running it has printed exactly a proper prefix of the *)
(* stored items, in order, and stands on the item that comes next.          *)
WalkInv ==
  walk # Outside =>
    /\ life = "live"
    /\ Len(printed) < Count
    /\ walk = At(Len(printed) + 1)
    /\ \A k \in 1 .. Len(printed) : printed[k] = data[At(k)]

(* The ring implements the bounded FIFO of FifoQueue with one slot fewer    *)
(* than it has: values come out in the order they went in across any wrap   *)
(* of the indices, full and empty are told apart, a failing call changes    *)
(* nothing, and qu_travel prints the whole queue.                           *)
Fifo == INSTANCE FifoQueue WITH
          Capacity <- MAXSIZE - 1,
          items    <- IF life = "live" THEN Contents ELSE <<>>
ImplementsFifo == Fifo!Spec
=============================================================================
