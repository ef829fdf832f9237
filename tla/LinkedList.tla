------------------------------ MODULE LinkedList ------------------------------
(***************************************************************************)
(* The doubly linked list llist.c of 数据结构/queue_队列/list and            *)
(* stack_栈/list (the same file in both), with the queue.c and stack.c on    *)
(* top of it.  The nodes form a ring through the list's own head.  The     *)
(* loops over the nodes are modelled turn by turn, insertion and removal   *)
(* pointer by pointer.  One caller, as in the main.c's.                    *)
(***************************************************************************)
EXTENDS Integers, Sequences, FiniteSets

CONSTANTS Node,      \* the blocks malloc has for nodes
          Item,      \* the values stored
          head,      \* the address &ptr->head
          Junk,      \* what fresh and freed memory holds
          Any        \* the key always_match is called with

ASSUME ListAssumption == head \notin Node /\ Junk \notin Node \cup {head} \cup Item
                         /\ Any \notin Item /\ IsFiniteSet(Node)

VARIABLES api,       \* which of the three interfaces the caller uses
          life,      \* "none" before create, "live", "freed"
          heap,      \* nodes allocated
          next, prve, data,
          call, key, cur,  \* the loop that is running, what it looks for, where it is
          printed,   \* what llist_travel has handed to op
          answer,    \* the last call that returned
          order      \* history: the nodes in the list, front to back

links == <<next, prve>>
loop == <<call, key, cur, printed>>
vars == <<api, life, heap, links, data, loop, answer, order>>

Place == Node \cup {head}
Ptr == Place \cup {Junk}
Idle == "none"
Answer(op, rc, out) == [op |-> op, rc |-> rc, out |-> out]

(* How queue.c and stack.c call the list.                                   *)
InsertOf == [list |-> "insert", queue |-> "enqueue", stack |-> "push"]
Modes == [list |-> {"FORWARD", "BACKWARD", "other"}, queue |-> {"BACKWARD"}, stack |-> {"FORWARD"}]
Lookups == [list |-> {"find", "fetch", "delete"}, queue |-> {"dequeue"}, stack |-> {"pop"}]
Keys == [list |-> Item, queue |-> {Any}, stack |-> {Any}]
Matches(k, x) == k \in {Any, x}

Init == /\ api \in DOMAIN InsertOf
        /\ life = "none" /\ heap = {}
        /\ next = [p \in Place |-> Junk] /\ prve = [p \in Place |-> Junk]
        /\ data = [n \in Node |-> Junk]
        /\ call = Idle /\ key = Any /\ cur = head
        /\ printed = <<>>
        /\ answer = Answer("start", 0, <<>>)
        /\ order = <<>>

llist_create ==
  /\ life = "none"
  /\ \/ /\ life' = "live"
        /\ next' = [next EXCEPT ![head] = head]
        /\ prve' = [prve EXCEPT ![head] = head]
        /\ answer' = Answer("create", 0, <<>>)
     \/ /\ answer' = Answer("create", -1, <<>>)        \* malloc returned NULL
        /\ UNCHANGED <<life, links>>
  /\ UNCHANGED <<api, heap, data, loop, order>>

Calling == life = "live" /\ call = Idle

(* The four assignments that put n between its neighbours p and q.          *)
Between(n, p, q) ==
  /\ next' = [next EXCEPT ![n] = q, ![p] = n]
  /\ prve' = [prve EXCEPT ![n] = p, ![q] = n]

LastNode == prve[head]
FirstForLast == next[head]                                         \* (mutant)
Behind == LastNode                      \* the neighbour a BACKWARD node follows

(* An unknown mode returns -3 and keeps the node it has allocated.           *)
llist_insert(x, mode) ==
  /\ Calling
  /\ \/ /\ heap = Node
        /\ answer' = Answer(InsertOf[api], -1, <<>>)
        /\ UNCHANGED <<heap, data, links, order>>
     \/ \E n \in Node \ heap :
          /\ heap' = heap \cup {n}
          /\ data' = [data EXCEPT ![n] = x]
          /\ \/ /\ mode = "FORWARD"
                /\ Between(n, head, next[head])
                /\ order' = <<n>> \o order
             \/ /\ mode = "BACKWARD"
                /\ Between(n, Behind, head)
                /\ order' = Append(order, n)
             \/ /\ mode = "other"
                /\ UNCHANGED <<links, order>>
          /\ answer' = Answer(InsertOf[api], IF mode = "other" THEN -3 ELSE 0, <<>>)
  /\ UNCHANGED <<api, life, loop>>

StartAtLast == prve[head]                                          \* (mutant)
StartAtFirst == next[head]
Start == StartAtFirst                   \* where every loop over the nodes begins

Enter(op, k) == /\ call' = op /\ key' = k /\ cur' = Start
                /\ printed' = <<>>
Return == /\ call' = Idle /\ key' = Any /\ cur' = head
          /\ printed' = <<>>

(* llist_find, llist_fetch and llist_delete begin with find_.                *)
Lookup(op, k) ==
  /\ Calling
  /\ Enter(op, k)
  /\ UNCHANGED <<api, life, heap, links, data, answer, order>>

Looking == call \in Lookups[api]

FindStep ==
  /\ Looking /\ cur # head /\ ~Matches(key, data[cur])
  /\ cur' = next[cur]
  /\ UNCHANGED <<api, life, heap, links, data, call, key, printed, answer, order>>

Miss ==
  /\ Looking /\ cur = head
  /\ answer' = Answer(call, -1, <<>>)
  /\ Return
  /\ UNCHANGED <<api, life, heap, links, data, order>>

Freed(n) == /\ heap' = heap \ {n}
            /\ data' = [data EXCEPT ![n] = Junk]
OnlyForward == prve                                                \* (mutant)
BothWays == [prve EXCEPT ![next[cur]] = prve[cur]]
BackPointers == BothWays

(* The removal of llist_fetch and llist_delete; fetch hands the value back.  *)
Position(n) == CHOOSE i \in DOMAIN order : order[i] = n
Without(s, i) == SubSeq(s, 1, i - 1) \o SubSeq(s, i + 1, Len(s))

Hit ==
  /\ Looking /\ cur # head /\ Matches(key, data[cur])
  /\ answer' = Answer(call, 0, IF call = "delete" THEN <<>> ELSE <<data[cur]>>)
  /\ \/ /\ call = "find"
        /\ UNCHANGED <<heap, data, links, order>>
     \/ /\ call # "find"
        /\ next' = [next EXCEPT ![prve[cur]] = next[cur], ![cur] = Junk]
        /\ prve' = [BackPointers EXCEPT ![cur] = Junk]
        /\ Freed(cur)
        /\ order' = Without(order, Position(cur))
  /\ Return
  /\ UNCHANGED <<api, life>>

llist_travel ==
  /\ Calling /\ api = "list"
  /\ Enter("travel", Any)
  /\ UNCHANGED <<api, life, heap, links, data, answer, order>>

TravelStep ==
  /\ call = "travel"
  /\ \/ /\ cur # head
        /\ printed' = Append(printed, data[cur])
        /\ cur' = next[cur]
        /\ UNCHANGED <<call, key, answer>>
     \/ /\ cur = head
        /\ answer' = Answer("travel", 0, printed)
        /\ Return
  /\ UNCHANGED <<api, life, heap, links, data, order>>

llist_destroy ==
  /\ Calling
  /\ Enter("destroy", Any)
  /\ answer' = Answer("destroy", 0, <<>>)
  /\ UNCHANGED <<api, life, heap, links, data, order>>

AfterFree == next'[cur]                                            \* (mutant)
BeforeFree == next[cur]
Following == BeforeFree                 \* llist_destroy's variable next

DestroyStep ==
  /\ call = "destroy"
  /\ \/ /\ cur # head
        /\ next' = [next EXCEPT ![cur] = Junk]
        /\ prve' = [prve EXCEPT ![cur] = Junk]
        /\ Freed(cur)
        /\ cur' = Following
        /\ order' = Tail(order)
        /\ UNCHANGED <<life, call, key, printed>>
     \/ /\ cur = head
        /\ life' = "freed"
        /\ Return
        /\ UNCHANGED <<heap, links, data, order>>
  /\ UNCHANGED <<api, answer>>

Next == \/ llist_create
        \/ \E x \in Item, mode \in Modes[api] : llist_insert(x, mode)
        \/ \E op \in Lookups[api], k \in Keys[api] : Lookup(op, k)
        \/ FindStep \/ Miss \/ Hit
        \/ llist_travel \/ TravelStep
        \/ llist_destroy \/ DestroyStep

Spec == Init /\ [][Next]_vars
-----------------------------------------------------------------------------
TypeOK ==
  /\ api \in DOMAIN InsertOf /\ life \in {"none", "live", "freed"}
  /\ heap \subseteq Node
  /\ next \in [Place -> Ptr] /\ prve \in [Place -> Ptr]
  /\ data \in [Node -> Item \cup {Junk}]
  /\ order \in Seq(Node)
  /\ call \in Lookups[api] \cup {Idle, "travel", "destroy"}
  /\ key \in Item \cup {Any} /\ cur \in Place
  /\ printed \in Seq(Item)
  /\ call # Idle => life = "live"

(* From the head, next goes through the list front to back and prve back to *)
(* front, each node once: no sequence of insertions at either end and       *)
(* removals anywhere tears the ring or makes the two directions differ.     *)
At(i) == IF i \in DOMAIN order THEN order[i] ELSE head
Linked ==
  life = "live" /\ call # "destroy" =>
    /\ \A i \in 0 .. Len(order) : next[At(i)] = At(i + 1) /\ prve[At(i + 1)] = At(i)
    /\ \A i, j \in DOMAIN order : order[i] = order[j] => i = j

(* No loop stands on a freed node, also while the list is being destroyed;  *)
(* and every allocated node is in the list, except one that a call with an  *)
(* unknown mode has allocated and not linked.                               *)
MemorySafe ==
  /\ cur \in heap \cup {head}
  /\ {order[i] : i \in DOMAIN order} \subseteq heap
  /\ \A n \in heap : next[n] = Junk \/ \E i \in DOMAIN order : order[i] = n

(* The list implements the sequence of Deque, for each interface: values    *)
(* come back in the order of the pointers, the first match is the one       *)
(* found, and a call that fails changes nothing.                            *)
Contents == [i \in DOMAIN order |-> data[order[i]]]
AbstractLife == IF call = "destroy" THEN "freed" ELSE life
AbstractItems == IF AbstractLife = "live" THEN Contents ELSE <<>>
List == INSTANCE Deque WITH life <- AbstractLife, items <- AbstractItems,
          AtFront <- {"insert", "push"}, AtBack <- {"insert", "enqueue"},
          Take <- {"fetch", "delete", "dequeue", "pop"}, Silent <- {"delete"}
ImplementsDeque == List!Spec

(* queue.c implements the same FifoQueue as the array queue, with as many   *)
(* places as there is memory for nodes.                                     *)
Fifo == INSTANCE FifoQueue WITH
          Capacity <- Cardinality(Node),
          life     <- IF api = "queue" THEN AbstractLife ELSE "none",
          items    <- IF api = "queue" THEN AbstractItems ELSE <<>>,
          answer   <- IF api = "queue" THEN answer ELSE Answer("start", 0, <<>>)
ImplementsFifo == Fifo!Spec
=============================================================================
