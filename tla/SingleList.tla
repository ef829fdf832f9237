----------------------------- MODULE SingleList -----------------------------
(***************************************************************************)
(* The single lists of 链表/单链表: 单链表.c, whose list begins with a header *)
(* node of its own ("header"), and nohead单链表.c, whose list is a pointer to *)
(* its first node ("nohead").  Both are chains that end with NULL; the place *)
(* before the first node is the header or the caller's pointer.  The walks   *)
(* are modelled node by node.                                                *)
(***************************************************************************)
EXTENDS Integers, Sequences, FiniteSets

CONSTANTS SingleItem,  \* the values stored, integers
          Cell,        \* the blocks malloc has for nodes
          Header,      \* the header node, or the caller's pointer
          NULL

ASSUME SingleAssumption == /\ Header \notin Cell /\ NULL \notin Cell \cup {Header}
                           /\ SingleItem \subseteq Int /\ IsFiniteSet(Cell)

VARIABLES kind,      \* "header" or "nohead"
          used,      \* cells allocated
          link, val, \* next and data
          pass,      \* the call that is running, with pRecv and pCurrent
          count,     \* what findnum_Linklist has counted
          singleDid

singleVars == <<kind, used, link, val, pass, count, singleDid>>

Standing == [op |-> "none", old |-> 0, x |-> 0, prev |-> Header, cur |-> NULL]
SingleDid(op, i, x, rc) == [op |-> op, at |-> i, item |-> x, rc |-> rc]

SingleInit == /\ kind \in {"header", "nohead"}
              /\ used = {}
              /\ link = [p \in Cell \cup {Header} |-> NULL]
              /\ val = [c \in Cell |-> 0]
              /\ pass = Standing /\ count = 0
              /\ singleDid = SingleDid("create", 0, 0, 0)

Begin(op, old, x) ==
  pass' = [op |-> op, old |-> old, x |-> x, prev |-> Header, cur |-> link[Header]]

\* The chain from the first node on.
Chain == [k \in 1 .. Cardinality(Cell) + 1 |->
            LET node[n \in Nat] == IF n = 0 THEN Header
                                   ELSE IF node[n - 1] = NULL THEN NULL ELSE link[node[n - 1]]
            IN  node[k]]
-----------------------------------------------------------------------------
Inset_Linklist(old, x) ==
  /\ kind = "header" /\ pass = Standing
  /\ used # Cell
  /\ Begin("insert", old, x)
  /\ UNCHANGED <<kind, used, link, val, count, singleDid>>

Remove_Linklist(x) ==
  /\ kind = "header" /\ pass = Standing
  /\ Begin("remove", x, x)
  /\ UNCHANGED <<kind, used, link, val, count, singleDid>>

Predecessor == pass.cur

GoesOn == pass.cur # NULL /\ val[pass.cur] # pass.old

\* Past a node that holds something else.
StepOn ==
  /\ pass.op \in {"insert", "remove"}
  /\ GoesOn
  /\ pass' = [pass EXCEPT !.prev = Predecessor, !.cur = link[pass.cur]]
  /\ UNCHANGED <<kind, used, link, val, count, singleDid>>

Arrived(op) == pass.op = op /\ ~GoesOn

\* The new node goes between the two, at the end when old is not there.
LinkNew ==
  /\ Arrived("insert")
  /\ \E c \in Cell \ used :
       /\ used' = used \cup {c}
       /\ val' = [val EXCEPT ![c] = pass.x]
       /\ link' = [link EXCEPT ![c] = pass.cur, ![pass.prev] = c]
  /\ singleDid' = SingleDid("before", pass.old, pass.x, 0)
  /\ pass' = Standing
  /\ UNCHANGED <<kind, count>>

Unlink ==
  /\ Arrived("remove")
  /\ IF pass.cur = NULL THEN UNCHANGED <<used, link>>
     ELSE /\ link' = [link EXCEPT ![pass.prev] = link[pass.cur]]
          /\ used' = used \ {pass.cur}
  /\ singleDid' = SingleDid("remove", 0, pass.x, 0)
  /\ pass' = Standing
  /\ UNCHANGED <<kind, val, count>>

\* findnum_Linklist counts the header node too.
CountFrom == [Standing EXCEPT !.op = "count", !.cur = Header]

findnum_Linklist ==
  /\ kind = "header" /\ pass = Standing
  /\ pass' = CountFrom /\ count' = 0
  /\ UNCHANGED <<kind, used, link, val, singleDid>>

CountNode ==
  /\ pass.op = "count"
  /\ IF pass.cur = NULL THEN pass' = Standing /\ UNCHANGED count
     ELSE pass' = [pass EXCEPT !.cur = link[@]] /\ count' = count + 1
  /\ UNCHANGED <<kind, used, link, val, singleDid>>
-----------------------------------------------------------------------------
(* Clear_Linklist, and list_destroy with the caller's pointer reset: free   *)
(* node by node, the successor read before.                                 *)
Clear_Linklist ==
  /\ pass = Standing
  /\ Begin("clear", 0, 0)
  /\ UNCHANGED <<kind, used, link, val, count, singleDid>>

FreeNode ==
  /\ pass.op = "clear" /\ pass.cur # NULL
  /\ used' = used \ {pass.cur}
  /\ pass' = [pass EXCEPT !.cur = link[@]]
  /\ UNCHANGED <<kind, link, val, count, singleDid>>

ClearReturns ==
  /\ pass.op = "clear" /\ pass.cur = NULL
  /\ link' = [link EXCEPT ![Header] = NULL]
  /\ singleDid' = SingleDid("clear", 0, 0, 0)
  /\ pass' = Standing
  /\ UNCHANGED <<kind, used, val, count>>
-----------------------------------------------------------------------------
\* list_insert and list_delete work at the front.
list_insert(x) ==
  /\ kind = "nohead" /\ pass = Standing
  /\ \/ \E c \in Cell \ used :
          /\ used' = used \cup {c}
          /\ val' = [val EXCEPT ![c] = x]
          /\ link' = [link EXCEPT ![c] = link[Header], ![Header] = c]
          /\ singleDid' = SingleDid("insert", 0, x, 0)
     \/ /\ used = Cell
        /\ singleDid' = SingleDid("insert", 0, x, -1)
        /\ UNCHANGED <<used, val, link>>
  /\ UNCHANGED <<kind, pass, count>>

list_delete ==
  /\ kind = "nohead" /\ pass = Standing
  /\ LET first == link[Header]
     IN  IF first = NULL
         THEN singleDid' = SingleDid("delete", 0, 0, -1) /\ UNCHANGED <<used, link>>
         ELSE /\ link' = [link EXCEPT ![Header] = link[first]]
              /\ used' = used \ {first}
              /\ singleDid' = SingleDid("delete", 0, val[first], 0)
  /\ UNCHANGED <<kind, val, pass, count>>

SingleNext ==
  \/ \E old, x \in SingleItem : Inset_Linklist(old, x)
  \/ \E x \in SingleItem : Remove_Linklist(x) \/ list_insert(x)
  \/ StepOn \/ LinkNew \/ Unlink \/ findnum_Linklist \/ CountNode
  \/ Clear_Linklist \/ FreeNode \/ ClearReturns \/ list_delete

SingleSpec == SingleInit /\ [][SingleNext]_singleVars
-----------------------------------------------------------------------------
SingleContents ==
  LET ends == CHOOSE k \in DOMAIN Chain : Chain[k] = NULL /\ \A j \in 1 .. k - 1 : Chain[j] # NULL
  IN  [k \in 1 .. ends - 1 |-> val[Chain[k]]]

SingleItems == INSTANCE ItemList WITH Item <- SingleItem, Capacity <- Cardinality(Cell),
                                      items <- SingleContents, did <- singleDid

(* The chain always ends with NULL, and every call does to the sequence of  *)
(* its items what it should: the pass stops at the right place with the     *)
(* right predecessor, at the front, in the middle and at the end.           *)
SingleImplementsItems == SingleItems!ItemsSpec
=============================================================================
