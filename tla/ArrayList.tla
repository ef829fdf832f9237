----------------------------- MODULE ArrayList -----------------------------
(***************************************************************************)
(* 顺序存储/sqlist.c, the list in an array, and stack_栈/arr/sqstack.c, the  *)
(* stack in one.  Insertion and deletion move the items behind the place,    *)
(* one assignment at a time; the searching and printing loops change nothing *)
(* and are one step.  One caller, as in the main.c's.                        *)
(***************************************************************************)
EXTENDS Integers, Sequences, SequencesExt

CONSTANTS ArrayItem,  \* the values stored, integers
          DATASIZE,   \* DATASIZE of sqlist.h, MAXSIZE of sqstack.h
          Seconds     \* contents of the second list of a union

ASSUME ArrayAssumption == /\ DATASIZE \in Nat \ {0} /\ ArrayItem \subseteq Int \ {0}
                          /\ Seconds \subseteq Seq(ArrayItem)

VARIABLES shape,     \* "list" or "stack"
          store, last,  \* data and last (top)
          busy,      \* the call that is running, below
          second, nth,  \* the second list; the next item of it, -1 without a union
          before,    \* history: the items when the union began
          arrayDid   \* the last call that took effect

arrayVars == <<shape, store, last, busy, second, nth, before, arrayDid>>

NoCall == [op |-> "none", i |-> 0, x |-> 0, j |-> 0]
ArrayDid(op, i, x, rc) == [op |-> op, at |-> i, item |-> x, rc |-> rc]

\* sqlist_create and st_create.
ArrayInit == /\ shape \in {"list", "stack"}
             /\ store = [k \in 0 .. DATASIZE - 1 |-> 0] /\ last = -1
             /\ busy = NoCall
             /\ second \in Seconds /\ nth = -1 /\ before = <<>>
             /\ arrayDid = ArrayDid("create", 0, 0, 0)

ArrayReturn == busy' = NoCall
ArrayStored == [k \in 1 .. last + 1 |-> store[k - 1]]

ArrayFull == last = DATASIZE - 1
-----------------------------------------------------------------------------
sqlist_insert(i, x) ==
  /\ busy = NoCall
  /\ IF ArrayFull \/ i < 0 \/ i > last + 1
     THEN /\ arrayDid' = ArrayDid("insert", i, x, IF ArrayFull THEN -1 ELSE -2)
          /\ UNCHANGED busy
     ELSE /\ busy' = [op |-> "insert", i |-> i, x |-> x, j |-> last]
          /\ UNCHANGED arrayDid
  /\ UNCHANGED <<shape, store, last, second, before>>

StopsEarly == busy.i < busy.j                                      \* (mutant)
MovesUp == busy.i <= busy.j

ShiftUp ==
  /\ busy.op = "insert" /\ MovesUp
  /\ store' = [store EXCEPT ![busy.j + 1] = store[busy.j]]
  /\ busy' = [busy EXCEPT !.j = @ - 1]
  /\ UNCHANGED <<shape, last, second, nth, before, arrayDid>>

PutItem ==
  /\ busy.op = "insert" /\ ~MovesUp
  /\ store' = [store EXCEPT ![busy.i] = busy.x]
  /\ last' = last + 1
  /\ arrayDid' = ArrayDid("insert", busy.i, busy.x, 0)
  /\ ArrayReturn
  /\ UNCHANGED <<shape, second, nth, before>>

\* The deletion takes effect, for the caller, when it begins to move items.
sqlist_delete(i) ==
  /\ busy = NoCall /\ nth = -1
  /\ IF i < 0 \/ i > last
     THEN arrayDid' = ArrayDid("delete", i, 0, -1) /\ UNCHANGED busy
     ELSE /\ busy' = [op |-> "delete", i |-> i, x |-> 0, j |-> i + 1]
          /\ arrayDid' = ArrayDid("delete", i, store[i], 0)
  /\ UNCHANGED <<shape, store, last, second, nth, before>>

ShiftDown ==
  /\ busy.op = "delete" /\ busy.j <= last
  /\ store' = [store EXCEPT ![busy.j - 1] = store[busy.j]]
  /\ busy' = [busy EXCEPT !.j = @ + 1]
  /\ UNCHANGED <<shape, last, second, nth, before, arrayDid>>

DropLast ==
  /\ busy.op = "delete" /\ busy.j > last
  /\ last' = last - 1
  /\ ArrayReturn
  /\ UNCHANGED <<shape, store, second, nth, before, arrayDid>>

sqlist_setempty ==
  /\ busy = NoCall /\ nth = -1 /\ shape = "list"
  /\ last' = -1
  /\ arrayDid' = ArrayDid("clear", 0, 0, 0)
  /\ UNCHANGED <<shape, store, busy, second, nth, before>>

InsertAnyPlace == /\ shape = "list" /\ nth = -1 /\ UNCHANGED nth
                  /\ \E i \in -1 .. DATASIZE, x \in ArrayItem : sqlist_insert(i, x)
-----------------------------------------------------------------------------
\* st_push and st_pop: the same at the end of the array.
st_push(x) ==
  /\ shape = "stack"
  /\ IF ArrayFull
     THEN arrayDid' = ArrayDid("insert", last + 1, x, -1) /\ UNCHANGED <<store, last>>
     ELSE /\ store' = [store EXCEPT ![last + 1] = x]
          /\ last' = last + 1
          /\ arrayDid' = ArrayDid("insert", last + 1, x, 0)
  /\ UNCHANGED <<shape, busy, second, nth, before>>

st_pop ==
  /\ shape = "stack"
  /\ IF last = -1 THEN arrayDid' = ArrayDid("delete", -1, 0, -1) /\ UNCHANGED last
     ELSE last' = last - 1 /\ arrayDid' = ArrayDid("delete", last, store[last], 0)
  /\ UNCHANGED <<shape, store, busy, second, nth, before>>
-----------------------------------------------------------------------------
(* sqlist_find leaves out the last item.                                    *)
sqlist_find(x) ==
  LET found == {k \in 0 .. last - 1 : store[k] = x}
  IN  IF last = -1 THEN -1 ELSE IF found = {} THEN -2
      ELSE CHOOSE k \in found : \A m \in found : k <= m

(* sqlist_union: what the second list has and sqlist_find does not find is  *)
(* inserted in front; a full list refuses it unnoticed.                     *)
sqlist_union ==
  /\ shape = "list" /\ busy = NoCall /\ nth = -1
  /\ nth' = 1 /\ before' = ArrayStored
  /\ UNCHANGED <<shape, store, last, busy, second, arrayDid>>

NotFoundOnly == sqlist_find(second[nth]) = -2                      \* (mutant)
NotIn == sqlist_find(second[nth]) < 0

UnionStep ==
  /\ nth \in 1 .. Len(second)
  /\ nth' = nth + 1
  /\ IF NotIn THEN sqlist_insert(0, second[nth])
     ELSE busy = NoCall /\ UNCHANGED <<shape, store, last, busy, second, before, arrayDid>>

UnionReturns ==
  /\ nth > Len(second) /\ busy = NoCall
  /\ nth' = -1 /\ before' = <<>>
  /\ UNCHANGED <<shape, store, last, busy, second, arrayDid>>

ArrayNext ==
  \/ InsertAnyPlace \/ ShiftUp \/ PutItem
  \/ shape = "list" /\ \E i \in -1 .. DATASIZE : sqlist_delete(i)
  \/ ShiftDown \/ DropLast \/ sqlist_setempty
  \/ sqlist_union \/ UnionStep \/ UnionReturns
  \/ st_pop \/ \E x \in ArrayItem : st_push(x)

ArraySpec == ArrayInit /\ [][ArrayNext]_arrayVars
-----------------------------------------------------------------------------
(* The items while some are being moved: those an insertion has moved are   *)
(* still in order, one place up; a deletion has dropped its item.           *)
ArrayContents ==
  CASE busy.op = "insert" ->
         [k \in 1 .. last + 1 |-> IF k - 1 > busy.j THEN store[k] ELSE store[k - 1]]
    [] busy.op = "delete" ->
         [k \in 1 .. last |-> IF k < busy.j THEN store[k - 1] ELSE store[k]]
    [] OTHER -> ArrayStored

ArrayItems == INSTANCE ItemList WITH Item <- ArrayItem, Capacity <- DATASIZE,
                                     items <- ArrayContents, did <- arrayDid

(* The moving loops lose, double and reorder nothing, at either end of the  *)
(* array and when it is full: every call does to the sequence of items what *)
(* its name says and returns the number that tells how it went.             *)
ArrayImplementsItems == ArrayItems!ItemsSpec

(* After a union the first list holds what either list held, its own items  *)
(* at its end in their old order, unless there was no room; although the    *)
(* search never looks at the last item and an insertion in the middle of    *)
(* the loop moves all of them.                                              *)
UnionHoldsBoth ==
  nth > Len(second) /\ busy = NoCall =>
    /\ IsSuffix(before, ArrayStored)
    /\ ToSet(before) \subseteq ToSet(ArrayStored)
    /\ last < DATASIZE - 1 => ToSet(second) \subseteq ToSet(ArrayStored)
    /\ ToSet(ArrayStored) \subseteq ToSet(before) \cup ToSet(second)
=============================================================================
