------------------------------ MODULE ItemList ------------------------------
(***************************************************************************)
(* What the sequential list, the array stack and the single lists of 数据结构 *)
(* promise: a sequence of items, and for every call what it does to it and   *)
(* the number it returns, those of sqlist.h, sqstack.h and 单链表.c.         *)
(***************************************************************************)
EXTENDS Integers, Sequences, SequencesExt

CONSTANTS Item, Capacity

VARIABLES items,
          did    \* the last call that took effect: its name, arguments and result

Did(op, i, x, rc) == [op |-> op, at |-> i, item |-> x, rc |-> rc]

\* The first item that is x; one place behind the last if there is none.
FirstOf(x) ==
  IF x \in ToSet(items)
  THEN CHOOSE i \in DOMAIN items : items[i] = x /\ \A j \in 1 .. i - 1 : items[j] # x
  ELSE Len(items) + 1

\* sqlist_insert in front of item i, counted from 0.
InsertItem(i, x) ==
  \/ /\ Len(items) = Capacity
     /\ did' = Did("insert", i, x, -1) /\ UNCHANGED items
  \/ /\ Len(items) < Capacity /\ i \notin 0 .. Len(items)
     /\ did' = Did("insert", i, x, -2) /\ UNCHANGED items
  \/ /\ Len(items) < Capacity /\ i \in 0 .. Len(items)
     /\ items' = InsertAt(items, i + 1, x)
     /\ did' = Did("insert", i, x, 0)

DeleteItem(i) ==
  \/ /\ i \notin 0 .. Len(items) - 1
     /\ did' = Did("delete", i, 0, -1) /\ UNCHANGED items
  \/ /\ i \in 0 .. Len(items) - 1
     /\ items' = RemoveAt(items, i + 1)
     /\ did' = Did("delete", i, items[i + 1], 0)

\* Inset_Linklist: in front of the first item that is old.
InsertBefore(old, x) ==
  /\ Len(items) < Capacity
  /\ items' = InsertAt(items, FirstOf(old), x)
  /\ did' = Did("before", old, x, 0)

RemoveItem(x) ==
  /\ items' = IF x \in ToSet(items) THEN RemoveAt(items, FirstOf(x)) ELSE items
  /\ did' = Did("remove", 0, x, 0)

ClearItems == items' = <<>> /\ did' = Did("clear", 0, 0, 0)

ItemsInit == items = <<>> /\ did = Did("create", 0, 0, 0)
ItemsNext == \/ \E i \in -1 .. Capacity : DeleteItem(i) \/ \E x \in Item : InsertItem(i, x)
             \/ \E old, x \in Item : InsertBefore(old, x) \/ RemoveItem(x)
             \/ ClearItems
ItemsSpec == ItemsInit /\ [][ItemsNext]_<<items, did>>
=============================================================================
