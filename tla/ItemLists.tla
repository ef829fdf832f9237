------------------------------ MODULE ItemLists ------------------------------
(***************************************************************************)
(* The lists that keep a sequence of items, in an array and in a chain of   *)
(* nodes: two implementations of ItemList.  They share no state.            *)
(***************************************************************************)
EXTENDS ArrayList, SingleList

(* The sequential list, the array stack and the single lists implement the  *)
(* sequence of items: ArrayImplementsItems and SingleImplementsItems.       *)
ListsImplementItems == ArrayImplementsItems /\ SingleImplementsItems
=============================================================================
