---------------------------- MODULE MCLinkedList ----------------------------
(* The three interfaces of the list, memory for three nodes, two values.    *)
EXTENDS LinkedList
=============================================================================
