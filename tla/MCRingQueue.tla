----------------------------- MODULE MCRingQueue -----------------------------
(* The small structures of 数据结构, which do not interact, in one run: a     *)
(* behaviour is one of the array queue, of the sequential list or array      *)
(* stack, of a single list, or of a program that computes with one.          *)
EXTENDS RingQueue, ItemLists, ListPuzzles

VARIABLE structure

MCSeconds == UNION {[1 .. n -> ArrayItem] : n \in 0 .. 2}
MCPolynomials == {<<>>, <<<<5, 0>>, <<3, 2>>>>, <<<<4, 1>>, <<-3, 2>>>>, <<<<2, 3>>>>,
                  <<<<-5, 0>>, <<1, 1>>, <<-3, 2>>>>}

OfQueue(A) == structure = "queue" /\ A /\ UNCHANGED <<structure, arrayVars, singleVars, puzzleVars>>
OfArray(A) == structure = "array" /\ A /\ UNCHANGED <<structure, vars, singleVars, puzzleVars>>
OfSingle(A) == structure = "single" /\ A /\ UNCHANGED <<structure, vars, arrayVars, puzzleVars>>
OfPuzzle(A) == structure = "puzzle" /\ A /\ UNCHANGED <<structure, vars, arrayVars, singleVars>>

\* The structures a behaviour is not about stand in one initial state.
StructInit ==
  /\ structure \in {"queue", "array", "single", "puzzle"}
  /\ task \in {"merge", "circle"} /\ (structure # "puzzle" => task = "merge")
  /\ structure # "queue" => data = [k \in Slot |-> 1]
  /\ structure # "array" => shape = "list" /\ second = <<>>
  /\ structure # "single" => kind = "header"
  /\ (structure = "puzzle" /\ task = "merge") \/ (a1 = <<>> /\ a2 = <<>>)
  /\ (structure = "puzzle" /\ task = "circle") \/ (step = 2 /\ circle = <<1>>)
  /\ Init /\ ArrayInit /\ SingleInit /\ PuzzleInit
StructNext == OfQueue(Next) \/ OfArray(ArrayNext) \/ OfSingle(SingleNext) \/ OfPuzzle(PuzzleNext)
StructSpec == StructInit /\ [][StructNext]_<<structure, vars, arrayVars, singleVars, puzzleVars>>
=============================================================================
