-------------------------- MODULE LinearListProofs --------------------------
(***************************************************************************)
(* The lists of 数据结构.  For every ring size and every set of items the     *)
(* indices of the array queue stay in the array, the walk of qu_travel stays *)
(* on the stored items, and the ring implements FifoQueue.  For every        *)
(* DATASIZE the sequential list and the array stack implement ItemList, and  *)
(* a union holds the items of both lists.  For every set of cells the single *)
(* lists, with a header node and without, implement ItemList.                *)
(***************************************************************************)
EXTENDS RingQueue, ItemLists, SequenceTheorems, FiniteSetTheorems, WellFoundedInduction, TLAPS

(* Advancing an index modulo MAXSIZE (queue.c:25, 35, 55) is adding one and *)
(* wrapping at the last slot.                                               *)
LEMMA NextSlotWraps ==
  ASSUME NEW i \in Slot
  PROVE  /\ NextSlot(i) \in Slot
         /\ NextSlot(i) = IF i = MAXSIZE - 1 THEN 0 ELSE i + 1
<1>1. MAXSIZE \in Nat \ {0}
  BY RingAssumption
<1>2. CASE i = MAXSIZE - 1
  BY <1>1, <1>2 DEF NextSlot, Slot
<1>3. CASE i # MAXSIZE - 1
  BY <1>1, <1>3 DEF NextSlot, Slot
<1>4. QED
  BY <1>2, <1>3

(* The number of stored items is between none and MAXSIZE - 1, and At(k)    *)
(* names a slot for each of them.                                           *)
LEMMA CountBounds ==
  ASSUME TypeOK
  PROVE  /\ Count \in 0 .. MAXSIZE - 1
         /\ \A k \in 0 .. MAXSIZE - 1 : At(k) \in Slot
         /\ Count = 0 <=> head = tail
         /\ NextSlot(tail) = head <=> Count = MAXSIZE - 1
         /\ head = At(0) /\ tail = At(Count)
<1>1. MAXSIZE \in Nat \ {0} /\ head \in 0 .. MAXSIZE - 1 /\ tail \in 0 .. MAXSIZE - 1
  BY RingAssumption DEF TypeOK, Slot
<1>2. NextSlot(tail) = IF tail = MAXSIZE - 1 THEN 0 ELSE tail + 1
  BY <1>1, NextSlotWraps DEF Slot
<1>3. QED
  BY <1>1, <1>2 DEF Count, At, Slot

(* Contents is a sequence of items as long as Count says.                   *)
LEMMA ContentsSeq ==
  ASSUME TypeOK
  PROVE  /\ Contents \in Seq(Item)
         /\ Len(Contents) = Count
         /\ \A k \in 1 .. Count : Contents[k] = data[At(k)]
<1>1. Count \in Nat /\ \A k \in 1 .. Count : At(k) \in Slot
  <2>1. Count \in 0 .. MAXSIZE - 1 /\ \A k \in 0 .. MAXSIZE - 1 : At(k) \in Slot
    BY CountBounds
  <2>2. MAXSIZE \in Nat \ {0}
    BY RingAssumption
  <2>3. QED
    BY <2>1, <2>2
<1>2. \A k \in 1 .. Count : data[At(k)] \in Item
  BY <1>1 DEF TypeOK
<1>3. QED
  BY <1>1, <1>2 DEF Contents

(* Two sequences of the same length and the same elements are equal.        *)
LEMMA SameSeq ==
  ASSUME NEW S, NEW s \in Seq(S), NEW t \in Seq(S), Len(s) = Len(t),
         \A k \in 1 .. Len(s) : s[k] = t[k]
  PROVE  s = t
OBVIOUS

-----------------------------------------------------------------------------
(* The inductive invariant: the types and the position of the walk.         *)
Inv == TypeOK /\ WalkInv

LEMMA InvInit == Init => Inv
<1>1. MAXSIZE \in Nat \ {0}
  BY RingAssumption
<1>2. QED
  BY <1>1 DEF Init, Inv, TypeOK, WalkInv, Slot, Outside, Answer, Answers, Ops

(* What a call answers is an answer.                                        *)
LEMMA AnswerIsAnswer ==
  ASSUME NEW op \in Ops, NEW rc \in {0, -1}, NEW out \in Seq(Item)
  PROVE  Answer(op, rc, out) \in Answers
BY DEF Answer, Answers

LEMMA InvStep == Inv /\ [Next]_vars => Inv'
<1> SUFFICES ASSUME Inv, [Next]_vars
             PROVE  Inv'
  OBVIOUS
<1>m. MAXSIZE \in Nat \ {0}
  BY RingAssumption
<1>t. TypeOK /\ WalkInv
  BY DEF Inv
<1>e. <<>> \in Seq(Item)
  OBVIOUS
<1>1. CASE qu_create
  <2>1. answer' \in Answers
    BY <1>1, <1>e, AnswerIsAnswer DEF qu_create, Ops
  <2>2. TypeOK'
    BY <1>1, <2>1, <1>t, <1>m DEF qu_create, TypeOK, Slot
  <2>3. walk = Outside
    BY <1>1, <1>t DEF qu_create, WalkInv
  <2>4. QED
    BY <1>1, <2>2, <2>3 DEF qu_create, WalkInv, Inv
<1>2. ASSUME NEW x \in Item, qu_enqueue(x)
      PROVE  Inv'
  <2>1. NextSlot(tail) \in Slot
    BY <1>t, NextSlotWraps DEF TypeOK
  <2>2. answer' \in Answers
    BY <1>2, <1>e, AnswerIsAnswer DEF qu_enqueue, Ops
  <2>3. TypeOK'
    BY <1>2, <2>1, <2>2, <1>t DEF qu_enqueue, TypeOK, ring
  <2>4. QED
    BY <1>2, <2>3 DEF qu_enqueue, Calling, WalkInv, Inv
<1>3. CASE qu_dequeue
  <2>1. NextSlot(head) \in Slot
    BY <1>t, NextSlotWraps DEF TypeOK
  <2>2. answer' \in Answers
    <3>1. CASE qu_isempty
      BY <1>3, <3>1, <1>e, AnswerIsAnswer DEF qu_dequeue, Ops
    <3>2. CASE ~qu_isempty
      <4>1. data[head'] \in Item
        BY <1>3, <3>2, <2>1, <1>t DEF qu_dequeue, TypeOK
      <4>2. <<data[head']>> \in Seq(Item)
        BY <4>1
      <4>3. answer' = Answer("dequeue", 0, <<data[head']>>)
        BY <1>3, <3>2 DEF qu_dequeue
      <4>4. QED
        BY <4>2, <4>3, AnswerIsAnswer DEF Ops
    <3>3. QED
      BY <3>1, <3>2
  <2>3. TypeOK'
    BY <1>3, <2>1, <2>2, <1>t DEF qu_dequeue, TypeOK
  <2>4. QED
    BY <1>3, <2>3 DEF qu_dequeue, Calling, WalkInv, Inv
<1>4. CASE qu_travel
  <2>1. NextSlot(head) \in Slot /\ NextSlot(head) = At(1)
    BY <1>t, <1>m, NextSlotWraps DEF TypeOK, At, Slot
  <2>2. answer' \in Answers
    BY <1>4, <1>e, <1>t, AnswerIsAnswer DEF qu_travel, TypeOK, Ops
  <2>3. TypeOK'
    BY <1>4, <2>1, <2>2, <1>t DEF qu_travel, TypeOK, ring, First
  <2>4. ~qu_isempty => Count > 0
    BY <1>t, CountBounds, <1>m DEF qu_isempty
  <2>5. UNCHANGED <<Count, data, life>> /\ At(1)' = At(1)
    BY <1>4 DEF qu_travel, ring, Count, At
  <2>6. WalkInv'
    <3>1. CASE qu_isempty
      BY <1>4, <3>1 DEF qu_travel, Calling, WalkInv
    <3>2. CASE ~qu_isempty
      <4>1. printed' = <<>> /\ walk' = At(1) /\ life' = "live"
        BY <1>4, <3>2, <2>1, <2>5 DEF qu_travel, Calling, First
      <4>2. Len(printed') = 0 /\ walk' = (At(Len(printed) + 1))'
        BY <1>4, <4>1 DEF qu_travel, ring, At
      <4>3. QED
        BY <4>1, <4>2, <2>4, <2>5, <3>2 DEF WalkInv
    <3>3. QED
      BY <3>1, <3>2
  <2>7. QED
    BY <2>3, <2>6 DEF Inv
<1>5. CASE TravelStep
  <2>1. /\ walk # Outside /\ life = "live"
        /\ Len(printed) \in Nat /\ Len(printed) < Count
        /\ walk = At(Len(printed) + 1)
        /\ \A k \in 1 .. Len(printed) : printed[k] = data[At(k)]
        /\ walk \in Slot /\ printed \in Seq(Item) /\ data[walk] \in Item
    BY <1>5, <1>t DEF TravelStep, WalkInv, TypeOK
  <2>2. /\ Count \in 0 .. MAXSIZE - 1 /\ tail = At(Count)
        /\ head \in 0 .. MAXSIZE - 1
    BY <1>t, CountBounds DEF TypeOK, Slot
  <2>3. UNCHANGED <<Count, data, life>> /\ \A k : At(k)' = At(k)
    BY <1>5 DEF TravelStep, ring, Count, At
  <2>4. /\ printed' \in Seq(Item) /\ Len(printed') = Len(printed) + 1
        /\ \A k \in 1 .. Len(printed') : printed'[k] = data[At(k)]
    BY <1>5, <2>1 DEF TravelStep
  <2>5. TypeOK'
    <3>1. NextSlot(walk) \in Slot
      BY <2>1, NextSlotWraps
    <3>2. answer' \in Answers
      BY <1>5, <1>t, <2>4, AnswerIsAnswer DEF TravelStep, TypeOK, Ops
    <3>3. QED
      BY <1>5, <1>t, <2>4, <3>1, <3>2 DEF TravelStep, TypeOK, ring
  <2>6. CASE walk = tail
    BY <1>5, <2>5, <2>6 DEF TravelStep, WalkInv, Inv
  <2>7. CASE walk # tail
    <3>1. Len(printed) + 1 < Count
      BY <2>1, <2>2, <2>7, <1>m
    <3>2. walk \in 0 .. MAXSIZE - 1
      BY <2>1 DEF Slot
    <3>3. NextSlot(walk) = IF walk = MAXSIZE - 1 THEN 0 ELSE walk + 1
      BY <2>1, NextSlotWraps
    <3>4. (IF walk = MAXSIZE - 1 THEN 0 ELSE walk + 1) = At(Len(printed) + 2)
      BY <2>1, <2>2, <3>1, <3>2, <1>m DEF At
    <3>5. walk' = (At(Len(printed) + 1))'
      <4>1. Len(printed') + 1 = Len(printed) + 2
        BY <2>1, <2>4
      <4>2. walk' = At(Len(printed) + 2)
        BY <1>5, <2>7, <3>3, <3>4 DEF TravelStep
      <4>3. QED
        BY <1>5, <4>1, <4>2 DEF TravelStep, ring, At
    <3>6. WalkInv'
      <4>1. \A k \in 1 .. Len(printed') : printed'[k] = data'[(At(k))']
        BY <1>5, <2>4 DEF TravelStep, ring, At
      <4>2. Len(printed') < Count'
        BY <2>1, <2>3, <2>4, <3>1
      <4>3. QED
        BY <2>1, <2>3, <3>5, <4>1, <4>2 DEF WalkInv
    <3>7. QED
      BY <2>5, <3>6 DEF Inv
  <2>8. QED
    BY <2>6, <2>7
<1>6. CASE qu_clear
  <2>1. answer' \in Answers
    BY <1>6, <1>e, AnswerIsAnswer DEF qu_clear, Ops
  <2>2. TypeOK'
    BY <1>6, <2>1, <1>t DEF qu_clear, TypeOK
  <2>3. QED
    BY <1>6, <2>2 DEF qu_clear, Calling, WalkInv, Inv
<1>7. CASE qu_destroy
  <2>1. answer' \in Answers
    BY <1>7, <1>e, AnswerIsAnswer DEF qu_destroy, Ops
  <2>2. TypeOK'
    BY <1>7, <2>1, <1>t DEF qu_destroy, TypeOK, ring
  <2>3. QED
    BY <1>7, <2>2 DEF qu_destroy, Calling, WalkInv, Inv
<1>8. CASE UNCHANGED vars
  BY <1>8, <1>t DEF vars, TypeOK, WalkInv, Inv, Count, At
<1>9. QED
  BY <1>1, <1>2, <1>3, <1>4, <1>5, <1>6, <1>7, <1>8 DEF Next

(* The types hold in every reachable state: no index ever leaves the array  *)
(* of queue.h, whatever the size of the ring and the order of the calls.    *)
THEOREM RingTypeOK == Spec => []TypeOK
<1>1. Inv => TypeOK
  BY DEF Inv
<1>2. QED
  BY InvInit, InvStep, <1>1, PTL DEF Spec

(* qu_travel always stands on the item that follows what it has printed.    *)
THEOREM RingWalk == Spec => []WalkInv
<1>1. Inv => WalkInv
  BY DEF Inv
<1>2. QED
  BY InvInit, InvStep, <1>1, PTL DEF Spec

-----------------------------------------------------------------------------
(* A step that leaves the ring alone leaves its contents alone.             *)
LEMMA SameRing ==
  ASSUME UNCHANGED ring
  PROVE  UNCHANGED <<Count, Contents>>
BY DEF ring, Count, At, Contents

(* A successful qu_enqueue appends its item to the contents: the slot it    *)
(* writes is none of those that hold an item.                               *)
LEMMA EnqueueAppends ==
  ASSUME Inv, Inv', NEW x \in Item, qu_enqueue(x), NextSlot(tail) # head
  PROVE  /\ Len(Contents) < MAXSIZE - 1
         /\ Contents' = Append(Contents, x)
         /\ answer' = Answer("enqueue", 0, <<>>)
<1>m. MAXSIZE \in Nat \ {0}
  BY RingAssumption
<1>1. /\ head \in 0 .. MAXSIZE - 1 /\ tail \in 0 .. MAXSIZE - 1
      /\ data \in [0 .. MAXSIZE - 1 -> Item]
  BY DEF Inv, TypeOK, Slot
<1>2. NextSlot(tail) = IF tail = MAXSIZE - 1 THEN 0 ELSE tail + 1
  BY <1>1, NextSlotWraps DEF Slot
<1>3. /\ head' = head /\ tail' = NextSlot(tail)
      /\ data' = [data EXCEPT ![tail'] = x]
      /\ answer' = Answer("enqueue", 0, <<>>)
  BY DEF qu_enqueue, Full
<1>4. Count \in Nat /\ Count < MAXSIZE - 1 /\ Count' = Count + 1
  BY <1>m, <1>1, <1>2, <1>3 DEF Count
<1>5. tail' = (At(Count))'
  BY <1>m, <1>1, <1>2, <1>3 DEF Count, At
<1>6. \A k \in 1 .. Count : (At(k))' = At(k) /\ At(k) # tail' /\ At(k) \in 0 .. MAXSIZE - 1
  BY <1>m, <1>1, <1>2, <1>3, <1>4 DEF Count, At
<1>7. /\ Contents \in Seq(Item) /\ Len(Contents) = Count
      /\ \A k \in 1 .. Count : Contents[k] = data[At(k)]
  BY ContentsSeq DEF Inv
<1>8. /\ Contents' \in Seq(Item) /\ Len(Contents') = Count'
      /\ \A k \in 1 .. Count' : Contents'[k] = data'[(At(k))']
  <2>1. TypeOK'
    BY DEF Inv
  <2>2. (TypeOK => /\ Contents \in Seq(Item) /\ Len(Contents) = Count
                   /\ \A k \in 1 .. Count : Contents[k] = data[At(k)])'
    BY ContentsSeq, PTL
  <2>3. QED
    BY <2>1, <2>2
<1>9. \A k \in 1 .. Count + 1 : Contents'[k] = Append(Contents, x)[k]
  <2> SUFFICES ASSUME NEW k \in 1 .. Count + 1
               PROVE  Contents'[k] = Append(Contents, x)[k]
    OBVIOUS
  <2>1. CASE k = Count + 1
    <3>1. Contents'[k] = data'[tail'] /\ data'[tail'] = x
      <4>1. tail' \in 0 .. MAXSIZE - 1
        BY <1>m, <1>1, <1>2, <1>3
      <4>2. (At(k))' = tail'
        BY <1>5, <2>1, <1>4 DEF At
      <4>3. QED
        BY <1>1, <1>3, <1>4, <1>8, <4>1, <4>2
    <3>2. Append(Contents, x)[k] = x
      BY <1>7, <2>1
    <3>3. QED
      BY <3>1, <3>2
  <2>2. CASE k # Count + 1
    <3>1. k \in 1 .. Count
      BY <2>2, <1>4
    <3>2. Contents'[k] = data[At(k)]
      BY <3>1, <1>1, <1>3, <1>4, <1>6, <1>8
    <3>3. Append(Contents, x)[k] = Contents[k]
      BY <3>1, <1>7
    <3>4. QED
      BY <3>1, <3>2, <3>3, <1>7
  <2>3. QED
    BY <2>1, <2>2
<1>10. Contents' = Append(Contents, x)
  <2>1. Append(Contents, x) \in Seq(Item) /\ Len(Append(Contents, x)) = Count + 1
    BY <1>7
  <2>2. QED
    BY <1>4, <1>8, <1>9, <2>1, SameSeq
<1>11. QED
  BY <1>3, <1>4, <1>7, <1>10

(* A successful qu_dequeue hands back the oldest item and removes it.       *)
LEMMA DequeueTakesOldest ==
  ASSUME Inv, Inv', qu_dequeue, head # tail
  PROVE  /\ Contents # <<>>
         /\ Contents' = Tail(Contents)
         /\ answer' = Answer("dequeue", 0, <<Head(Contents)>>)
<1>m. MAXSIZE \in Nat \ {0}
  BY RingAssumption
<1>1. head \in 0 .. MAXSIZE - 1 /\ tail \in 0 .. MAXSIZE - 1
  BY DEF Inv, TypeOK, Slot
<1>2. NextSlot(head) = IF head = MAXSIZE - 1 THEN 0 ELSE head + 1
  BY <1>1, NextSlotWraps DEF Slot
<1>3. /\ head' = NextSlot(head) /\ UNCHANGED <<data, tail>>
      /\ answer' = Answer("dequeue", 0, <<data[head']>>)
  BY DEF qu_dequeue, qu_isempty
<1>4. Count \in Nat \ {0} /\ Count' = Count - 1 /\ head' = At(1)
  BY <1>m, <1>1, <1>2, <1>3 DEF Count, At
<1>5. \A k \in 1 .. Count - 1 : (At(k))' = At(k + 1)
  BY <1>m, <1>1, <1>2, <1>3, <1>4 DEF Count, At
<1>6. /\ Contents \in Seq(Item) /\ Len(Contents) = Count
      /\ \A k \in 1 .. Count : Contents[k] = data[At(k)]
  BY ContentsSeq DEF Inv
<1>7. /\ Contents' \in Seq(Item) /\ Len(Contents') = Count'
      /\ \A k \in 1 .. Count' : Contents'[k] = data'[(At(k))']
  <2>1. TypeOK'
    BY DEF Inv
  <2>2. (TypeOK => /\ Contents \in Seq(Item) /\ Len(Contents) = Count
                   /\ \A k \in 1 .. Count : Contents[k] = data[At(k)])'
    BY ContentsSeq, PTL
  <2>3. QED
    BY <2>1, <2>2
<1>8. Contents # <<>> /\ Head(Contents) = data[head']
  BY <1>4, <1>6
<1>9. /\ Tail(Contents) \in Seq(Item) /\ Len(Tail(Contents)) = Count - 1
      /\ \A k \in 1 .. Count - 1 : Tail(Contents)[k] = Contents[k + 1]
  BY <1>4, <1>6, <1>8
<1>10. \A k \in 1 .. Count - 1 : Contents'[k] = Tail(Contents)[k]
  <2> SUFFICES ASSUME NEW k \in 1 .. Count - 1
               PROVE  Contents'[k] = Tail(Contents)[k]
    OBVIOUS
  <2>1. k + 1 \in 1 .. Count
    BY <1>4
  <2>2. Contents'[k] = data[At(k + 1)]
    BY <1>3, <1>4, <1>5, <1>7
  <2>3. QED
    BY <2>1, <2>2, <1>6, <1>9
<1>11. Contents' = Tail(Contents)
  BY <1>4, <1>7, <1>9, <1>10, SameSeq
<1>12. QED
  BY <1>3, <1>8, <1>11

-----------------------------------------------------------------------------
(* The initial state of the ring maps to the initial state of the FIFO.     *)
LEMMA RefinesInit == Init => Fifo!Init
BY DEF Init, Fifo!Init, Answer, Fifo!Answer

(* Every step of the ring maps to a step of the FIFO or to none.            *)
LEMMA RefinesStep == Inv /\ Inv' /\ [Next]_vars => [Fifo!Next]_(Fifo!fifoVars)
<1> SUFFICES ASSUME Inv, Inv', [Next]_vars
             PROVE  [Fifo!Next]_(Fifo!fifoVars)
  OBVIOUS
<1>m. MAXSIZE \in Nat \ {0}
  BY RingAssumption
<1>t. TypeOK /\ WalkInv
  BY DEF Inv
<1>c. /\ Count \in 0 .. MAXSIZE - 1 /\ (Count = 0 <=> head = tail)
      /\ (NextSlot(tail) = head <=> Count = MAXSIZE - 1)
      /\ Contents \in Seq(Item) /\ Len(Contents) = Count
      /\ \A k \in 1 .. Count : Contents[k] = data[At(k)]
  BY <1>t, CountBounds, ContentsSeq
<1>1. CASE qu_create
  <2>1. CASE life' = "live"
    <3>1. (head = tail)' /\ TypeOK'
      BY <1>1, <2>1 DEF qu_create, Inv
    <3>2. (TypeOK => /\ (Count = 0 <=> head = tail) /\ Contents \in Seq(Item)
                     /\ Len(Contents) = Count)'
      BY CountBounds, ContentsSeq, PTL
    <3>3. Contents' = <<>>
      BY <3>1, <3>2
    <3>4. QED
      BY <1>1, <2>1, <3>3 DEF qu_create, Fifo!Next, Fifo!Create, Answer, Fifo!Answer
  <2>2. CASE life' # "live"
    BY <1>1, <2>2 DEF qu_create, Fifo!Next, Fifo!Create, Answer, Fifo!Answer
  <2>3. QED
    BY <2>1, <2>2
<1>2. ASSUME NEW x \in Item, qu_enqueue(x)
      PROVE  Fifo!Enqueue(x)
  <2>1. life = "live" /\ life' = "live"
    BY <1>2 DEF qu_enqueue, Calling
  <2>2. CASE NextSlot(tail) = head
    <3>1. UNCHANGED Contents /\ answer' = Answer("enqueue", -1, <<>>)
      BY <1>2, <2>2, SameRing DEF qu_enqueue, Full
    <3>2. QED
      BY <2>1, <2>2, <3>1, <1>c DEF Fifo!Enqueue, Answer, Fifo!Answer
  <2>3. CASE NextSlot(tail) # head
    BY <1>2, <2>1, <2>3, EnqueueAppends DEF Fifo!Enqueue, Answer, Fifo!Answer
  <2>4. QED
    BY <2>2, <2>3
<1>3. CASE qu_dequeue
  <2>1. life = "live" /\ life' = "live"
    BY <1>3 DEF qu_dequeue, Calling
  <2>2. CASE head = tail
    <3>1. UNCHANGED Contents /\ answer' = Answer("dequeue", -1, <<>>)
      BY <1>3, <2>2, SameRing DEF qu_dequeue, qu_isempty, ring
    <3>2. Contents = <<>>
      BY <2>2, <1>c
    <3>3. QED
      BY <2>1, <3>1, <3>2 DEF Fifo!Next, Fifo!Dequeue, Answer, Fifo!Answer
  <2>3. CASE head # tail
    BY <1>3, <2>1, <2>3, DequeueTakesOldest
    DEF Fifo!Next, Fifo!Dequeue, Answer, Fifo!Answer
  <2>4. QED
    BY <2>2, <2>3
<1>4. CASE qu_travel
  <2>1. UNCHANGED <<Contents, life>> /\ life = "live"
    BY <1>4, SameRing DEF qu_travel, Calling
  <2>2. CASE qu_isempty
    <3>1. Contents = <<>>
      BY <2>2, <1>c DEF qu_isempty
    <3>2. answer' = Answer("travel", 0, <<>>)
      BY <1>4, <2>2 DEF qu_travel
    <3>3. QED
      BY <2>1, <3>1, <3>2 DEF Fifo!Next, Fifo!Travel, Answer, Fifo!Answer
  <2>3. CASE ~qu_isempty
    BY <1>4, <2>1, <2>3 DEF qu_travel, Fifo!fifoVars
  <2>4. QED
    BY <2>2, <2>3
<1>5. CASE TravelStep
  <2>1. UNCHANGED <<Contents, life>> /\ life = "live" /\ walk # Outside
    BY <1>5, <1>t, SameRing DEF TravelStep, WalkInv
  <2>2. CASE walk # tail
    BY <1>5, <2>1, <2>2 DEF TravelStep, Fifo!fifoVars
  <2>3. CASE walk = tail
    <3>1. /\ Len(printed) \in Nat /\ Len(printed) < Count /\ walk = At(Len(printed) + 1)
          /\ \A k \in 1 .. Len(printed) : printed[k] = data[At(k)]
          /\ head \in 0 .. MAXSIZE - 1 /\ tail \in 0 .. MAXSIZE - 1
          /\ printed \in Seq(Item) /\ data[walk] \in Item
      BY <1>t, <2>1, <2>3 DEF WalkInv, TypeOK, Slot
    <3>2. Len(printed) + 1 = Count
      BY <3>1, <2>3, <1>m DEF Count, At
    <3>3. /\ printed' \in Seq(Item) /\ Len(printed') = Count
          /\ \A k \in 1 .. Count : printed'[k] = data[At(k)]
      BY <1>5, <3>1, <3>2 DEF TravelStep
    <3>4. printed' = Contents
      BY <3>3, <1>c, SameSeq
    <3>5. answer' = Answer("travel", 0, Contents)
      BY <1>5, <2>3, <3>4 DEF TravelStep
    <3>6. QED
      BY <2>1, <3>5 DEF Fifo!Next, Fifo!Travel, Answer, Fifo!Answer
  <2>4. QED
    BY <2>2, <2>3
<1>6. CASE qu_clear
  <2>1. (head = tail)' /\ TypeOK'
    BY <1>6 DEF qu_clear, Inv
  <2>2. (TypeOK => /\ (Count = 0 <=> head = tail) /\ Contents \in Seq(Item)
                   /\ Len(Contents) = Count)'
    BY CountBounds, ContentsSeq, PTL
  <2>3. Contents' = <<>>
    BY <2>1, <2>2
  <2>4. QED
    BY <1>6, <2>3 DEF qu_clear, Calling, Fifo!Next, Fifo!Clear, Answer, Fifo!Answer
<1>7. CASE qu_destroy
  BY <1>7 DEF qu_destroy, Calling, Fifo!Next, Fifo!Destroy, Answer, Fifo!Answer
<1>8. CASE UNCHANGED vars
  <2>1. UNCHANGED <<Contents, life, answer>>
    BY <1>8, SameRing DEF vars, ring
  <2>2. QED
    BY <2>1 DEF Fifo!fifoVars
<1>9. QED
  BY <1>1, <1>2, <1>3, <1>4, <1>5, <1>6, <1>7, <1>8 DEF Next, Fifo!Next

(* The array queue of queue.c is a bounded FIFO for every MAXSIZE: items    *)
(* leave in the order they entered whatever the wrapping of its indices,    *)
(* exactly MAXSIZE - 1 of them fit, and qu_travel prints them all.          *)
THEOREM RingRefinesFifo == Spec => ImplementsFifo
<1>1. Init => Inv /\ Fifo!Init
  BY InvInit, RefinesInit
<1>2. Inv /\ [Next]_vars => Inv'
  BY InvStep
<1>3. Inv /\ Inv' /\ [Next]_vars => [Fifo!Next]_(Fifo!fifoVars)
  BY RefinesStep
<1>4. QED
  BY <1>1, <1>2, <1>3, PTL DEF Spec, ImplementsFifo, Fifo!Spec

-----------------------------------------------------------------------------
(* The items of the first l + 1 places of the array s: at rest, while those *)
(* behind j stand one place up, and while one is gone and those from j on   *)
(* have still to follow.                                                    *)
AtRest(s, l) == [k \in 1 .. l + 1 |-> s[k - 1]]
Opened(s, l, j) == [k \in 1 .. l + 1 |-> IF k - 1 > j THEN s[k] ELSE s[k - 1]]
Closing(s, l, j) == [k \in 1 .. l |-> IF k < j THEN s[k - 1] ELSE s[k]]

Store == [0 .. DATASIZE - 1 -> Int]

(* What InsertAt and RemoveAt do to a sequence, element by element.         *)
LEMMA InsertAtElements ==
  ASSUME NEW c \in Seq(Int), NEW i \in 1 .. Len(c) + 1, NEW x \in Int
  PROVE  /\ InsertAt(c, i, x) \in Seq(Int)
         /\ Len(InsertAt(c, i, x)) = Len(c) + 1
         /\ \A k \in 1 .. Len(c) + 1 :
              InsertAt(c, i, x)[k] = IF k < i THEN c[k] ELSE IF k = i THEN x ELSE c[k - 1]
<1> DEFINE a == SubSeq(c, 1, i - 1)
           b == SubSeq(c, i, Len(c))
<1>0. Len(c) \in Nat /\ i \in Nat
  OBVIOUS
<1>1. a \in Seq(Int) /\ Len(a) = i - 1 /\ \A k \in 1 .. i - 1 : a[k] = c[k]
  BY <1>0
<1>2. b \in Seq(Int) /\ Len(b) = Len(c) - i + 1 /\ \A k \in 1 .. Len(c) - i + 1 : b[k] = c[i + k - 1]
  BY <1>0
<1>3. /\ a \o <<x>> \in Seq(Int) /\ Len(a \o <<x>>) = i
      /\ \A k \in 1 .. i : (a \o <<x>>)[k] = IF k < i THEN c[k] ELSE x
  BY <1>0, <1>1
<1>4. InsertAt(c, i, x) = (a \o <<x>>) \o b
  BY DEF InsertAt
<1> HIDE DEF a, b
<1> DEFINE d == a \o <<x>>
<1>5. /\ d \in Seq(Int) /\ Len(d) = i
      /\ \A k \in 1 .. i : d[k] = IF k < i THEN c[k] ELSE x
      /\ InsertAt(c, i, x) = d \o b
  BY <1>3, <1>4
<1> HIDE DEF d
<1>6. /\ d \o b \in Seq(Int) /\ Len(d \o b) = Len(c) + 1
      /\ \A k \in 1 .. Len(c) + 1 : (d \o b)[k] = IF k <= i THEN d[k] ELSE b[k - i]
  <2>1. Len(d) + Len(b) = Len(c) + 1
    BY <1>0, <1>2, <1>5
  <2>2. /\ d \o b \in Seq(Int) /\ Len(d \o b) = Len(d) + Len(b)
        /\ \A k \in 1 .. Len(d) + Len(b) :
             (d \o b)[k] = IF k <= Len(d) THEN d[k] ELSE b[k - Len(d)]
    BY <1>2, <1>5, ConcatProperties
  <2>3. QED
    BY <1>5, <2>1, <2>2
<1>7. ASSUME NEW k \in 1 .. Len(c) + 1
      PROVE  (d \o b)[k] = IF k < i THEN c[k] ELSE IF k = i THEN x ELSE c[k - 1]
  <2>1. CASE k <= i
    BY <1>0, <1>5, <1>6, <2>1
  <2>2. CASE k > i
    <3>1. k - i \in 1 .. Len(c) - i + 1 /\ i + (k - i) - 1 = k - 1
      BY <1>0, <2>2
    <3>2. b[k - i] = c[k - 1]
      BY <3>1, <1>2
    <3>3. QED
      BY <1>0, <1>6, <2>2, <3>2
  <2>3. k <= i \/ k > i
    BY <1>0
  <2>4. QED
    BY <2>1, <2>2, <2>3
<1>8. QED
  BY <1>5, <1>6, <1>7

LEMMA RemoveAtElements ==
  ASSUME NEW c \in Seq(Int), NEW i \in 1 .. Len(c)
  PROVE  /\ RemoveAt(c, i) \in Seq(Int)
         /\ Len(RemoveAt(c, i)) = Len(c) - 1
         /\ \A k \in 1 .. Len(c) - 1 : RemoveAt(c, i)[k] = IF k < i THEN c[k] ELSE c[k + 1]
<1> DEFINE a == SubSeq(c, 1, i - 1)
           b == SubSeq(c, i + 1, Len(c))
<1>0. Len(c) \in Nat /\ i \in Nat
  OBVIOUS
<1>1. a \in Seq(Int) /\ Len(a) = i - 1 /\ \A k \in 1 .. i - 1 : a[k] = c[k]
  BY <1>0
<1>2. b \in Seq(Int) /\ Len(b) = Len(c) - i /\ \A k \in 1 .. Len(c) - i : b[k] = c[i + k]
  BY <1>0
<1>3. RemoveAt(c, i) = a \o b
  BY DEF RemoveAt
<1> HIDE DEF a, b
<1>4. /\ a \o b \in Seq(Int) /\ Len(a \o b) = Len(c) - 1
      /\ \A k \in 1 .. Len(c) - 1 : (a \o b)[k] = IF k <= i - 1 THEN a[k] ELSE b[k - (i - 1)]
  <2>1. Len(a) + Len(b) = Len(c) - 1
    BY <1>0, <1>1, <1>2
  <2>2. /\ a \o b \in Seq(Int) /\ Len(a \o b) = Len(a) + Len(b)
        /\ \A k \in 1 .. Len(a) + Len(b) :
             (a \o b)[k] = IF k <= Len(a) THEN a[k] ELSE b[k - Len(a)]
    BY <1>1, <1>2, ConcatProperties
  <2>3. QED
    BY <1>1, <2>1, <2>2
<1>5. ASSUME NEW k \in 1 .. Len(c) - 1
      PROVE  (a \o b)[k] = IF k < i THEN c[k] ELSE c[k + 1]
  <2>1. CASE k < i
    BY <1>0, <1>1, <1>4, <2>1
  <2>2. CASE k >= i
    <3>1. k - (i - 1) \in 1 .. Len(c) - i /\ i + (k - (i - 1)) = k + 1
      BY <1>0, <2>2
    <3>2. b[k - (i - 1)] = c[k + 1]
      BY <3>1, <1>2
    <3>3. QED
      BY <1>0, <1>4, <2>2, <3>2
  <2>3. QED
    <3>1. k < i \/ k >= i
      BY <1>0
    <3>2. QED
      BY <2>1, <2>2, <3>1
<1>6. QED
  BY <1>3, <1>4, <1>5

(* The three views are sequences.                                           *)
LEMMA ViewsAreSequences ==
  ASSUME NEW s \in Store, NEW l \in -1 .. DATASIZE - 1
  PROVE  /\ AtRest(s, l) \in Seq(Int) /\ Len(AtRest(s, l)) = l + 1
         /\ l < DATASIZE - 1 =>
              \A j \in Int : Opened(s, l, j) \in Seq(Int) /\ Len(Opened(s, l, j)) = l + 1
         /\ l >= 0 => \A j \in Int : Closing(s, l, j) \in Seq(Int) /\ Len(Closing(s, l, j)) = l
<1>1. DATASIZE \in Nat \ {0}
  BY ArrayAssumption
<1>2. AtRest(s, l) \in [1 .. l + 1 -> Int]
  BY <1>1 DEF AtRest, Store
<1>3. l < DATASIZE - 1 => \A j \in Int : Opened(s, l, j) \in [1 .. l + 1 -> Int]
  BY <1>1 DEF Opened, Store
<1>4. l >= 0 => \A j \in Int : Closing(s, l, j) \in [1 .. l -> Int]
  BY <1>1 DEF Closing, Store
<1>5. \A n \in Nat : \A f \in [1 .. n -> Int] : f \in Seq(Int) /\ Len(f) = n
  OBVIOUS
<1>6. l + 1 \in Nat /\ (l >= 0 => l \in Nat)
  BY <1>1
<1>7. QED
  BY <1>2, <1>3, <1>4, <1>5, <1>6

(* An insertion that has moved nothing, and a deletion that has moved all.  *)
LEMMA NothingMoved ==
  ASSUME NEW s \in Store, NEW l \in -1 .. DATASIZE - 1
  PROVE  Opened(s, l, l) = AtRest(s, l) /\ Closing(s, l, l + 1) = AtRest(s, l - 1)
<1>1. DATASIZE \in Nat \ {0}
  BY ArrayAssumption
<1>2. Opened(s, l, l) = AtRest(s, l)
  BY <1>1 DEF Opened, AtRest
<1>3. Closing(s, l, l + 1) = AtRest(s, l - 1)
  <2>1. 1 .. (l - 1) + 1 = 1 .. l
    BY <1>1
  <2>2. \A k \in 1 .. l : k < l + 1
    BY <1>1
  <2>3. QED
    BY <2>1, <2>2 DEF Closing, AtRest
<1>4. QED
  BY <1>2, <1>3

(* One assignment of the moving loops does not change the items.            *)
LEMMA ShiftUpKeeps ==
  ASSUME NEW s \in Store, NEW l \in 0 .. DATASIZE - 2, NEW j \in 0 .. l
  PROVE  /\ [s EXCEPT ![j + 1] = s[j]] \in Store
         /\ Opened([s EXCEPT ![j + 1] = s[j]], l, j - 1) = Opened(s, l, j)
<1>1. DATASIZE \in Nat \ {0}
  BY ArrayAssumption
<1> DEFINE t == [s EXCEPT ![j + 1] = s[j]]
<1>2. t \in Store /\ \A k \in 0 .. DATASIZE - 1 : t[k] = IF k = j + 1 THEN s[j] ELSE s[k]
  BY <1>1 DEF Store
<1> HIDE DEF t
<1>3. ASSUME NEW k \in 1 .. l + 1
      PROVE  (IF k - 1 > j - 1 THEN t[k] ELSE t[k - 1]) = (IF k - 1 > j THEN s[k] ELSE s[k - 1])
  <2>1. k \in 0 .. DATASIZE - 1 /\ k - 1 \in 0 .. DATASIZE - 1
    BY <1>1
  <2>2. CASE k - 1 > j
    BY <1>2, <2>1, <2>2
  <2>3. CASE k - 1 = j
    BY <1>2, <2>1, <2>3
  <2>4. CASE k - 1 < j
    BY <1>2, <2>1, <2>4
  <2>5. QED
    BY <2>2, <2>3, <2>4
<1>4. Opened(t, l, j - 1) = Opened(s, l, j)
  BY <1>3 DEF Opened
<1>5. QED
  BY <1>2, <1>4 DEF t

LEMMA ShiftDownKeeps ==
  ASSUME NEW s \in Store, NEW l \in 0 .. DATASIZE - 1, NEW j \in 1 .. l
  PROVE  /\ [s EXCEPT ![j - 1] = s[j]] \in Store
         /\ Closing([s EXCEPT ![j - 1] = s[j]], l, j + 1) = Closing(s, l, j)
<1>1. DATASIZE \in Nat \ {0}
  BY ArrayAssumption
<1> DEFINE t == [s EXCEPT ![j - 1] = s[j]]
<1>2. t \in Store /\ \A k \in 0 .. DATASIZE - 1 : t[k] = IF k = j - 1 THEN s[j] ELSE s[k]
  BY <1>1 DEF Store
<1> HIDE DEF t
<1>3. ASSUME NEW k \in 1 .. l
      PROVE  (IF k < j + 1 THEN t[k - 1] ELSE t[k]) = (IF k < j THEN s[k - 1] ELSE s[k])
  <2>1. k \in 0 .. DATASIZE - 1 /\ k - 1 \in 0 .. DATASIZE - 1
    BY <1>1
  <2>2. CASE k < j
    BY <1>2, <2>1, <2>2
  <2>3. CASE k = j
    BY <1>2, <2>1, <2>3
  <2>4. CASE k > j
    BY <1>2, <2>1, <2>4
  <2>5. QED
    BY <2>2, <2>3, <2>4
<1>4. Closing(t, l, j + 1) = Closing(s, l, j)
  BY <1>3 DEF Closing
<1>5. QED
  BY <1>2, <1>4 DEF t

(* When the loop has made room at i, storing there inserts.                 *)
LEMMA PutInserts ==
  ASSUME NEW s \in Store, NEW l \in -1 .. DATASIZE - 2, NEW i \in 0 .. l + 1, NEW x \in Int
  PROVE  /\ [s EXCEPT ![i] = x] \in Store
         /\ AtRest([s EXCEPT ![i] = x], l + 1) = InsertAt(Opened(s, l, i - 1), i + 1, x)
<1>1. DATASIZE \in Nat \ {0} /\ l \in Int /\ l + 1 \in -1 .. DATASIZE - 1
  BY ArrayAssumption
<1> DEFINE t == [s EXCEPT ![i] = x]
           c == Opened(s, l, i - 1)
<1>2. t \in Store /\ \A k \in 0 .. DATASIZE - 1 : t[k] = IF k = i THEN x ELSE s[k]
  BY <1>1 DEF Store
<1>3. /\ c \in Seq(Int) /\ Len(c) = l + 1
      /\ \A k \in 1 .. l + 1 : c[k] = IF k - 1 > i - 1 THEN s[k] ELSE s[k - 1]
  <2>1. l \in -1 .. DATASIZE - 1 /\ l < DATASIZE - 1 /\ i - 1 \in Int
    BY <1>1
  <2>2. c \in Seq(Int) /\ Len(c) = l + 1
    BY <2>1, ViewsAreSequences
  <2>3. QED
    BY <2>2 DEF Opened
<1>4. /\ AtRest(t, l + 1) \in Seq(Int) /\ Len(AtRest(t, l + 1)) = l + 2
      /\ \A k \in 1 .. l + 2 : AtRest(t, l + 1)[k] = t[k - 1]
  <2>1. AtRest(t, l + 1) \in Seq(Int) /\ Len(AtRest(t, l + 1)) = (l + 1) + 1
    BY <1>1, <1>2, ViewsAreSequences
  <2>2. (l + 1) + 1 = l + 2
    BY <1>1
  <2>3. QED
    BY <2>1, <2>2 DEF AtRest
<1> HIDE DEF t, c
<1>5. i + 1 \in 1 .. Len(c) + 1 /\ Len(c) + 1 = l + 2
  BY <1>1, <1>3
<1>6. /\ InsertAt(c, i + 1, x) \in Seq(Int) /\ Len(InsertAt(c, i + 1, x)) = l + 2
      /\ \A k \in 1 .. l + 2 : InsertAt(c, i + 1, x)[k]
           = IF k < i + 1 THEN c[k] ELSE IF k = i + 1 THEN x ELSE c[k - 1]
  <2> DEFINE m == i + 1
  <2>1. m \in 1 .. Len(c) + 1
    BY <1>5
  <2> HIDE DEF m
  <2>2. /\ InsertAt(c, m, x) \in Seq(Int) /\ Len(InsertAt(c, m, x)) = Len(c) + 1
        /\ \A k \in 1 .. Len(c) + 1 :
             InsertAt(c, m, x)[k] = IF k < m THEN c[k] ELSE IF k = m THEN x ELSE c[k - 1]
    BY <1>3, <2>1, InsertAtElements
  <2>3. QED
    BY <1>5, <2>2 DEF m
<1>7. ASSUME NEW k \in 1 .. l + 2
      PROVE  AtRest(t, l + 1)[k] = InsertAt(c, i + 1, x)[k]
  <2>1. k - 1 \in 0 .. DATASIZE - 1
    BY <1>1
  <2>2. CASE k < i + 1
    <3>1. k \in 1 .. l + 1 /\ ~(k - 1 > i - 1) /\ k - 1 # i
      BY <1>1, <2>2
    <3>2. QED
      BY <1>2, <1>3, <1>4, <1>6, <2>1, <2>2, <3>1
  <2>3. CASE k = i + 1
    BY <1>1, <1>2, <1>4, <1>6, <2>1, <2>3
  <2>4. CASE k > i + 1
    <3>1. k - 1 \in 1 .. l + 1 /\ (k - 1) - 1 > i - 1 /\ k - 1 # i
      BY <1>1, <2>4
    <3>2. c[k - 1] = s[k - 1]
      BY <1>3, <3>1
    <3>3. QED
      BY <1>2, <1>4, <1>6, <2>1, <2>4, <3>1, <3>2
  <2>5. QED
    BY <1>1, <2>2, <2>3, <2>4
<1>8. AtRest(t, l + 1) = InsertAt(c, i + 1, x)
  BY <1>4, <1>6, <1>7, SeqEqual
<1>9. QED
  BY <1>2, <1>8 DEF t, c

(* A deletion that begins has removed item i.                               *)
LEMMA ClosingRemoves ==
  ASSUME NEW s \in Store, NEW l \in 0 .. DATASIZE - 1, NEW i \in 0 .. l
  PROVE  Closing(s, l, i + 1) = RemoveAt(AtRest(s, l), i + 1)
<1>1. DATASIZE \in Nat \ {0} /\ l \in -1 .. DATASIZE - 1 /\ l >= 0 /\ l \in Nat
  BY ArrayAssumption
<1> DEFINE c == AtRest(s, l)
           d == Closing(s, l, i + 1)
<1>2. c \in Seq(Int) /\ Len(c) = l + 1 /\ \A k \in 1 .. l + 1 : c[k] = s[k - 1]
  <2>1. c \in Seq(Int) /\ Len(c) = l + 1
    BY <1>1, ViewsAreSequences
  <2>2. QED
    BY <2>1 DEF AtRest
<1>3. /\ d \in Seq(Int) /\ Len(d) = l
      /\ \A k \in 1 .. l : d[k] = IF k < i + 1 THEN s[k - 1] ELSE s[k]
  <2>1. d \in Seq(Int) /\ Len(d) = l
    BY <1>1, ViewsAreSequences
  <2>2. QED
    BY <2>1 DEF Closing
<1> HIDE DEF c, d
<1>4. i + 1 \in 1 .. Len(c) /\ Len(c) - 1 = l
  BY <1>1, <1>2
<1>5. /\ RemoveAt(c, i + 1) \in Seq(Int) /\ Len(RemoveAt(c, i + 1)) = l
      /\ \A k \in 1 .. l : RemoveAt(c, i + 1)[k] = IF k < i + 1 THEN c[k] ELSE c[k + 1]
  BY <1>2, <1>4, RemoveAtElements
<1>6. ASSUME NEW k \in 1 .. l PROVE d[k] = RemoveAt(c, i + 1)[k]
  <2>1. k \in 1 .. l + 1 /\ k + 1 \in 1 .. l + 1 /\ (k + 1) - 1 = k
    BY <1>1
  <2>2. c[k] = s[k - 1] /\ c[k + 1] = s[k]
    BY <1>2, <2>1
  <2>3. QED
    BY <1>3, <1>5, <2>2
<1>7. d = RemoveAt(c, i + 1)
  BY <1>3, <1>5, <1>6, SeqEqual
<1>8. QED
  BY <1>7 DEF c, d
-----------------------------------------------------------------------------
(* What the call that is running has left to do.                            *)
ArrayTypeOK == /\ shape \in {"list", "stack"}
               /\ store \in Store /\ last \in -1 .. DATASIZE - 1
               /\ busy \in [op : {"none", "insert", "delete"}, i : Int, x : Int, j : Int]
               /\ second \in Seq(ArrayItem) /\ nth \in Int

BusyInv ==
  /\ busy.op = "none" <=> busy = NoCall
  /\ busy.op # "none" => shape = "list"
  /\ nth # -1 => shape = "list"
  /\ busy.op = "insert" => /\ last < DATASIZE - 1 /\ busy.x \in ArrayItem
                           /\ busy.i \in 0 .. last + 1 /\ busy.j \in busy.i - 1 .. last
  /\ busy.op = "delete" => /\ nth = -1
                           /\ busy.i \in 0 .. last /\ busy.j \in busy.i + 1 .. last + 1

ArrayInv == ArrayTypeOK /\ BusyInv

LEMMA ContentsAre ==
  /\ busy.op = "insert" => ArrayContents = Opened(store, last, busy.j)
  /\ busy.op = "delete" => ArrayContents = Closing(store, last, busy.j)
  /\ busy.op = "none" => ArrayContents = AtRest(store, last)
<1>1. /\ busy.op = "insert" => ArrayContents = Opened(store, last, busy.j)
  BY Zenon DEF ArrayContents, Opened
<1>2. /\ busy.op = "delete" => ArrayContents = Closing(store, last, busy.j)
  BY Zenon DEF ArrayContents, Closing
<1>3. /\ busy.op = "none" => ArrayContents = AtRest(store, last)
  BY Zenon DEF ArrayContents, AtRest, ArrayStored
<1>4. QED
  BY <1>1, <1>2, <1>3

LEMMA ArrayInvInit == ArrayInit => ArrayInv
<1> SUFFICES ASSUME ArrayInit PROVE ArrayInv
  OBVIOUS
<1>1. DATASIZE \in Nat \ {0} /\ Seconds \subseteq Seq(ArrayItem)
  BY ArrayAssumption
<1>2. QED
  BY <1>1 DEF ArrayInit, ArrayInv, ArrayTypeOK, BusyInv, NoCall, Store

(* Entering sqlist_insert, from the caller or from the union.               *)
LEMMA InsertEnters ==
  ASSUME ArrayInv, shape = "list", NEW i \in -1 .. DATASIZE, NEW x \in ArrayItem,
         sqlist_insert(i, x), nth' \in Int
  PROVE  ArrayInv'
<1>1. DATASIZE \in Nat \ {0} /\ ArrayItem \subseteq Int
  BY ArrayAssumption
<1>2. /\ UNCHANGED <<shape, store, last, second>> /\ busy = NoCall
      /\ ArrayTypeOK /\ BusyInv
  BY DEF sqlist_insert, ArrayInv
<1>3. CASE ArrayFull \/ i < 0 \/ i > last + 1
  BY <1>2, <1>3 DEF sqlist_insert, ArrayInv, ArrayTypeOK, BusyInv, NoCall
<1>4. CASE ~(ArrayFull \/ i < 0 \/ i > last + 1)
  <2>1. busy' = [op |-> "insert", i |-> i, x |-> x, j |-> last]
    BY <1>4 DEF sqlist_insert
  <2>2. last \in -1 .. DATASIZE - 1 /\ last # DATASIZE - 1 /\ i \in 0 .. last + 1
    BY <1>1, <1>2, <1>4 DEF ArrayTypeOK, ArrayFull
  <2>3. last < DATASIZE - 1 /\ last \in i - 1 .. last
    BY <1>1, <2>2
  <2>4. QED
    BY <1>1, <1>2, <2>1, <2>2, <2>3 DEF ArrayInv, ArrayTypeOK, BusyInv, NoCall
<1>5. QED
  BY <1>3, <1>4

LEMMA ArrayInvStep == ArrayInv /\ [ArrayNext]_arrayVars => ArrayInv'
<1> SUFFICES ASSUME ArrayInv, [ArrayNext]_arrayVars PROVE ArrayInv'
  OBVIOUS
<1>0. /\ DATASIZE \in Nat \ {0} /\ ArrayItem \subseteq Int
      /\ ArrayTypeOK /\ BusyInv
      /\ last \in -1 .. DATASIZE - 1 /\ store \in Store
  BY ArrayAssumption DEF ArrayInv, ArrayTypeOK
<1>1. CASE InsertAnyPlace
  BY <1>0, <1>1, InsertEnters DEF InsertAnyPlace, ArrayTypeOK
<1>2. CASE ShiftUp
  <2>1. /\ busy.op = "insert" /\ busy.i <= busy.j /\ UNCHANGED <<shape, last, second, nth>>
        /\ store' = [store EXCEPT ![busy.j + 1] = store[busy.j]]
        /\ busy' = [busy EXCEPT !.j = busy.j - 1]
    BY <1>2 DEF ShiftUp, MovesUp
  <2>2. /\ last < DATASIZE - 1 /\ busy.i \in 0 .. last + 1 /\ busy.j \in busy.i - 1 .. last
        /\ busy \in [op : {"none", "insert", "delete"}, i : Int, x : Int, j : Int]
    BY <1>0, <2>1 DEF BusyInv, ArrayTypeOK
  <2>3. last \in 0 .. DATASIZE - 2 /\ busy.j \in 0 .. last
    BY <1>0, <2>1, <2>2
  <2>4. store' \in Store
    BY <1>0, <2>1, <2>3, ShiftUpKeeps
  <2>5. busy.j - 1 \in busy.i - 1 .. last /\ busy.j - 1 \in Int
    BY <1>0, <2>1, <2>2
  <2>6. /\ busy' \in [op : {"none", "insert", "delete"}, i : Int, x : Int, j : Int]
        /\ busy'.op = "insert" /\ busy'.i = busy.i /\ busy'.x = busy.x /\ busy'.j = busy.j - 1
    BY <2>1, <2>2, <2>5
  <2>7. busy' # NoCall
    BY <2>6 DEF NoCall
  <2>8. QED
    BY <1>0, <2>1, <2>2, <2>4, <2>5, <2>6, <2>7 DEF ArrayInv, ArrayTypeOK, BusyInv
<1>3. CASE PutItem
  <2>1. /\ busy.op = "insert" /\ store' = [store EXCEPT ![busy.i] = busy.x]
        /\ last' = last + 1 /\ busy' = NoCall /\ UNCHANGED <<shape, second, nth>>
    BY <1>3 DEF PutItem, ArrayReturn
  <2>2. last < DATASIZE - 1 /\ busy.i \in 0 .. last + 1 /\ busy.x \in Int
    BY <1>0, <2>1 DEF BusyInv
  <2>3. last \in -1 .. DATASIZE - 2
    BY <1>0, <2>2
  <2>4. store' \in Store
    BY <1>0, <2>1, <2>2, <2>3, PutInserts
  <2>5. last' \in -1 .. DATASIZE - 1
    BY <1>0, <2>1, <2>3
  <2>6. QED
    BY <1>0, <2>1, <2>4, <2>5 DEF ArrayInv, ArrayTypeOK, BusyInv, NoCall
<1>4. ASSUME NEW i \in -1 .. DATASIZE, shape = "list", sqlist_delete(i)
      PROVE  ArrayInv'
  <2>1. /\ busy = NoCall /\ nth = -1 /\ UNCHANGED <<shape, store, last, second, nth>>
    BY <1>4 DEF sqlist_delete
  <2>2. CASE i < 0 \/ i > last
    BY <1>0, <1>4, <2>1, <2>2 DEF sqlist_delete, ArrayInv, ArrayTypeOK, BusyInv, NoCall
  <2>3. CASE ~(i < 0 \/ i > last)
    <3>1. busy' = [op |-> "delete", i |-> i, x |-> 0, j |-> i + 1]
      BY <1>4, <2>3 DEF sqlist_delete
    <3>2. i \in 0 .. last /\ i + 1 \in i + 1 .. last + 1 /\ i \in Int /\ i + 1 \in Int
      BY <1>0, <2>3
    <3>3. QED
      BY <1>0, <1>4, <2>1, <3>1, <3>2 DEF ArrayInv, ArrayTypeOK, BusyInv, NoCall
  <2>4. QED
    BY <2>2, <2>3
<1>5. CASE ShiftDown
  <2>1. /\ busy.op = "delete" /\ busy.j <= last /\ UNCHANGED <<shape, last, second, nth>>
        /\ store' = [store EXCEPT ![busy.j - 1] = store[busy.j]]
        /\ busy' = [busy EXCEPT !.j = busy.j + 1]
    BY <1>5 DEF ShiftDown
  <2>2. /\ busy.i \in 0 .. last /\ busy.j \in busy.i + 1 .. last + 1
        /\ busy \in [op : {"none", "insert", "delete"}, i : Int, x : Int, j : Int]
    BY <1>0, <2>1 DEF BusyInv, ArrayTypeOK
  <2>3. last \in 0 .. DATASIZE - 1 /\ busy.j \in 1 .. last
    BY <1>0, <2>1, <2>2
  <2>4. store' \in Store
    BY <1>0, <2>1, <2>3, ShiftDownKeeps
  <2>5. busy.j + 1 \in busy.i + 1 .. last + 1 /\ busy.j + 1 \in Int
    BY <1>0, <2>1, <2>2
  <2>6. /\ busy' \in [op : {"none", "insert", "delete"}, i : Int, x : Int, j : Int]
        /\ busy'.op = "delete" /\ busy'.i = busy.i /\ busy'.x = busy.x /\ busy'.j = busy.j + 1
    BY <2>1, <2>2, <2>5
  <2>7. busy' # NoCall
    BY <2>6 DEF NoCall
  <2>8. QED
    BY <1>0, <2>1, <2>2, <2>4, <2>5, <2>6, <2>7 DEF ArrayInv, ArrayTypeOK, BusyInv
<1>6. CASE DropLast
  <2>1. /\ busy.op = "delete" /\ last' = last - 1 /\ busy' = NoCall
        /\ UNCHANGED <<shape, store, second, nth>>
    BY <1>6 DEF DropLast, ArrayReturn
  <2>2. busy.i \in 0 .. last
    BY <1>0, <2>1 DEF BusyInv
  <2>3. last' \in -1 .. DATASIZE - 1
    BY <1>0, <2>1, <2>2
  <2>4. QED
    BY <1>0, <2>1, <2>3 DEF ArrayInv, ArrayTypeOK, BusyInv, NoCall
<1>7. CASE sqlist_setempty
  BY <1>0, <1>7 DEF sqlist_setempty, ArrayInv, ArrayTypeOK, BusyInv, NoCall
<1>8. CASE sqlist_union
  BY <1>0, <1>8 DEF sqlist_union, ArrayInv, ArrayTypeOK, BusyInv, NoCall
<1>9. CASE UnionStep
  <2>1. /\ nth \in 1 .. Len(second) /\ nth' = nth + 1 /\ nth \in Int
        /\ shape = "list" /\ second[nth] \in ArrayItem /\ 0 \in -1 .. DATASIZE
    BY <1>0, <1>9 DEF UnionStep, ArrayTypeOK, BusyInv
  <2>2. CASE NotIn
    BY <1>9, <2>1, <2>2, InsertEnters DEF UnionStep
  <2>3. CASE ~NotIn
    BY <1>0, <1>9, <2>1, <2>3 DEF UnionStep, ArrayInv, ArrayTypeOK, BusyInv, NoCall
  <2>4. QED
    BY <2>2, <2>3
<1>10. CASE UnionReturns
  BY <1>0, <1>10 DEF UnionReturns, ArrayInv, ArrayTypeOK, BusyInv, NoCall
<1>11. CASE st_pop
  <2>1. shape = "stack" /\ UNCHANGED <<shape, store, busy, second, nth>> /\ last' \in {last, last - 1}
        /\ (last = -1 => last' = last)
    BY <1>11 DEF st_pop
  <2>2. busy.op = "none" /\ last' \in -1 .. DATASIZE - 1
    BY <1>0, <2>1 DEF BusyInv, ArrayTypeOK
  <2>3. QED
    BY <1>0, <2>1, <2>2 DEF ArrayInv, ArrayTypeOK, BusyInv
<1>12. ASSUME NEW x \in ArrayItem, st_push(x) PROVE ArrayInv'
  <2>1. shape = "stack" /\ UNCHANGED <<shape, busy, second, nth>>
    BY <1>12 DEF st_push
  <2>2. busy.op = "none"
    BY <1>0, <2>1 DEF BusyInv, ArrayTypeOK
  <2>3. CASE ArrayFull
    BY <1>0, <1>12, <2>1, <2>2, <2>3 DEF st_push, ArrayInv, ArrayTypeOK, BusyInv
  <2>4. CASE ~ArrayFull
    <3>1. store' = [store EXCEPT ![last + 1] = x] /\ last' = last + 1
      BY <1>12, <2>4 DEF st_push
    <3>2. last \in -1 .. DATASIZE - 2 /\ last + 1 \in 0 .. last + 1 /\ last' \in -1 .. DATASIZE - 1
      BY <1>0, <2>4, <3>1 DEF ArrayFull
    <3>3. store' \in Store
      BY <1>0, <3>1, <3>2, PutInserts
    <3>4. QED
      BY <1>0, <2>1, <2>2, <3>2, <3>3 DEF ArrayInv, ArrayTypeOK, BusyInv
  <2>5. QED
    BY <2>3, <2>4
<1>13. CASE UNCHANGED arrayVars
  BY <1>0, <1>13 DEF arrayVars, ArrayInv, ArrayTypeOK, BusyInv
<1>14. QED
  BY <1>1, <1>2, <1>3, <1>4, <1>5, <1>6, <1>7, <1>8, <1>9, <1>10, <1>11, <1>12, <1>13
  DEF ArrayNext
-----------------------------------------------------------------------------
(* The items of the array are a sequence of integers, as many as last says. *)
LEMMA ItemsOfStore ==
  ASSUME ArrayInv, busy.op = "none"
  PROVE  ArrayContents \in Seq(Int) /\ Len(ArrayContents) = last + 1
<1>1. store \in Store /\ last \in -1 .. DATASIZE - 1
  BY DEF ArrayInv, ArrayTypeOK
<1>2. QED
  BY <1>1, ContentsAre, ViewsAreSequences

(* The three results of sqlist_insert when it is entered.                   *)
LEMMA InsertMaps ==
  ASSUME ArrayInv, NEW i \in -1 .. DATASIZE, NEW x \in ArrayItem, sqlist_insert(i, x)
  PROVE  [ArrayItems!ItemsNext]_<<ArrayContents, arrayDid>>
<1>0. /\ busy = NoCall /\ busy.op = "none" /\ UNCHANGED <<store, last>>
      /\ DATASIZE \in Nat \ {0} /\ last \in -1 .. DATASIZE - 1 /\ store \in Store
      /\ Len(ArrayContents) = last + 1
  BY ArrayAssumption, ItemsOfStore DEF sqlist_insert, NoCall, ArrayInv, ArrayTypeOK
<1>1. CASE ArrayFull \/ i < 0 \/ i > last + 1
  <2>1. /\ busy' = busy
        /\ arrayDid' = ArrayDid("insert", i, x, IF ArrayFull THEN -1 ELSE -2)
    BY <1>1 DEF sqlist_insert
  <2>2. ArrayContents' = ArrayContents
    BY <1>0, <2>1 DEF ArrayContents, ArrayStored
  <2>3. ArrayItems!InsertItem(i, x)
    <3>1. CASE ArrayFull
      BY <1>0, <2>1, <2>2, <3>1 DEF ArrayItems!InsertItem, ArrayItems!Did, ArrayDid, ArrayFull
    <3>2. CASE ~ArrayFull
      <4>1. Len(ArrayContents) < DATASIZE /\ i \notin 0 .. Len(ArrayContents)
        BY <1>0, <1>1, <3>2 DEF ArrayFull
      <4>2. QED
        BY <2>1, <2>2, <3>2, <4>1 DEF ArrayItems!InsertItem, ArrayItems!Did, ArrayDid
    <3>3. QED
      BY <3>1, <3>2
  <2>4. QED
    BY <2>3 DEF ArrayItems!ItemsNext
<1>2. CASE ~(ArrayFull \/ i < 0 \/ i > last + 1)
  <2>1. busy'.op = "insert" /\ busy'.j = last /\ arrayDid' = arrayDid
    BY <1>2 DEF sqlist_insert
  <2>2. (busy.op = "insert" => ArrayContents = Opened(store, last, busy.j))'
    BY ContentsAre, PTL
  <2>3. ArrayContents' = Opened(store, last, last)
    BY <1>0, <2>1, <2>2 DEF Opened
  <2>4. ArrayContents = AtRest(store, last)
    BY <1>0, ContentsAre
  <2>5. ArrayContents' = ArrayContents
    BY <1>0, <2>3, <2>4, NothingMoved
  <2>6. QED
    BY <2>1, <2>5
<1>3. QED
  BY <1>1, <1>2

LEMMA PutMaps ==
  ASSUME ArrayInv, PutItem
  PROVE  /\ ArrayContents \in Seq(Int) /\ Len(ArrayContents) = last + 1
         /\ ArrayContents' = InsertAt(ArrayContents, busy.i + 1, busy.x)
<1>0. /\ DATASIZE \in Nat \ {0} /\ ArrayItem \subseteq Int
      /\ last \in -1 .. DATASIZE - 1 /\ store \in Store
  BY ArrayAssumption DEF ArrayInv, ArrayTypeOK
<1>1. /\ busy.op = "insert" /\ store' = [store EXCEPT ![busy.i] = busy.x]
      /\ last' = last + 1 /\ busy' = NoCall /\ ~(busy.i <= busy.j)
  BY DEF PutItem, ArrayReturn, MovesUp
<1>2. /\ last < DATASIZE - 1 /\ busy.i \in 0 .. last + 1 /\ busy.x \in Int
      /\ busy.j \in busy.i - 1 .. last
  BY <1>0, <1>1 DEF ArrayInv, BusyInv
<1>3. last \in -1 .. DATASIZE - 2 /\ busy.j = busy.i - 1
  BY <1>0, <1>1, <1>2
<1>4. ArrayContents = Opened(store, last, busy.i - 1)
  BY <1>1, <1>3, ContentsAre
<1>5. (busy.op = "none" => ArrayContents = AtRest(store, last))'
  BY ContentsAre, PTL
<1>6. ArrayContents' = AtRest([store EXCEPT ![busy.i] = busy.x], last + 1)
  BY <1>1, <1>5 DEF NoCall, AtRest
<1>7. ArrayContents \in Seq(Int) /\ Len(ArrayContents) = last + 1
  <2>1. busy.i - 1 \in Int
    BY <1>0, <1>2
  <2>2. QED
    BY <1>0, <1>2, <1>4, <2>1, ViewsAreSequences
<1>8. QED
  BY <1>0, <1>2, <1>3, <1>4, <1>6, <1>7, PutInserts

(* The loops leave the items alone.                                         *)
LEMMA LoopsKeepItems ==
  ASSUME ArrayInv, ShiftUp \/ ShiftDown \/ DropLast
  PROVE  UNCHANGED <<ArrayContents, arrayDid>>
<1>0. /\ DATASIZE \in Nat \ {0} /\ last \in -1 .. DATASIZE - 1 /\ store \in Store
      /\ busy \in [op : {"none", "insert", "delete"}, i : Int, x : Int, j : Int]
  BY ArrayAssumption DEF ArrayInv, ArrayTypeOK
<1>1. CASE ShiftUp
  <2>1. /\ busy.op = "insert" /\ busy.i <= busy.j /\ last' = last /\ arrayDid' = arrayDid
        /\ store' = [store EXCEPT ![busy.j + 1] = store[busy.j]]
        /\ busy'.op = "insert" /\ busy'.j = busy.j - 1
    BY <1>0, <1>1 DEF ShiftUp, MovesUp
  <2>2. /\ last < DATASIZE - 1 /\ busy.i \in 0 .. last + 1 /\ busy.j \in busy.i - 1 .. last
    BY <1>0, <2>1 DEF ArrayInv, BusyInv
  <2>3. last \in 0 .. DATASIZE - 2 /\ busy.j \in 0 .. last
    BY <1>0, <2>1, <2>2
  <2>4. (busy.op = "insert" => ArrayContents = Opened(store, last, busy.j))'
    BY ContentsAre, PTL
  <2>5. ArrayContents' = Opened([store EXCEPT ![busy.j + 1] = store[busy.j]], last, busy.j - 1)
    BY <2>1, <2>4 DEF Opened
  <2>6. ArrayContents = Opened(store, last, busy.j)
    BY <2>1, ContentsAre
  <2>7. QED
    BY <1>0, <2>1, <2>3, <2>5, <2>6, ShiftUpKeeps
<1>2. CASE ShiftDown
  <2>1. /\ busy.op = "delete" /\ busy.j <= last /\ last' = last /\ arrayDid' = arrayDid
        /\ store' = [store EXCEPT ![busy.j - 1] = store[busy.j]]
        /\ busy'.op = "delete" /\ busy'.j = busy.j + 1
    BY <1>0, <1>2 DEF ShiftDown
  <2>2. busy.i \in 0 .. last /\ busy.j \in busy.i + 1 .. last + 1
    BY <1>0, <2>1 DEF ArrayInv, BusyInv
  <2>3. last \in 0 .. DATASIZE - 1 /\ busy.j \in 1 .. last
    BY <1>0, <2>1, <2>2
  <2>4. (busy.op = "delete" => ArrayContents = Closing(store, last, busy.j))'
    BY ContentsAre, PTL
  <2>5. ArrayContents' = Closing([store EXCEPT ![busy.j - 1] = store[busy.j]], last, busy.j + 1)
    BY <2>1, <2>4 DEF Closing
  <2>6. ArrayContents = Closing(store, last, busy.j)
    BY <2>1, ContentsAre
  <2>7. QED
    BY <1>0, <2>1, <2>3, <2>5, <2>6, ShiftDownKeeps
<1>3. CASE DropLast
  <2>1. /\ busy.op = "delete" /\ busy.j > last /\ last' = last - 1 /\ arrayDid' = arrayDid
        /\ store' = store /\ busy' = NoCall
    BY <1>3 DEF DropLast, ArrayReturn
  <2>2. busy.i \in 0 .. last /\ busy.j \in busy.i + 1 .. last + 1
    BY <1>0, <2>1 DEF ArrayInv, BusyInv
  <2>3. busy.j = last + 1
    BY <1>0, <2>1, <2>2
  <2>4. (busy.op = "none" => ArrayContents = AtRest(store, last))'
    BY ContentsAre, PTL
  <2>5. ArrayContents' = AtRest(store, last - 1)
    BY <2>1, <2>4 DEF AtRest, NoCall
  <2>6. ArrayContents = Closing(store, last, last + 1)
    BY <2>1, <2>3, ContentsAre
  <2>7. QED
    BY <1>0, <2>1, <2>5, <2>6, NothingMoved
<1>4. QED
  BY <1>1, <1>2, <1>3

LEMMA ArrayStepMaps ==
  ArrayInv /\ [ArrayNext]_arrayVars => [ArrayItems!ItemsNext]_<<ArrayContents, arrayDid>>
<1> SUFFICES ASSUME ArrayInv, [ArrayNext]_arrayVars
             PROVE  [ArrayItems!ItemsNext]_<<ArrayContents, arrayDid>>
  OBVIOUS
<1>0. /\ DATASIZE \in Nat \ {0} /\ ArrayItem \subseteq Int
      /\ last \in -1 .. DATASIZE - 1 /\ store \in Store /\ BusyInv
      /\ second \in Seq(ArrayItem)
  BY ArrayAssumption DEF ArrayInv, ArrayTypeOK
<1>r. (busy.op = "none" => ArrayContents = AtRest(store, last))'
  BY ContentsAre, PTL
<1>1. CASE InsertAnyPlace
  BY <1>1, InsertMaps DEF InsertAnyPlace
<1>2. CASE ShiftUp \/ ShiftDown \/ DropLast
  BY <1>2, LoopsKeepItems
<1>3. CASE PutItem
  <2>1. /\ busy.op = "insert" /\ arrayDid' = ArrayDid("insert", busy.i, busy.x, 0)
    BY <1>3 DEF PutItem
  <2>2. last < DATASIZE - 1 /\ busy.i \in 0 .. last + 1 /\ busy.x \in ArrayItem
    BY <1>0, <2>1 DEF BusyInv
  <2>3. /\ Len(ArrayContents) = last + 1
        /\ ArrayContents' = InsertAt(ArrayContents, busy.i + 1, busy.x)
    BY <1>3, PutMaps
  <2>4. Len(ArrayContents) < DATASIZE /\ busy.i \in 0 .. Len(ArrayContents)
    BY <1>0, <2>2, <2>3
  <2>5. ArrayItems!InsertItem(busy.i, busy.x)
    BY <2>1, <2>3, <2>4
    DEF ArrayItems!InsertItem, ArrayItems!Did, ArrayDid, ArrayItems!InsertAt, InsertAt
  <2>6. busy.i \in -1 .. DATASIZE
    BY <1>0, <2>2
  <2>7. QED
    BY <2>2, <2>5, <2>6 DEF ArrayItems!ItemsNext
<1>4. ASSUME NEW i \in -1 .. DATASIZE, sqlist_delete(i)
      PROVE  ArrayItems!DeleteItem(i)
  <2>1. busy = NoCall /\ busy.op = "none" /\ UNCHANGED <<store, last>>
    BY <1>4 DEF sqlist_delete, NoCall
  <2>2. /\ Len(ArrayContents) = last + 1
        /\ ArrayContents = AtRest(store, last)
    BY <2>1, ItemsOfStore, ContentsAre
  <2>3. CASE i < 0 \/ i > last
    <3>1. arrayDid' = ArrayDid("delete", i, 0, -1) /\ busy' = busy
      BY <1>4, <2>3 DEF sqlist_delete
    <3>2. ArrayContents' = ArrayContents
      BY <2>1, <3>1 DEF ArrayContents, ArrayStored
    <3>3. i \notin 0 .. Len(ArrayContents) - 1
      BY <1>0, <2>2, <2>3
    <3>4. QED
      BY <3>1, <3>2, <3>3 DEF ArrayItems!DeleteItem, ArrayItems!Did, ArrayDid
  <2>4. CASE ~(i < 0 \/ i > last)
    <3>1. /\ busy'.op = "delete" /\ busy'.j = i + 1
          /\ arrayDid' = ArrayDid("delete", i, store[i], 0)
      BY <1>4, <2>4 DEF sqlist_delete
    <3>2. i \in 0 .. last /\ last \in 0 .. DATASIZE - 1
      BY <1>0, <2>4
    <3>3. (busy.op = "delete" => ArrayContents = Closing(store, last, busy.j))'
      BY ContentsAre, PTL
    <3>4. ArrayContents' = Closing(store, last, i + 1)
      BY <2>1, <3>1, <3>3 DEF Closing
    <3>5. ArrayContents' = RemoveAt(ArrayContents, i + 1)
      BY <1>0, <2>2, <3>2, <3>4, ClosingRemoves
    <3>6. ArrayContents[i + 1] = store[i]
      BY <1>0, <2>2, <3>2 DEF AtRest
    <3>7. i \in 0 .. Len(ArrayContents) - 1
      BY <1>0, <2>2, <3>2
    <3>8. QED
      BY <3>1, <3>5, <3>6, <3>7
      DEF ArrayItems!DeleteItem, ArrayItems!Did, ArrayDid, ArrayItems!RemoveAt, RemoveAt
  <2>5. QED
    BY <2>3, <2>4
<1>5. CASE sqlist_setempty
  <2>1. last' = -1 /\ busy'.op = "none" /\ arrayDid' = ArrayDid("clear", 0, 0, 0)
    BY <1>5 DEF sqlist_setempty, NoCall
  <2>2. ArrayContents' = <<>>
    BY <1>r, <2>1 DEF AtRest
  <2>3. ArrayItems!ClearItems
    BY <2>1, <2>2 DEF ArrayItems!ClearItems, ArrayItems!Did, ArrayDid
  <2>4. QED
    BY <2>3 DEF ArrayItems!ItemsNext
<1>6. CASE sqlist_union \/ UnionReturns
  BY <1>6 DEF sqlist_union, UnionReturns, ArrayContents, ArrayStored
<1>7. CASE UnionStep
  <2>1. CASE NotIn
    <3>1. second[nth] \in ArrayItem /\ 0 \in -1 .. DATASIZE /\ sqlist_insert(0, second[nth])
      BY <1>0, <1>7, <2>1 DEF UnionStep
    <3>2. QED
      BY <3>1, InsertMaps
  <2>2. CASE ~NotIn
    BY <1>7, <2>2 DEF UnionStep, ArrayContents, ArrayStored
  <2>3. QED
    BY <2>1, <2>2
<1>8. CASE st_pop
  <2>1. /\ shape = "stack" /\ busy.op = "none" /\ UNCHANGED <<store, busy>>
        /\ Len(ArrayContents) = last + 1 /\ ArrayContents = AtRest(store, last)
    BY <1>0, <1>8, ItemsOfStore, ContentsAre DEF st_pop, BusyInv, ArrayInv, ArrayTypeOK
  <2>2. CASE last = -1
    <3>1. arrayDid' = ArrayDid("delete", -1, 0, -1) /\ UNCHANGED last
      BY <1>8, <2>2 DEF st_pop
    <3>2. ArrayContents' = ArrayContents
      BY <2>1, <3>1 DEF ArrayContents, ArrayStored
    <3>3. -1 \in -1 .. DATASIZE /\ -1 \notin 0 .. Len(ArrayContents) - 1
      BY <1>0, <2>1
    <3>4. ArrayItems!DeleteItem(-1)
      BY <3>1, <3>2, <3>3 DEF ArrayItems!DeleteItem, ArrayItems!Did, ArrayDid
    <3>5. QED
      BY <3>3, <3>4 DEF ArrayItems!ItemsNext
  <2>3. CASE last # -1
    <3>1. arrayDid' = ArrayDid("delete", last, store[last], 0) /\ last' = last - 1
      BY <1>8, <2>3 DEF st_pop
    <3>2. last \in 0 .. DATASIZE - 1 /\ last \in 0 .. last /\ last \in -1 .. DATASIZE
      BY <1>0, <2>3
    <3>3. ArrayContents' = AtRest(store, last - 1)
      BY <1>r, <2>1, <3>1 DEF AtRest
    <3>4. ArrayContents' = RemoveAt(ArrayContents, last + 1)
      BY <1>0, <2>1, <3>2, <3>3, ClosingRemoves, NothingMoved
    <3>5. ArrayContents[last + 1] = store[last]
      BY <1>0, <2>1, <3>2 DEF AtRest
    <3>6. last \in 0 .. Len(ArrayContents) - 1
      BY <2>1, <3>2
    <3>7. ArrayItems!DeleteItem(last)
      BY <3>1, <3>4, <3>5, <3>6
      DEF ArrayItems!DeleteItem, ArrayItems!Did, ArrayDid, ArrayItems!RemoveAt, RemoveAt
    <3>8. QED
      BY <3>2, <3>7 DEF ArrayItems!ItemsNext
  <2>4. QED
    BY <2>2, <2>3
<1>9. ASSUME NEW x \in ArrayItem, st_push(x)
      PROVE  ArrayItems!InsertItem(last + 1, x)
  <2>1. /\ shape = "stack" /\ busy.op = "none" /\ UNCHANGED busy
        /\ Len(ArrayContents) = last + 1 /\ ArrayContents = AtRest(store, last)
    BY <1>0, <1>9, ItemsOfStore, ContentsAre DEF st_push, BusyInv, ArrayInv, ArrayTypeOK
  <2>2. CASE ArrayFull
    <3>1. arrayDid' = ArrayDid("insert", last + 1, x, -1) /\ UNCHANGED <<store, last>>
      BY <1>9, <2>2 DEF st_push
    <3>2. ArrayContents' = ArrayContents
      BY <2>1, <3>1 DEF ArrayContents, ArrayStored
    <3>3. Len(ArrayContents) = DATASIZE
      BY <1>0, <2>1, <2>2 DEF ArrayFull
    <3>4. QED
      BY <3>1, <3>2, <3>3 DEF ArrayItems!InsertItem, ArrayItems!Did, ArrayDid
  <2>3. CASE ~ArrayFull
    <3>1. /\ arrayDid' = ArrayDid("insert", last + 1, x, 0) /\ last' = last + 1
          /\ store' = [store EXCEPT ![last + 1] = x]
      BY <1>9, <2>3 DEF st_push
    <3>2. last \in -1 .. DATASIZE - 2 /\ last + 1 \in 0 .. last + 1 /\ (last + 1) - 1 = last
      BY <1>0, <2>3 DEF ArrayFull
    <3>3. ArrayContents' = AtRest([store EXCEPT ![last + 1] = x], last + 1)
      BY <1>r, <2>1, <3>1 DEF AtRest
    <3>4. AtRest([store EXCEPT ![last + 1] = x], last + 1)
            = InsertAt(Opened(store, last, (last + 1) - 1), (last + 1) + 1, x)
      BY <1>0, <3>2, PutInserts
    <3>5. ArrayContents' = InsertAt(ArrayContents, (last + 1) + 1, x)
      BY <1>0, <2>1, <3>2, <3>3, <3>4, NothingMoved
    <3>6. Len(ArrayContents) < DATASIZE /\ last + 1 \in 0 .. Len(ArrayContents)
      BY <1>0, <2>1, <3>2
    <3>7. QED
      BY <3>1, <3>5, <3>6
      DEF ArrayItems!InsertItem, ArrayItems!Did, ArrayDid, ArrayItems!InsertAt, InsertAt
  <2>4. QED
    BY <2>2, <2>3
<1>10. CASE UNCHANGED arrayVars
  BY <1>10 DEF arrayVars, ArrayContents, ArrayStored
<1>11. last + 1 \in -1 .. DATASIZE
  BY <1>0
<1>12. QED
  BY <1>1, <1>2, <1>3, <1>4, <1>5, <1>6, <1>7, <1>8, <1>9, <1>10, <1>11
  DEF ArrayNext, ArrayItems!ItemsNext

(* For every DATASIZE and every item the list in an array and the stack in  *)
(* one are the sequence of items: the loops of sqlist.c that move items one *)
(* place lose, double and reorder none, at either end and when full.        *)
THEOREM ArrayRefinesItems == ArraySpec => ArrayImplementsItems
<1>1. ArrayInit => ArrayItems!ItemsInit
  <2> SUFFICES ASSUME ArrayInit PROVE ArrayItems!ItemsInit
    OBVIOUS
  <2>1. last = -1 /\ busy.op = "none"
    BY DEF ArrayInit, NoCall
  <2>2. ArrayContents = <<>>
    BY <2>1, ContentsAre DEF AtRest
  <2>3. QED
    BY <2>2 DEF ArrayInit, ArrayItems!ItemsInit, ArrayDid, ArrayItems!Did
<1>2. QED
  BY <1>1, ArrayInvInit, ArrayInvStep, ArrayStepMaps, PTL
  DEF ArraySpec, ArrayImplementsItems, ArrayItems!ItemsSpec
-----------------------------------------------------------------------------
(* The sequence c ends with b, and what stands in front of it is of s.      *)
Joined(c, b, s) == /\ Len(b) <= Len(c)
                   /\ \A k \in 1 .. Len(b) : c[Len(c) - Len(b) + k] = b[k]
                   /\ \A k \in 1 .. Len(c) - Len(b) : c[k] \in ToSet(s)

LEMMA ToSetElements ==
  ASSUME NEW c \in Seq(Int)
  PROVE  /\ \A k \in 1 .. Len(c) : c[k] \in ToSet(c)
         /\ \A x \in ToSet(c) : \E k \in 1 .. Len(c) : x = c[k]
BY DEF ToSet

LEMMA JoinedAtFirst ==
  ASSUME NEW c \in Seq(Int), NEW s
  PROVE  Joined(c, c, s)
<1>1. Len(c) \in Nat
  OBVIOUS
<1>2. Len(c) <= Len(c) /\ Len(c) - Len(c) = 0
  BY <1>1
<1>3. \A k \in 1 .. Len(c) : 0 + k = k
  BY <1>1
<1>4. QED
  BY <1>2, <1>3 DEF Joined

(* An insertion in front keeps the two joined and adds its item.            *)
LEMMA JoinedInsert ==
  ASSUME NEW c \in Seq(Int), NEW b \in Seq(Int), NEW s, NEW x \in Int,
         x \in ToSet(s), Joined(c, b, s)
  PROVE  /\ Joined(InsertAt(c, 1, x), b, s)
         /\ x \in ToSet(InsertAt(c, 1, x))
         /\ ToSet(c) \subseteq ToSet(InsertAt(c, 1, x))
<1> DEFINE d == InsertAt(c, 1, x)
<1>1. Len(c) \in Nat /\ Len(b) \in Nat /\ Len(b) <= Len(c) /\ 1 \in 1 .. Len(c) + 1
  BY DEF Joined
<1>2. /\ d \in Seq(Int) /\ Len(d) = Len(c) + 1
      /\ \A k \in 1 .. Len(c) + 1 :
           d[k] = IF k < 1 THEN c[k] ELSE IF k = 1 THEN x ELSE c[k - 1]
  BY <1>1, InsertAtElements
<1> HIDE DEF d
<1>3. d[1] = x /\ \A k \in 1 .. Len(c) : d[k + 1] = c[k]
  <2>1. d[1] = x
    BY <1>1, <1>2
  <2>2. ASSUME NEW k \in 1 .. Len(c) PROVE d[k + 1] = c[k]
    <3>1. k + 1 \in 1 .. Len(c) + 1 /\ ~(k + 1 < 1) /\ k + 1 # 1 /\ (k + 1) - 1 = k
      BY <1>1
    <3>2. QED
      BY <1>2, <3>1
  <2>3. QED
    BY <2>1, <2>2
<1>4. ASSUME NEW k \in 1 .. Len(b) PROVE d[Len(d) - Len(b) + k] = b[k]
  <2>1. /\ Len(c) - Len(b) + k \in 1 .. Len(c)
        /\ Len(d) - Len(b) + k = (Len(c) - Len(b) + k) + 1
    BY <1>1, <1>2
  <2>2. d[Len(d) - Len(b) + k] = c[Len(c) - Len(b) + k]
    BY <1>3, <2>1
  <2>3. QED
    BY <2>2 DEF Joined
<1>5. ASSUME NEW k \in 1 .. Len(d) - Len(b) PROVE d[k] \in ToSet(s)
  <2>1. CASE k = 1
    BY <1>3, <2>1
  <2>2. CASE k # 1
    <3>1. k - 1 \in 1 .. Len(c) - Len(b) /\ k - 1 \in 1 .. Len(c) /\ (k - 1) + 1 = k
      BY <1>1, <1>2, <2>2
    <3>2. d[k] = c[k - 1]
      BY <1>3, <3>1
    <3>3. QED
      BY <3>1, <3>2 DEF Joined
  <2>3. QED
    BY <2>1, <2>2
<1>6. Len(b) <= Len(d)
  BY <1>1, <1>2
<1>7. Joined(d, b, s)
  BY <1>4, <1>5, <1>6 DEF Joined
<1>8. x \in ToSet(d)
  <2>1. 1 \in 1 .. Len(d)
    BY <1>1, <1>2
  <2>2. QED
    BY <1>2, <1>3, <2>1, ToSetElements
<1>9. ASSUME NEW y \in ToSet(c) PROVE y \in ToSet(d)
  <2>1. PICK k \in 1 .. Len(c) : y = c[k]
    BY ToSetElements
  <2>2. k + 1 \in 1 .. Len(d) /\ d[k + 1] = y
    BY <1>1, <1>2, <1>3, <2>1
  <2>3. QED
    BY <1>2, <2>2, ToSetElements
<1>10. QED
  BY <1>7, <1>8, <1>9 DEF d

(* What joined means in the terms of UnionHoldsBoth.                        *)
LEMMA JoinedHolds ==
  ASSUME NEW c \in Seq(Int), NEW b \in Seq(Int), NEW s, Joined(c, b, s)
  PROVE  /\ IsSuffix(b, c)
         /\ ToSet(b) \subseteq ToSet(c)
         /\ ToSet(c) \subseteq ToSet(b) \cup ToSet(s)
<1>1. Len(c) \in Nat /\ Len(b) \in Nat /\ Len(b) <= Len(c)
  BY DEF Joined
<1>2. IsSuffix(b, c)
  <2> DEFINE rb == Reverse(b)
             rc == Reverse(c)
  <2>1. rb \in [1 .. Len(b) -> Int] /\ \A k \in 1 .. Len(b) : rb[k] = b[(Len(b) - k) + 1]
    BY <1>1 DEF Reverse
  <2>2. rc \in [1 .. Len(c) -> Int] /\ \A k \in 1 .. Len(c) : rc[k] = c[(Len(c) - k) + 1]
    BY <1>1 DEF Reverse
  <2> HIDE DEF rb, rc
  <2>3. rb \in Seq(Int) /\ Len(rb) = Len(b) /\ rc \in Seq(Int) /\ Len(rc) = Len(c)
    <3>1. \A n \in Nat : \A f \in [1 .. n -> Int] : f \in Seq(Int) /\ Len(f) = n
      OBVIOUS
    <3>2. QED
      BY <1>1, <2>1, <2>2, <3>1
  <2>4. ASSUME NEW k \in 1 .. Len(b) PROVE rb[k] = rc[k]
    <3>1. (Len(b) - k) + 1 \in 1 .. Len(b) /\ k \in 1 .. Len(c)
      BY <1>1
    <3>2. Len(c) - Len(b) + ((Len(b) - k) + 1) = (Len(c) - k) + 1
      BY <1>1
    <3>3. \A m \in 1 .. Len(b) : c[Len(c) - Len(b) + m] = b[m]
      BY DEF Joined
    <3>4. c[(Len(c) - k) + 1] = b[(Len(b) - k) + 1]
      BY <3>1, <3>2, <3>3
    <3>5. QED
      BY <2>1, <2>2, <3>1, <3>4
  <2>5. /\ SubSeq(rb, 1, Len(b)) \in Seq(Int) /\ Len(SubSeq(rb, 1, Len(b))) = Len(b)
        /\ \A k \in 1 .. Len(b) : SubSeq(rb, 1, Len(b))[k] = rb[k]
    BY <1>1, <2>3
  <2>6. /\ SubSeq(rc, 1, Len(b)) \in Seq(Int) /\ Len(SubSeq(rc, 1, Len(b))) = Len(b)
        /\ \A k \in 1 .. Len(b) : SubSeq(rc, 1, Len(b))[k] = rc[k]
    BY <1>1, <2>3
  <2>7. SubSeq(rb, 1, Len(b)) = SubSeq(rc, 1, Len(b))
    BY <2>4, <2>5, <2>6, SeqEqual
  <2>8. IsPrefix(rb, rc)
    BY <1>1, <2>3, <2>7 DEF IsPrefix
  <2>9. QED
    BY <2>8 DEF IsSuffix, rb, rc
<1>3. ASSUME NEW y \in ToSet(b) PROVE y \in ToSet(c)
  <2>1. PICK k \in 1 .. Len(b) : y = b[k]
    BY ToSetElements
  <2>2. Len(c) - Len(b) + k \in 1 .. Len(c)
    BY <1>1
  <2>3. c[Len(c) - Len(b) + k] = y
    BY <2>1 DEF Joined
  <2>4. QED
    BY <2>2, <2>3, ToSetElements
<1>4. ASSUME NEW y \in ToSet(c) PROVE y \in ToSet(b) \cup ToSet(s)
  <2>1. PICK k \in 1 .. Len(c) : y = c[k]
    BY ToSetElements
  <2>2. CASE k <= Len(c) - Len(b)
    <3>1. k \in 1 .. Len(c) - Len(b)
      BY <1>1, <2>2
    <3>2. QED
      BY <2>1, <3>1 DEF Joined
  <2>3. CASE k > Len(c) - Len(b)
    <3>1. k - (Len(c) - Len(b)) \in 1 .. Len(b)
      BY <1>1, <2>3
    <3>2. Len(c) - Len(b) + (k - (Len(c) - Len(b))) = k
      BY <1>1
    <3>3. y = b[k - (Len(c) - Len(b))]
      BY <2>1, <3>1, <3>2 DEF Joined
    <3>4. QED
      BY <3>1, <3>3, ToSetElements
  <2>4. k <= Len(c) - Len(b) \/ k > Len(c) - Len(b)
    BY <1>1
  <2>5. QED
    BY <2>2, <2>3, <2>4
<1>5. QED
  BY <1>2, <1>3, <1>4

(* During a union: what is in the list, what is on its way into it, and,    *)
(* while there has always been room, what has been looked at.               *)
Coming == IF busy.op = "insert" THEN {busy.x} ELSE {}

UnionInv ==
  nth # -1 =>
    /\ nth \in 1 .. Len(second) + 1
    /\ busy.op = "insert" => busy.i = 0
    /\ Coming \subseteq ToSet(second)
    /\ before \in Seq(Int) /\ Joined(ArrayContents, before, second)
    /\ last < DATASIZE - 1 =>
         \A m \in 1 .. nth - 1 : second[m] \in ToSet(ArrayContents) \cup Coming

LEMMA ItemsAreIntegers ==
  ASSUME ArrayInv
  PROVE  ArrayContents \in Seq(Int)
<1>1. /\ store \in Store /\ last \in -1 .. DATASIZE - 1 /\ busy.j \in Int
      /\ busy.op \in {"none", "insert", "delete"} /\ BusyInv /\ DATASIZE \in Nat \ {0}
  BY ArrayAssumption DEF ArrayInv, ArrayTypeOK
<1>2. busy.op = "delete" => last >= 0
  BY <1>1 DEF BusyInv
<1>3. busy.op = "insert" => last < DATASIZE - 1
  BY <1>1 DEF BusyInv
<1>4. QED
  BY <1>1, <1>2, <1>3, ContentsAre, ViewsAreSequences

LEMMA UnionInvStep == ArrayInv /\ UnionInv /\ [ArrayNext]_arrayVars => UnionInv'
<1> SUFFICES ASSUME ArrayInv, UnionInv, [ArrayNext]_arrayVars, nth' # -1
             PROVE  UnionInv'
  BY DEF UnionInv
<1>0. /\ DATASIZE \in Nat \ {0} /\ ArrayItem \subseteq Int /\ nth \in Int
      /\ last \in -1 .. DATASIZE - 1 /\ BusyInv /\ second \in Seq(ArrayItem)
      /\ busy.op \in {"none", "insert", "delete"} /\ ArrayContents \in Seq(Int)
  BY ArrayAssumption, ItemsAreIntegers DEF ArrayInv, ArrayTypeOK
<1>1. CASE InsertAnyPlace \/ sqlist_setempty \/ UnionReturns
  BY <1>1 DEF InsertAnyPlace, sqlist_setempty, UnionReturns
<1>2. CASE \E i \in -1 .. DATASIZE : sqlist_delete(i)
  BY <1>2 DEF sqlist_delete
<1>3. CASE st_pop \/ \E x \in ArrayItem : st_push(x)
  BY <1>0, <1>3 DEF st_pop, st_push, BusyInv
<1>4. CASE ShiftDown \/ DropLast
  BY <1>0, <1>4 DEF ShiftDown, DropLast, BusyInv
<1>5. CASE ShiftUp
  <2>1. /\ UNCHANGED <<last, second, nth, before>> /\ busy.op = "insert"
        /\ busy'.op = "insert" /\ busy'.i = busy.i /\ busy'.x = busy.x
    BY <1>0, <1>5 DEF ShiftUp, ArrayInv, ArrayTypeOK
  <2>2. ArrayContents' = ArrayContents
    BY <1>5, LoopsKeepItems
  <2>3. QED
    BY <2>1, <2>2 DEF UnionInv, Coming
<1>6. CASE PutItem
  <2>1. /\ UNCHANGED <<second, nth, before>> /\ busy.op = "insert" /\ busy'.op = "none"
        /\ last' = last + 1
    BY <1>6 DEF PutItem, ArrayReturn, NoCall
  <2>2. /\ busy.i = 0 /\ Coming = {busy.x} /\ busy.x \in ToSet(second) /\ busy.x \in Int
        /\ before \in Seq(Int) /\ Joined(ArrayContents, before, second)
    BY <1>0, <2>1 DEF UnionInv, BusyInv, Coming
  <2>3. ArrayContents' = InsertAt(ArrayContents, 1, busy.x)
    BY <1>6, <2>2, PutMaps
  <2>4. /\ Joined(ArrayContents', before, second) /\ busy.x \in ToSet(ArrayContents')
        /\ ToSet(ArrayContents) \subseteq ToSet(ArrayContents')
    BY <1>0, <2>2, <2>3, JoinedInsert
  <2>5. last' < DATASIZE - 1 =>
          \A m \in 1 .. nth - 1 : second[m] \in ToSet(ArrayContents')
    <3>1. last' < DATASIZE - 1 => last < DATASIZE - 1
      BY <1>0, <2>1
    <3>2. QED
      BY <2>1, <2>2, <2>4, <3>1 DEF UnionInv
  <2>6. Coming' = {}
    BY <2>1 DEF Coming
  <2>7. QED
    BY <2>1, <2>2, <2>4, <2>5, <2>6 DEF UnionInv
<1>7. CASE sqlist_union
  <2>1. /\ UNCHANGED <<store, last, busy, second>> /\ busy.op = "none" /\ nth' = 1
        /\ before' = ArrayStored
    BY <1>7 DEF sqlist_union, NoCall
  <2>2. ArrayContents' = ArrayContents /\ ArrayContents = ArrayStored
    BY <2>1, ContentsAre DEF ArrayContents, ArrayStored, AtRest
  <2>3. Joined(ArrayContents', before', second')
    BY <1>0, <2>1, <2>2, JoinedAtFirst
  <2>4. 1 \in 1 .. Len(second) + 1 /\ 1 .. 1 - 1 = {}
    BY <1>0
  <2>5. Coming' = {}
    BY <2>1 DEF Coming
  <2>6. QED
    BY <1>0, <2>1, <2>2, <2>3, <2>4, <2>5 DEF UnionInv
<1>8. CASE UnionStep
  <2>1. /\ nth \in 1 .. Len(second) /\ nth' = nth + 1 /\ UNCHANGED <<store, last, second, before>>
        /\ busy = NoCall /\ busy.op = "none"
    BY <1>8 DEF UnionStep, sqlist_insert, NoCall
  <2>2. /\ nth' \in 1 .. Len(second) + 1 /\ nth # -1 /\ nth' - 1 = nth
        /\ \A m \in 1 .. nth : m \in 1 .. nth - 1 \/ m = nth
    BY <1>0, <2>1
  <2>3. /\ before \in Seq(Int) /\ Joined(ArrayContents, before, second) /\ Coming = {}
        /\ last < DATASIZE - 1 => \A m \in 1 .. nth - 1 : second[m] \in ToSet(ArrayContents)
    BY <2>1, <2>2 DEF UnionInv, Coming
  <2>4. second[nth] \in ToSet(second)
    BY <1>0, <2>1 DEF ToSet
  <2>5. CASE NotIn /\ ~(ArrayFull \/ 0 < 0 \/ 0 > last + 1)
    <3>1. busy' = [op |-> "insert", i |-> 0, x |-> second[nth], j |-> last]
      BY <1>8, <2>5 DEF UnionStep, sqlist_insert
    <3>2. (busy.op = "insert" => ArrayContents = Opened(store, last, busy.j))'
      BY ContentsAre, PTL
    <3>3. ArrayContents' = Opened(store, last, last)
      BY <2>1, <3>1, <3>2 DEF Opened
    <3>4. ArrayContents = AtRest(store, last)
      BY <2>1, ContentsAre
    <3>5. ArrayContents' = ArrayContents
      BY <1>0, <3>3, <3>4, NothingMoved DEF ArrayInv, ArrayTypeOK
    <3>6. Coming' = {second[nth]} /\ busy'.i = 0
      BY <3>1 DEF Coming
    <3>7. QED
      BY <2>1, <2>2, <2>3, <2>4, <3>5, <3>6 DEF UnionInv
  <2>6. CASE NotIn /\ (ArrayFull \/ 0 < 0 \/ 0 > last + 1)
    <3>1. busy' = busy
      BY <1>8, <2>6 DEF UnionStep, sqlist_insert
    <3>2. ArrayContents' = ArrayContents /\ Coming' = {}
      BY <2>1, <2>3, <3>1 DEF ArrayContents, ArrayStored, Coming
    <3>3. ~(last < DATASIZE - 1)
      BY <1>0, <2>6 DEF ArrayFull
    <3>4. QED
      BY <2>1, <2>2, <2>3, <3>1, <3>2, <3>3 DEF UnionInv
  <2>7. CASE ~NotIn
    <3>1. busy' = busy
      BY <1>8, <2>7 DEF UnionStep
    <3>2. ArrayContents' = ArrayContents /\ Coming' = {}
      BY <2>1, <2>3, <3>1 DEF ArrayContents, ArrayStored, Coming
    <3>3. second[nth] \in ToSet(ArrayContents)
      <4>1. sqlist_find(second[nth]) # -1 /\ sqlist_find(second[nth]) # -2
        BY <2>7 DEF NotIn
      <4>2. PICK k \in 0 .. last - 1 : store[k] = second[nth]
        BY <4>1 DEF sqlist_find
      <4>3. ArrayContents = AtRest(store, last) /\ Len(ArrayContents) = last + 1
        BY <2>1, ContentsAre, ItemsOfStore
      <4>4. k + 1 \in 1 .. last + 1 /\ (k + 1) - 1 = k
        BY <1>0, <4>2
      <4>5. ArrayContents[k + 1] = second[nth]
        BY <4>2, <4>3, <4>4 DEF AtRest
      <4>6. QED
        BY <1>0, <4>3, <4>4, <4>5, ToSetElements
    <3>4. QED
      BY <2>1, <2>2, <2>3, <3>1, <3>2, <3>3 DEF UnionInv
  <2>8. QED
    BY <2>5, <2>6, <2>7
<1>9. CASE UNCHANGED arrayVars
  <2>1. ArrayContents' = ArrayContents
    BY <1>9 DEF arrayVars, ArrayContents, ArrayStored
  <2>2. QED
    BY <1>9, <2>1 DEF arrayVars, UnionInv, Coming
<1>10. QED
  BY <1>1, <1>2, <1>3, <1>4, <1>5, <1>6, <1>7, <1>8, <1>9 DEF ArrayNext

(* For every pair of lists sqlist_union leaves the first list at the end of *)
(* the result, in its order, and with room everything of the second in it:  *)
(* the item sqlist_find never looks at costs at most a duplicate.           *)
THEOREM UnionKeepsBoth == ArraySpec => []UnionHoldsBoth
<1>1. ArrayInit => UnionInv
  BY DEF ArrayInit, UnionInv
<1>2. ArrayInv /\ UnionInv => UnionHoldsBoth
  <2> SUFFICES ASSUME ArrayInv, UnionInv, nth > Len(second), busy = NoCall
               PROVE  /\ IsSuffix(before, ArrayStored)
                      /\ ToSet(before) \subseteq ToSet(ArrayStored)
                      /\ last < DATASIZE - 1 => ToSet(second) \subseteq ToSet(ArrayStored)
                      /\ ToSet(ArrayStored) \subseteq ToSet(before) \cup ToSet(second)
    BY DEF UnionHoldsBoth
  <2>1. second \in Seq(ArrayItem) /\ nth \in Int /\ busy.op = "none"
    BY DEF ArrayInv, ArrayTypeOK, NoCall
  <2>2. nth # -1
    BY <2>1
  <2>3. nth = Len(second) + 1 /\ nth - 1 = Len(second)
    BY <2>1, <2>2 DEF UnionInv
  <2>4. ArrayContents = ArrayStored /\ ArrayContents \in Seq(Int) /\ Coming = {}
    BY <2>1, ContentsAre, ItemsAreIntegers DEF AtRest, ArrayStored, Coming
  <2>5. last < DATASIZE - 1 => ToSet(second) \subseteq ToSet(ArrayStored)
    BY <2>1, <2>2, <2>3, <2>4 DEF UnionInv, ToSet
  <2>6. before \in Seq(Int) /\ Joined(ArrayStored, before, second)
    BY <2>2, <2>4 DEF UnionInv
  <2>7. QED
    BY <2>4, <2>5, <2>6, JoinedHolds
<1>3. QED
  BY <1>1, <1>2, ArrayInvInit, ArrayInvStep, UnionInvStep, PTL DEF ArraySpec
-----------------------------------------------------------------------------
(* The single lists.  Every set of numbers has a smallest one.              *)
LEMMA SmallestNat ==
  ASSUME NEW T \in SUBSET Nat, T # {}
  PROVE  \E m \in T : \A k \in T : m <= k
<1> DEFINE Less == {p \in Nat \X Nat : p[1] < p[2]}
<1>1. IsWellFoundedOn(Less, Nat)
  BY NatLessThanWellFounded DEF OpToRel
<1>2. \A x, y \in Nat : <<y, x>> \in Less <=> y < x
  OBVIOUS
<1> HIDE DEF Less
<1>3. PICK m \in T : \A k \in T : ~ (<<k, m>> \in Less)
  BY <1>1, WFMin
<1>4. ASSUME NEW k \in T PROVE m <= k
  <2>1. m \in Nat /\ k \in Nat /\ ~ (k < m)
    BY <1>2, <1>3
  <2>2. QED
    BY <2>1
<1>5. QED
  BY <1>4
-----------------------------------------------------------------------------
(* SingleList.  The place with number i on the way through the cells of s,  *)
(* from the header to NULL; the links that follow that way; what the cells  *)
(* hold.                                                                    *)
Place(s, i) == IF i = 0 THEN Header ELSE IF i \in 1 .. Len(s) THEN s[i] ELSE NULL
Chained(s, ln) == \A i \in 0 .. Len(s) : ln[Place(s, i)] = Place(s, i + 1)
NoCellTwice(s) == \A i, j \in 1 .. Len(s) : s[i] = s[j] => i = j
CellsOf(s) == {s[i] : i \in 1 .. Len(s)}
Values(s, vl) == [k \in 1 .. Len(s) |-> vl[s[k]]]

With(s, j, c) ==
  [k \in 1 .. Len(s) + 1 |-> IF k <= j THEN s[k] ELSE IF k = j + 1 THEN c ELSE s[k - 1]]
Skipping(s, j) == [k \in 1 .. Len(s) - 1 |-> IF k <= j THEN s[k] ELSE s[k + 1]]

\* The links with c behind place j.
LinkedIn(ln, s, j, c) == [ln EXCEPT ![c] = Place(s, j + 1), ![Place(s, j)] = c]

Holding(vl, c, x) == [vl EXCEPT ![c] = x]

Links == [Cell \cup {Header} -> Cell \cup {NULL}]
IsChain(s, ln) == s \in Seq(Cell) /\ NoCellTwice(s) /\ Chained(s, ln)

LEMMA CellsOnly ==
  ASSUME NEW s \in Seq(Cell), NEW i \in Int
  PROVE  /\ Len(s) \in Nat /\ DOMAIN s = 1 .. Len(s)
         /\ i \in 1 .. Len(s) => s[i] \in Cell /\ Place(s, i) = s[i] /\ i # 0
         /\ i \notin 0 .. Len(s) => Place(s, i) = NULL /\ Place(s, i) # Header
         /\ i \in 0 .. Len(s) => Place(s, i) \in Cell \cup {Header} /\ Place(s, i) # NULL
         /\ Place(s, 0) = Header
<1>1. Len(s) \in Nat /\ DOMAIN s = 1 .. Len(s) /\ \A k \in 1 .. Len(s) : s[k] \in Cell
  OBVIOUS
<1>2. QED
  BY <1>1, SingleAssumption DEF Place

(* A new cell linked in behind place j.                                     *)
LEMMA LinkIn ==
  ASSUME NEW ln \in Links, NEW s, IsChain(s, ln), NEW j \in 0 .. Len(s),
         NEW c \in Cell, c \notin CellsOf(s),
         NEW ln2, ln2 = LinkedIn(ln, s, j, c)
  PROVE  /\ IsChain(With(s, j, c), ln2) /\ Len(With(s, j, c)) = Len(s) + 1
         /\ CellsOf(With(s, j, c)) = CellsOf(s) \cup {c} /\ ln2 \in Links
<1>0. ln2 = [ln EXCEPT ![c] = Place(s, j + 1), ![Place(s, j)] = c]
  BY DEF LinkedIn
<1> DEFINE t == With(s, j, c)
           n == Len(s)
<1>1. /\ s \in Seq(Cell) /\ n \in Nat /\ DOMAIN s = 1 .. n /\ j \in Nat /\ j <= n
      /\ \A k \in 1 .. n : s[k] \in Cell /\ s[k] # c
      /\ NoCellTwice(s) /\ Chained(s, ln)
  BY DEF IsChain, CellsOf
<1>2. t \in [1 .. n + 1 -> Cell]
  BY <1>1 DEF With
<1>3. t \in Seq(Cell) /\ Len(t) = n + 1
  <2>1. \A m \in Nat : \A f \in [1 .. m -> Cell] : f \in Seq(Cell) /\ Len(f) = m
    OBVIOUS
  <2>2. n + 1 \in Nat
    BY <1>1
  <2> HIDE DEF t
  <2>3. QED
    BY <1>2, <2>1, <2>2
<1>4. \A k \in 1 .. n + 1 : t[k] = IF k <= j THEN s[k] ELSE IF k = j + 1 THEN c ELSE s[k - 1]
  BY DEF With
<1> HIDE DEF t, n
<1>5. NoCellTwice(t)
  <2> SUFFICES ASSUME NEW a \in 1 .. n + 1, NEW b \in 1 .. n + 1, t[a] = t[b] PROVE a = b
    BY <1>3 DEF NoCellTwice
  <2> DEFINE Old(k) == IF k <= j THEN k ELSE k - 1
  <2>1. \A k \in 1 .. n + 1 : k # j + 1 => Old(k) \in 1 .. n /\ t[k] = s[Old(k)] /\ t[k] # c
    BY <1>1, <1>4
  <2>2. t[j + 1] = c /\ j + 1 \in 1 .. n + 1
    BY <1>1, <1>4
  <2>3. CASE a = j + 1 \/ b = j + 1
    BY <2>1, <2>2, <2>3
  <2>4. CASE a # j + 1 /\ b # j + 1
    <3>1. Old(a) = Old(b)
      <4> HIDE DEF Old
      <4>1. QED
        BY <1>1, <2>1, <2>4 DEF NoCellTwice, n
    <3>2. QED
      BY <1>1, <2>4, <3>1
  <2>5. QED
    BY <2>3, <2>4
<1>6. /\ Place(t, 0) = Header
      /\ \A k \in 1 .. j : Place(t, k) = Place(s, k)
      /\ Place(t, j + 1) = c
      /\ \A k \in j + 2 .. n + 2 : Place(t, k) = Place(s, k - 1)
  <2>1. \A k \in 1 .. j : k \in 1 .. n + 1 /\ k \in 1 .. n /\ k # 0
    BY <1>1
  <2>2. j + 1 \in 1 .. n + 1 /\ j + 1 # 0
    BY <1>1
  <2>3. ASSUME NEW k \in j + 2 .. n + 2 PROVE Place(t, k) = Place(s, k - 1)
    <3>1. k # 0 /\ k - 1 # 0 /\ ~(k <= j) /\ k # j + 1 /\ (k \in 1 .. n + 1 <=> k - 1 \in 1 .. n)
      BY <1>1
    <3>2. QED
      BY <1>3, <1>4, <3>1 DEF Place, n
  <2>4. QED
    BY <1>3, <1>4, <2>1, <2>2, <2>3 DEF Place, n
<1>7. /\ c # Header /\ c \in Cell /\ Place(s, j) \in Cell \cup {Header} /\ Place(s, j) # c
      /\ Place(s, j + 1) \in Cell \cup {NULL}
  <2>1. j \in Int /\ j + 1 \in Int /\ j + 1 # 0 /\ j \in 0 .. n
    BY <1>1
  <2>2. QED
    BY <1>1, <2>1, SingleAssumption DEF Place, n
<1>8. ln2 \in Links
  BY <1>0, <1>7 DEF Links
<1>9. /\ ln2[c] = Place(s, j + 1) /\ ln2[Place(s, j)] = c
      /\ \A p \in Cell \cup {Header} : p # c /\ p # Place(s, j) => ln2[p] = ln[p]
  BY <1>0, <1>7 DEF Links
<1>10. \A i \in 0 .. n : i # j => /\ Place(s, i) \in Cell \cup {Header}
                                  /\ Place(s, i) # c /\ Place(s, i) # Place(s, j)
  <2> SUFFICES ASSUME NEW i \in 0 .. n, i # j
               PROVE  /\ Place(s, i) \in Cell \cup {Header}
                      /\ Place(s, i) # c /\ Place(s, i) # Place(s, j)
    OBVIOUS
  <2>1. i = 0 \/ i \in 1 .. n
    BY <1>1
  <2>2. j = 0 \/ j \in 1 .. n
    BY <1>1
  <2>3. QED
    BY <1>1, <1>7, <2>1, <2>2, SingleAssumption DEF Place, NoCellTwice, n
<1>11. Chained(t, ln2)
  <2> SUFFICES ASSUME NEW i \in 0 .. n + 1 PROVE ln2[Place(t, i)] = Place(t, i + 1)
    BY <1>3 DEF Chained
  <2>1. Place(s, 0) = Header
    BY DEF Place
  <2>2. CASE i < j
    <3>1. i \in 0 .. n /\ i # j /\ i + 1 \in 1 .. j /\ (i = 0 \/ i \in 1 .. j)
      BY <1>1, <2>2
    <3>2. Place(t, i) = Place(s, i) /\ Place(t, i + 1) = Place(s, i + 1)
      BY <1>6, <2>1, <3>1
    <3>3. ln[Place(s, i)] = Place(s, i + 1)
      BY <1>1, <3>1 DEF Chained, n
    <3>4. QED
      BY <1>9, <1>10, <3>1, <3>2, <3>3
  <2>3. CASE i = j
    <3>1. Place(t, i) = Place(s, j)
      BY <1>1, <1>6, <2>1, <2>3
    <3>2. QED
      BY <1>6, <1>9, <2>3, <3>1
  <2>4. CASE i = j + 1
    <3>1. Place(t, i) = c /\ i + 1 \in j + 2 .. n + 2 /\ (i + 1) - 1 = j + 1
      BY <1>1, <1>6, <2>4
    <3>2. Place(t, i + 1) = Place(s, j + 1)
      BY <1>6, <3>1
    <3>3. QED
      BY <1>9, <3>1, <3>2
  <2>5. CASE i > j + 1
    <3>1. /\ i \in j + 2 .. n + 2 /\ i + 1 \in j + 2 .. n + 2
          /\ i - 1 \in 0 .. n /\ i - 1 # j /\ (i + 1) - 1 = (i - 1) + 1
      BY <1>1, <2>5
    <3>2. Place(t, i) = Place(s, i - 1) /\ Place(t, i + 1) = Place(s, (i - 1) + 1)
      <4>1. Place(t, i + 1) = Place(s, (i + 1) - 1)
        BY <1>6, <3>1
      <4>2. QED
        BY <1>6, <3>1, <4>1
    <3>3. ln[Place(s, i - 1)] = Place(s, (i - 1) + 1)
      BY <1>1, <3>1 DEF Chained, n
    <3>4. QED
      BY <1>9, <1>10, <3>1, <3>2, <3>3
  <2>6. i < j \/ i = j \/ i = j + 1 \/ i > j + 1
    BY <1>1
  <2>7. QED
    BY <2>2, <2>3, <2>4, <2>5, <2>6
<1>12. CellsOf(t) = CellsOf(s) \cup {c}
  <2>1. ASSUME NEW k \in 1 .. n + 1 PROVE t[k] \in CellsOf(s) \cup {c}
    <3>1. k <= j => k \in 1 .. n
      BY <1>1
    <3>2. ~(k <= j) /\ k # j + 1 => k - 1 \in 1 .. n
      BY <1>1
    <3>3. QED
      BY <1>4, <3>1, <3>2 DEF CellsOf, n
  <2>2. ASSUME NEW k \in 1 .. n PROVE s[k] \in CellsOf(t)
    <3>1. CASE k <= j
      <4>1. k \in 1 .. n + 1 /\ t[k] = s[k]
        BY <1>1, <1>4, <3>1
      <4>2. QED
        BY <1>3, <4>1 DEF CellsOf
    <3>2. CASE ~(k <= j)
      <4>1. k + 1 \in 1 .. n + 1 /\ ~(k + 1 <= j) /\ k + 1 # j + 1 /\ (k + 1) - 1 = k
        BY <1>1, <3>2
      <4>2. t[k + 1] = s[k]
        BY <1>4, <4>1
      <4>3. QED
        BY <1>3, <4>1, <4>2 DEF CellsOf
    <3>3. QED
      BY <3>1, <3>2
  <2>3. c \in CellsOf(t)
    <3>1. j + 1 \in 1 .. n + 1 /\ ~(j + 1 <= j)
      BY <1>1
    <3>2. t[j + 1] = c
      BY <1>4, <3>1
    <3>3. QED
      BY <1>3, <3>1, <3>2 DEF CellsOf
  <2>4. CellsOf(t) \subseteq CellsOf(s) \cup {c}
    BY <1>3, <2>1 DEF CellsOf
  <2>5. CellsOf(s) \subseteq CellsOf(t)
    BY <2>2 DEF CellsOf, n
  <2>6. QED
    BY <2>3, <2>4, <2>5
<1>13. QED
  BY <1>3, <1>5, <1>8, <1>11, <1>12 DEF IsChain, t, n

(* The cell behind place j left out.                                        *)
LEMMA LinkOut ==
  ASSUME NEW ln \in Links, NEW s, IsChain(s, ln), NEW j \in 0 .. Len(s) - 1,
         NEW ln2, ln2 = [ln EXCEPT ![Place(s, j)] = ln[s[j + 1]]]
  PROVE  /\ IsChain(Skipping(s, j), ln2) /\ Len(Skipping(s, j)) = Len(s) - 1
         /\ CellsOf(Skipping(s, j)) = CellsOf(s) \ {s[j + 1]} /\ ln2 \in Links
<1> DEFINE t == Skipping(s, j)
           n == Len(s)
<1>1. /\ s \in Seq(Cell) /\ n \in Nat /\ DOMAIN s = 1 .. n /\ j \in Nat /\ j <= n - 1
      /\ \A k \in 1 .. n : s[k] \in Cell
      /\ NoCellTwice(s) /\ Chained(s, ln)
  BY DEF IsChain
<1>2. t \in [1 .. n - 1 -> Cell]
  BY <1>1 DEF Skipping
<1>3. t \in Seq(Cell) /\ Len(t) = n - 1
  <2>1. \A m \in Nat : \A f \in [1 .. m -> Cell] : f \in Seq(Cell) /\ Len(f) = m
    OBVIOUS
  <2>2. n - 1 \in Nat
    BY <1>1
  <2> HIDE DEF t
  <2>3. QED
    BY <1>2, <2>1, <2>2
<1>4. \A k \in 1 .. n - 1 : t[k] = IF k <= j THEN s[k] ELSE s[k + 1]
  BY DEF Skipping
<1> HIDE DEF t, n
<1>5. NoCellTwice(t)
  <2> SUFFICES ASSUME NEW a \in 1 .. n - 1, NEW b \in 1 .. n - 1, t[a] = t[b] PROVE a = b
    BY <1>3 DEF NoCellTwice
  <2> DEFINE Old(k) == IF k <= j THEN k ELSE k + 1
  <2>1. \A k \in 1 .. n - 1 : Old(k) \in 1 .. n /\ t[k] = s[Old(k)]
    BY <1>1, <1>4
  <2>2. Old(a) = Old(b)
    <3> HIDE DEF Old
    <3>1. QED
      BY <1>1, <2>1 DEF NoCellTwice, n
  <2>3. QED
    BY <1>1, <2>2
<1>6. \A k \in 0 .. n : Place(t, k) = IF k <= j THEN Place(s, k) ELSE Place(s, k + 1)
  <2> SUFFICES ASSUME NEW k \in 0 .. n
               PROVE  Place(t, k) = IF k <= j THEN Place(s, k) ELSE Place(s, k + 1)
    OBVIOUS
  <2>1. CASE k <= j
    <3>1. k # 0 => k \in 1 .. n - 1 /\ k \in 1 .. n
      BY <1>1, <2>1
    <3>2. QED
      BY <1>3, <1>4, <2>1, <3>1 DEF Place, n
  <2>2. CASE ~(k <= j)
    <3>1. k # 0 /\ k + 1 # 0 /\ (k \in 1 .. n - 1 <=> k + 1 \in 1 .. n)
      BY <1>1, <2>2
    <3>2. QED
      BY <1>3, <1>4, <2>2, <3>1 DEF Place, n
  <2>3. QED
    BY <2>1, <2>2
<1>7. /\ j + 1 \in 1 .. n /\ s[j + 1] \in Cell /\ j + 1 \in 0 .. n /\ (j + 1) + 1 = j + 2
      /\ j \in 0 .. n
  BY <1>1
<1>8. /\ ln[s[j + 1]] = Place(s, j + 2) /\ Place(s, j + 1) = s[j + 1]
  <2>1. Place(s, j + 1) = s[j + 1]
    BY <1>1, <1>7 DEF Place, n
  <2>2. ln[Place(s, j + 1)] = Place(s, (j + 1) + 1)
    BY <1>1, <1>7 DEF Chained, n
  <2>3. QED
    BY <1>7, <2>1, <2>2
<1>9. ln[s[j + 1]] \in Cell \cup {NULL} /\ Place(s, j) \in Cell \cup {Header}
  <2>1. j \in Int
    BY <1>1
  <2>2. QED
    BY <1>1, <1>7, <2>1, CellsOnly DEF Links, n
<1>10. ln2 \in Links
  BY <1>9 DEF Links
<1>11. /\ ln2[Place(s, j)] = Place(s, j + 2)
       /\ \A p \in Cell \cup {Header} : p # Place(s, j) => ln2[p] = ln[p]
  BY <1>8, <1>9 DEF Links
<1>12. \A i \in 0 .. n : i # j => /\ Place(s, i) \in Cell \cup {Header}
                                  /\ Place(s, i) # Place(s, j)
  <2> SUFFICES ASSUME NEW i \in 0 .. n, i # j
               PROVE  Place(s, i) \in Cell \cup {Header} /\ Place(s, i) # Place(s, j)
    OBVIOUS
  <2>1. i = 0 \/ i \in 1 .. n
    BY <1>1
  <2>2. j = 0 \/ j \in 1 .. n
    BY <1>1
  <2>3. QED
    BY <1>1, <2>1, <2>2, SingleAssumption DEF Place, NoCellTwice, n
<1>13. Chained(t, ln2)
  <2> SUFFICES ASSUME NEW i \in 0 .. n - 1 PROVE ln2[Place(t, i)] = Place(t, i + 1)
    BY <1>3 DEF Chained
  <2>0. i \in 0 .. n /\ i + 1 \in 0 .. n
    BY <1>1
  <2>1. CASE i < j
    <3>1. i <= j /\ i + 1 <= j /\ i # j
      BY <1>1, <2>1
    <3>2. Place(t, i) = Place(s, i) /\ Place(t, i + 1) = Place(s, i + 1)
      BY <1>6, <2>0, <3>1
    <3>3. ln[Place(s, i)] = Place(s, i + 1)
      BY <1>1, <2>0 DEF Chained, n
    <3>4. QED
      BY <1>11, <1>12, <2>0, <3>1, <3>2, <3>3
  <2>2. CASE i = j
    <3>1. i <= j /\ ~(i + 1 <= j) /\ (i + 1) + 1 = j + 2
      BY <1>1, <2>2
    <3>2. Place(t, i) = Place(s, j) /\ Place(t, i + 1) = Place(s, j + 2)
      <4>1. Place(t, i + 1) = Place(s, (i + 1) + 1)
        BY <1>6, <2>0, <3>1
      <4>2. QED
        BY <1>6, <2>0, <2>2, <3>1, <4>1
    <3>3. QED
      BY <1>11, <3>2
  <2>3. CASE i > j
    <3>1. ~(i <= j) /\ ~(i + 1 <= j) /\ i + 1 # j
      BY <1>1, <2>3
    <3>2. Place(t, i) = Place(s, i + 1) /\ Place(t, i + 1) = Place(s, (i + 1) + 1)
      BY <1>6, <2>0, <3>1
    <3>3. ln[Place(s, i + 1)] = Place(s, (i + 1) + 1)
      BY <1>1, <2>0 DEF Chained, n
    <3>4. QED
      BY <1>11, <1>12, <2>0, <3>1, <3>2, <3>3
  <2>4. i < j \/ i = j \/ i > j
    BY <1>1
  <2>5. QED
    BY <2>1, <2>2, <2>3, <2>4
<1>14. CellsOf(t) = CellsOf(s) \ {s[j + 1]}
  <2>1. ASSUME NEW k \in 1 .. n - 1 PROVE t[k] \in CellsOf(s) \ {s[j + 1]}
    <3>1. k \in 1 .. n /\ k + 1 \in 1 .. n /\ (k <= j => k # j + 1) /\ (~(k <= j) => k + 1 # j + 1)
      BY <1>1
    <3>2. QED
      BY <1>1, <1>4, <1>7, <3>1 DEF CellsOf, NoCellTwice, n
  <2>2. ASSUME NEW k \in 1 .. n, k # j + 1 PROVE s[k] \in CellsOf(t)
    <3>1. CASE k <= j
      <4>1. k \in 1 .. n - 1
        BY <1>1, <3>1
      <4>2. t[k] = s[k]
        BY <1>4, <3>1, <4>1
      <4>3. QED
        BY <1>3, <4>1, <4>2 DEF CellsOf
    <3>2. CASE ~(k <= j)
      <4>1. k - 1 \in 1 .. n - 1 /\ ~(k - 1 <= j) /\ (k - 1) + 1 = k
        BY <1>1, <2>2, <3>2
      <4>2. t[k - 1] = s[k]
        BY <1>4, <4>1
      <4>3. QED
        BY <1>3, <4>1, <4>2 DEF CellsOf
    <3>3. QED
      BY <3>1, <3>2
  <2>3. CellsOf(t) \subseteq CellsOf(s) \ {s[j + 1]}
    BY <1>3, <2>1 DEF CellsOf
  <2>4. CellsOf(s) \ {s[j + 1]} \subseteq CellsOf(t)
    BY <2>2 DEF CellsOf, n
  <2>5. QED
    BY <2>3, <2>4
<1>15. QED
  BY <1>3, <1>5, <1>10, <1>13, <1>14 DEF IsChain, t, n

(* A chain has no more cells than there are, and all of them only if it has *)
(* as many.                                                                 *)
LEMMA ChainIsBounded ==
  ASSUME NEW s \in Seq(Cell), NoCellTwice(s)
  PROVE  /\ Len(s) \in Nat /\ Cardinality(Cell) \in Nat /\ Len(s) <= Cardinality(Cell)
         /\ CellsOf(s) = Cell <=> Len(s) = Cardinality(Cell)
<1>1. /\ Len(s) \in Nat /\ IsFiniteSet(Cell) /\ CellsOf(s) \subseteq Cell
      /\ s \in [1 .. Len(s) -> CellsOf(s)]
  BY SingleAssumption DEF CellsOf
<1>2. s \in Bijection(1 .. Len(s), CellsOf(s))
  BY <1>1 DEF NoCellTwice, CellsOf, Bijection, Injection, Surjection, IsInjective
<1>3. ExistsBijection(1 .. Len(s), CellsOf(s))
  BY <1>2 DEF ExistsBijection
<1>4. Cardinality(CellsOf(s)) = Len(s)
  BY <1>1, <1>3, FS_CountingElements
<1>5. /\ Cardinality(Cell) \in Nat /\ Cardinality(CellsOf(s)) <= Cardinality(Cell)
      /\ Cardinality(Cell) = Cardinality(CellsOf(s)) => Cell = CellsOf(s)
  BY <1>1, FS_Subset, FS_CardinalityType
<1>6. QED
  BY <1>1, <1>4, <1>5

(* Chain goes the way of s: the function that follows the links exists, as  *)
(* the places of s are one, and at the smallest number where it was another *)
(* it would have left a link.                                               *)
LEMMA ChainIs ==
  ASSUME NEW s, IsChain(s, link), NEW k \in 1 .. Cardinality(Cell) + 1
  PROVE  Chain[k] = Place(s, k)
<1> DEFINE Follow(g) == g = [n \in Nat |-> IF n = 0 THEN Header
                                           ELSE IF g[n - 1] = NULL THEN NULL ELSE link[g[n - 1]]]
           way == CHOOSE g : Follow(g)
           h == [n \in Nat |-> Place(s, n)]
<1>1. s \in Seq(Cell) /\ Len(s) \in Nat /\ Cardinality(Cell) \in Nat /\ k \in Nat
  BY ChainIsBounded DEF IsChain
<1>2. ASSUME NEW n \in Nat \ {0}
      PROVE  Place(s, n) = IF Place(s, n - 1) = NULL THEN NULL ELSE link[Place(s, n - 1)]
  <2>1. n - 1 \in Nat /\ n - 1 \in Int /\ n \in Int
    OBVIOUS
  <2>2. CASE n - 1 \in 0 .. Len(s)
    <3>1. Place(s, n - 1) # NULL
      BY <1>1, <2>1, <2>2, CellsOnly
    <3>2. link[Place(s, n - 1)] = Place(s, (n - 1) + 1)
      BY <2>2 DEF IsChain, Chained
    <3>3. (n - 1) + 1 = n
      OBVIOUS
    <3>4. QED
      BY <3>1, <3>2, <3>3
  <2>3. CASE n - 1 \notin 0 .. Len(s)
    <3>1. n \notin 0 .. Len(s)
      BY <1>1, <2>1, <2>3
    <3>2. QED
      BY <1>1, <2>1, <2>3, <3>1, CellsOnly
  <2>4. QED
    BY <2>2, <2>3
<1>3. Follow(h)
  <2>1. ASSUME NEW n \in Nat
        PROVE  h[n] = IF n = 0 THEN Header ELSE IF h[n - 1] = NULL THEN NULL ELSE link[h[n - 1]]
    <3>1. CASE n = 0
      BY <1>1, <3>1, CellsOnly
    <3>2. CASE n # 0
      <4>1. n - 1 \in Nat /\ n \in Nat \ {0}
        BY <3>2
      <4>2. QED
        BY <1>2, <3>2, <4>1
    <3>3. QED
      BY <3>1, <3>2
  <2>2. QED
    BY <2>1
<1>4. Follow(way)
  <2> HIDE DEF Follow, h
  <2>1. QED
    BY <1>3
<1>5. Chain[k] = way[k]
  BY DEF Chain
<1> HIDE DEF way
<1>6. ASSUME NEW n \in Nat
      PROVE  way[n] = IF n = 0 THEN Header
                      ELSE IF way[n - 1] = NULL THEN NULL ELSE link[way[n - 1]]
  BY <1>4
<1>7. \A n \in Nat : way[n] = Place(s, n)
  <2> DEFINE Bad == {n \in Nat : way[n] # Place(s, n)}
  <2>1. SUFFICES ASSUME Bad # {} PROVE FALSE
    OBVIOUS
  <2>2. PICK m \in Bad : \A n \in Bad : m <= n
    <3>1. Bad \in SUBSET Nat
      OBVIOUS
    <3> HIDE DEF Bad
    <3>2. QED
      BY <2>1, <3>1, SmallestNat
  <2>3. m \in Nat /\ way[m] # Place(s, m)
    BY <2>2
  <2>4. m # 0
    BY <1>1, <1>6, <2>3, CellsOnly
  <2>5. m \in Nat \ {0} /\ m - 1 \in Nat /\ ~(m <= m - 1)
    BY <2>3, <2>4
  <2>6. way[m - 1] = Place(s, m - 1)
    BY <2>2, <2>5
  <2>7. QED
    BY <1>2, <1>6, <2>3, <2>5, <2>6
<1>8. QED
  BY <1>1, <1>5, <1>7

LEMMA ContentsOfChain ==
  ASSUME NEW s, IsChain(s, link)
  PROVE  SingleContents = Values(s, val)
<1> DEFINE Ends(k) == Chain[k] = NULL /\ \A j \in 1 .. k - 1 : Chain[j] # NULL
           ends == CHOOSE k \in DOMAIN Chain : Ends(k)
<1>1. /\ s \in Seq(Cell) /\ Len(s) \in Nat /\ Cardinality(Cell) \in Nat
      /\ Len(s) <= Cardinality(Cell)
  BY ChainIsBounded DEF IsChain
<1>2. /\ DOMAIN Chain = 1 .. Cardinality(Cell) + 1
      /\ \A k \in DOMAIN Chain : Chain[k] = Place(s, k)
  <2>1. DOMAIN Chain = 1 .. Cardinality(Cell) + 1
    BY DEF Chain
  <2>2. QED
    BY <2>1, ChainIs
<1>3. \A k \in 1 .. Len(s) : Chain[k] # NULL /\ Chain[k] = s[k] /\ k \in DOMAIN Chain
  <2>1. \A k \in 1 .. Len(s) : k \in Int /\ k \in 0 .. Len(s) /\ k \in 1 .. Cardinality(Cell) + 1
    BY <1>1
  <2>2. QED
    BY <1>1, <1>2, <2>1, CellsOnly
<1>4. Len(s) + 1 \in DOMAIN Chain /\ Chain[Len(s) + 1] = NULL
  <2>1. /\ Len(s) + 1 \in Int /\ Len(s) + 1 \notin 0 .. Len(s)
        /\ Len(s) + 1 \in 1 .. Cardinality(Cell) + 1
    BY <1>1
  <2>2. QED
    BY <1>1, <1>2, <2>1, CellsOnly
<1>5. Ends(Len(s) + 1)
  <2>1. (Len(s) + 1) - 1 = Len(s)
    BY <1>1
  <2>2. QED
    BY <1>3, <1>4, <2>1
<1>6. ends \in DOMAIN Chain /\ Ends(ends)
  <2> HIDE DEF Ends
  <2>1. QED
    BY <1>4, <1>5
<1>7. SingleContents = [k \in 1 .. ends - 1 |-> val[Chain[k]]]
  BY DEF SingleContents
<1> HIDE DEF ends
<1>8. ends = Len(s) + 1
  <2>1. ends \in Int /\ ends >= 1
    BY <1>1, <1>2, <1>6
  <2>2. ~(ends <= Len(s))
    <3>1. ends <= Len(s) => ends \in 1 .. Len(s)
      BY <1>1, <2>1
    <3>2. QED
      BY <1>3, <1>6, <3>1
  <2>3. ~(ends > Len(s) + 1)
    <3>1. ends > Len(s) + 1 => Len(s) + 1 \in 1 .. ends - 1
      BY <1>1, <2>1
    <3>2. QED
      BY <1>4, <1>6, <3>1
  <2>4. QED
    BY <1>1, <2>1, <2>2, <2>3
<1>9. ends - 1 = Len(s)
  BY <1>1, <1>8
<1>10. QED
  BY <1>3, <1>7, <1>9 DEF Values
-----------------------------------------------------------------------------
(* A cell more or less in the chain is an item more or less in the list.    *)
LEMMA ValuesAre ==
  ASSUME NEW s \in Seq(Cell), NEW vl \in [Cell -> Int]
  PROVE  /\ Values(s, vl) \in Seq(Int) /\ Len(Values(s, vl)) = Len(s) /\ Len(s) \in Nat
         /\ DOMAIN Values(s, vl) = 1 .. Len(s)
         /\ \A k \in 1 .. Len(s) : Values(s, vl)[k] = vl[s[k]] /\ s[k] \in Cell
<1>1. Len(s) \in Nat /\ \A k \in 1 .. Len(s) : s[k] \in Cell
  OBVIOUS
<1>2. Values(s, vl) \in [1 .. Len(s) -> Int]
  BY <1>1 DEF Values
<1>3. \A m \in Nat : \A f \in [1 .. m -> Int] : f \in Seq(Int) /\ Len(f) = m
  OBVIOUS
<1>4. \A k \in 1 .. Len(s) : Values(s, vl)[k] = vl[s[k]]
  BY DEF Values
<1>5. DOMAIN Values(s, vl) = 1 .. Len(s)
  BY DEF Values
<1>6. QED
  BY <1>1, <1>2, <1>3, <1>4, <1>5

LEMMA InsertAtAll ==
  \A c \in Seq(Int) : \A i \in 1 .. Len(c) + 1 : \A x \in Int :
     /\ InsertAt(c, i, x) \in Seq(Int)
     /\ Len(InsertAt(c, i, x)) = Len(c) + 1
     /\ \A k \in 1 .. Len(c) + 1 :
          InsertAt(c, i, x)[k] = IF k < i THEN c[k] ELSE IF k = i THEN x ELSE c[k - 1]
BY InsertAtElements

LEMMA ValuesWith ==
  ASSUME NEW s \in Seq(Cell), NEW vl \in [Cell -> Int], NEW j \in 0 .. Len(s),
         NEW e \in Cell, e \notin CellsOf(s), NEW x \in Int
  PROVE  Values(With(s, j, e), Holding(vl, e, x)) = InsertAt(Values(s, vl), j + 1, x)
<1> DEFINE v == Values(s, vl)
           w == Values(With(s, j, e), [vl EXCEPT ![e] = x])
           n == Len(s)
           p == j + 1
<1>1. /\ v \in Seq(Int) /\ Len(v) = n /\ n \in Nat
      /\ \A k \in 1 .. n : v[k] = vl[s[k]] /\ s[k] \in Cell /\ s[k] # e
  BY ValuesAre DEF CellsOf
<1>2. p \in 1 .. n + 1 /\ p = j + 1
  BY <1>1
<1>3. With(s, j, e) \in [1 .. n + 1 -> Cell] /\ Len(With(s, j, e)) = n + 1
  <2>1. With(s, j, e) \in [1 .. n + 1 -> Cell]
    BY <1>1 DEF With
  <2>2. \A m \in Nat : \A f \in [1 .. m -> Cell] : f \in Seq(Cell) /\ Len(f) = m
    OBVIOUS
  <2>3. n + 1 \in Nat
    BY <1>1
  <2>4. QED
    BY <2>1, <2>2, <2>3
<1>4. /\ w \in [1 .. n + 1 -> Int]
      /\ \A k \in 1 .. n + 1 :
           w[k] = [vl EXCEPT ![e] = x][IF k <= j THEN s[k] ELSE IF k = j + 1 THEN e ELSE s[k - 1]]
  <2>1. w = [k \in 1 .. n + 1 |-> [vl EXCEPT ![e] = x][With(s, j, e)[k]]]
    BY <1>3 DEF Values
  <2>2. \A k \in 1 .. n + 1 :
          With(s, j, e)[k] = IF k <= j THEN s[k] ELSE IF k = j + 1 THEN e ELSE s[k - 1]
    BY DEF With
  <2>3. [vl EXCEPT ![e] = x] \in [Cell -> Int]
    OBVIOUS
  <2> HIDE DEF w
  <2>4. QED
    BY <1>3, <2>1, <2>2, <2>3
<1> HIDE DEF v, w, n
<1>5. ASSUME NEW k \in 1 .. n + 1
      PROVE  w[k] = IF k < p THEN v[k] ELSE IF k = p THEN x ELSE v[k - 1]
  <2>1. CASE k < p
    <3>1. k <= j /\ k \in 1 .. n
      BY <1>1, <1>2, <2>1
    <3>2. QED
      BY <1>1, <1>4, <2>1, <3>1
  <2>2. CASE k = p
    <3>1. ~(k <= j) /\ k = j + 1 /\ ~(k < p)
      BY <1>1, <1>2, <2>2
    <3>2. QED
      BY <1>4, <2>2, <3>1
  <2>3. CASE k > p
    <3>1. ~(k <= j) /\ k # j + 1 /\ k - 1 \in 1 .. n /\ ~(k < p) /\ k # p
      BY <1>1, <1>2, <2>3
    <3>2. w[k] = [vl EXCEPT ![e] = x][s[k - 1]]
      BY <1>4, <3>1
    <3>3. s[k - 1] \in Cell /\ s[k - 1] # e /\ v[k - 1] = vl[s[k - 1]]
      BY <1>1, <3>1
    <3> HIDE DEF p
    <3>4. QED
      BY <3>1, <3>2, <3>3
  <2>4. k < p \/ k = p \/ k > p
    BY <1>1, <1>2
  <2>5. QED
    BY <2>1, <2>2, <2>3, <2>4
<1> HIDE DEF p
<1>6. /\ InsertAt(v, p, x) \in Seq(Int) /\ Len(InsertAt(v, p, x)) = n + 1
      /\ \A k \in 1 .. n + 1 :
           InsertAt(v, p, x)[k] = IF k < p THEN v[k] ELSE IF k = p THEN x ELSE v[k - 1]
  <2> DEFINE m == j + 1
  <2>1. m \in 1 .. Len(v) + 1 /\ Len(v) + 1 = n + 1 /\ p = m
    BY <1>1, <1>2
  <2> HIDE DEF m
  <2>2. /\ InsertAt(v, m, x) \in Seq(Int) /\ Len(InsertAt(v, m, x)) = Len(v) + 1
        /\ \A k \in 1 .. Len(v) + 1 :
             InsertAt(v, m, x)[k] = IF k < m THEN v[k] ELSE IF k = m THEN x ELSE v[k - 1]
    <3>1. v \in Seq(Int) /\ m \in 1 .. Len(v) + 1
      BY <1>1, <2>1
    <3>2. QED
      BY <3>1, InsertAtAll, ZenonT(30)
  <2>3. QED
    BY <2>1, <2>2
<1>7. w \in Seq(Int) /\ Len(w) = n + 1
  <2>1. \A m \in Nat : \A f \in [1 .. m -> Int] : f \in Seq(Int) /\ Len(f) = m
    OBVIOUS
  <2>2. n + 1 \in Nat
    BY <1>1
  <2>3. QED
    BY <1>4, <2>1, <2>2
<1>8. w = InsertAt(v, p, x)
  <2> DEFINE y == InsertAt(v, p, x)
  <2>1. /\ y \in Seq(Int) /\ Len(y) = Len(w)
        /\ \A k \in 1 .. Len(w) : w[k] = y[k]
    BY <1>5, <1>6, <1>7
  <2> HIDE DEF y
  <2>2. w = y
    BY <1>7, <2>1, SeqEqual
  <2>3. QED
    BY <2>2 DEF y
<1>9. QED
  BY <1>8 DEF v, w, p, Holding

LEMMA ValuesSkipping ==
  ASSUME NEW s \in Seq(Cell), NEW vl \in [Cell -> Int], NEW j \in 0 .. Len(s) - 1
  PROVE  Values(Skipping(s, j), vl) = RemoveAt(Values(s, vl), j + 1)
<1> DEFINE v == Values(s, vl)
           w == Values(Skipping(s, j), vl)
           n == Len(s)
           p == j + 1
<1>1. /\ v \in Seq(Int) /\ Len(v) = n /\ n \in Nat
      /\ \A k \in 1 .. n : v[k] = vl[s[k]] /\ s[k] \in Cell
  BY ValuesAre
<1>2. p \in 1 .. n /\ p = j + 1 /\ n - 1 \in Nat
  BY <1>1
<1>3. Skipping(s, j) \in [1 .. n - 1 -> Cell] /\ Len(Skipping(s, j)) = n - 1
  <2>1. Skipping(s, j) \in [1 .. n - 1 -> Cell]
    BY <1>1 DEF Skipping
  <2>2. \A m \in Nat : \A f \in [1 .. m -> Cell] : f \in Seq(Cell) /\ Len(f) = m
    OBVIOUS
  <2>3. QED
    BY <1>2, <2>1, <2>2
<1>4. /\ w \in [1 .. n - 1 -> Int]
      /\ \A k \in 1 .. n - 1 : w[k] = vl[IF k <= j THEN s[k] ELSE s[k + 1]]
  <2>1. w = [k \in 1 .. n - 1 |-> vl[Skipping(s, j)[k]]]
    BY <1>3 DEF Values
  <2>2. \A k \in 1 .. n - 1 : Skipping(s, j)[k] = IF k <= j THEN s[k] ELSE s[k + 1]
    BY DEF Skipping
  <2> HIDE DEF w
  <2>3. QED
    BY <1>3, <2>1, <2>2
<1> HIDE DEF v, w, n
<1>5. ASSUME NEW k \in 1 .. n - 1
      PROVE  w[k] = IF k < p THEN v[k] ELSE v[k + 1]
  <2>1. /\ k \in 1 .. n /\ k + 1 \in 1 .. n /\ (k < p <=> k <= j)
    BY <1>1, <1>2
  <2>2. QED
    BY <1>1, <1>4, <2>1
<1> HIDE DEF p
<1>6. /\ RemoveAt(v, p) \in Seq(Int) /\ Len(RemoveAt(v, p)) = n - 1
      /\ \A k \in 1 .. n - 1 : RemoveAt(v, p)[k] = IF k < p THEN v[k] ELSE v[k + 1]
  BY <1>1, <1>2, RemoveAtElements
<1>7. w \in Seq(Int) /\ Len(w) = n - 1
  <2>1. \A m \in Nat : \A f \in [1 .. m -> Int] : f \in Seq(Int) /\ Len(f) = m
    OBVIOUS
  <2>2. QED
    BY <1>2, <1>4, <2>1
<1>8. w = RemoveAt(v, p)
  <2> DEFINE y == RemoveAt(v, p)
  <2>1. /\ y \in Seq(Int) /\ Len(y) = Len(w)
        /\ \A k \in 1 .. Len(w) : w[k] = y[k]
    BY <1>5, <1>6, <1>7
  <2> HIDE DEF y
  <2>2. w = y
    BY <1>7, <2>1, SeqEqual
  <2>3. QED
    BY <2>2 DEF y
<1>9. QED
  BY <1>8 DEF v, w, p

-----------------------------------------------------------------------------
(* Where a call of the single lists stands.  The cells allocated are those  *)
(* of the chain, except that Clear has freed the first j - 1; a walk has    *)
(* left j cells behind it, none of which holds what it looks for.           *)
Calls == [op : {"none", "insert", "remove", "count", "clear"}, old : Int, x : Int,
          prev : Cell \cup {Header}, cur : Cell \cup {Header, NULL}]

Walked(s, vl, p, j) ==
  /\ p.prev = Place(s, j) /\ p.cur = Place(s, j + 1)
  /\ \A i \in 1 .. j : vl[s[i]] # p.old

StandsAt(s, u, vl, p) ==
  /\ p.op # "clear" => u = CellsOf(s)
  /\ p.op = "clear" => \E j \in 1 .. Len(s) + 1 :
                         p.cur = Place(s, j) /\ u = {s[i] : i \in j .. Len(s)}
  /\ p.op \in {"insert", "remove"} => /\ p.old \in SingleItem /\ p.x \in SingleItem
                                      /\ \E j \in 0 .. Len(s) : Walked(s, vl, p, j)
  /\ p.op = "insert" => u # Cell
  /\ p.op = "remove" => p.old = p.x

SingleTypeOK == /\ used \subseteq Cell /\ link \in Links /\ val \in [Cell -> Int]
                /\ pass \in Calls

SingleInv == SingleTypeOK /\ \E s : IsChain(s, link) /\ StandsAt(s, used, val, pass)

LEMMA SingleInvInit == SingleInit => SingleInv /\ SingleItems!ItemsInit
<1> SUFFICES ASSUME SingleInit PROVE SingleInv /\ SingleItems!ItemsInit
  OBVIOUS
<1> DEFINE s == <<>>
<1>1. SingleTypeOK
  BY DEF SingleInit, SingleTypeOK, Links, Calls, Standing
<1>2. s \in Seq(Cell) /\ Len(s) = 0
  OBVIOUS
<1>3. IsChain(s, link)
  <2>1. Place(s, 0) = Header /\ Place(s, 1) = NULL
    BY <1>2 DEF Place
  <2>2. Chained(s, link)
    BY <1>2, <2>1 DEF Chained, SingleInit
  <2>3. QED
    BY <1>2, <2>2 DEF IsChain, NoCellTwice
<1>4. StandsAt(s, used, val, pass)
  <2>1. CellsOf(s) = {} /\ pass.op = "none" /\ used = {}
    BY <1>2 DEF CellsOf, SingleInit, Standing
  <2>2. QED
    BY <2>1 DEF StandsAt
<1>5. SingleContents = <<>>
  <2>1. SingleContents = Values(s, val)
    BY <1>3, ContentsOfChain
  <2>2. Values(s, val) = <<>>
    BY <1>2 DEF Values
  <2>3. QED
    BY <2>1, <2>2
<1>6. QED
  BY <1>1, <1>3, <1>4, <1>5
  DEF SingleInv, SingleItems!ItemsInit, SingleInit, SingleDid, SingleItems!Did

(* The first item that is old stands in the cell the walk has come to.      *)
LEMMA FirstIsHere ==
  ASSUME NEW s, IsChain(s, link), val \in [Cell -> Int], NEW j \in 0 .. Len(s), NEW old,
         \A i \in 1 .. j : val[s[i]] # old,
         Place(s, j + 1) = NULL \/ val[Place(s, j + 1)] = old
  PROVE  /\ SingleItems!FirstOf(old) = j + 1
         /\ old \in SingleItems!ToSet(SingleContents) <=> j < Len(s)
         /\ Place(s, j + 1) = NULL <=> j = Len(s)
<1> DEFINE v == SingleContents
<1>1. /\ s \in Seq(Cell) /\ Len(s) \in Nat /\ Len(v) = Len(s) /\ DOMAIN v = 1 .. Len(s)
      /\ \A k \in 1 .. Len(s) : v[k] = val[s[k]]
  <2>1. v = Values(s, val) /\ s \in Seq(Cell)
    BY ContentsOfChain DEF IsChain
  <2> HIDE DEF v
  <2>2. QED
    BY <2>1, ValuesAre
<1>2. SingleItems!ToSet(v) = {v[k] : k \in 1 .. Len(s)}
  BY <1>1 DEF SingleItems!ToSet
<1>3. SingleItems!FirstOf(old) =
        IF old \in SingleItems!ToSet(v)
        THEN CHOOSE i \in DOMAIN v : v[i] = old /\ \A m \in 1 .. i - 1 : v[m] # old
        ELSE Len(v) + 1
  BY DEF SingleItems!FirstOf
<1> HIDE DEF v
<1>4. CASE j = Len(s)
  <2>1. Place(s, j + 1) = NULL
    <3>1. j + 1 \in Int /\ j + 1 \notin 0 .. Len(s)
      BY <1>1, <1>4
    <3>2. QED
      BY <1>1, <3>1, CellsOnly
  <2>2. old \notin SingleItems!ToSet(v)
    <3>1. \A k \in 1 .. Len(s) : v[k] # old
      BY <1>1, <1>4
    <3>2. QED
      BY <1>2, <3>1
  <2>3. QED
    BY <1>1, <1>3, <1>4, <2>1, <2>2 DEF v
<1>5. CASE j # Len(s)
  <2>1. /\ j < Len(s) /\ j + 1 \in 1 .. Len(s) /\ j + 1 \in Int /\ j + 1 \in 0 .. Len(s)
        /\ (j + 1) - 1 = j
    <3>1. Len(s) \in Nat
      BY <1>1
    <3>2. QED
      BY <1>5, <3>1
  <2>2. Place(s, j + 1) = s[j + 1] /\ Place(s, j + 1) # NULL
    BY <1>1, <2>1, CellsOnly
  <2>3. v[j + 1] = old /\ \A m \in 1 .. j : v[m] # old
    <3>1. \A m \in 1 .. j : m \in 1 .. Len(s)
      BY <1>1
    <3>2. QED
      BY <1>1, <2>1, <2>2, <3>1
  <2>4. old \in SingleItems!ToSet(v)
    BY <1>2, <2>1, <2>3
  <2> DEFINE Fits(i) == v[i] = old /\ \A m \in 1 .. i - 1 : v[m] # old
             i0 == CHOOSE i \in DOMAIN v : Fits(i)
  <2>5. Fits(j + 1) /\ j + 1 \in DOMAIN v
    BY <1>1, <2>1, <2>3
  <2>6. i0 \in DOMAIN v /\ Fits(i0)
    <3> HIDE DEF Fits
    <3>1. QED
      BY <2>5
  <2>7. SingleItems!FirstOf(old) = i0
    BY <1>3, <2>4
  <2> HIDE DEF i0
  <2>8. i0 = j + 1
    <3>1. i0 \in Nat /\ i0 >= 1 /\ v[i0] = old
      BY <1>1, <2>6
    <3>2. ~(i0 < j + 1)
      <4>1. i0 < j + 1 => i0 \in 1 .. j
        BY <2>1, <3>1
      <4>2. QED
        BY <2>3, <3>1, <4>1
    <3>3. ~(j + 1 < i0)
      <4>1. j + 1 < i0 => j + 1 \in 1 .. i0 - 1
        BY <2>1, <3>1
      <4>2. QED
        BY <2>3, <2>6, <4>1
    <3>4. QED
      BY <2>1, <3>1, <3>2, <3>3
  <2>9. QED
    BY <2>1, <2>2, <2>4, <2>7, <2>8 DEF v
<1>6. QED
  BY <1>4, <1>5

LEMMA ContentsOf == \A s : IsChain(s, link) => SingleContents = Values(s, val)
BY ContentsOfChain

LEMMA NewContents == \A s : IsChain(s, link') => SingleContents' = Values(s, val')
<1>1. (\A s : IsChain(s, link) => SingleContents = Values(s, val))'
  BY ContentsOf, PTL
<1>2. QED
  BY <1>1 DEF IsChain, Chained, Place

(* A step that leaves the nodes alone is no step of the items.              *)
LEMMA SameContents ==
  ASSUME UNCHANGED <<link, val>>
  PROVE  SingleContents' = SingleContents
BY DEF SingleContents, Chain

LEMMA BeginsAtFirst ==
  ASSUME SingleInv, NEW op \in {"insert", "remove", "clear"}, NEW old \in Int, NEW x \in Int,
         pass.op = "none", Begin(op, old, x), UNCHANGED <<used, link, val>>,
         op \in {"insert", "remove"} => old \in SingleItem /\ x \in SingleItem,
         op = "insert" => used # Cell, op = "remove" => old = x
  PROVE  SingleInv'
<1> PICK s : IsChain(s, link) /\ StandsAt(s, used, val, pass)
  BY DEF SingleInv
<1>1. /\ s \in Seq(Cell) /\ Len(s) \in Nat /\ link[Header] = Place(s, 1) /\ Place(s, 0) = Header
      /\ used = CellsOf(s) /\ SingleTypeOK
  <2>1. s \in Seq(Cell) /\ Len(s) \in Nat /\ Place(s, 0) = Header /\ 0 + 1 = 1
    BY DEF IsChain, Place
  <2>2. 0 \in 0 .. Len(s)
    BY <2>1
  <2>3. QED
    BY <2>1, <2>2 DEF IsChain, Chained, StandsAt, SingleInv
<1>2. pass' = [op |-> op, old |-> old, x |-> x, prev |-> Header, cur |-> link[Header]]
  BY DEF Begin
<1>3. SingleTypeOK'
  <2>1. link[Header] \in Cell \cup {Header, NULL}
    BY <1>1 DEF SingleTypeOK, Links
  <2>2. QED
    BY <1>1, <1>2, <2>1 DEF SingleTypeOK, Calls
<1>4. StandsAt(s, used, val, pass')
  <2>1. \E j \in 0 .. Len(s) : Walked(s, val, pass', j)
    <3>1. Walked(s, val, pass', 0)
      BY <1>1, <1>2 DEF Walked
    <3>2. QED
      BY <1>1, <3>1
  <2>2. \E j \in 1 .. Len(s) + 1 : pass'.cur = Place(s, j) /\ used = {s[i] : i \in j .. Len(s)}
    <3>1. 1 \in 1 .. Len(s) + 1
      BY <1>1
    <3>2. QED
      BY <1>1, <1>2, <3>1 DEF CellsOf
  <2>3. QED
    BY <1>1, <1>2, <2>1, <2>2 DEF StandsAt
<1>5. QED
  BY <1>3, <1>4 DEF SingleInv

LEMMA Steps ==
  ASSUME SingleInv, StepOn
  PROVE  SingleInv'
<1> PICK s : IsChain(s, link) /\ StandsAt(s, used, val, pass)
  BY DEF SingleInv
<1>1. /\ pass.op \in {"insert", "remove"} /\ pass.cur # NULL /\ val[pass.cur] # pass.old
      /\ UNCHANGED <<used, link, val>> /\ pass \in Calls
      /\ pass' = [pass EXCEPT !.prev = pass.cur, !.cur = link[pass.cur]]
  BY DEF StepOn, GoesOn, Predecessor, SingleInv, SingleTypeOK
<1>2. PICK j \in 0 .. Len(s) : Walked(s, val, pass, j)
  BY <1>1 DEF StandsAt
<1>3. s \in Seq(Cell) /\ Len(s) \in Nat /\ pass.cur = Place(s, j + 1)
  BY <1>2 DEF IsChain, Walked
<1>4. /\ j + 1 \in 1 .. Len(s) /\ j + 1 \in 0 .. Len(s) /\ pass.cur = s[j + 1]
      /\ s[j + 1] \in Cell
  <2>1. j + 1 \in Int /\ (j + 1 \in 0 .. Len(s) <=> j + 1 \in 1 .. Len(s))
    BY <1>3
  <2>2. j + 1 \in 0 .. Len(s)
    BY <1>1, <1>3, <2>1, CellsOnly
  <2>3. QED
    BY <1>3, <2>1, <2>2, CellsOnly
<1>5. link[pass.cur] = Place(s, (j + 1) + 1)
  BY <1>3, <1>4 DEF IsChain, Chained
<1>6. /\ pass'.op = pass.op /\ pass'.old = pass.old /\ pass'.x = pass.x
      /\ pass'.prev = pass.cur /\ pass'.cur = link[pass.cur] /\ pass' \in Calls
  <2>1. pass.cur \in Cell /\ link[pass.cur] \in Cell \cup {Header, NULL}
    BY <1>4 DEF SingleInv, SingleTypeOK, Links
  <2>2. QED
    BY <1>1, <2>1 DEF Calls
<1>7. Walked(s, val, pass', j + 1)
  <2>1. \A i \in 1 .. j + 1 : i \in 1 .. j \/ i = j + 1
    BY <1>3
  <2>2. \A i \in 1 .. j + 1 : val[s[i]] # pass.old
    BY <1>1, <1>2, <1>4, <2>1 DEF Walked
  <2>3. QED
    BY <1>3, <1>5, <1>6, <2>2 DEF Walked
<1>8. StandsAt(s, used, val, pass')
  BY <1>1, <1>4, <1>6, <1>7 DEF StandsAt
<1>9. QED
  BY <1>1, <1>6, <1>8 DEF SingleInv, SingleTypeOK

Idle(p) == p \in Calls /\ p.op = "none"

LEMMA StandingIsIdle == Idle(Standing)
BY DEF Idle, Standing, Calls

LEMMA Counts ==
  ASSUME SingleInv, findnum_Linklist \/ CountNode
  PROVE  SingleInv' /\ UNCHANGED <<SingleContents, singleDid>>
<1> PICK s : IsChain(s, link) /\ StandsAt(s, used, val, pass)
  BY DEF SingleInv
<1>1. /\ pass.op \in {"none", "count"} /\ UNCHANGED <<used, link, val, singleDid>>
      /\ used = CellsOf(s)
  BY DEF findnum_Linklist, CountNode, Standing, StandsAt
<1>2. pass'.op \in {"none", "count"} /\ pass' \in Calls
  <2>1. CASE findnum_Linklist
    <3>1. CountFrom.op = "count" /\ CountFrom \in Calls
      BY StandingIsIdle DEF CountFrom, Idle, Calls
    <3>2. QED
      BY <2>1, <3>1 DEF findnum_Linklist, Calls
  <2>2. CASE CountNode /\ pass.cur = NULL
    BY <2>2 DEF CountNode, Standing, Calls
  <2>3. CASE CountNode /\ pass.cur # NULL
    <3>1. pass \in Calls /\ pass.op = "count" /\ pass' = [pass EXCEPT !.cur = link[@]]
      BY <2>3 DEF CountNode, SingleInv, SingleTypeOK
    <3>2. pass.cur \in Cell \cup {Header} /\ link[pass.cur] \in Cell \cup {Header, NULL}
      BY <2>3, <3>1 DEF Calls, SingleInv, SingleTypeOK, Links
    <3>3. QED
      BY <3>1, <3>2 DEF Calls
  <2>4. QED
    BY <2>1, <2>2, <2>3
<1>3. StandsAt(s, used, val, pass')
  BY <1>1, <1>2 DEF StandsAt
<1>4. SingleContents' = SingleContents
  BY <1>1, SameContents
<1>5. QED
  BY <1>1, <1>2, <1>3, <1>4 DEF SingleInv, SingleTypeOK

LEMMA Frees ==
  ASSUME SingleInv, FreeNode
  PROVE  SingleInv'
<1> PICK s : IsChain(s, link) /\ StandsAt(s, used, val, pass)
  BY DEF SingleInv
<1>1. /\ pass.op = "clear" /\ pass.cur # NULL /\ UNCHANGED <<link, val>> /\ pass \in Calls
      /\ used' = used \ {pass.cur} /\ pass' = [pass EXCEPT !.cur = link[pass.cur]]
      /\ SingleTypeOK
  BY DEF FreeNode, SingleInv, SingleTypeOK
<1>2. PICK j \in 1 .. Len(s) + 1 : pass.cur = Place(s, j) /\ used = {s[i] : i \in j .. Len(s)}
  BY <1>1 DEF StandsAt
<1>3. s \in Seq(Cell) /\ Len(s) \in Nat /\ j \in Int /\ j >= 1 /\ NoCellTwice(s)
  BY <1>2 DEF IsChain
<1>4. j \in 1 .. Len(s) /\ pass.cur = s[j] /\ s[j] \in Cell /\ link[s[j]] = Place(s, j + 1)
  <2>1. j \in 0 .. Len(s)
    BY <1>1, <1>2, <1>3, CellsOnly
  <2>2. j \in 1 .. Len(s)
    BY <1>3, <2>1
  <2>3. pass.cur = s[j] /\ Place(s, j) = s[j] /\ s[j] \in Cell
    BY <1>2, <1>3, <2>2, CellsOnly
  <2>4. QED
    BY <2>1, <2>2, <2>3 DEF IsChain, Chained
<1>5. used' = {s[i] : i \in j + 1 .. Len(s)}
  <2>1. \A i \in j .. Len(s) : i \in 1 .. Len(s) /\ (i = j \/ i \in j + 1 .. Len(s))
    BY <1>3
  <2>2. \A i \in j + 1 .. Len(s) : i \in j .. Len(s) /\ i # j /\ s[i] # s[j]
    <3>1. \A i \in j + 1 .. Len(s) : i \in j .. Len(s) /\ i # j
      BY <1>3
    <3>2. QED
      BY <1>3, <1>4, <2>1, <3>1 DEF NoCellTwice
  <2>3. QED
    BY <1>1, <1>2, <1>4, <2>1, <2>2
<1>6. pass'.op = "clear" /\ pass'.cur = Place(s, j + 1) /\ pass' \in Calls
  <2>1. link[s[j]] \in Cell \cup {Header, NULL}
    BY <1>1, <1>4 DEF SingleTypeOK, Links
  <2>2. QED
    BY <1>1, <1>4, <2>1 DEF Calls
<1>7. StandsAt(s, used', val, pass')
  <2>1. j + 1 \in 1 .. Len(s) + 1
    BY <1>3, <1>4
  <2>2. QED
    BY <1>5, <1>6, <2>1 DEF StandsAt
<1>8. QED
  BY <1>1, <1>6, <1>7 DEF SingleInv, SingleTypeOK

LEMMA ItemsOfChain ==
  ASSUME SingleTypeOK, NEW s, IsChain(s, link)
  PROVE  /\ SingleContents = Values(s, val) /\ Len(SingleContents) = Len(s)
         /\ Len(s) \in Nat /\ Cardinality(Cell) \in Nat /\ Len(s) <= Cardinality(Cell)
         /\ CellsOf(s) = Cell <=> Len(s) = Cardinality(Cell)
         /\ \A k \in 1 .. Len(s) : SingleContents[k] = val[s[k]]
<1>1. SingleContents = Values(s, val) /\ s \in Seq(Cell) /\ NoCellTwice(s)
  BY ContentsOfChain DEF IsChain
<1>2. val \in [Cell -> Int]
  BY DEF SingleTypeOK
<1>3. QED
  BY <1>1, <1>2, ValuesAre, ChainIsBounded

(* What taking a node in and leaving one out does to the items.             *)
LEMMA TakesIn ==
  ASSUME SingleInv, NEW s, IsChain(s, link), used = CellsOf(s),
         NEW j \in 0 .. Len(s), NEW c \in Cell \ used, NEW x \in Int,
         link' = LinkedIn(link, s, j, c),
         val' = Holding(val, c, x), used' = used \cup {c}, pass' = Standing
  PROVE  /\ SingleInv' /\ Len(SingleContents) < Cardinality(Cell)
         /\ SingleContents' = InsertAt(SingleContents, j + 1, x)
<1> DEFINE t == With(s, j, c)
<1>1. link \in Links /\ val \in [Cell -> Int] /\ used \subseteq Cell /\ s \in Seq(Cell)
      /\ c \in Cell /\ c \notin CellsOf(s) /\ SingleTypeOK
  BY DEF SingleInv, SingleTypeOK, IsChain
<1>2. /\ IsChain(t, link') /\ CellsOf(t) = used' /\ link' \in Links
  BY <1>1, LinkIn
<1>3. val' \in [Cell -> Int] /\ used' \subseteq Cell
  BY <1>1 DEF Holding
<1>4. SingleContents' = InsertAt(SingleContents, j + 1, x)
  <2>1. Values(t, val') = InsertAt(Values(s, val), j + 1, x)
    BY <1>1, ValuesWith
  <2>2. SingleContents' = Values(t, val')
    BY <1>2, NewContents
  <2>3. SingleContents = Values(s, val)
    BY ContentsOfChain
  <2>4. QED
    BY <2>1, <2>2, <2>3
<1>5. Len(SingleContents) < Cardinality(Cell)
  <2>1. CellsOf(s) # Cell
    BY <1>1
  <2>2. QED
    BY <1>1, <2>1, ItemsOfChain
<1> HIDE DEF t
<1>6. StandsAt(t, used', val', pass') /\ pass' \in Calls
  BY <1>2, StandingIsIdle DEF Idle, StandsAt
<1>7. QED
  BY <1>2, <1>3, <1>4, <1>5, <1>6 DEF SingleInv, SingleTypeOK

LEMMA LeavesOut ==
  ASSUME SingleInv, NEW s, IsChain(s, link), used = CellsOf(s), NEW j \in 0 .. Len(s) - 1,
         link' = [link EXCEPT ![Place(s, j)] = link[s[j + 1]]],
         val' = val, used' = used \ {s[j + 1]}, pass' = Standing
  PROVE  SingleInv' /\ SingleContents' = RemoveAt(SingleContents, j + 1)
<1> DEFINE t == Skipping(s, j)
<1>1. link \in Links /\ val \in [Cell -> Int] /\ used \subseteq Cell /\ s \in Seq(Cell)
  BY DEF SingleInv, SingleTypeOK, IsChain
<1>2. IsChain(t, link') /\ CellsOf(t) = used' /\ link' \in Links
  BY <1>1, LinkOut
<1>3. SingleContents' = RemoveAt(SingleContents, j + 1)
  <2>1. Values(t, val) = RemoveAt(Values(s, val), j + 1)
    BY <1>1, ValuesSkipping
  <2>2. SingleContents' = Values(t, val')
    BY <1>2, NewContents
  <2>3. SingleContents = Values(s, val)
    BY ContentsOfChain
  <2>4. QED
    BY <2>1, <2>2, <2>3
<1> HIDE DEF t
<1>4. StandsAt(t, used', val', pass') /\ pass' \in Calls
  BY <1>2, StandingIsIdle DEF Idle, StandsAt
<1>5. QED
  BY <1>1, <1>2, <1>3, <1>4 DEF SingleInv, SingleTypeOK

LEMMA LinksNew ==
  ASSUME SingleInv, LinkNew
  PROVE  SingleInv' /\ SingleItems!ItemsNext
<1> PICK s : IsChain(s, link) /\ StandsAt(s, used, val, pass)
  BY DEF SingleInv
<1>1. /\ pass.op = "insert" /\ (pass.cur = NULL \/ val[pass.cur] = pass.old)
      /\ singleDid' = SingleDid("before", pass.old, pass.x, 0) /\ pass' = Standing
  BY DEF LinkNew, Arrived, GoesOn
<1>2. PICK c \in Cell \ used : /\ used' = used \cup {c} /\ val' = [val EXCEPT ![c] = pass.x]
                               /\ link' = [link EXCEPT ![c] = pass.cur, ![pass.prev] = c]
  BY DEF LinkNew
<1>3. /\ used = CellsOf(s) /\ pass.old \in SingleItem /\ pass.x \in SingleItem
      /\ val \in [Cell -> Int] /\ pass.x \in Int
  BY <1>1, SingleAssumption DEF StandsAt, SingleInv, SingleTypeOK
<1>4. PICK j \in 0 .. Len(s) : Walked(s, val, pass, j)
  BY <1>1 DEF StandsAt
<1>5. /\ link' = LinkedIn(link, s, j, c)
      /\ Place(s, j + 1) = NULL \/ val[Place(s, j + 1)] = pass.old
      /\ \A i \in 1 .. j : val[s[i]] # pass.old
  BY <1>1, <1>2, <1>4 DEF Walked, LinkedIn
<1>6. /\ SingleInv' /\ Len(SingleContents) < Cardinality(Cell)
      /\ SingleContents' = InsertAt(SingleContents, j + 1, pass.x)
  <2> DEFINE x == pass.x
  <2>1. /\ x \in Int /\ val' = Holding(val, c, x) /\ link' = LinkedIn(link, s, j, c)
        /\ used = CellsOf(s) /\ used' = used \cup {c} /\ pass' = Standing /\ IsChain(s, link)
    BY <1>1, <1>2, <1>3, <1>5 DEF Holding
  <2> HIDE DEF x
  <2>2. /\ SingleInv' /\ Len(SingleContents) < Cardinality(Cell)
        /\ SingleContents' = InsertAt(SingleContents, j + 1, x)
    BY <2>1, TakesIn
  <2>3. QED
    BY <2>2 DEF x
<1>7. SingleItems!FirstOf(pass.old) = j + 1
  <2> DEFINE old == pass.old
  <2>1. (Place(s, j + 1) = NULL \/ val[Place(s, j + 1)] = old) /\ \A i \in 1 .. j : val[s[i]] # old
    BY <1>5
  <2> HIDE DEF old
  <2>2. SingleItems!FirstOf(old) = j + 1
    BY <1>3, <2>1, FirstIsHere
  <2>3. QED
    BY <2>2 DEF old
<1>8. SingleItems!InsertBefore(pass.old, pass.x)
  BY <1>1, <1>6, <1>7
  DEF SingleItems!InsertBefore, SingleItems!Did, SingleDid, SingleItems!InsertAt, InsertAt
<1>9. QED
  BY <1>3, <1>6, <1>8 DEF SingleItems!ItemsNext

LEMMA Unlinks ==
  ASSUME SingleInv, Unlink
  PROVE  SingleInv' /\ SingleItems!ItemsNext
<1> PICK s : IsChain(s, link) /\ StandsAt(s, used, val, pass)
  BY DEF SingleInv
<1>1. /\ pass.op = "remove" /\ (pass.cur = NULL \/ val[pass.cur] = pass.old)
      /\ singleDid' = SingleDid("remove", 0, pass.x, 0) /\ pass' = Standing /\ val' = val
  BY DEF Unlink, Arrived, GoesOn
<1>2. /\ used = CellsOf(s) /\ pass.x \in SingleItem /\ pass.old = pass.x
      /\ val \in [Cell -> Int] /\ s \in Seq(Cell) /\ Len(s) \in Nat /\ SingleTypeOK
  BY <1>1 DEF StandsAt, SingleInv, SingleTypeOK, IsChain
<1>3. PICK j \in 0 .. Len(s) : Walked(s, val, pass, j)
  BY <1>1 DEF StandsAt
<1>4. /\ pass.prev = Place(s, j) /\ pass.cur = Place(s, j + 1)
      /\ Place(s, j + 1) = NULL \/ val[Place(s, j + 1)] = pass.x
      /\ \A i \in 1 .. j : val[s[i]] # pass.x
  BY <1>1, <1>2, <1>3 DEF Walked
<1>5. /\ SingleItems!FirstOf(pass.x) = j + 1
      /\ pass.x \in SingleItems!ToSet(SingleContents) <=> j < Len(s)
      /\ Place(s, j + 1) = NULL <=> j = Len(s)
  BY <1>2, <1>4, FirstIsHere
<1>6. CASE pass.cur = NULL
  <2>1. UNCHANGED <<used, link, val>> /\ ~(pass.x \in SingleItems!ToSet(SingleContents))
    BY <1>1, <1>2, <1>4, <1>5, <1>6 DEF Unlink
  <2>2. SingleContents' = SingleContents
    BY <2>1, SameContents
  <2>3. StandsAt(s, used', val', pass') /\ pass' \in Calls
    BY <1>1, <1>2, <2>1, StandingIsIdle DEF Idle, StandsAt
  <2>4. SingleInv'
    BY <1>2, <2>1, <2>3 DEF SingleInv, SingleTypeOK
  <2>5. SingleItems!RemoveItem(pass.x)
    BY <1>1, <2>1, <2>2 DEF SingleItems!RemoveItem, SingleItems!Did, SingleDid
  <2>6. QED
    BY <1>2, <2>4, <2>5 DEF SingleItems!ItemsNext
<1>7. CASE pass.cur # NULL
  <2>1. /\ j \in 0 .. Len(s) - 1 /\ j + 1 \in 1 .. Len(s)
        /\ pass.x \in SingleItems!ToSet(SingleContents)
    BY <1>2, <1>4, <1>5, <1>7
  <2>2. pass.cur = s[j + 1]
    BY <1>2, <1>4, <2>1, CellsOnly
  <2>3. /\ link' = [link EXCEPT ![Place(s, j)] = link[s[j + 1]]]
        /\ used' = used \ {s[j + 1]}
    BY <1>4, <1>7, <2>2 DEF Unlink
  <2>4. SingleInv' /\ SingleContents' = RemoveAt(SingleContents, j + 1)
    BY <1>1, <1>2, <2>1, <2>3, LeavesOut
  <2>5. SingleItems!RemoveItem(pass.x)
    BY <1>1, <1>5, <2>1, <2>4
    DEF SingleItems!RemoveItem, SingleItems!Did, SingleDid, SingleItems!RemoveAt, RemoveAt
  <2>6. QED
    BY <1>2, <2>4, <2>5 DEF SingleItems!ItemsNext
<1>8. QED
  BY <1>6, <1>7

LEMMA Clears ==
  ASSUME SingleInv, ClearReturns
  PROVE  SingleInv' /\ SingleItems!ItemsNext
<1> PICK s : IsChain(s, link) /\ StandsAt(s, used, val, pass)
  BY DEF SingleInv
<1> DEFINE t == <<>>
<1>1. /\ pass.op = "clear" /\ pass.cur = NULL /\ UNCHANGED <<used, val>> /\ pass' = Standing
      /\ link' = [link EXCEPT ![Header] = NULL] /\ singleDid' = SingleDid("clear", 0, 0, 0)
      /\ link \in Links /\ SingleTypeOK
  BY DEF ClearReturns, SingleInv, SingleTypeOK
<1>2. PICK j \in 1 .. Len(s) + 1 : pass.cur = Place(s, j) /\ used = {s[i] : i \in j .. Len(s)}
  BY <1>1 DEF StandsAt
<1>3. used = {}
  <2>1. s \in Seq(Cell) /\ Len(s) \in Nat /\ j \in Int
    BY <1>2 DEF IsChain
  <2>2. j \notin 0 .. Len(s)
    BY <1>1, <1>2, <2>1, CellsOnly
  <2>3. j .. Len(s) = {}
    BY <1>2, <2>1, <2>2
  <2>4. QED
    BY <1>2, <2>3
<1>4. t \in Seq(Cell) /\ Len(t) = 0 /\ CellsOf(t) = {} /\ NoCellTwice(t)
  BY DEF CellsOf, NoCellTwice
<1>5. IsChain(t, link') /\ link' \in Links
  <2>1. Place(t, 0) = Header /\ Place(t, 0 + 1) = NULL
    BY <1>4 DEF Place
  <2>2. link'[Header] = NULL /\ link' \in Links
    BY <1>1 DEF Links
  <2>3. Chained(t, link')
    BY <1>4, <2>1, <2>2 DEF Chained
  <2>4. QED
    BY <1>4, <2>2, <2>3 DEF IsChain
<1>6. SingleContents' = <<>>
  <2>1. SingleContents' = Values(t, val')
    BY <1>5, NewContents
  <2>2. Values(t, val') = <<>>
    BY <1>4 DEF Values
  <2>3. QED
    BY <2>1, <2>2
<1> HIDE DEF t
<1>7. StandsAt(t, used', val', pass') /\ pass' \in Calls
  BY <1>1, <1>3, <1>4, StandingIsIdle DEF Idle, StandsAt
<1>8. SingleInv'
  BY <1>1, <1>5, <1>7 DEF SingleInv, SingleTypeOK
<1>9. SingleItems!ClearItems
  BY <1>1, <1>6 DEF SingleItems!ClearItems, SingleItems!Did, SingleDid
<1>10. QED
  BY <1>8, <1>9 DEF SingleItems!ItemsNext

LEMMA InsertsFirst ==
  ASSUME SingleInv, NEW x \in SingleItem, list_insert(x)
  PROVE  SingleInv' /\ SingleItems!ItemsNext
<1> PICK s : IsChain(s, link) /\ StandsAt(s, used, val, pass)
  BY DEF SingleInv
<1>1. /\ pass = Standing /\ pass' = Standing /\ used = CellsOf(s) /\ x \in Int /\ SingleTypeOK
  BY SingleAssumption DEF list_insert, SingleInv, StandsAt, Standing
<1>2. /\ s \in Seq(Cell) /\ Len(s) \in Nat /\ Cardinality(Cell) \in Nat
      /\ Len(SingleContents) = Len(s) /\ 0 \in 0 .. Len(s)
      /\ CellsOf(s) = Cell => Len(SingleContents) = Cardinality(Cell)
  BY <1>1, ItemsOfChain DEF IsChain
<1>3. Place(s, 0) = Header /\ Place(s, 0 + 1) = link[Header] /\ 0 \in -1 .. Cardinality(Cell)
  <2>1. Place(s, 0) = Header
    BY DEF Place
  <2>2. QED
    BY <1>2, <2>1 DEF IsChain, Chained
<1>4. CASE used = Cell /\ singleDid' = SingleDid("insert", 0, x, -1)
           /\ UNCHANGED <<used, val, link>>
  <2>1. SingleContents' = SingleContents
    BY <1>4, SameContents
  <2>2. StandsAt(s, used', val', pass') /\ pass' \in Calls
    BY <1>1, <1>4, StandingIsIdle DEF Idle, StandsAt
  <2>3. SingleInv'
    BY <1>1, <1>4, <2>2 DEF SingleInv, SingleTypeOK
  <2>4. SingleItems!InsertItem(0, x)
    BY <1>1, <1>2, <1>4, <2>1 DEF SingleItems!InsertItem, SingleItems!Did, SingleDid
  <2>5. QED
    BY <1>3, <2>3, <2>4 DEF SingleItems!ItemsNext
<1>5. ASSUME NEW c \in Cell \ used, used' = used \cup {c}, val' = [val EXCEPT ![c] = x],
             link' = [link EXCEPT ![c] = link[Header], ![Header] = c],
             singleDid' = SingleDid("insert", 0, x, 0)
      PROVE  SingleInv' /\ SingleItems!ItemsNext
  <2>1. link' = LinkedIn(link, s, 0, c)
    BY <1>3, <1>5 DEF LinkedIn
  <2>0. val' = Holding(val, c, x)
    BY <1>5 DEF Holding
  <2>2. /\ SingleInv' /\ Len(SingleContents) < Cardinality(Cell)
        /\ SingleContents' = InsertAt(SingleContents, 0 + 1, x)
    BY <1>1, <1>2, <1>5, <2>0, <2>1, TakesIn
  <2>3. SingleItems!InsertItem(0, x)
    BY <1>2, <1>5, <2>2
    DEF SingleItems!InsertItem, SingleItems!Did, SingleDid, SingleItems!InsertAt, InsertAt
  <2>4. QED
    BY <1>3, <2>2, <2>3 DEF SingleItems!ItemsNext
<1>6. QED
  BY <1>4, <1>5 DEF list_insert

LEMMA DeletesFirst ==
  ASSUME SingleInv, list_delete
  PROVE  SingleInv' /\ SingleItems!ItemsNext
<1> PICK s : IsChain(s, link) /\ StandsAt(s, used, val, pass)
  BY DEF SingleInv
<1>1. /\ pass = Standing /\ pass' = Standing /\ val' = val /\ used = CellsOf(s) /\ SingleTypeOK
  BY DEF list_delete, SingleInv, StandsAt, Standing
<1>2. /\ s \in Seq(Cell) /\ Len(s) \in Nat /\ Cardinality(Cell) \in Nat /\ 0 \in 0 .. Len(s)
      /\ Len(SingleContents) = Len(s)
      /\ \A k \in 1 .. Len(s) : SingleContents[k] = val[s[k]]
  BY <1>1, ItemsOfChain DEF IsChain
<1>3. Place(s, 0) = Header /\ Place(s, 0 + 1) = link[Header] /\ 0 \in -1 .. Cardinality(Cell)
  <2>1. Place(s, 0) = Header
    BY DEF Place
  <2>2. QED
    BY <1>2, <2>1 DEF IsChain, Chained
<1>4. CASE link[Header] = NULL
  <2>1. Len(s) = 0
    <3>1. 1 \in 1 .. Len(s) => 1 \in 0 .. Len(s)
      BY <1>2
    <3>2. 1 \notin 1 .. Len(s)
      BY <1>2, <1>3, <1>4, <3>1, CellsOnly
    <3>3. QED
      BY <1>2, <3>2
  <2>2. UNCHANGED <<used, link, val>> /\ singleDid' = SingleDid("delete", 0, 0, -1)
    BY <1>1, <1>4 DEF list_delete
  <2>3. SingleContents' = SingleContents
    BY <2>2, SameContents
  <2>4. StandsAt(s, used', val', pass') /\ pass' \in Calls
    BY <1>1, <2>2, StandingIsIdle DEF Idle, StandsAt
  <2>5. SingleInv'
    BY <1>1, <2>2, <2>4 DEF SingleInv, SingleTypeOK
  <2>6. SingleItems!DeleteItem(0)
    BY <1>2, <2>1, <2>2, <2>3 DEF SingleItems!DeleteItem, SingleItems!Did, SingleDid
  <2>7. QED
    BY <1>3, <2>5, <2>6 DEF SingleItems!ItemsNext
<1>5. CASE link[Header] # NULL
  <2>1. /\ link' = [link EXCEPT ![Header] = link[link[Header]]]
        /\ used' = used \ {link[Header]}
        /\ singleDid' = SingleDid("delete", 0, val[link[Header]], 0)
    BY <1>5 DEF list_delete
  <2>2. 0 \in 0 .. Len(s) - 1 /\ 0 + 1 \in 1 .. Len(s)
    <3>1. 0 + 1 \in Int /\ (0 + 1 \in 0 .. Len(s) => 0 + 1 \in 1 .. Len(s) /\ 0 \in 0 .. Len(s) - 1)
      BY <1>2
    <3>2. QED
      BY <1>2, <1>3, <1>5, <3>1, CellsOnly
  <2>3. link[Header] = s[0 + 1]
    BY <1>2, <1>3, <2>2, CellsOnly
  <2>4. /\ link' = [link EXCEPT ![Place(s, 0)] = link[s[0 + 1]]] /\ used' = used \ {s[0 + 1]}
    BY <1>3, <2>1, <2>3
  <2>5. SingleInv' /\ SingleContents' = RemoveAt(SingleContents, 0 + 1)
    BY <1>1, <2>2, <2>4, LeavesOut
  <2>6. SingleContents[0 + 1] = val[link[Header]]
    BY <1>2, <2>2, <2>3
  <2>7. 0 \in 0 .. Len(SingleContents) - 1
    BY <1>2, <2>2
  <2>8. SingleItems!DeleteItem(0)
    BY <2>1, <2>5, <2>6, <2>7
    DEF SingleItems!DeleteItem, SingleItems!Did, SingleDid, SingleItems!RemoveAt, RemoveAt
  <2>9. QED
    BY <1>3, <2>5, <2>8 DEF SingleItems!ItemsNext
<1>6. QED
  BY <1>4, <1>5

LEMMA SingleStep ==
  SingleInv /\ [SingleNext]_singleVars
    => SingleInv' /\ [SingleItems!ItemsNext]_<<SingleContents, singleDid>>
<1> SUFFICES ASSUME SingleInv, [SingleNext]_singleVars
             PROVE  SingleInv' /\ [SingleItems!ItemsNext]_<<SingleContents, singleDid>>
  OBVIOUS
<1>1. ASSUME NEW old \in SingleItem, NEW x \in SingleItem, Inset_Linklist(old, x)
      PROVE  SingleInv' /\ UNCHANGED <<SingleContents, singleDid>>
  <2>1. /\ pass.op = "none" /\ used # Cell /\ Begin("insert", old, x)
        /\ UNCHANGED <<used, link, val, singleDid>> /\ old \in Int /\ x \in Int
    BY <1>1, SingleAssumption DEF Inset_Linklist, Standing
  <2>2. SingleInv'
    BY <2>1, BeginsAtFirst
  <2>3. QED
    BY <2>1, <2>2, SameContents
<1>2. ASSUME NEW x \in SingleItem, Remove_Linklist(x)
      PROVE  SingleInv' /\ UNCHANGED <<SingleContents, singleDid>>
  <2>1. /\ pass.op = "none" /\ Begin("remove", x, x)
        /\ UNCHANGED <<used, link, val, singleDid>> /\ x \in Int
    BY <1>2, SingleAssumption DEF Remove_Linklist, Standing
  <2>2. SingleInv'
    BY <2>1, BeginsAtFirst
  <2>3. QED
    BY <2>1, <2>2, SameContents
<1>3. ASSUME NEW x \in SingleItem, list_insert(x)
      PROVE  SingleInv' /\ SingleItems!ItemsNext
  BY <1>3, InsertsFirst
<1>4. CASE StepOn
  <2>1. UNCHANGED <<link, val, singleDid>>
    BY <1>4 DEF StepOn
  <2>2. QED
    BY <1>4, <2>1, Steps, SameContents
<1>5. CASE LinkNew
  BY <1>5, LinksNew
<1>6. CASE Unlink
  BY <1>6, Unlinks
<1>7. CASE findnum_Linklist \/ CountNode
  BY <1>7, Counts
<1>8. CASE Clear_Linklist
  <2>1. /\ pass.op = "none" /\ Begin("clear", 0, 0)
        /\ UNCHANGED <<used, link, val, singleDid>>
    BY <1>8 DEF Clear_Linklist, Standing
  <2>2. SingleInv'
    BY <2>1, BeginsAtFirst
  <2>3. QED
    BY <2>1, <2>2, SameContents
<1>9. CASE FreeNode
  <2>1. UNCHANGED <<link, val, singleDid>>
    BY <1>9 DEF FreeNode
  <2>2. QED
    BY <1>9, <2>1, Frees, SameContents
<1>10. CASE ClearReturns
  BY <1>10, Clears
<1>11. CASE list_delete
  BY <1>11, DeletesFirst
<1>12. CASE UNCHANGED singleVars
  <2>1. UNCHANGED <<used, link, val, pass, singleDid>>
    BY <1>12 DEF singleVars
  <2>2. QED
    BY <2>1, SameContents DEF SingleInv, SingleTypeOK
<1>13. QED
  BY <1>1, <1>2, <1>3, <1>4, <1>5, <1>6, <1>7, <1>8, <1>9, <1>10, <1>11, <1>12 DEF SingleNext

(* For every set of cells and items the single lists, with a header node    *)
(* and without, are the sequence of items: a walk stops at the first node   *)
(* that holds the value, or at the end, with the node in front of it, and   *)
(* no insertion, removal or clearing loses, doubles or reorders a node.     *)
THEOREM SingleRefinesItems == SingleSpec => SingleImplementsItems
BY SingleInvInit, SingleStep, PTL
DEF SingleSpec, SingleImplementsItems, SingleItems!ItemsSpec

(* For every set of cells the chain of next pointers leads through cells    *)
(* that differ to NULL, the cells allocated are those of the chain unless   *)
(* it is being cleared, and a walk stands where all before holds something  *)
(* else: SingleInv, on which the refinement rests.                          *)
THEOREM SingleNodesInPlace == SingleSpec => []SingleInv
BY SingleInvInit, SingleStep, PTL DEF SingleSpec

(* The sequential list, the array stack and the single lists implement one  *)
(* and the same ItemList, whatever their size.                              *)
THEOREM ListsRefineItems == ArraySpec /\ SingleSpec => ListsImplementItems
BY ArrayRefinesItems, SingleRefinesItems DEF ListsImplementItems
=============================================================================
