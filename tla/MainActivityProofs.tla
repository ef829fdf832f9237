-------------------------- MODULE MainActivityProofs --------------------------
(***************************************************************************)
(* MainActivity.java.  VideoReceiver, for any number of receive threads:     *)
(* port 10000 is never left bound without a thread about to close it, and    *)
(* Thread_RunningFlag never outlives the threads.  FrameAssembly, for any    *)
(* pictures, losses and reorderings: what is posted came in one round, and   *)
(* a round that came whole is posted.                                        *)
(***************************************************************************)
EXTENDS VideoReceiver, FrameAssembly, FiniteSetTheorems, TLAPS

(* A thread between its bind and its assignment still has its socket (only  *)
(* a socket the field names can be closed), and the field names no thread   *)
(* that has not published its socket.                                       *)
Publication ==
  \A t \in Thread : /\ pc[t] = "assign" => t \in open
                    /\ UDPReceiveSocket = t => pc[t] \notin {"unborn", "bind", "assign"}

Inv == TypeOK /\ SocketHasOwner /\ Publication /\ FlagHasThread

LEMMA InvInit == Init => Inv
BY NullAssumption DEF Init, Inv, TypeOK, SocketHasOwner, Publication, FlagHasThread, Stages

(* Moving one thread on changes that thread's stage and no other.           *)
LEMMA GotoMoves ==
  ASSUME TypeOK, NEW t \in Thread, NEW stage \in Stages, Goto(t, stage)
  PROVE  /\ pc' \in [Thread -> Stages]
         /\ pc'[t] = stage
         /\ \A u \in Thread \ {t} : pc'[u] = pc[u]
BY DEF Goto, TypeOK

(* A thread that moves to a stage other than "dead" is still live.          *)
LEMMA GotoLive ==
  ASSUME TypeOK, NEW t \in Thread, NEW stage \in Stages \ Ended, Goto(t, stage)
  PROVE  Live' # {}
BY GotoMoves DEF Live

LEMMA InvStep == Inv /\ [Next]_vars => Inv'
<1> SUFFICES ASSUME Inv, [Next]_vars
             PROVE  Inv'
  OBVIOUS
<1>i. TypeOK /\ SocketHasOwner /\ Publication /\ FlagHasThread
  BY DEF Inv
<1> USE NullAssumption
<1>1. CASE ClickOff
  BY <1>1, <1>i
  DEF ClickOff, Inv, TypeOK, SocketHasOwner, Publication, FlagHasThread, Live
<1>2. CASE ForeignPort
  BY <1>2, <1>i
  DEF ForeignPort, shared, Inv, TypeOK, SocketHasOwner, Publication, FlagHasThread, Live
<1>3. ASSUME NEW t \in Thread, ClickOn(t)
      PROVE  Inv'
  <2>1. pc[t] = "unborn" /\ Goto(t, "bind") /\ UNCHANGED <<UDPReceiveSocket, open, foreign, on>>
    BY <1>3 DEF ClickOn
  <2>2. /\ pc' \in [Thread -> Stages] /\ pc'[t] = "bind"
        /\ \A u \in Thread \ {t} : pc'[u] = pc[u]
    BY <1>i, <2>1, GotoMoves DEF Stages
  <2>3. Live' # {}
    BY <1>i, <2>1, GotoLive DEF Stages, Ended
  <2>4. TypeOK'
    BY <1>3, <1>i, <2>2 DEF ClickOn, TypeOK
  <2>5. SocketHasOwner' /\ Publication'
    BY <1>i, <2>1, <2>2 DEF SocketHasOwner, Publication, TypeOK
  <2>6. QED
    BY <2>3, <2>4, <2>5 DEF Inv, FlagHasThread
<1>4. ASSUME NEW t \in Thread, Bind(t)
      PROVE  Inv'
  <2>1. pc[t] = "bind" /\ UNCHANGED <<shared, foreign, on>>
    BY <1>4 DEF Bind
  <2>2. CASE PortFree
    <3>1. Goto(t, "assign") /\ open = {} /\ open' = {t} /\ ~foreign
      BY <1>4, <2>2 DEF Bind, PortFree
    <3>2. /\ pc' \in [Thread -> Stages] /\ pc'[t] = "assign"
          /\ \A u \in Thread \ {t} : pc'[u] = pc[u]
      BY <1>i, <3>1, GotoMoves DEF Stages
    <3>3. Live' # {}
      BY <1>i, <3>1, GotoLive DEF Stages, Ended
    <3>4. TypeOK'
      BY <1>i, <2>1, <3>1, <3>2 DEF TypeOK, shared
    <3>5. SocketHasOwner' /\ Publication'
      BY <1>i, <2>1, <3>1, <3>2 DEF SocketHasOwner, Publication, shared
    <3>6. QED
      BY <3>3, <3>4, <3>5 DEF Inv, FlagHasThread
  <2>3. CASE ~PortFree
    <3>1. Goto(t, "disconnect") /\ UNCHANGED open
      BY <1>4, <2>3 DEF Bind
    <3>2. /\ pc' \in [Thread -> Stages] /\ pc'[t] = "disconnect"
          /\ \A u \in Thread \ {t} : pc'[u] = pc[u]
      BY <1>i, <3>1, GotoMoves DEF Stages
    <3>3. Live' # {}
      BY <1>i, <3>1, GotoLive DEF Stages, Ended
    <3>4. TypeOK'
      BY <1>i, <2>1, <3>1, <3>2 DEF TypeOK, shared
    <3>5. SocketHasOwner' /\ Publication'
      BY <1>i, <2>1, <3>1, <3>2 DEF SocketHasOwner, Publication, shared, TypeOK
    <3>6. QED
      BY <3>3, <3>4, <3>5 DEF Inv, FlagHasThread
  <2>4. QED
    BY <2>2, <2>3
<1>5. ASSUME NEW t \in Thread, Assign(t)
      PROVE  Inv'
  <2>1. /\ pc[t] = "assign" /\ Goto(t, "loop") /\ UDPReceiveSocket' = t
        /\ UNCHANGED <<BT_OnOffFlag, Thread_RunningFlag, open, foreign, on>>
    BY <1>5 DEF Assign
  <2>2. /\ pc' \in [Thread -> Stages] /\ pc'[t] = "loop"
        /\ \A u \in Thread \ {t} : pc'[u] = pc[u]
    BY <1>i, <2>1, GotoMoves DEF Stages
  <2>3. open = {t}
    BY <1>i, <2>1 DEF Publication, TypeOK
  <2>4. Live' # {}
    BY <1>i, <2>1, GotoLive DEF Stages, Ended
  <2>5. TypeOK'
    BY <1>i, <2>1, <2>2 DEF TypeOK
  <2>6. SocketHasOwner' /\ Publication'
    BY <1>i, <2>1, <2>2, <2>3 DEF SocketHasOwner, Publication
  <2>7. QED
    BY <2>4, <2>5, <2>6 DEF Inv, FlagHasThread
<1>6. ASSUME NEW t \in Thread, NEW stage \in {"call", "recv", "loop", "disconnect"},
             LoopTest(t) \/ CallReceive(t) \/ Receive(t), Goto(t, stage)
      PROVE  Inv'
  <2>1. /\ pc[t] \in {"loop", "call", "recv"} /\ UNCHANGED <<shared, open, foreign>>
        /\ on' \in [Thread -> Thread \cup {Null}]
    BY <1>6, <1>i DEF LoopTest, CallReceive, Receive, TypeOK
  <2>2. /\ pc' \in [Thread -> Stages] /\ pc'[t] = stage
        /\ \A u \in Thread \ {t} : pc'[u] = pc[u]
    BY <1>i, <1>6, GotoMoves DEF Stages
  <2>3. Live' # {}
    BY <1>i, <1>6, GotoLive DEF Stages, Ended
  <2>4. TypeOK'
    BY <1>i, <2>1, <2>2 DEF TypeOK, shared
  <2>5. SocketHasOwner' /\ Publication'
    BY <1>i, <2>1, <2>2 DEF SocketHasOwner, Publication, shared, TypeOK
  <2>6. QED
    BY <2>3, <2>4, <2>5 DEF Inv, FlagHasThread
<1>7. ASSUME NEW t \in Thread, Disconnect(t)
      PROVE  Inv'
  <2>1. pc[t] = "disconnect" /\ UNCHANGED <<shared, open, foreign, on>>
    BY <1>7 DEF Disconnect
  <2>2. CASE UDPReceiveSocket = Null /\ Goto(t, "dead")
    <3>1. /\ pc' \in [Thread -> Stages] /\ pc'[t] = "dead"
          /\ \A u \in Thread \ {t} : pc'[u] = pc[u]
      BY <1>i, <2>2, GotoMoves DEF Stages
    <3>2. TypeOK'
      BY <1>i, <2>1, <3>1 DEF TypeOK, shared
    <3>3. SocketHasOwner' /\ Publication'
      BY <1>i, <2>1, <2>2, <3>1 DEF SocketHasOwner, Publication, shared, TypeOK
    <3>4. FlagHasThread'
      BY <2>1, <2>2 DEF FlagHasThread, shared
    <3>5. QED
      BY <3>2, <3>3, <3>4 DEF Inv
  <2>3. CASE Goto(t, "close")
    <3>1. /\ pc' \in [Thread -> Stages] /\ pc'[t] = "close"
          /\ \A u \in Thread \ {t} : pc'[u] = pc[u]
      BY <1>i, <2>3, GotoMoves DEF Stages
    <3>2. Live' # {}
      BY <1>i, <2>3, GotoLive DEF Stages, Ended
    <3>3. TypeOK'
      BY <1>i, <2>1, <3>1 DEF TypeOK, shared
    <3>4. SocketHasOwner' /\ Publication'
      BY <1>i, <2>1, <3>1 DEF SocketHasOwner, Publication, shared, TypeOK
    <3>5. QED
      BY <3>2, <3>3, <3>4 DEF Inv, FlagHasThread
  <2>4. QED
    BY <1>7, <2>2, <2>3 DEF Disconnect
<1>8. ASSUME NEW t \in Thread, Close(t)
      PROVE  Inv'
  <2>1. /\ pc[t] = "close" /\ Goto(t, "clear") /\ open' = open \ {UDPReceiveSocket}
        /\ UNCHANGED <<shared, foreign, on>>
    BY <1>8 DEF Close, ClosedByFinally
  <2>2. /\ pc' \in [Thread -> Stages] /\ pc'[t] = "clear"
        /\ \A u \in Thread \ {t} : pc'[u] = pc[u]
    BY <1>i, <2>1, GotoMoves DEF Stages
  <2>3. Live' # {}
    BY <1>i, <2>1, GotoLive DEF Stages, Ended
  <2>4. open' = open \/ open' = {}
    BY <1>i, <2>1 DEF TypeOK
  <2>5. TypeOK'
    BY <1>i, <2>1, <2>2, <2>4 DEF TypeOK, shared
  <2>6. SocketHasOwner' /\ Publication'
    BY <1>i, <2>1, <2>2 DEF SocketHasOwner, Publication, shared, TypeOK
  <2>7. QED
    BY <2>3, <2>5, <2>6 DEF Inv, FlagHasThread
<1>9. ASSUME NEW t \in Thread, Clear(t)
      PROVE  Inv'
  <2>1. /\ pc[t] = "clear" /\ Goto(t, "dead") /\ Thread_RunningFlag' = FALSE
        /\ UNCHANGED <<BT_OnOffFlag, UDPReceiveSocket, open, foreign, on>>
    BY <1>9 DEF Clear
  <2>2. /\ pc' \in [Thread -> Stages] /\ pc'[t] = "dead"
        /\ \A u \in Thread \ {t} : pc'[u] = pc[u]
    BY <1>i, <2>1, GotoMoves DEF Stages
  <2>3. TypeOK'
    BY <1>i, <2>1, <2>2 DEF TypeOK
  <2>4. SocketHasOwner' /\ Publication'
    BY <1>i, <2>1, <2>2 DEF SocketHasOwner, Publication, TypeOK
  <2>5. QED
    BY <2>1, <2>3, <2>4 DEF Inv, FlagHasThread
<1>10. CASE UNCHANGED vars
  BY <1>10, <1>i
  DEF vars, shared, Inv, TypeOK, SocketHasOwner, Publication, FlagHasThread, Live
<1>11. ASSUME NEW t \in Thread, LoopTest(t) \/ CallReceive(t) \/ Receive(t)
       PROVE  Inv'
  <2>1. \E stage \in {"call", "recv", "loop", "disconnect"} : Goto(t, stage)
    BY <1>11 DEF LoopTest, CallReceive, Receive
  <2>2. QED
    BY <1>6, <1>11, <2>1
<1>12. QED
  BY <1>1, <1>2, <1>3, <1>4, <1>5, <1>7, <1>8, <1>9, <1>10, <1>11 DEF Next, Step

(* Port 10000 is bound at most once, and every thread is at a line of run().*)
THEOREM ReceiverTypeOK == Spec => []TypeOK
<1>1. Inv => TypeOK
  BY DEF Inv
<1>2. QED
  BY InvInit, InvStep, <1>1, PTL DEF Spec

(* However many threads the clicks start and however they interleave, a     *)
(* bound socket has its creator alive in front of a close().                *)
THEOREM SocketAlwaysOwned == Spec => []SocketHasOwner
<1>1. Inv => SocketHasOwner
  BY DEF Inv
<1>2. QED
  BY InvInit, InvStep, <1>1, PTL DEF Spec

(* Thread_RunningFlag never stays up when the last thread has ended.        *)
THEOREM FlagNeverOrphaned == Spec => []FlagHasThread
<1>1. Inv => FlagHasThread
  BY DEF Inv
<1>2. QED
  BY InvInit, InvStep, <1>1, PTL DEF Spec
-----------------------------------------------------------------------------
(* FrameAssembly.                                                           *)
ChunkKinds == {"full", "tiny", "okay"}

\* The packets of the first n pictures.
Packets(n) == [frame : 1 .. n, part : Int, kind : {"ok", "size"} \cup ChunkKinds, size : Nat]
Buffers == [0 .. Capacity - 1 -> Nat \X Int \X Nat]

StreamTypeOK ==
  /\ video \in Seq(Seq(ChunkKinds))
  /\ todo \in Seq(Packets(Len(video))) /\ net \in Seq(Packets(Len(video)))
  /\ round \in Seq(Packets(Len(video)))

(* The write position stays inside the buffer: arraycopy never overruns it. *)
LocalsTypeOK ==
  /\ dataGetFlag \in BOOLEAN /\ picCopyIndex \in 0 .. Capacity /\ buffSize \in Nat
  /\ picData_buf \in Buffers /\ posted \in Seq(Buffers)

(* What is in the buffer came in this round; between an "ok" and the size,  *)
(* while the round is new and the buffer may be old, nothing is posted.     *)
BufInv ==
  /\ dataGetFlag /\ picCopyIndex >= buffSize => picData_buf = Cleared
  /\ ~dataGetFlag => Contained(picData_buf, round)

OkInv == Len(round) = 1 /\ StartsWithOk(round[1]) => dataGetFlag

\* This round is the beginning of picture f up to its chunk n.
Begun(f, n) ==
  /\ Len(round) = n + 2
  /\ round[1] = Packet(f, 0, "ok") /\ round[2] = SizePacket(f, Units(video[f]))
  /\ \A i \in 1 .. n : round[i + 2] = Packet(f, i, "full")

Assembled(f, n) ==
  [i \in 0 .. Capacity - 1 |-> IF i < 2 * n THEN Unit(f, i \div 2 + 1, i % 2) ELSE Zero]

RoundInv ==
  \A f \in 1 .. Len(video) : \A n \in 0 .. Len(video[f]) :
    Regular(f) /\ Begun(f, n) =>
      /\ ~dataGetFlag /\ picCopyIndex = 2 * n /\ buffSize = Units(video[f])
      /\ picData_buf = Assembled(f, n)

FrameTypeOK == StreamTypeOK /\ LocalsTypeOK
FrameInv == FrameTypeOK /\ BufInv /\ OkInv /\ RoundInv
-----------------------------------------------------------------------------
LEMMA UnitsType ==
  ASSUME NEW picture \in Seq(ChunkKinds)
  PROVE  /\ Units(picture) \in Nat
         /\ (\A i \in DOMAIN picture : picture[i] = "full") => Units(picture) = 2 * Len(picture)
<1> DEFINE tiny == {i \in DOMAIN picture : picture[i] = "tiny"}
<1>1. Len(picture) \in Nat /\ DOMAIN picture = 1 .. Len(picture)
  OBVIOUS
<1>2. IsFiniteSet(1 .. Len(picture)) /\ Cardinality(1 .. Len(picture)) = Len(picture)
  <2>1. /\ IsFiniteSet(1 .. Len(picture))
        /\ Cardinality(1 .. Len(picture)) = IF 1 > Len(picture) THEN 0 ELSE Len(picture) - 1 + 1
    BY <1>1, FS_Interval
  <2>2. QED
    BY <1>1, <2>1
<1>3. IsFiniteSet(tiny) /\ Cardinality(tiny) <= Len(picture)
  BY <1>1, <1>2, FS_Subset
<1>4. Cardinality(tiny) \in Nat
  BY <1>3, FS_CardinalityType
<1>5. ASSUME \A i \in DOMAIN picture : picture[i] = "full" PROVE Cardinality(tiny) = 0
  <2>1. tiny = {}
    BY <1>5
  <2>2. QED
    BY <2>1, FS_EmptySet
<1> HIDE DEF tiny
<1>6. 2 * Len(picture) - Cardinality(tiny) \in Nat
  BY <1>1, <1>3, <1>4
<1>7. Units(picture) = 2 * Len(picture) - Cardinality(tiny)
  BY DEF Units, tiny
<1>8. QED
  BY <1>1, <1>4, <1>5, <1>6, <1>7

LEMMA PacketTypes ==
  ASSUME NEW n \in Nat, NEW f \in 1 .. n, NEW picture \in Seq(ChunkKinds)
  PROVE  /\ Packet(f, 0, "ok") \in Packets(n)
         /\ SizePacket(f, Units(picture)) \in Packets(n)
         /\ Chunks(f, picture) \in Seq(Packets(n))
<1>1. Units(picture) \in Nat
  BY UnitsType
<1>2. Packet(f, 0, "ok") \in Packets(n) /\ SizePacket(f, Units(picture)) \in Packets(n)
  BY <1>1 DEF Packet, SizePacket, Packets
<1>3. Len(picture) \in Nat /\ DOMAIN picture = 1 .. Len(picture)
  OBVIOUS
<1>4. \A i \in 1 .. Len(picture) : Packet(f, i, picture[i]) \in Packets(n)
  BY DEF Packet, Packets, ChunkKinds
<1>5. Chunks(f, picture) \in [1 .. Len(picture) -> Packets(n)]
  BY <1>3, <1>4 DEF Chunks
<1>6. QED
  BY <1>2, <1>3, <1>5

LEMMA MorePackets ==
  ASSUME NEW n \in Nat, NEW s \in Seq(Packets(n))
  PROVE  s \in Seq(Packets(n + 1))
<1>1. Packets(n) \subseteq Packets(n + 1)
  BY DEF Packets
<1>2. QED
  BY <1>1

LEMMA CapacityNat == Capacity \in Nat
BY StreamAssumption

LEMMA ClearedType == Cleared \in Buffers
<1>1. Zero \in Nat \X Int \X Nat
  BY DEF Zero, Unit
<1>2. QED
  BY <1>1 DEF Cleared, Buffers

LEMMA ClearedContained == ASSUME NEW s PROVE Contained(Cleared, s)
BY DEF Cleared, Contained

LEMMA FrameInitInv == FrameInit => FrameInv
<1> SUFFICES ASSUME FrameInit PROVE FrameInv
  OBVIOUS
<1>1. /\ video = <<>> /\ todo = <<>> /\ net = <<>> /\ round = <<>> /\ posted = <<>>
      /\ dataGetFlag = FALSE /\ picCopyIndex = 0 /\ buffSize = 0 /\ picData_buf = Cleared
  BY DEF FrameInit
<1>2. FrameTypeOK
  <2>1. StreamTypeOK
    BY <1>1 DEF StreamTypeOK
  <2>2. LocalsTypeOK
    <3>1. <<>> \in Seq(Buffers) /\ 0 \in 0 .. Capacity
      BY CapacityNat
    <3>2. QED
      BY <1>1, <3>1, ClearedType DEF LocalsTypeOK
  <2>3. QED
    BY <2>1, <2>2 DEF FrameTypeOK
<1>3. BufInv /\ OkInv
  BY <1>1, ClearedContained DEF BufInv, OkInv
<1>3a. RoundInv
  BY <1>1 DEF RoundInv
<1>4. QED
  BY <1>2, <1>3, <1>3a DEF FrameInv

-----------------------------------------------------------------------------
LEMMA TypeStep == FrameTypeOK /\ [FrameNext]_frameVars => FrameTypeOK'
<1> SUFFICES ASSUME FrameTypeOK, [FrameNext]_frameVars PROVE FrameTypeOK'
  OBVIOUS
<1>0. StreamTypeOK /\ LocalsTypeOK /\ Len(video) \in Nat
  BY DEF FrameTypeOK, StreamTypeOK
<1>1. CASE TakePicture
  <2>1. UNCHANGED <<net, faults, receiver>>
    BY <1>1 DEF TakePicture
  <2>2. ASSUME NEW picture \in Seq(ChunkKinds), video' = Append(video, picture),
               todo' \in Seq(Packets(Len(video) + 1))
        PROVE  FrameTypeOK'
    <3>1. video' \in Seq(Seq(ChunkKinds)) /\ Len(video') = Len(video) + 1
      BY <1>0, <2>2 DEF StreamTypeOK
    <3>2. net \in Seq(Packets(Len(video) + 1)) /\ round \in Seq(Packets(Len(video) + 1))
      BY <1>0, MorePackets DEF StreamTypeOK
    <3>3. QED
      BY <1>0, <2>1, <2>2, <3>1, <3>2 DEF FrameTypeOK, StreamTypeOK, LocalsTypeOK, receiver, locals
  <2>3. ASSUME NEW picture \in FrameKinds, video' = Append(video, picture),
               todo' = <<Packet(Len(video'), 0, "ok"), SizePacket(Len(video'), Units(picture))>>
                       \o Chunks(Len(video'), picture)
        PROVE  FrameTypeOK'
    <3>1. picture \in Seq(ChunkKinds)
      BY StreamAssumption DEF ChunkKinds
    <3>2. Len(video') = Len(video) + 1 /\ Len(video') \in Nat /\ Len(video') \in 1 .. Len(video')
      BY <1>0, <2>3, <3>1 DEF StreamTypeOK
    <3>3. /\ Packet(Len(video'), 0, "ok") \in Packets(Len(video'))
          /\ SizePacket(Len(video'), Units(picture)) \in Packets(Len(video'))
          /\ Chunks(Len(video'), picture) \in Seq(Packets(Len(video')))
      BY <3>1, <3>2, PacketTypes
    <3>4. todo' \in Seq(Packets(Len(video')))
      BY <2>3, <3>3
    <3>5. QED
      BY <2>2, <2>3, <3>1, <3>2, <3>4
  <2>4. ASSUME video' = Append(video, <<>>), todo' = <<Packet(Len(video'), 0, "ok")>>
        PROVE  FrameTypeOK'
    <3>1. <<>> \in Seq(ChunkKinds)
      OBVIOUS
    <3>2. Len(video') = Len(video) + 1 /\ Len(video') \in Nat /\ Len(video') \in 1 .. Len(video')
      BY <1>0, <2>4, <3>1 DEF StreamTypeOK
    <3>3. Packet(Len(video'), 0, "ok") \in Packets(Len(video'))
      BY <3>1, <3>2, PacketTypes
    <3>4. todo' \in Seq(Packets(Len(video')))
      BY <2>4, <3>3
    <3>5. QED
      BY <2>2, <2>4, <3>1, <3>2, <3>4
  <2>5. QED
    BY <1>1, <2>3, <2>4 DEF TakePicture
<1>2. CASE Send
  BY <1>0, <1>2 DEF Send, FrameTypeOK, StreamTypeOK, LocalsTypeOK, receiver, locals
<1>3. CASE Fault
  <2>1. net # <<>> /\ UNCHANGED <<video, todo, receiver>>
    BY <1>3 DEF Fault
  <2>2. net' \in Seq(Packets(Len(video)))
    <3>1. Head(net) \in Packets(Len(video)) /\ Tail(net) \in Seq(Packets(Len(video)))
      BY <1>0, <2>1 DEF StreamTypeOK
    <3>2. CASE Len(net) > 1 /\ net' = <<net[2], net[1]>> \o SubSeq(net, 3, Len(net))
      <4>1. Len(net) \in Nat /\ 1 \in 1 .. Len(net) /\ 2 \in 1 .. Len(net)
        BY <1>0, <3>2 DEF StreamTypeOK
      <4>2. net[1] \in Packets(Len(video)) /\ net[2] \in Packets(Len(video))
        BY <1>0, <4>1 DEF StreamTypeOK
      <4>3. SubSeq(net, 3, Len(net)) \in Seq(Packets(Len(video)))
        BY <1>0, <4>1 DEF StreamTypeOK
      <4>4. QED
        BY <3>2, <4>2, <4>3
    <3>3. CASE net' = <<Head(net)>> \o net
      <4>1. <<Head(net)>> \in Seq(Packets(Len(video)))
        BY <3>1
      <4>2. QED
        BY <1>0, <3>3, <4>1 DEF StreamTypeOK
    <3>4. QED
      BY <1>3, <3>1, <3>2, <3>3 DEF Fault
  <2>3. QED
    BY <1>0, <2>1, <2>2 DEF FrameTypeOK, StreamTypeOK, LocalsTypeOK, receiver, locals
<1>4. CASE ReceivePacket
  <2>1. net # <<>> /\ net' = Tail(net) /\ UNCHANGED <<video, todo, faults>>
    BY <1>4 DEF ReceivePacket
  <2>2. PICK packet \in Packets(Len(video)) :
          /\ TooShort(packet) \/ Ok(packet) \/ Size(packet) \/ Chunk(packet)
          /\ round' = IF StartsWithOk(packet) THEN <<packet>> ELSE Append(round, packet)
    <3>1. Head(net) \in Packets(Len(video))
      BY <1>0, <2>1 DEF StreamTypeOK
    <3>2. QED
      BY <1>4, <3>1 DEF ReceivePacket
  <2>3. net' \in Seq(Packets(Len(video'))) /\ round' \in Seq(Packets(Len(video')))
    BY <1>0, <2>1, <2>2 DEF StreamTypeOK
  <2>4. Capacity \in Nat /\ Length(packet) \in {1, 2} /\ packet.size \in Nat
    BY CapacityNat DEF Length, Packets
  <2>5. /\ dataGetFlag' \in BOOLEAN /\ picCopyIndex' \in 0 .. Capacity /\ buffSize' \in Nat
        /\ picData_buf' \in Buffers /\ posted' \in Seq(Buffers)
    <3>1. CASE TooShort(packet)
      BY <1>0, <3>1, ClearedType DEF TooShort, LocalsTypeOK
    <3>2. CASE Ok(packet)
      BY <1>0, <2>4, <3>2, ClearedType DEF Ok, FlagAfterOk, StartOver, LocalsTypeOK
    <3>3. CASE Size(packet)
      <4>1. /\ dataGetFlag' = FALSE /\ picCopyIndex' = 0 /\ picData_buf' = Cleared
            /\ buffSize' \in {packet.size, 0} /\ posted' = posted
        BY <3>3 DEF Size, BufferForNewPicture, StartOver
      <4>2. buffSize' \in Nat /\ 0 \in 0 .. Capacity
        BY <2>4, <4>1
      <4>3. QED
        BY <1>0, <4>1, <4>2, ClearedType DEF LocalsTypeOK
    <3>4. CASE Chunk(packet)
      <4>1. CASE ~Fits(packet)
        BY <1>0, <2>4, <3>4, <4>1, ClearedType DEF Chunk, StartOver, LocalsTypeOK
      <4>2. CASE Fits(packet)
        <5>1. picCopyIndex' = picCopyIndex + Length(packet) /\ picCopyIndex' \in 0 .. Capacity
          BY <1>0, <2>4, <3>4, <4>2 DEF Chunk, Fits, LocalsTypeOK
        <5>2. /\ picData_buf' = [i \in 0 .. Capacity - 1 |->
                    IF i \in picCopyIndex .. picCopyIndex + Length(packet) - 1
                    THEN Unit(packet.frame, packet.part, i - picCopyIndex)
                    ELSE picData_buf[i]]
              /\ UNCHANGED <<dataGetFlag, posted, buffSize>>
          BY <1>0, <3>4, <4>2 DEF Chunk, LocalsTypeOK, Buffers
        <5>3. ASSUME NEW i \in 0 .. Capacity - 1,
                     i \in picCopyIndex .. picCopyIndex + Length(packet) - 1
              PROVE  Unit(packet.frame, packet.part, i - picCopyIndex) \in Nat \X Int \X Nat
          <6>1. i - picCopyIndex \in Nat
            BY <1>0, <2>4, <5>3 DEF LocalsTypeOK
          <6>2. packet.frame \in Nat /\ packet.part \in Int
            BY <1>0 DEF Packets
          <6>3. QED
            BY <6>1, <6>2 DEF Unit
        <5>4. \A i \in 0 .. Capacity - 1 : picData_buf[i] \in Nat \X Int \X Nat
          BY <1>0 DEF LocalsTypeOK, Buffers
        <5>5. picData_buf' \in Buffers
          BY <5>2, <5>3, <5>4 DEF Buffers
        <5>6. QED
          BY <1>0, <5>1, <5>2, <5>5 DEF LocalsTypeOK
      <4>3. QED
        BY <4>1, <4>2
    <3>5. QED
      BY <2>2, <3>1, <3>2, <3>3, <3>4
  <2>6. QED
    BY <1>0, <2>1, <2>3, <2>5 DEF FrameTypeOK, StreamTypeOK, LocalsTypeOK
<1>5. CASE UNCHANGED frameVars
  BY <1>0, <1>5 DEF frameVars, receiver, locals, FrameTypeOK, StreamTypeOK, LocalsTypeOK
<1>6. QED
  BY <1>1, <1>2, <1>3, <1>4, <1>5 DEF FrameNext
-----------------------------------------------------------------------------

\* What a packet does to the assembly.
Handled(packet) ==
  /\ TooShort(packet) \/ Ok(packet) \/ Size(packet) \/ Chunk(packet)
  /\ round' = IF StartsWithOk(packet) THEN <<packet>> ELSE Append(round, packet)

LEMMA HeadHandled ==
  ASSUME FrameTypeOK, ReceivePacket
  PROVE  \E packet \in Packets(Len(video)) : Handled(packet)
<1>1. net # <<>> /\ net \in Seq(Packets(Len(video)))
  BY DEF ReceivePacket, FrameTypeOK, StreamTypeOK
<1>2. Head(net) \in Packets(Len(video))
  BY <1>1
<1>3. Handled(Head(net))
  BY DEF ReceivePacket, Handled
<1>4. QED
  BY <1>2, <1>3

LEMMA FullPacket ==
  ASSUME NEW n, NEW packet \in Packets(n)
  PROVE  /\ Length(packet) \in {1, 2} /\ packet.size \in Nat
         /\ StartsWithOk(packet) => Length(packet) = 2
BY DEF Length, StartsWithOk, Packets

\* What an appended packet does to the round.
LEMMA RoundGrows ==
  ASSUME FrameTypeOK, NEW packet \in Packets(Len(video)), round' = Append(round, packet)
  PROVE  /\ Len(round) \in Nat /\ Len(round') = Len(round) + 1
         /\ round'[Len(round) + 1] = packet
         /\ \A i \in 1 .. Len(round) : round'[i] = round[i]
         /\ DOMAIN round = 1 .. Len(round) /\ DOMAIN round' = 1 .. Len(round) + 1
<1>1. round \in Seq(Packets(Len(video)))
  BY DEF FrameTypeOK, StreamTypeOK
<1>2. QED
  BY <1>1

LEMMA ContainedGrows ==
  ASSUME FrameTypeOK, NEW packet \in Packets(Len(video)), round' = Append(round, packet),
         NEW picture, Contained(picture, round)
  PROVE  Contained(picture, round')
<1> SUFFICES ASSUME NEW i \in DOMAIN picture, picture[i] # Zero
             PROVE  \E k \in DOMAIN round' : /\ round'[k].frame = picture[i][1]
                                             /\ round'[k].part = picture[i][2]
  BY DEF Contained
<1>1. PICK k \in DOMAIN round : round[k].frame = picture[i][1] /\ round[k].part = picture[i][2]
  BY DEF Contained
<1>2. k \in DOMAIN round' /\ round'[k] = round[k]
  BY RoundGrows
<1>3. QED
  BY <1>1, <1>2

LEMMA BufStep ==
  ASSUME FrameTypeOK, BufInv, NEW packet \in Packets(Len(video)), Handled(packet)
  PROVE  BufInv'
<1>0. /\ dataGetFlag \in BOOLEAN /\ picCopyIndex \in Nat /\ buffSize \in Nat
      /\ picData_buf \in Buffers /\ Length(packet) \in {1, 2}
  BY CapacityNat, FullPacket DEF FrameTypeOK, LocalsTypeOK
<1>1. CASE TooShort(packet)
  BY <1>1, ClearedContained DEF TooShort, BufInv
<1>2. CASE Ok(packet)
  BY <1>0, <1>2 DEF Ok, FlagAfterOk, StartOver, BufInv
<1>3. CASE Size(packet)
  BY <1>3, ClearedContained DEF Size, BufferForNewPicture, StartOver, BufInv
<1>4. CASE Chunk(packet)
  <2>1. ~dataGetFlag /\ dataGetFlag' = dataGetFlag /\ ~StartsWithOk(packet)
    BY <1>4 DEF Chunk
  <2>2. CASE ~Fits(packet)
    BY <1>4, <2>1, <2>2, ClearedContained DEF Chunk, StartOver, BufInv
  <2>3. CASE Fits(packet)
    <3>1. picData_buf' = [i \in DOMAIN picData_buf |->
             IF i \in picCopyIndex .. picCopyIndex + Length(packet) - 1
             THEN Unit(packet.frame, packet.part, i - picCopyIndex)
             ELSE picData_buf[i]]
      BY <1>4, <2>3 DEF Chunk
    <3>2. round' = Append(round, packet) /\ Contained(picData_buf, round)
      BY <2>1 DEF Handled, BufInv
    <3>3. Contained(picData_buf, round')
      BY <3>2, ContainedGrows
    <3>4. ASSUME NEW i \in DOMAIN picData_buf', picData_buf'[i] # Zero
          PROVE  \E k \in DOMAIN round' : /\ round'[k].frame = picData_buf'[i][1]
                                          /\ round'[k].part = picData_buf'[i][2]
      <4>1. CASE i \in picCopyIndex .. picCopyIndex + Length(packet) - 1
        <5>1. picData_buf'[i] = <<packet.frame, packet.part, i - picCopyIndex>>
          BY <3>1, <4>1 DEF Unit
        <5>2. picData_buf'[i][1] = packet.frame /\ picData_buf'[i][2] = packet.part
          BY <5>1
        <5>3. Len(round) + 1 \in DOMAIN round' /\ round'[Len(round) + 1] = packet
          BY <3>2, RoundGrows
        <5>4. QED
          BY <5>2, <5>3
      <4>2. CASE i \notin picCopyIndex .. picCopyIndex + Length(packet) - 1
        <5>1. i \in DOMAIN picData_buf /\ picData_buf'[i] = picData_buf[i]
          BY <3>1, <4>2
        <5>2. QED
          BY <3>3, <3>4, <5>1 DEF Contained
      <4>3. QED
        BY <4>1, <4>2
    <3>5. Contained(picData_buf, round)'
      BY <3>4 DEF Contained
    <3>6. QED
      BY <2>1, <3>5 DEF BufInv
  <2>4. QED
    BY <2>2, <2>3
<1>5. QED
  BY <1>1, <1>2, <1>3, <1>4 DEF Handled

LEMMA OkStep ==
  ASSUME FrameTypeOK, OkInv, NEW packet \in Packets(Len(video)), Handled(packet)
  PROVE  OkInv'
<1>1. CASE StartsWithOk(packet)
  <2>1. Ok(packet)
    BY <1>1, FullPacket DEF Handled, TooShort, Size, Chunk
  <2>2. QED
    BY <2>1 DEF Ok, FlagAfterOk, OkInv
<1>2. CASE ~StartsWithOk(packet)
  <2>1. round' = Append(round, packet)
    BY <1>2 DEF Handled
  <2>2. Len(round') = 1 => round'[1] = packet
    BY <2>1, RoundGrows
  <2>3. QED
    BY <1>2, <2>2 DEF OkInv
<1>3. QED
  BY <1>1, <1>2
-----------------------------------------------------------------------------

LEMMA NextChunk ==
  ASSUME NEW f, NEW n \in Nat \ {0}, NEW i \in Nat
  PROVE  (IF i \in 2 * (n - 1) .. 2 * (n - 1) + 1 THEN Unit(f, n, i - 2 * (n - 1))
          ELSE IF i < 2 * (n - 1) THEN Unit(f, i \div 2 + 1, i % 2) ELSE Zero)
         = IF i < 2 * n THEN Unit(f, i \div 2 + 1, i % 2) ELSE Zero
<1>1. CASE i \in 2 * (n - 1) .. 2 * (n - 1) + 1
  <2>1. i \div 2 + 1 = n /\ i % 2 = i - 2 * (n - 1) /\ i < 2 * n
    BY <1>1
  <2>2. QED
    BY <1>1, <2>1
<1>2. CASE i \notin 2 * (n - 1) .. 2 * (n - 1) + 1
  <2>1. i < 2 * (n - 1) <=> i < 2 * n
    BY <1>2
  <2>2. QED
    BY <1>2, <2>1
<1>3. QED
  BY <1>1, <1>2

LEMMA RoundStep ==
  ASSUME FrameTypeOK, OkInv, RoundInv, UNCHANGED video,
         NEW packet \in Packets(Len(video)), Handled(packet)
  PROVE  RoundInv'
<1> SUFFICES ASSUME NEW f \in 1 .. Len(video), NEW n \in 0 .. Len(video[f]),
                    Regular(f), Begun(f, n)'
             PROVE  /\ ~dataGetFlag' /\ picCopyIndex' = 2 * n /\ buffSize' = Units(video[f])
                    /\ picData_buf' = Assembled(f, n)
  BY DEF RoundInv, Regular, Assembled
<1>0. /\ video[f] \in Seq(ChunkKinds) /\ Len(video[f]) \in Nat /\ n \in Nat
      /\ n <= Len(video[f])
  <2>1. video \in Seq(Seq(ChunkKinds))
    BY DEF FrameTypeOK, StreamTypeOK
  <2>2. video[f] \in Seq(ChunkKinds)
    BY <2>1
  <2>3. QED
    BY <2>2
<1>1. Units(video[f]) = 2 * Len(video[f]) /\ Units(video[f]) <= Capacity
  BY <1>0, UnitsType DEF Regular
<1>2. /\ Len(round') = n + 2
      /\ round'[1] = Packet(f, 0, "ok") /\ round'[2] = SizePacket(f, Units(video[f]))
      /\ \A i \in 1 .. n : round'[i + 2] = Packet(f, i, "full")
  BY DEF Begun
<1>3. ~StartsWithOk(packet) /\ round' = Append(round, packet)
  <2>1. Len(<<packet>>) = 1
    OBVIOUS
  <2>2. QED
    BY <1>0, <1>2, <2>1 DEF Handled
<1>4. /\ Len(round) = n + 1 /\ round'[n + 2] = packet
      /\ \A i \in 1 .. n + 1 : round'[i] = round[i]
  <2>1. /\ Len(round) \in Nat /\ Len(round') = Len(round) + 1
        /\ round'[Len(round) + 1] = packet
        /\ \A i \in 1 .. Len(round) : round'[i] = round[i]
    BY <1>3, RoundGrows
  <2>2. Len(round) = n + 1 /\ Len(round) + 1 = n + 2
    BY <1>0, <1>2, <2>1
  <2>3. QED
    BY <2>1, <2>2
<1>5. round[1] = Packet(f, 0, "ok")
  BY <1>0, <1>2, <1>4
<1>6. CASE n = 0
  <2>1. packet = SizePacket(f, Units(video[f]))
    BY <1>2, <1>4, <1>6
  <2>2. packet.kind = "size" /\ packet.size = Units(video[f]) /\ Length(packet) = 2
    BY <2>1 DEF SizePacket, Length
  <2>3. dataGetFlag
    BY <1>4, <1>5, <1>6 DEF OkInv, StartsWithOk, Packet
  <2>4. Size(packet)
    BY <1>3, <2>2, <2>3 DEF Handled, TooShort, Ok, Chunk
  <2>5. ~dataGetFlag' /\ picCopyIndex' = 0 /\ buffSize' = packet.size /\ picData_buf' = Cleared
    BY <2>2, <2>4 DEF Size, BufferForNewPicture
  <2>6. Cleared = Assembled(f, 0)
    BY CapacityNat DEF Cleared, Assembled
  <2>7. QED
    BY <1>6, <2>2, <2>5, <2>6
<1>7. CASE n # 0
  <2>1. n - 1 \in 0 .. Len(video[f]) /\ n \in Nat \ {0} /\ n - 1 \in Nat
    BY <1>0, <1>7
  <2>2. Begun(f, n - 1)
    <3>1. Len(round) = (n - 1) + 2
      BY <1>4, <2>1
    <3>2. round[2] = SizePacket(f, Units(video[f]))
      BY <1>2, <1>4, <2>1
    <3>3. ASSUME NEW i \in 1 .. n - 1 PROVE round[i + 2] = Packet(f, i, "full")
      <4>1. i \in 1 .. n /\ i + 2 \in 1 .. n + 1
        BY <2>1
      <4>2. QED
        BY <1>2, <1>4, <4>1
    <3>4. QED
      BY <1>5, <3>1, <3>2, <3>3 DEF Begun
  <2>3. /\ ~dataGetFlag /\ picCopyIndex = 2 * (n - 1) /\ buffSize = Units(video[f])
        /\ picData_buf = Assembled(f, n - 1)
    BY <2>1, <2>2 DEF RoundInv
  <2>4. packet = Packet(f, n, "full")
    <3>1. n \in 1 .. n
      BY <2>1
    <3>2. QED
      BY <1>2, <1>4, <3>1
  <2>5. packet.frame = f /\ packet.part = n /\ Length(packet) = 2
    BY <2>4 DEF Packet, Length
  <2>6. Chunk(packet)
    BY <1>3, <2>3, <2>5 DEF Handled, TooShort, Ok, Size
  <2>7. Fits(packet)
    BY <1>0, <1>1, <2>3, <2>5, CapacityNat DEF Fits
  <2>8. /\ ~dataGetFlag' /\ picCopyIndex' = picCopyIndex + 2 /\ buffSize' = buffSize
        /\ picData_buf' = [i \in DOMAIN picData_buf |->
             IF i \in picCopyIndex .. picCopyIndex + 2 - 1
             THEN Unit(f, n, i - picCopyIndex) ELSE picData_buf[i]]
    BY <2>3, <2>5, <2>6, <2>7 DEF Chunk
  <2>9. picCopyIndex' = 2 * n /\ picCopyIndex + 2 - 1 = 2 * (n - 1) + 1
    BY <2>1, <2>3, <2>8
  <2>10. picData_buf' = Assembled(f, n)
    <3>1. DOMAIN picData_buf = 0 .. Capacity - 1
      BY <2>3 DEF Assembled
    <3>2. ASSUME NEW i \in 0 .. Capacity - 1
          PROVE  picData_buf[i] = IF i < 2 * (n - 1) THEN Unit(f, i \div 2 + 1, i % 2) ELSE Zero
      BY <2>3 DEF Assembled
    <3>3. ASSUME NEW i \in 0 .. Capacity - 1
          PROVE  (IF i \in picCopyIndex .. picCopyIndex + 2 - 1
                  THEN Unit(f, n, i - picCopyIndex) ELSE picData_buf[i])
                 = IF i < 2 * n THEN Unit(f, i \div 2 + 1, i % 2) ELSE Zero
      <4>1. i \in Nat
        BY CapacityNat
      <4>2. QED
        BY <2>1, <2>3, <2>9, <3>2, <4>1, NextChunk
    <3>4. QED
      BY <2>8, <3>1, <3>3 DEF Assembled
  <2>11. QED
    BY <2>3, <2>8, <2>9, <2>10
<1>8. QED
  BY <1>6, <1>7

LEMMA FrameStep == FrameInv /\ [FrameNext]_frameVars => FrameInv'
<1> SUFFICES ASSUME FrameInv, [FrameNext]_frameVars PROVE FrameInv'
  OBVIOUS
<1>0. FrameTypeOK /\ BufInv /\ OkInv /\ RoundInv /\ FrameTypeOK'
  BY TypeStep DEF FrameInv
<1>1. CASE ReceivePacket
  <2>1. PICK packet \in Packets(Len(video)) : Handled(packet)
    BY <1>0, <1>1, HeadHandled
  <2>2. UNCHANGED video
    BY <1>1 DEF ReceivePacket
  <2>3. QED
    BY <1>0, <2>1, <2>2, BufStep, OkStep, RoundStep DEF FrameInv
<1>2. CASE TakePicture \/ Send \/ Fault \/ UNCHANGED frameVars
  <2>1. UNCHANGED receiver
    BY <1>2 DEF TakePicture, Send, Fault, frameVars
  <2>2. UNCHANGED <<dataGetFlag, picCopyIndex, buffSize, picData_buf, posted, round>>
    BY <2>1 DEF receiver, locals
  <2>3. BufInv' /\ OkInv'
    BY <1>0, <2>2 DEF BufInv, OkInv, Contained
  <2>4. \A f \in 1 .. Len(video) : f \in 1 .. Len(video') /\ video'[f] = video[f]
    <3>1. video' = video \/ \E picture \in Seq(ChunkKinds) : video' = Append(video, picture)
      <4>1. FrameKinds \subseteq Seq(ChunkKinds) /\ <<>> \in Seq(ChunkKinds)
        BY StreamAssumption DEF ChunkKinds
      <4>2. QED
        BY <1>2, <4>1 DEF TakePicture, Send, Fault, frameVars
    <3>2. video \in Seq(Seq(ChunkKinds))
      BY <1>0 DEF FrameTypeOK, StreamTypeOK
    <3>3. QED
      BY <3>1, <3>2
  <2>5. RoundInv'
    <3> SUFFICES ASSUME NEW f \in 1 .. Len(video'), NEW n \in 0 .. Len(video'[f]),
                        Regular(f)', Begun(f, n)'
                 PROVE  /\ ~dataGetFlag' /\ picCopyIndex' = 2 * n
                        /\ buffSize' = Units(video'[f]) /\ picData_buf' = Assembled(f, n)
      BY DEF RoundInv, Assembled
    <3>1. round \in Seq(Packets(Len(video))) /\ Len(video) \in Nat
      BY <1>0 DEF FrameTypeOK, StreamTypeOK
    <3>2. round[1] = Packet(f, 0, "ok") /\ Len(round) = n + 2
      BY <2>2 DEF Begun
    <3>3. n \in Nat
      <4>1. video'[f] \in Seq(ChunkKinds)
        <5>1. video' \in Seq(Seq(ChunkKinds))
          BY <1>0 DEF FrameTypeOK, StreamTypeOK
        <5>2. QED
          BY <5>1
      <4>2. QED
        BY <4>1
    <3>4. round[1] \in Packets(Len(video))
      BY <3>1, <3>2, <3>3
    <3>5. f \in 1 .. Len(video)
      BY <3>2, <3>4 DEF Packet, Packets
    <3>6. video'[f] = video[f]
      BY <2>4, <3>5
    <3>7. Regular(f) /\ Begun(f, n)
      BY <2>2, <3>6 DEF Regular, Begun
    <3>8. QED
      BY <1>0, <2>2, <3>5, <3>6, <3>7 DEF RoundInv
  <2>6. QED
    BY <1>0, <2>3, <2>5 DEF FrameInv
<1>3. QED
  BY <1>1, <1>2 DEF FrameNext

LEMMA CompleteRound ==
  ASSUME NEW f, video[f] \in Seq(ChunkKinds),
         \A i \in 1 .. Len(video[f]) : video[f][i] = "full",
         round = <<Packet(f, 0, "ok"), SizePacket(f, Units(video[f]))>> \o Chunks(f, video[f])
  PROVE  Begun(f, Len(video[f]))
<1> DEFINE P == {Packet(f, 0, "ok"), SizePacket(f, Units(video[f]))}
           head == <<Packet(f, 0, "ok"), SizePacket(f, Units(video[f]))>>
           all == P \cup {Chunks(f, video[f])[i] : i \in 1 .. Len(video[f])}
<1>1. Len(video[f]) \in Nat /\ DOMAIN video[f] = 1 .. Len(video[f])
  OBVIOUS
<1>2. /\ Chunks(f, video[f]) \in Seq(all) /\ Len(Chunks(f, video[f])) = Len(video[f])
      /\ \A i \in 1 .. Len(video[f]) : Chunks(f, video[f])[i] = Packet(f, i, "full")
  <2>1. Chunks(f, video[f]) = [i \in 1 .. Len(video[f]) |-> Packet(f, i, video[f][i])]
    BY <1>1 DEF Chunks
  <2>2. Chunks(f, video[f]) \in [1 .. Len(video[f]) -> all]
    BY <2>1
  <2>3. QED
    BY <1>1, <2>1, <2>2
<1>3. /\ head \in Seq(all) /\ Len(head) = 2
      /\ head[1] = Packet(f, 0, "ok") /\ head[2] = SizePacket(f, Units(video[f]))
  OBVIOUS
<1>4. round = head \o Chunks(f, video[f])
  OBVIOUS
<1> HIDE DEF P, head, all
<1>5. Len(round) = Len(video[f]) + 2
  BY <1>1, <1>2, <1>3, <1>4
<1>6. round[1] = head[1] /\ round[2] = head[2]
  BY <1>1, <1>2, <1>3, <1>4
<1>7. ASSUME NEW i \in 1 .. Len(video[f]) PROVE round[i + 2] = Packet(f, i, "full")
  BY <1>1, <1>2, <1>3, <1>4
<1>8. QED
  BY <1>3, <1>5, <1>6, <1>7 DEF Begun

LEMMA PostStep ==
  ASSUME FrameInv, [FrameNext]_frameVars, posted' # posted
  PROVE  /\ posted' = Append(posted, picData_buf) /\ picCopyIndex >= buffSize
         /\ Contained(picData_buf, round)
<1>0. FrameTypeOK /\ BufInv
  BY DEF FrameInv
<1>1. ReceivePacket
  BY DEF FrameNext, TakePicture, Send, Fault, frameVars, receiver
<1>2. PICK packet \in Packets(Len(video)) : Handled(packet)
  BY <1>0, <1>1, HeadHandled
<1>3. Ok(packet) /\ picCopyIndex >= buffSize /\ posted' = Append(posted, picData_buf)
  BY <1>2 DEF Handled, TooShort, Ok, Size, Chunk
<1>4. Contained(picData_buf, round)
  BY <1>0, <1>3, ClearedContained DEF BufInv
<1>5. QED
  BY <1>3, <1>4

(* A posted picture holds data of one round only, for pictures and buffers  *)
(* of any size and whatever the network loses, repeats or swaps             *)
(* (UDP_Receive_Runnable.run).                                              *)
THEOREM PostsOneRound == FrameSpec => PostedFromOneRound
<1>1. FrameInv /\ [FrameNext]_frameVars =>
        [posted' # posted => Contained(posted'[Len(posted')], round)]_frameVars
  <2> SUFFICES ASSUME FrameInv, [FrameNext]_frameVars, posted' # posted
               PROVE  Contained(posted'[Len(posted')], round)
    OBVIOUS
  <2>1. posted' = Append(posted, picData_buf) /\ Contained(picData_buf, round)
    BY PostStep
  <2>2. posted \in Seq(Buffers)
    BY DEF FrameInv, FrameTypeOK, LocalsTypeOK
  <2>3. posted'[Len(posted')] = picData_buf
    BY <2>1, <2>2
  <2>4. QED
    BY <2>1, <2>3
<1>2. QED
  BY FrameInitInv, FrameStep, <1>1, PTL DEF FrameSpec, PostedFromOneRound

(* Resynchronisation: a picture whose packets arrive complete and in order  *)
(* between two "ok"s is posted intact, for every picture that fits and      *)
(* whatever the network did before.                                         *)
THEOREM PostsIntactRounds == FrameSpec => IntactRoundPosted
<1>1. FrameInv /\ [FrameNext]_frameVars =>
        [\A f \in 1 .. Len(video) :
           /\ Len(round') = 1
           /\ Regular(f)
           /\ round = <<Packet(f, 0, "ok"), SizePacket(f, Units(video[f]))>> \o Chunks(f, video[f])
           => posted' = Append(posted, Picture(f))]_frameVars
  <2> SUFFICES ASSUME FrameInv, [FrameNext]_frameVars, NEW f \in 1 .. Len(video),
                      Len(round') = 1, Regular(f),
                      round = <<Packet(f, 0, "ok"), SizePacket(f, Units(video[f]))>>
                              \o Chunks(f, video[f])
               PROVE  posted' = Append(posted, Picture(f))
    OBVIOUS
  <2>0. FrameTypeOK /\ RoundInv
    BY DEF FrameInv
  <2>1. /\ video[f] \in Seq(ChunkKinds) /\ Len(video[f]) \in Nat
        /\ \A i \in 1 .. Len(video[f]) : video[f][i] = "full"
    <3>1. video \in Seq(Seq(ChunkKinds))
      BY <2>0 DEF FrameTypeOK, StreamTypeOK
    <3>2. video[f] \in Seq(ChunkKinds)
      BY <3>1
    <3>3. QED
      BY <3>2 DEF Regular
  <2>2. Begun(f, Len(video[f]))
    BY <2>1, CompleteRound
  <2>3. /\ picCopyIndex = 2 * Len(video[f]) /\ buffSize = Units(video[f])
        /\ picData_buf = Assembled(f, Len(video[f]))
    BY <2>0, <2>1, <2>2 DEF RoundInv
  <2>4. Units(video[f]) = 2 * Len(video[f])
    BY <2>1, UnitsType DEF Regular
  <2>5. Assembled(f, Len(video[f])) = Picture(f)
    BY <2>4 DEF Assembled, Picture
  <2>6. Len(round) >= 2
    BY <2>1, <2>2 DEF Begun
  <2>7. ReceivePacket
    BY <2>6 DEF FrameNext, TakePicture, Send, Fault, frameVars, receiver
  <2>8. PICK packet \in Packets(Len(video)) : Handled(packet)
    BY <2>0, <2>7, HeadHandled
  <2>9. StartsWithOk(packet)
    <3>1. round' = Append(round, packet) => Len(round') = Len(round) + 1 /\ Len(round) \in Nat
      BY <2>0, RoundGrows
    <3>2. QED
      BY <2>6, <2>8, <3>1 DEF Handled
  <2>10. Ok(packet)
    BY <2>8, <2>9, FullPacket DEF Handled, TooShort, Size, Chunk
  <2>11. ~(picCopyIndex < buffSize)
    BY <2>1, <2>3, <2>4
  <2>12. QED
    BY <2>3, <2>5, <2>10, <2>11 DEF Ok
<1>2. QED
  BY FrameInitInv, FrameStep, <1>1, PTL DEF FrameSpec, IntactRoundPosted
=============================================================================
