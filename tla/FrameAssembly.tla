---------------------------- MODULE FrameAssembly ----------------------------
(***************************************************************************)
(* How the receive thread of MainActivity.java puts the pictures of a UDP  *)
(* video stream together.  The camera sends every picture as an "ok"       *)
(* packet, a packet with the picture's size in decimal, and the picture in *)
(* chunks; nothing is numbered or acknowledged, and the network may lose,  *)
(* duplicate and swap packets.  Bytes are counted in units of half a full  *)
(* chunk, so that the length test of line 455 keeps its meaning: a chunk   *)
(* is two units long, or one when it is too short for that test.           *)
(***************************************************************************)
EXTENDS Integers, Sequences, FiniteSets

CONSTANTS FrameKinds,  \* the pictures the camera may take, as sequences of chunks
          Frames,      \* bound: how many pictures it sends
          Capacity,    \* the units picData_buf holds
          Flight,      \* bound: packets in the network at once
          MaxFaults    \* bound: packets lost, duplicated or swapped

ASSUME StreamAssumption ==
  /\ FrameKinds \subseteq Seq({"full", "tiny", "okay"})
  /\ {Frames, Capacity, Flight, MaxFaults} \subseteq Nat

VARIABLES video,         \* the pictures taken so far
          todo,          \* packets of the current picture still to be sent
          net,           \* packets in flight, oldest first
          faults,        \* how many faults the network has committed
          dataGetFlag, picCopyIndex, buffSize,   \* locals of run()
          picData_buf,   \* its buffer, unit by unit
          posted,        \* the pictures handed to the UI thread's Handler
          round          \* history: the packets handled since the last "ok"

locals == <<dataGetFlag, picCopyIndex, buffSize, picData_buf>>
receiver == <<locals, posted, round>>
frameVars == <<video, todo, net, faults, receiver>>

-----------------------------------------------------------------------------
(* Packets.  A chunk of kind "okay" is picture data whose first two bytes   *)
(* happen to be 'o' and 'k'.                                                *)
Packet(f, p, kind) == [frame |-> f, part |-> p, kind |-> kind, size |-> 0]
Length(packet) == IF packet.kind = "tiny" THEN 1 ELSE 2
StartsWithOk(packet) == packet.kind \in {"ok", "okay"}

Units(picture) ==
  2 * Len(picture) - Cardinality({i \in DOMAIN picture : picture[i] = "tiny"})
Chunks(f, picture) == [i \in DOMAIN picture |-> Packet(f, i, picture[i])]
SizePacket(f, units) == [frame |-> f, part |-> -1, kind |-> "size", size |-> units]

\* A unit of the buffer is Zero after clearing, else the chunk and the half it is.
Unit(f, p, half) == <<f, p, half>>
Zero == Unit(0, 0, 0)
Cleared == [i \in 0 .. Capacity - 1 |-> Zero]

FrameInit ==
  /\ video = <<>>
  /\ todo = <<>>
  /\ net = <<>>
  /\ faults = 0
  /\ dataGetFlag = FALSE
  /\ picCopyIndex = 0
  /\ buffSize = 0
  /\ picData_buf = Cleared
  /\ posted = <<>>
  /\ round = <<>>
-----------------------------------------------------------------------------
(* The camera takes a picture when the last one is sent; after its last     *)
(* picture it sends the "ok" of one more.                                   *)
TakePicture ==
  /\ todo = <<>>
  /\ \/ /\ Len(video) < Frames
        /\ \E picture \in FrameKinds :
             /\ video' = Append(video, picture)
             /\ todo' = LET f == Len(video')
                        IN  <<Packet(f, 0, "ok"), SizePacket(f, Units(picture))>>
                            \o Chunks(f, picture)
     \/ /\ Len(video) = Frames
        /\ video' = Append(video, <<>>)
        /\ todo' = <<Packet(Len(video'), 0, "ok")>>
  /\ UNCHANGED <<net, faults, receiver>>

Send == /\ todo # <<>>
        /\ Len(net) < Flight
        /\ net' = Append(net, Head(todo))
        /\ todo' = Tail(todo)
        /\ UNCHANGED <<video, faults, receiver>>

(* The network loses, duplicates or swaps a packet in flight.               *)
Fault ==
  /\ net # <<>>
  /\ faults < MaxFaults
  /\ faults' = faults + 1
  /\ \/ net' = Tail(net)
     \/ Len(net) < Flight /\ net' = <<Head(net)>> \o net
     \/ Len(net) > 1 /\ net' = <<net[2], net[1]>> \o SubSeq(net, 3, Len(net))
  /\ UNCHANGED <<video, todo, receiver>>
-----------------------------------------------------------------------------
(* The receiver.  Every branch that empties the assembly also clears the    *)
(* whole buffer.                                                            *)
StartOver == picCopyIndex' = 0 /\ buffSize' = 0 /\ picData_buf' = Cleared

(* Fewer than two bytes: the buffers are cleared, the counters are not.     *)
TooShort(packet) ==
  /\ Length(packet) < 2
  /\ picData_buf' = Cleared
  /\ UNCHANGED <<dataGetFlag, picCopyIndex, buffSize, posted>>

FlagOnlyIfComplete == IF picCopyIndex >= buffSize THEN TRUE ELSE dataGetFlag  \* (mutant)
FlagAfterOk == TRUE

(* "ok": whatever was assembled is posted if it is long enough.             *)
Ok(packet) ==
  /\ Length(packet) >= 2 /\ StartsWithOk(packet)
  /\ dataGetFlag' = FlagAfterOk
  /\ \/ /\ picCopyIndex >= buffSize
        /\ posted' = Append(posted, picData_buf)
        /\ StartOver
     \/ /\ picCopyIndex < buffSize
        /\ UNCHANGED <<picCopyIndex, buffSize, picData_buf, posted>>

BufferNotCleared == picData_buf                                  \* (mutant)
BufferForNewPicture == Cleared

(* The packet after "ok" is taken for the size.  Picture data in its place  *)
(* does not parse, and the exception handler starts over.                   *)
Size(packet) ==
  /\ Length(packet) >= 2 /\ ~StartsWithOk(packet)
  /\ dataGetFlag
  /\ dataGetFlag' = FALSE
  /\ \/ /\ packet.kind = "size"
        /\ picCopyIndex' = 0
        /\ buffSize' = packet.size
        /\ picData_buf' = BufferForNewPicture
     \/ /\ packet.kind # "size"
        /\ StartOver
  /\ UNCHANGED posted

Fits(packet) == picCopyIndex + Length(packet) <= Capacity

(* Anything else is appended to the picture; System.arraycopy throws before *)
(* it copies when the buffer would overflow.                                *)
Chunk(packet) ==
  /\ Length(packet) >= 2 /\ ~StartsWithOk(packet)
  /\ ~dataGetFlag
  /\ \/ /\ Fits(packet)
        /\ picData_buf' =
             [i \in DOMAIN picData_buf |->
                IF i \in picCopyIndex .. picCopyIndex + Length(packet) - 1
                THEN Unit(packet.frame, packet.part, i - picCopyIndex)
                ELSE picData_buf[i]]
        /\ picCopyIndex' = picCopyIndex + Length(packet)
        /\ UNCHANGED buffSize
     \/ /\ ~Fits(packet)
        /\ StartOver
  /\ UNCHANGED <<dataGetFlag, posted>>

ReceivePacket ==
  /\ net # <<>>
  /\ net' = Tail(net)
  /\ LET packet == Head(net)
     IN  /\ TooShort(packet) \/ Ok(packet) \/ Size(packet) \/ Chunk(packet)
         /\ round' = IF StartsWithOk(packet) THEN <<packet>> ELSE Append(round, packet)
  /\ UNCHANGED <<video, todo, faults>>

FrameNext == TakePicture \/ Send \/ Fault \/ ReceivePacket

FrameSpec == FrameInit /\ [][FrameNext]_frameVars

(* The camera keeps sending and the receive thread keeps receiving.         *)
FrameFairSpec == FrameSpec /\ WF_frameVars(TakePicture \/ Send) /\ WF_frameVars(ReceivePacket)
-----------------------------------------------------------------------------
Picture(f) ==
  [i \in 0 .. Capacity - 1 |->
     IF i < Units(video[f]) THEN Unit(f, i \div 2 + 1, i % 2) ELSE Zero]

\* A picture the protocol can carry: it fits, and no chunk of it is too
\* short or looks like an "ok".
Regular(f) == (\A i \in DOMAIN video[f] : video[f][i] = "full") /\ Units(video[f]) <= Capacity

Contained(picture, packets) ==
  \A i \in DOMAIN picture :
    \/ picture[i] = Zero
    \/ \E k \in DOMAIN packets : /\ packets[k].frame = picture[i][1]
                                 /\ packets[k].part = picture[i][2]

(* Resynchronisation: whatever the network did before, a picture whose      *)
(* packets arrive complete and in order between two "ok"s is posted, intact.*)
IntactRoundPosted ==
  [][\A f \in 1 .. Len(video) :
       /\ Len(round') = 1
       /\ Regular(f)
       /\ round = <<Packet(f, 0, "ok"), SizePacket(f, Units(video[f]))>> \o Chunks(f, video[f])
       => posted' = Append(posted, Picture(f))]_frameVars

(* A posted picture holds data of one round only: nothing that arrived      *)
(* before the previous "ok" is ever shown, whatever is lost or repeated.    *)
PostedFromOneRound ==
  [][posted' # posted => Contained(posted'[Len(posted')], round)]_frameVars

(* On a network without faults every picture the protocol can carry is      *)
(* posted in the end, also after pictures it cannot carry.                  *)
EveryPicturePosted ==
  [](faults = 0) =>
    <>(/\ Len(video) > Frames
       /\ \A f \in 1 .. Frames :
            Regular(f) => \E k \in DOMAIN posted : posted[k] = Picture(f))

(* What line 459 says of an "ok": the picture sent before it has been       *)
(* received completely by then, so that what is posted is a whole picture   *)
(* (or the cleared buffer, before the first one).                           *)
PostedComplete ==
  \A k \in DOMAIN posted :
    posted[k] = Cleared \/ \E f \in 1 .. Len(video) : posted[k] = Picture(f)
=============================================================================
