----------------------------- MODULE DemoProofs -----------------------------
(***************************************************************************)
(* The demos, whatever the numbers of buffers, threads and turns and the     *)
(* sizes of reads and bursts.  Camera: whichever calls fail, the buffers of  *)
(* v4l2_camera.c are in one queue of the driver or in the program's hands,   *)
(* and what the program is given is newer than what it has shown.            *)
(* ThreadDemos: the producer of 8_pthread_cond.c loses no wake-up, however   *)
(* often the consumers run or wake unasked.  AsyncInput: a signal is under   *)
(* way for all the input that one ever stood for.  FileServer: for any      *)
(* number of clients and descriptors and a file of any length, as long as no *)
(* thread was given another thread's descriptor, each closes its own, and    *)
(* what a client stores is the file under its name.                          *)
(***************************************************************************)
EXTENDS Camera, ThreadDemos, AsyncInput, FileServer, SequenceTheorems, FiniteSetTheorems, TLAPS

Once(s) == \A i, j \in 1 .. Len(s) : s[i] = s[j] => i = j

\* The buffers with numbers below n.
Below(n) == {b \in Buffers : b < n}

CameraTypeOK ==
  /\ camera \in {"setup", "init_buffer", "stream_on", "dqbuf", "copy", "exit"}
  /\ queued \in Seq(Buffers) /\ filled \in Seq(Buffers)
  /\ frame \in [Buffers -> Nat]
  /\ captured \in Nat /\ index \in Nat /\ displayed \in Nat
  /\ given \in BOOLEAN

\* The buffer that is copied after it was given out.
Held == IF camera = "copy" /\ given THEN {index} ELSE {}

(* Before the loop the buffers are queued one by one, and nothing is shown. *)
SetupInv ==
  /\ camera \in {"setup", "init_buffer", "stream_on"} =>
       filled = <<>> /\ captured = 0 /\ displayed = 0
  /\ camera = "setup" => queued = <<>> /\ index = 0
  /\ camera = "init_buffer" => ToSet(queued) = Below(index)
  /\ camera = "stream_on" => ToSet(queued) = Buffers

(* In the loop each buffer is in one place.                                 *)
PlacesInv ==
  /\ Once(queued) /\ Once(filled)
  /\ ToSet(queued) \cap ToSet(filled) = {}
  /\ camera \in {"dqbuf", "copy"} =>
       /\ index \in Buffers
       /\ ToSet(queued) \cup ToSet(filled) \cup Held = Buffers
       /\ Held \cap (ToSet(queued) \cup ToSet(filled)) = {}

(* The filled buffers hold ever newer frames, the buffer in the program's   *)
(* hands an older one than all of them, and the last one shown is older.    *)
FramesInv ==
  /\ displayed <= captured
  /\ \A b \in Buffers : frame[b] <= captured
  /\ \A i, j \in 1 .. Len(filled) : i < j => frame[filled[i]] < frame[filled[j]]
  /\ \A i \in 1 .. Len(filled) : displayed < frame[filled[i]]
  /\ \A b \in Held : /\ displayed < frame[b]
                     /\ \A i \in 1 .. Len(filled) : frame[b] < frame[filled[i]]

CameraInv == CameraTypeOK /\ SetupInv /\ PlacesInv /\ FramesInv
-----------------------------------------------------------------------------
(* Sequences without repetition.                                            *)
LEMMA SetOfSeq == ASSUME NEW s, NEW x PROVE x \in ToSet(s) <=> \E i \in DOMAIN s : x = s[i]
BY DEF ToSet

LEMMA AppendOnce ==
  ASSUME NEW S, NEW s \in Seq(S), NEW x \in S
  PROVE  /\ Append(s, x) \in Seq(S)
         /\ ToSet(Append(s, x)) = ToSet(s) \cup {x}
         /\ Once(s) /\ x \notin ToSet(s) => Once(Append(s, x))
<1> DEFINE t == Append(s, x)
<1>1. /\ t \in Seq(S) /\ Len(t) = Len(s) + 1 /\ t[Len(s) + 1] = x /\ Len(s) \in Nat
      /\ \A i \in 1 .. Len(s) : t[i] = s[i]
  OBVIOUS
<1>2. DOMAIN s = 1 .. Len(s) /\ DOMAIN t = 1 .. Len(t)
  BY <1>1
<1>3. ToSet(t) = ToSet(s) \cup {x}
  <2>1. ASSUME NEW y \in ToSet(t) PROVE y \in ToSet(s) \cup {x}
    <3>1. PICK i \in 1 .. Len(t) : y = t[i]
      BY <1>2 DEF ToSet
    <3>2. i \in 1 .. Len(s) \/ i = Len(s) + 1
      BY <1>1
    <3>3. QED
      BY <3>1, <3>2, <1>1, <1>2 DEF ToSet
  <2>2. ASSUME NEW y \in ToSet(s) PROVE y \in ToSet(t)
    <3>1. PICK i \in 1 .. Len(s) : y = s[i]
      BY <1>2 DEF ToSet
    <3>2. i \in 1 .. Len(t) /\ y = t[i]
      BY <3>1, <1>1
    <3>3. QED
      BY <3>2, <1>2 DEF ToSet
  <2>3. x \in ToSet(t)
    <3>1. Len(s) + 1 \in 1 .. Len(t)
      BY <1>1
    <3>2. QED
      BY <3>1, <1>1, <1>2 DEF ToSet
  <2>4. QED
    BY <2>1, <2>2, <2>3
<1>4. ASSUME Once(s), x \notin ToSet(s) PROVE Once(t)
  <2>1. \A i \in 1 .. Len(s) : s[i] # x
    BY <1>4, <1>2 DEF ToSet
  <2>2. QED
    BY <2>1, <1>1, <1>4 DEF Once
<1>5. QED
  BY <1>1, <1>3, <1>4

LEMMA TailOnce ==
  ASSUME NEW S, NEW s \in Seq(S), s # <<>>, Once(s)
  PROVE  /\ Head(s) \in S /\ Head(s) = s[1] /\ Tail(s) \in Seq(S)
         /\ Len(s) \in Nat \ {0} /\ Len(Tail(s)) = Len(s) - 1
         /\ \A i \in 1 .. Len(Tail(s)) : Tail(s)[i] = s[i + 1]
         /\ Once(Tail(s))
         /\ ToSet(Tail(s)) = ToSet(s) \ {Head(s)}
         /\ Head(s) \in ToSet(s)
<1> DEFINE t == Tail(s)
<1>1. /\ Head(s) \in S /\ Head(s) = s[1] /\ t \in Seq(S)
      /\ Len(s) \in Nat \ {0} /\ Len(t) = Len(s) - 1
      /\ \A i \in 1 .. Len(t) : t[i] = s[i + 1]
  OBVIOUS
<1>2. DOMAIN s = 1 .. Len(s) /\ DOMAIN t = 1 .. Len(t)
  BY <1>1
<1>3. Once(t)
  <2>1. ASSUME NEW i \in 1 .. Len(t), NEW j \in 1 .. Len(t), t[i] = t[j] PROVE i = j
    <3>1. i + 1 \in 1 .. Len(s) /\ j + 1 \in 1 .. Len(s) /\ s[i + 1] = s[j + 1]
      BY <1>1, <2>1
    <3>2. i + 1 = j + 1
      BY <3>1 DEF Once
    <3>3. QED
      BY <3>2
  <2>2. QED
    BY <2>1 DEF Once
<1>4. ToSet(t) = ToSet(s) \ {Head(s)}
  <2>1. ASSUME NEW y \in ToSet(t) PROVE y \in ToSet(s) \ {Head(s)}
    <3>1. PICK i \in 1 .. Len(t) : y = t[i]
      BY <1>2 DEF ToSet
    <3>2. i + 1 \in 1 .. Len(s) /\ y = s[i + 1] /\ i + 1 # 1 /\ 1 \in 1 .. Len(s)
      BY <3>1, <1>1
    <3>3. y # s[1]
      BY <3>2 DEF Once
    <3>4. QED
      BY <3>2, <3>3, <1>1, <1>2 DEF ToSet
  <2>2. ASSUME NEW y \in ToSet(s) \ {Head(s)} PROVE y \in ToSet(t)
    <3>1. PICK i \in 1 .. Len(s) : y = s[i]
      BY <1>2 DEF ToSet
    <3>2. i # 1
      BY <3>1, <1>1
    <3>3. i - 1 \in 1 .. Len(t) /\ t[i - 1] = s[(i - 1) + 1] /\ (i - 1) + 1 = i
      BY <3>1, <3>2, <1>1
    <3>4. QED
      BY <3>1, <3>3, <1>2 DEF ToSet
  <2>3. QED
    BY <2>1, <2>2
<1>5. Head(s) \in ToSet(s)
  <2>1. 1 \in 1 .. Len(s)
    BY <1>1
  <2>2. QED
    BY <2>1, <1>1, <1>2 DEF ToSet
<1>6. QED
  BY <1>1, <1>3, <1>4, <1>5

LEMMA ConcatOnce ==
  ASSUME NEW S, NEW s \in Seq(S), NEW t \in Seq(S), Once(s), Once(t),
         ToSet(s) \cap ToSet(t) = {}
  PROVE  IsInjective(s \o t)
<1> DEFINE c == s \o t
<1>1. /\ c \in Seq(S) /\ Len(c) = Len(s) + Len(t) /\ Len(s) \in Nat /\ Len(t) \in Nat
      /\ \A i \in 1 .. Len(s) : c[i] = s[i]
      /\ \A i \in 1 .. Len(t) : c[Len(s) + i] = t[i]
  OBVIOUS
<1>2. DOMAIN s = 1 .. Len(s) /\ DOMAIN t = 1 .. Len(t) /\ DOMAIN c = 1 .. Len(c)
  BY <1>1
<1>3. \A i \in 1 .. Len(s), j \in 1 .. Len(t) : s[i] # t[j]
  BY <1>2 DEF ToSet
<1>4. ASSUME NEW i \in 1 .. Len(c), i \notin 1 .. Len(s)
      PROVE  i - Len(s) \in 1 .. Len(t) /\ c[i] = t[i - Len(s)]
  <2>1. i - Len(s) \in 1 .. Len(t) /\ Len(s) + (i - Len(s)) = i
    BY <1>1, <1>4
  <2>2. QED
    BY <2>1, <1>1
<1>5. ASSUME NEW i \in 1 .. Len(c), NEW j \in 1 .. Len(c), c[i] = c[j]
      PROVE  i = j
  <2>1. CASE i \in 1 .. Len(s) /\ j \in 1 .. Len(s)
    BY <2>1, <1>1, <1>5 DEF Once
  <2>2. CASE i \in 1 .. Len(s) /\ j \notin 1 .. Len(s)
    BY <2>2, <1>1, <1>3, <1>4, <1>5
  <2>3. CASE i \notin 1 .. Len(s) /\ j \in 1 .. Len(s)
    BY <2>3, <1>1, <1>3, <1>4, <1>5
  <2>4. CASE i \notin 1 .. Len(s) /\ j \notin 1 .. Len(s)
    <3>1. /\ i - Len(s) \in 1 .. Len(t) /\ c[i] = t[i - Len(s)]
          /\ j - Len(s) \in 1 .. Len(t) /\ c[j] = t[j - Len(s)]
      BY <2>4, <1>4
    <3>2. i - Len(s) = j - Len(s)
      BY <3>1, <1>5 DEF Once
    <3>3. QED
      BY <3>2, <1>1
  <2>5. QED
    BY <2>1, <2>2, <2>3, <2>4
<1>6. QED
  BY <1>2, <1>5 DEF IsInjective
-----------------------------------------------------------------------------
LEMMA CameraInitInv == CameraInit => CameraInv
<1> SUFFICES ASSUME CameraInit PROVE CameraInv
  OBVIOUS
<1>1. Once(<<>>) /\ ToSet(<<>>) = {} /\ <<>> \in Seq(Buffers) /\ Len(<<>>) = 0
  BY DEF Once, ToSet
<1>2. CameraTypeOK
  BY <1>1 DEF CameraInit, CameraTypeOK
<1>3. SetupInv
  BY DEF CameraInit, SetupInv
<1>4. PlacesInv
  BY <1>1 DEF CameraInit, PlacesInv
<1>5. FramesInv
  BY <1>1 DEF CameraInit, FramesInv, Held
<1>6. QED
  BY <1>2, <1>3, <1>4, <1>5 DEF CameraInv

LEMMA CameraSetupStep ==
  ASSUME CameraInv, OpenDevices \/ v4l2_init_buffer \/ v4l2_stream_on
  PROVE  CameraInv'
<1> USE DEF CameraInv
<1>0. Held = {} /\ camera \in {"setup", "init_buffer", "stream_on"} /\ filled = <<>> /\ UNCHANGED filled
  BY DEF Held, SetupInv, OpenDevices, v4l2_init_buffer, v4l2_stream_on
<1>1. CASE OpenDevices
  <2> USE <1>1 DEF OpenDevices
  <2>1. CameraTypeOK'
    BY DEF CameraTypeOK
  <2>2. SetupInv'
    <3>1. ToSet(<<>>) = Below(0)
      BY CameraAssumption DEF ToSet, Below, Buffers
    <3>2. /\ camera = "setup" /\ queued = <<>> /\ index = 0
          /\ UNCHANGED <<queued, index, captured, displayed>>
          /\ camera' \in {"init_buffer", "exit"} /\ captured = 0 /\ displayed = 0
      BY DEF SetupInv
    <3>3. ToSet(queued)' = Below(index)'
      BY <3>1, <3>2 DEF Below
    <3>4. QED
      BY <1>0, <3>2, <3>3 DEF SetupInv
  <2>3. PlacesInv'
    BY DEF PlacesInv
  <2>4. FramesInv'
    BY DEF FramesInv, Held
  <2>5. QED
    BY <2>1, <2>2, <2>3, <2>4
<1>2. CASE v4l2_init_buffer
  <2>0. camera = "init_buffer" /\ ToSet(queued) = Below(index)
    BY <1>2 DEF v4l2_init_buffer, SetupInv
  <2>1. CASE index \in Buffers /\ queued' = Append(queued, index) /\ index' = index + 1 /\ UNCHANGED camera
    <3>0. UNCHANGED <<filled, frame, captured, given, displayed>>
      BY <1>2 DEF v4l2_init_buffer
    <3>1. index \notin ToSet(queued) /\ Below(index) \cup {index} = Below(index + 1)
      BY <2>0, <2>1, CameraAssumption DEF Below, Buffers
    <3>2. /\ queued' \in Seq(Buffers) /\ ToSet(queued)' = Below(index + 1)
          /\ Once(queued)'
      <4>1. queued \in Seq(Buffers) /\ index \in Buffers /\ Once(queued)
        BY <2>1 DEF CameraTypeOK, PlacesInv
      <4>2. /\ Append(queued, index) \in Seq(Buffers)
            /\ ToSet(Append(queued, index)) = Below(index) \cup {index}
            /\ Once(Append(queued, index))
        BY <2>0, <3>1, <4>1, AppendOnce
      <4>3. QED
        BY <2>1, <3>1, <4>2
    <3>3. CameraTypeOK'
      BY <2>1, <3>0, <3>2 DEF CameraTypeOK
    <3>4. SetupInv'
      BY <2>0, <2>1, <3>0, <3>2 DEF SetupInv
    <3>5. PlacesInv'
      <4>1. ToSet(filled)' = {} /\ Once(filled)'
        BY <1>0 DEF ToSet, Once
      <4>2. QED
        BY <2>0, <2>1, <3>2, <4>1 DEF PlacesInv
    <3>6. FramesInv'
      BY <2>0, <2>1, <3>0, <1>0 DEF FramesInv, Held
    <3>7. QED
      BY <3>3, <3>4, <3>5, <3>6
  <2>2. CASE index \notin Buffers /\ camera' = "stream_on" /\ UNCHANGED <<queued, index>>
    <3>0. UNCHANGED <<filled, frame, captured, given, displayed>>
      BY <1>2 DEF v4l2_init_buffer
    <3>1. Below(index) = Buffers
      BY <2>2, CameraAssumption DEF CameraTypeOK, Below, Buffers
    <3>2. CameraTypeOK' /\ SetupInv'
      BY <2>0, <2>2, <3>0, <3>1 DEF CameraTypeOK, SetupInv
    <3>3. PlacesInv' /\ FramesInv'
      BY <2>0, <2>2, <3>0, <1>0 DEF PlacesInv, FramesInv, Held
    <3>4. QED
      BY <3>2, <3>3
  <2>3. CASE camera' = "exit" /\ UNCHANGED <<queued, index>>
    <3>0. UNCHANGED <<filled, frame, captured, given, displayed>>
      BY <1>2 DEF v4l2_init_buffer
    <3>1. CameraTypeOK' /\ SetupInv'
      BY <2>3, <3>0 DEF CameraTypeOK, SetupInv
    <3>2. PlacesInv' /\ FramesInv'
      BY <2>0, <2>3, <3>0, <1>0 DEF PlacesInv, FramesInv, Held
    <3>3. QED
      BY <3>1, <3>2
  <2>4. QED
    BY <1>2, <2>1, <2>2, <2>3 DEF v4l2_init_buffer
<1>3. CASE v4l2_stream_on
  <2>0. /\ camera = "stream_on" /\ camera' \in {"dqbuf", "exit"}
        /\ camera' = "dqbuf" => index' = 0
        /\ index' \in {index, 0}
        /\ UNCHANGED <<queued, filled, frame, captured, given, displayed>>
    BY <1>3 DEF v4l2_stream_on
  <2>1. CameraTypeOK' /\ SetupInv'
    BY <2>0 DEF CameraTypeOK, SetupInv
  <2>2. Held' = {}
    BY <2>0 DEF Held
  <2>3. PlacesInv'
    <3>1. 0 \in Buffers
      BY CameraAssumption DEF Buffers
    <3>2. ToSet(queued) = Buffers
      BY <2>0 DEF SetupInv
    <3>3. /\ (Once(queued) /\ Once(filled))'
          /\ (ToSet(queued) \cap ToSet(filled) = {})'
          /\ ToSet(filled) = {}
      BY <2>0, <3>2, <1>0 DEF PlacesInv, ToSet
    <3>4. camera' = "dqbuf" => ToSet(queued)' = Buffers /\ ToSet(filled)' = {} /\ index' = 0
      BY <2>0, <3>2, <3>3
    <3>5. QED
      BY <2>0, <2>2, <3>1, <3>3, <3>4 DEF PlacesInv
  <2>4. FramesInv'
    BY <2>0, <2>2 DEF FramesInv
  <2>5. QED
    BY <2>1, <2>3, <2>4
<1>4. QED
  BY <1>1, <1>2, <1>3

\* The driver moves a buffer from the one queue to the other.
LEMMA CaptureStep ==
  ASSUME CameraInv, Capture
  PROVE  CameraInv'
<1> USE DEF CameraInv
<1>0. /\ camera \in {"dqbuf", "copy"} /\ captured' = captured + 1
      /\ UNCHANGED <<camera, index, given, displayed>>
  BY DEF Capture
<1>1. Held' = Held
  BY <1>0 DEF Held
<1>2. CASE queued = <<>>
  <2>1. UNCHANGED <<queued, filled, frame>>
    BY <1>2 DEF Capture
  <2>2. CameraTypeOK' /\ SetupInv'
    BY <1>0, <2>1 DEF CameraTypeOK, SetupInv
  <2>3. PlacesInv'
    BY <1>0, <1>1, <2>1 DEF PlacesInv
  <2>4. FramesInv'
    <3>1. /\ displayed <= captured'
          /\ \A b \in Buffers : frame[b] <= captured'
      BY <1>0 DEF FramesInv, CameraTypeOK
    <3>2. QED
      BY <1>0, <1>1, <2>1, <3>1 DEF FramesInv
  <2>5. QED
    BY <2>2, <2>3, <2>4
<1>3. CASE queued # <<>>
  <2> DEFINE b1 == Head(queued)
  <2>0. /\ frame' = [frame EXCEPT ![b1] = captured + 1]
        /\ filled' = Append(filled, b1) /\ queued' = Tail(queued)
    BY <1>3 DEF Capture
  <2>1. /\ b1 \in Buffers /\ b1 \in ToSet(queued) /\ queued' \in Seq(Buffers)
        /\ Once(queued)' /\ ToSet(queued)' = ToSet(queued) \ {b1}
    BY <1>3, <2>0, TailOnce DEF CameraTypeOK, PlacesInv
  <2>2. b1 \notin ToSet(filled) /\ b1 \notin Held
    BY <1>0, <2>1 DEF PlacesInv
  <2>3. /\ filled' \in Seq(Buffers) /\ Once(filled)'
        /\ ToSet(filled)' = ToSet(filled) \cup {b1}
    BY <2>0, <2>1, <2>2, AppendOnce DEF CameraTypeOK, PlacesInv
  <2>4. CameraTypeOK'
    BY <1>0, <2>0, <2>1, <2>3 DEF CameraTypeOK
  <2>5. SetupInv'
    BY <1>0 DEF SetupInv
  <2>6. PlacesInv'
    <3>1. (ToSet(queued) \cap ToSet(filled) = {})'
      BY <2>1, <2>3 DEF PlacesInv
    <3>2. ToSet(queued)' \cup ToSet(filled)' = ToSet(queued) \cup ToSet(filled)
      BY <2>1, <2>3
    <3>3. /\ index \in Buffers /\ ToSet(queued) \cup ToSet(filled) \cup Held = Buffers
          /\ Held \cap (ToSet(queued) \cup ToSet(filled)) = {}
      BY <1>0 DEF PlacesInv
    <3>4. /\ index' \in Buffers /\ (ToSet(queued) \cup ToSet(filled) \cup Held = Buffers)'
          /\ (Held \cap (ToSet(queued) \cup ToSet(filled)) = {})'
      BY <1>0, <1>1, <3>2, <3>3
    <3>5. QED
      BY <2>1, <2>3, <3>1, <3>4 DEF PlacesInv
  <2>7. FramesInv'
    <3>1. /\ Len(filled') = Len(filled) + 1 /\ filled'[Len(filled) + 1] = b1
          /\ \A i \in 1 .. Len(filled) : filled'[i] = filled[i] /\ filled[i] \in Buffers
          /\ Len(filled) \in Nat
      BY <2>0, <2>1 DEF CameraTypeOK
    <3>2. \A i \in 1 .. Len(filled) : filled[i] # b1
      BY <2>2, <3>1, SetOfSeq DEF CameraTypeOK
    <3>3. /\ \A i \in 1 .. Len(filled) : frame'[filled'[i]] = frame[filled[i]]
          /\ frame'[b1] = captured + 1
          /\ \A b \in Buffers : b # b1 => frame'[b] = frame[b]
      BY <2>0, <2>1, <3>1, <3>2 DEF CameraTypeOK
    <3>4. /\ displayed <= captured /\ displayed \in Nat /\ captured \in Nat
          /\ \A b \in Buffers : frame[b] <= captured /\ frame[b] \in Nat
      BY DEF FramesInv, CameraTypeOK
    <3>5. displayed' <= captured' /\ \A b \in Buffers : frame'[b] <= captured'
      BY <1>0, <3>3, <3>4
    <3>6. ASSUME NEW i \in 1 .. Len(filled'), NEW j \in 1 .. Len(filled'), i < j
          PROVE  frame'[filled'[i]] < frame'[filled'[j]]
      <4>1. i \in 1 .. Len(filled)
        BY <3>1, <3>6
      <4>2. CASE j \in 1 .. Len(filled)
        BY <3>3, <3>6, <4>1, <4>2 DEF FramesInv
      <4>3. CASE j = Len(filled) + 1
        <5>1. frame[filled[i]] <= captured /\ frame[filled[i]] \in Nat
          BY <3>1, <3>4, <4>1
        <5>2. QED
          BY <3>1, <3>3, <3>4, <4>1, <4>3, <5>1
      <4>4. QED
        BY <3>1, <4>2, <4>3
    <3>7. ASSUME NEW i \in 1 .. Len(filled')
          PROVE  /\ displayed' < frame'[filled'[i]]
                 /\ \A b \in Held' : frame'[b] < frame'[filled'[i]]
      <4>1. \A b \in Held : b \in Buffers /\ b # b1 /\ frame'[b] = frame[b]
        BY <2>2, <3>3, <1>0 DEF PlacesInv
      <4>2. CASE i \in 1 .. Len(filled)
        BY <1>0, <1>1, <3>3, <4>1, <4>2 DEF FramesInv
      <4>3. CASE i = Len(filled) + 1
        <5>1. frame'[filled'[i]] = captured + 1
          BY <4>3, <3>1, <3>3
        <5>2. QED
          BY <1>0, <1>1, <3>4, <4>1, <5>1
      <4>4. QED
        BY <3>1, <4>2, <4>3
    <3>8. \A b \in Held' : displayed' < frame'[b]
      <4>1. \A b \in Held : b \in Buffers /\ b # b1 /\ frame'[b] = frame[b]
        BY <2>2, <3>3, <1>0 DEF PlacesInv
      <4>2. QED
        BY <1>0, <1>1, <4>1 DEF FramesInv
    <3>9. QED
      BY <3>5, <3>6, <3>7, <3>8 DEF FramesInv
  <2>8. QED
    BY <2>4, <2>5, <2>6, <2>7
<1>4. QED
  BY <1>2, <1>3

LEMMA DequeueStep ==
  ASSUME CameraInv, DQBUF
  PROVE  CameraInv'
<1> USE DEF CameraInv
<1>0. /\ camera = "dqbuf" /\ camera' = "copy" /\ Held = {}
      /\ UNCHANGED <<queued, frame, captured, displayed>>
  BY DEF DQBUF, Held
<1>1. CASE filled # <<>> /\ index' = GivenOut /\ filled' = Tail(filled) /\ given' = TRUE
  <2> DEFINE b1 == Head(filled)
  <2>1. /\ b1 \in Buffers /\ b1 = filled[1] /\ filled' \in Seq(Buffers)
        /\ Len(filled) \in Nat \ {0} /\ Len(filled') = Len(filled) - 1
        /\ \A i \in 1 .. Len(filled') : filled'[i] = filled[i + 1]
        /\ Once(filled') /\ ToSet(filled') = ToSet(filled) \ {b1} /\ b1 \in ToSet(filled)
    BY <1>1, TailOnce DEF CameraTypeOK, PlacesInv
  <2>2. index' = b1 /\ Held' = {b1}
    BY <1>0, <1>1 DEF Held, GivenOut
  <2>3. CameraTypeOK'
    BY <1>0, <1>1, <2>1, <2>2, CameraAssumption DEF CameraTypeOK, Buffers
  <2>4. SetupInv'
    BY <1>0 DEF SetupInv
  <2>5. PlacesInv'
    <3>1. /\ ToSet(queued) \cap ToSet(filled) = {} /\ Once(queued)
          /\ ToSet(queued) \cup ToSet(filled) = Buffers
      BY <1>0 DEF PlacesInv
    <3>2. ToSet(queued)' = ToSet(queued)
      BY <1>0
    <3>3. /\ (ToSet(queued) \cup ToSet(filled) \cup Held = Buffers)'
          /\ (Held \cap (ToSet(queued) \cup ToSet(filled)) = {})'
          /\ (ToSet(queued) \cap ToSet(filled) = {})'
      BY <2>1, <2>2, <3>1, <3>2
    <3>4. QED
      BY <1>0, <2>1, <2>2, <3>1, <3>3 DEF PlacesInv
  <2>6. FramesInv'
    <3>1. \A i \in 1 .. Len(filled') : i + 1 \in 1 .. Len(filled) /\ 1 < i + 1 /\ 1 \in 1 .. Len(filled)
      BY <2>1
    <3>2. \A i, j \in 1 .. Len(filled') : i < j => frame'[filled'[i]] < frame'[filled'[j]]
      <4>1. SUFFICES ASSUME NEW i \in 1 .. Len(filled'), NEW j \in 1 .. Len(filled'), i < j
                     PROVE  frame'[filled'[i]] < frame'[filled'[j]]
        OBVIOUS
      <4>2. i + 1 < j + 1
        BY <4>1
      <4>3. QED
        BY <1>0, <2>1, <3>1, <4>2 DEF FramesInv
    <3>3. \A i \in 1 .. Len(filled') : /\ displayed' < frame'[filled'[i]]
                                       /\ frame'[b1] < frame'[filled'[i]]
      BY <1>0, <2>1, <3>1 DEF FramesInv
    <3>4. displayed' < frame'[b1]
      <4>1. 1 \in 1 .. Len(filled)
        BY <2>1
      <4>2. QED
        BY <1>0, <2>1, <4>1 DEF FramesInv
    <3>5. QED
      BY <1>0, <2>2, <3>2, <3>3, <3>4 DEF FramesInv
  <2>7. QED
    BY <2>3, <2>4, <2>5, <2>6
<1>2. CASE given' = FALSE /\ UNCHANGED <<index, filled>>
  <2>1. Held' = {}
    BY <1>2 DEF Held
  <2>2. CameraTypeOK' /\ SetupInv'
    BY <1>0, <1>2 DEF CameraTypeOK, SetupInv
  <2>3. PlacesInv' /\ FramesInv'
    BY <1>0, <1>2, <2>1 DEF PlacesInv, FramesInv
  <2>4. QED
    BY <2>2, <2>3
<1>3. QED
  BY <1>1, <1>2 DEF DQBUF

LEMMA EnqueueStep ==
  ASSUME CameraInv, QBUF
  PROVE  CameraInv'
<1> USE DEF CameraInv
<1>0. /\ camera = "copy" /\ camera' = "dqbuf" /\ Held' = {} /\ index \in Buffers
      /\ UNCHANGED <<filled, frame, captured, given>>
      /\ displayed' = IF given THEN frame[index] ELSE displayed
      /\ index' = IF index + 1 \in Buffers THEN index + 1 ELSE 0
  BY DEF QBUF, Held, PlacesInv
<1>1. index' \in Buffers /\ index' \in Nat
  BY <1>0, CameraAssumption DEF Buffers
<1>2. /\ queued' \in Seq(Buffers) /\ Once(queued)'
      /\ ToSet(queued)' = ToSet(queued) \cup Held
  <2>1. CASE given
    <3>1. Held = {index} /\ index \notin ToSet(queued) \cup ToSet(filled)
      BY <1>0, <2>1 DEF Held, PlacesInv
    <3>2. queued' = Append(queued, index)
      BY <3>1 DEF QBUF
    <3>3. QED
      BY <1>0, <3>1, <3>2, AppendOnce DEF CameraTypeOK, PlacesInv
  <2>2. CASE ~given
    <3>1. Held = {}
      BY <2>2 DEF Held
    <3>2. index \in ToSet(queued) \cup ToSet(filled)
      BY <1>0, <3>1 DEF PlacesInv
    <3>3. queued' = queued
      BY <3>2 DEF QBUF
    <3>4. QED
      BY <3>1, <3>3 DEF CameraTypeOK, PlacesInv
  <2>3. QED
    BY <2>1, <2>2
<1>3. ToSet(filled)' = ToSet(filled)
  BY <1>0
<1>4. CameraTypeOK'
  BY <1>0, <1>1, <1>2 DEF CameraTypeOK
<1>5. SetupInv'
  BY <1>0 DEF SetupInv
<1>6. PlacesInv'
  <2>1. /\ ToSet(queued) \cap ToSet(filled) = {} /\ Once(filled)
        /\ ToSet(queued) \cup ToSet(filled) \cup Held = Buffers
        /\ Held \cap (ToSet(queued) \cup ToSet(filled)) = {}
    BY <1>0 DEF PlacesInv
  <2>2. /\ (ToSet(queued) \cap ToSet(filled) = {})'
        /\ (ToSet(queued) \cup ToSet(filled) \cup Held = Buffers)'
        /\ (Held \cap (ToSet(queued) \cup ToSet(filled)) = {})'
        /\ Once(filled)'
    BY <1>0, <1>2, <1>3, <2>1
  <2>3. QED
    BY <1>1, <1>2, <2>2 DEF PlacesInv
<1>7. FramesInv'
  <2>1. given => Held = {index}
    BY <1>0 DEF Held
  <2>2. displayed' <= captured'
    BY <1>0 DEF FramesInv
  <2>3. \A i \in 1 .. Len(filled) : displayed' < frame[filled[i]]
    BY <1>0, <2>1 DEF FramesInv
  <2>4. QED
    BY <1>0, <2>2, <2>3 DEF FramesInv
<1>8. QED
  BY <1>4, <1>5, <1>6, <1>7

LEMMA CameraInvShows == CameraInv => CameraShowsInOrder
<1> SUFFICES ASSUME CameraInv, camera \in {"dqbuf", "copy"} PROVE CameraShowsInOrder
  BY DEF CameraShowsInOrder
<1> USE DEF CameraInv
<1>1. IsInjective(queued \o filled)
  BY ConcatOnce DEF CameraTypeOK, PlacesInv
<1>2. /\ ToSet(queued) \cup ToSet(filled) \cup Held = Buffers
      /\ Held \cap (ToSet(queued) \cup ToSet(filled)) = {}
      /\ \A b \in Held : frame[b] > displayed
  <2>1. \A b \in Held : displayed < frame[b] /\ frame[b] \in Nat /\ displayed \in Nat
    BY DEF PlacesInv, FramesInv, CameraTypeOK
  <2>2. QED
    BY <2>1 DEF PlacesInv
<1>3. QED
  BY <1>1, <1>2 DEF CameraShowsInOrder, Held

(* The frames are shown in the order in which they were taken, from buffers *)
(* the driver does not have, and no buffer gets lost: for any number of     *)
(* buffers and any failing VIDIOC_DQBUF (v4l2_read_data).                   *)
THEOREM FramesShownInOrder == CameraSpec => []CameraShowsInOrder
<1>1. CameraInit => CameraInv
  BY CameraInitInv
<1>2. CameraInv /\ [CameraNext]_cameraVars => CameraInv'
  <2> SUFFICES ASSUME CameraInv, [CameraNext]_cameraVars PROVE CameraInv'
    OBVIOUS
  <2>1. CASE UNCHANGED cameraVars
    BY <2>1 DEF cameraVars, CameraInv, CameraTypeOK, SetupInv, PlacesInv, FramesInv, Held
  <2>2. CASE CameraNext
    BY <2>2, CameraSetupStep, CaptureStep, DequeueStep, EnqueueStep DEF CameraNext
  <2>3. QED
    BY <2>1, <2>2
<1>3. QED
  BY <1>1, <1>2, CameraInvShows, PTL DEF CameraSpec
-----------------------------------------------------------------------------
(* ThreadDemos.                                                             *)
CondTypeOK == shared \in Nat /\ DOMAIN stage = AllThreads

CondInv == CondTypeOK /\ NoLostWakeup

LEMMA CondThreads == "main" \in AllThreads /\ Consumers \subseteq AllThreads
BY DEF AllThreads

LEMMA ReachKeeps ==
  ASSUME CondTypeOK, NEW t, NEW label, Reach(t, label)
  PROVE  /\ DOMAIN stage' = AllThreads
         /\ \A u \in AllThreads : stage'[u] = IF u = t THEN label ELSE stage[u]
BY DEF CondTypeOK, Reach

\* A consumer that does not go to sleep leaves fewer waiters.
LEMMA AwakeConsumer ==
  ASSUME CondInv, NEW c \in Consumers, NEW label, label # "waiting", Reach(c, label),
         shared' \in Nat, demo' = demo
  PROVE  CondInv'
<1>1. DOMAIN stage' = AllThreads /\ stage'[c] = label
  BY ReachKeeps, CondThreads DEF CondInv
<1>2. c \notin Waiters'
  BY <1>1 DEF Waiters
<1>3. QED
  BY <1>1, <1>2 DEF CondInv, CondTypeOK, NoLostWakeup

LEMMA MainStep == CondInv /\ (Produce \/ Signal) => CondInv'
<1> SUFFICES ASSUME CondInv, Produce \/ Signal PROVE CondInv'
  OBVIOUS
<1>0. stage.main = stage["main"] /\ stage'.main = stage'["main"] /\ CondTypeOK
  BY DEF CondInv
<1>1. ASSUME NEW label, Reach("main", label)
      PROVE  /\ DOMAIN stage' = AllThreads /\ stage'["main"] = label /\ Waiters' = Waiters
  <2>1. /\ DOMAIN stage' = AllThreads
        /\ \A u \in AllThreads : stage'[u] = IF u = "main" THEN label ELSE stage[u]
    BY <1>0, <1>1, ReachKeeps
  <2>2. \A c \in Consumers : stage'[c] = stage[c]
    BY <2>1, CondThreads DEF Consumers
  <2>3. QED
    BY <2>1, <2>2, CondThreads DEF Waiters
<1>2. CASE Produce
  <2>1. CASE stage["main"] = "lock" /\ Reach("main", "count") /\ UNCHANGED shared
    BY <1>0, <1>1, <1>2, <2>1 DEF Produce, CondInv, CondTypeOK, NoLostWakeup
  <2>2. CASE stage["main"] = "count" /\ shared' = shared + 1 /\ Reach("main", "unlock")
    BY <1>0, <1>1, <1>2, <2>2 DEF Produce, CondInv, CondTypeOK, NoLostWakeup
  <2>3. CASE stage["main"] = "unlock" /\ Reach("main", "signal") /\ UNCHANGED shared
    BY <1>0, <1>1, <1>2, <2>3 DEF Produce, CondInv, CondTypeOK, NoLostWakeup
  <2>4. QED
    BY <1>0, <1>2, <2>1, <2>2, <2>3 DEF Produce
<1>3. CASE Signal
  <2>1. shared' = shared /\ demo' = demo
    BY <1>3 DEF Signal
  <2>2. CASE Waiters = {} /\ Reach("main", "lock")
    BY <1>0, <1>1, <2>1, <2>2 DEF Consumers, CondInv, CondTypeOK, NoLostWakeup
  <2>3. CASE \E c \in Waiters : stage' = [stage EXCEPT !.main = "lock", ![c] = "lock"]
    <3>1. PICK c \in Consumers : stage' = [stage EXCEPT !.main = "lock", ![c] = "lock"]
      BY <2>3 DEF Waiters
    <3>2. DOMAIN stage' = AllThreads /\ stage'[c] = "lock"
      BY <1>0, <3>1, CondThreads DEF CondTypeOK
    <3>3. c \notin Waiters'
      BY <3>2 DEF Waiters
    <3>4. QED
      BY <1>0, <2>1, <3>2, <3>3 DEF CondInv, CondTypeOK, NoLostWakeup
  <2>4. QED
    BY <1>3, <2>2, <2>3 DEF Signal
<1>4. QED
  BY <1>2, <1>3

LEMMA ConsumerStep ==
  ASSUME CondInv, NEW c \in Consumers,
         \/ LockToConsume(c) \/ WaitForMore(c) \/ Consume(c)
         \/ DoneConsuming(c) \/ WakeUnasked(c)
  PROVE  CondInv'
<1>0. CondTypeOK
  BY DEF CondInv
<1>1. CASE WaitForMore(c)
  <2>1. DOMAIN stage' = AllThreads
    BY <1>0, <1>1, ReachKeeps DEF WaitForMore, CondWait
  <2>2. shared = 0 /\ shared' = 0
    BY <1>1 DEF WaitForMore, CondWait
  <2>3. QED
    BY <2>1, <2>2 DEF CondInv, CondTypeOK, NoLostWakeup
<1>2. CASE Consume(c)
  BY <1>2, AwakeConsumer DEF Consume
<1>3. CASE LockToConsume(c) \/ DoneConsuming(c) \/ WakeUnasked(c)
  BY <1>0, <1>3, AwakeConsumer DEF LockToConsume, DoneConsuming, WakeUnasked, CondTypeOK
<1>4. QED
  BY <1>1, <1>2, <1>3

\* The other demos share the variables and not the property.
DemoInv == demo = "cond" => CondInv

LEMMA DemoStep == DemoInv /\ [ThreadNext]_threadVars => DemoInv'
<1> SUFFICES ASSUME DemoInv, [ThreadNext]_threadVars, demo' = "cond" PROVE CondInv'
  BY DEF DemoInv
<1>1. CASE UNCHANGED threadVars
  BY <1>1 DEF threadVars, DemoInv, CondInv, CondTypeOK, NoLostWakeup, Waiters
<1>2. CASE Produce \/ Signal
  BY <1>2, MainStep DEF Produce, Signal, DemoInv
<1>3. ASSUME NEW c \in Consumers,
             \/ LockToConsume(c) \/ WaitForMore(c) \/ Consume(c)
             \/ DoneConsuming(c) \/ WakeUnasked(c)
      PROVE  CondInv'
  <2>1. demo = "cond"
    BY <1>3 DEF LockToConsume, WaitForMore, Consume, DoneConsuming, WakeUnasked
  <2>2. QED
    BY <1>3, <2>1, ConsumerStep DEF DemoInv
<1>4. ASSUME NEW t \in Threads, Scheduled(t) PROVE FALSE
  BY <1>4 DEF Scheduled, ThreadStep, LockOwn, TryOther, Unlocking, ReadShared, WriteShared,
              EnterTurn, LeaveTurn
<1>5. QED
  BY <1>1, <1>2, <1>3, <1>4 DEF ThreadNext

(* For any number of items and of turns: when something is available and    *)
(* both consumers wait, the producer is still about to signal               *)
(* (8_pthread_cond.c).                                                      *)
THEOREM WakeupNeverLost == ThreadSpec => []NoLostWakeup
<1>1. ThreadInit => DemoInv
  BY DEF ThreadInit, DemoInv, CondInv, CondTypeOK, NoLostWakeup
<1>2. DemoInv => NoLostWakeup
  BY DEF DemoInv, CondInv, NoLostWakeup
<1>3. QED
  BY <1>1, <1>2, DemoStep, PTL DEF ThreadSpec
-----------------------------------------------------------------------------
(* AsyncInput.  Before the handler is set up nothing is pending, and all     *)
(* that has come is old; from then on InputIsSignalled itself is inductive,  *)
(* as a program is only ever sent the signal that it handles, or ends.       *)
Codes == {"POLL_IN", "other"}
AsyncInv ==
  /\ reader \in {"uart", "rtsig", "sigio"}
  /\ unread \in Nat /\ old \in Nat /\ rt \in Seq(Codes) /\ sigio \in BOOLEAN
  /\ setup \in {"opened", "async", "owned", "setsig"} => rt = <<>> /\ sigio = FALSE /\ unread <= old
  /\ setup = "ready" /\ reader = "sigio" => rt = <<>>
  /\ setup = "ready" /\ reader # "sigio" => sigio = FALSE
  /\ setup \in {"opened", "async", "owned", "setsig", "ready", "killed", "closed"}
  /\ InputIsSignalled

LEMMA PollsFinite ==
  ASSUME NEW s \in Seq(Codes)
  PROVE  IsFiniteSet(Polls(s)) /\ Cardinality(Polls(s)) \in Nat
<1>1. Len(s) \in Nat /\ Polls(s) \in SUBSET (1 .. Len(s))
  BY DEF Polls
<1>2. IsFiniteSet(1 .. Len(s))
  BY <1>1, FS_Interval
<1>3. IsFiniteSet(Polls(s))
  BY <1>1, <1>2, FS_Subset
<1>4. QED
  BY <1>3, FS_CardinalityType

\* A signal that is queued ...
LEMMA PollQueued ==
  ASSUME NEW s \in Seq(Codes)
  PROVE  /\ Cardinality(Polls(Append(s, "POLL_IN"))) = Cardinality(Polls(s)) + 1
         /\ Polls(Append(s, "other")) = Polls(s)
<1>1. Len(s) \in Nat /\ DOMAIN s = 1 .. Len(s)
  OBVIOUS
<1>2. ASSUME NEW c
      PROVE  /\ DOMAIN Append(s, c) = 1 .. Len(s) + 1
             /\ \A i \in 1 .. Len(s) : Append(s, c)[i] = s[i]
             /\ Append(s, c)[Len(s) + 1] = c
  BY <1>1
<1>3. Polls(Append(s, "other")) = Polls(s)
  BY <1>1, <1>2 DEF Polls
<1>4. Polls(Append(s, "POLL_IN")) = Polls(s) \cup {Len(s) + 1}
  BY <1>1, <1>2 DEF Polls
<1>5. Len(s) + 1 \notin Polls(s)
  BY <1>1 DEF Polls
<1>6. QED
  BY <1>3, <1>4, <1>5, PollsFinite, FS_AddElement

\* ... and one that is handled.
LEMMA PollHandled ==
  ASSUME NEW s \in Seq(Codes), s # <<>>
  PROVE  Cardinality(Polls(s)) =
           Cardinality(Polls(Tail(s))) + (IF Head(s) = "POLL_IN" THEN 1 ELSE 0)
<1> DEFINE t == Tail(s)
           f == [i \in Polls(t) |-> i + 1]
<1>1. /\ Len(s) \in Nat \ {0} /\ DOMAIN s = 1 .. Len(s) /\ Head(s) = s[1]
      /\ t \in Seq(Codes) /\ DOMAIN t = 1 .. Len(s) - 1
      /\ \A i \in 1 .. Len(s) - 1 : t[i] = s[i + 1]
  OBVIOUS
<1> HIDE DEF t
<1>2. \A i \in Polls(t) : i \in Nat /\ i + 1 \in Polls(s) \ {1}
  BY <1>1 DEF Polls
<1>3. \A j \in Polls(s) \ {1} : j - 1 \in Polls(t) /\ (j - 1) + 1 = j
  BY <1>1 DEF Polls
<1>4. f \in Bijection(Polls(t), Polls(s) \ {1})
  <2>1. f \in [Polls(t) -> Polls(s) \ {1}]
    BY <1>2
  <2>2. \A i, j \in Polls(t) : f[i] = f[j] => i = j
    BY <1>2
  <2>3. \A j \in Polls(s) \ {1} : \E i \in Polls(t) : f[i] = j
    BY <1>3
  <2>4. QED
    BY <2>1, <2>2, <2>3 DEF Bijection, Injection, Surjection, IsInjective
<1>5. Cardinality(Polls(s) \ {1}) = Cardinality(Polls(t))
  <2>1. ExistsBijection(Polls(t), Polls(s) \ {1})
    BY <1>4 DEF ExistsBijection
  <2>2. QED
    BY <1>1, <2>1, PollsFinite, FS_Bijection
<1>6. IsFiniteSet(Polls(s)) /\ Cardinality(Polls(s)) \in Nat
  BY PollsFinite
<1>7. Cardinality(Polls(s) \ {1}) = IF 1 \in Polls(s) THEN Cardinality(Polls(s)) - 1
                                   ELSE Cardinality(Polls(s))
  BY <1>6, FS_RemoveElement
<1>8. 1 \in Polls(s) <=> Head(s) = "POLL_IN"
  BY <1>1 DEF Polls
<1>9. QED
  BY <1>5, <1>6, <1>7, <1>8 DEF t

\* A signal stands for as much input as one read takes.
LEMMA OnePromiseMore ==
  ASSUME NEW h \in Nat, NEW g \in Nat, NEW u \in Nat, NEW o \in Nat, NEW n \in Nat,
         u <= o + h * g
  PROVE  /\ u + n <= (IF n > h THEN o + n - h ELSE o) + h * (g + 1)
         /\ u + n <= (o + n) + h * g
         /\ (IF n > h THEN o + n - h ELSE o) \in Nat
<1>1. h * (g + 1) = h * g + h /\ h * g \in Nat
  OBVIOUS
<1>2. ASSUME NEW x \in Nat, u <= o + x
      PROVE  /\ u + n <= (IF n > h THEN o + n - h ELSE o) + (x + h)
             /\ u + n <= (o + n) + x
             /\ (IF n > h THEN o + n - h ELSE o) \in Nat
  BY <1>2
<1>3. QED
  BY <1>1, <1>2

LEMMA OnePromiseLess ==
  ASSUME NEW h \in Nat, NEW g \in Nat, NEW u \in Nat, NEW o \in Nat,
         u <= o + h * (g + 1)
  PROVE  u - SmallerOf(u, h) \in Nat /\ u - SmallerOf(u, h) <= o + h * g
<1>1. h * (g + 1) = h * g + h /\ h * g \in Nat
  OBVIOUS
<1>2. ASSUME NEW x \in Nat, u <= o + (x + h)
      PROVE  u - SmallerOf(u, h) \in Nat /\ u - SmallerOf(u, h) <= o + x
  BY <1>2 DEF SmallerOf
<1>3. QED
  BY <1>1, <1>2

LEMMA AsyncInitial == AsyncInit => AsyncInv
<1> SUFFICES ASSUME AsyncInit PROVE AsyncInv
  OBVIOUS
<1>1. rt = <<>> /\ sigio = FALSE /\ unread = 0 /\ old = 0 /\ setup = "opened"
  BY DEF AsyncInit
<1>2. rt \in Seq(Codes)
  BY <1>1
<1>3. reader \in {"uart", "rtsig", "sigio"}
  BY DEF AsyncInit
<1>4. unread \in Nat /\ old \in Nat /\ sigio \in BOOLEAN /\ unread <= old
  <2>1. unread = 0 /\ old = 0
    BY <1>1
  <2>2. sigio \in BOOLEAN
    BY <1>1
  <2>3. QED
    BY <2>1, <2>2
<1>5. InputIsSignalled
  BY <1>1 DEF InputIsSignalled
<1>6. setup # "ready" /\ setup \in {"opened", "async", "owned", "setsig", "ready", "killed", "closed"}
  BY <1>1
<1>7. QED
  BY <1>1, <1>2, <1>3, <1>4, <1>5, <1>6, Zenon DEF AsyncInv

LEMMA ReadsAre == AsyncInv => HandlerReads \in Nat /\ Promises \in Nat
<1>1. AsyncInv => HandlerReads \in Nat
  BY AsyncAssumption DEF AsyncInv, HandlerReads
<1>2. AsyncInv => Promises \in Nat
  BY PollsFinite DEF AsyncInv, Promises
<1>3. QED
  BY <1>1, <1>2

LEMMA SetUpStep == AsyncInv /\ SetUp => AsyncInv'
<1> SUFFICES ASSUME AsyncInv, SetUp PROVE AsyncInv'
  OBVIOUS
<1>1. /\ setup \in {"opened", "async", "owned", "setsig"}
      /\ setup' \in {"async", "owned", "setsig", "ready"}
      /\ UNCHANGED <<reader, unread, rt, sigio, old>>
      /\ rt = <<>> /\ sigio = FALSE /\ unread <= old
  BY DEF SetUp, AsyncInv
<1>2. HandlerReads' = HandlerReads /\ Promises' = Promises
  BY <1>1 DEF HandlerReads, Promises
<1>3. Promises = 0
  <2>1. Polls(<<>>) = {}
    BY DEF Polls
  <2>2. QED
    BY <1>1, <2>1, FS_EmptySet DEF Promises
<1>4. HandlerReads * 0 = 0
  BY ReadsAre
<1>5. InputIsSignalled'
  BY <1>1, <1>2, <1>3, <1>4 DEF InputIsSignalled, AsyncInv
<1>6. QED
  BY <1>1, <1>5 DEF AsyncInv

\* A program that is set up and is sent a signal it handles goes on; any
\* other signal but none at all ends it.
LEMMA WhatIsSent ==
  ASSUME AsyncInv, NEW code \in Codes, Signalled(code), Alive
  PROVE  /\ rt' \in Seq(Codes) /\ sigio' \in BOOLEAN
         /\ \/ setup' = "killed"
            \/ setup \in {"opened", "async"} /\ Sends = "nothing" /\ UNCHANGED <<setup, rt, sigio>>
            \/ /\ setup = "ready" /\ setup' = "ready" /\ reader = "sigio"
               /\ Sends = "SIGIO" /\ rt' = rt /\ sigio' = TRUE
            \/ /\ setup = "ready" /\ setup' = "ready" /\ reader # "sigio"
               /\ Sends = "SIGRTMIN" /\ rt' = Append(rt, code) /\ UNCHANGED sigio
<1>1. rt \in Seq(Codes) /\ sigio \in BOOLEAN /\ Append(rt, code) \in Seq(Codes)
  BY DEF AsyncInv
<1>2. Sends \in {"nothing", "SIGIO", "SIGRTMIN"}
  BY DEF Sends
<1>3. rt' \in Seq(Codes) /\ sigio' \in BOOLEAN
  BY <1>1 DEF Signalled
<1>4. CASE setup \in {"opened", "async"}
  BY <1>1, <1>3, <1>4 DEF Signalled, Sends, Fatal
<1>5. CASE setup \in {"owned", "setsig"}
  BY <1>3, <1>5 DEF Signalled, Sends, Fatal
<1>6. CASE setup = "ready"
  <2>1. Sends \in {"SIGIO", "SIGRTMIN"} /\ (reader = "sigio" => Sends = "SIGIO")
    BY <1>6 DEF Sends
  <2>2. CASE Sends = "SIGIO"
    BY <1>1, <1>3, <1>6, <2>1, <2>2 DEF Signalled, Fatal
  <2>3. CASE Sends = "SIGRTMIN"
    BY <1>1, <1>3, <1>6, <2>1, <2>3 DEF Signalled, Fatal
  <2>4. QED
    BY <2>1, <2>2, <2>3
<1>7. QED
  BY <1>4, <1>5, <1>6 DEF Alive, AsyncInv

LEMMA ArriveStep ==
  ASSUME AsyncInv, NEW n \in Bursts, Arrive(n)
  PROVE  AsyncInv'
<1>1. n \in Nat /\ HandlerReads \in Nat /\ Promises \in Nat
  BY AsyncAssumption, ReadsAre
<1>2. /\ Signalled("POLL_IN") /\ Alive /\ reader' = reader /\ unread' = unread + n
      /\ old' = IF Sends = "nothing" \/ (Sends = "SIGIO" /\ sigio) THEN old + n
                ELSE IF n > HandlerReads THEN old + n - HandlerReads ELSE old
  BY DEF Arrive
<1>3. unread \in Nat /\ old \in Nat /\ rt \in Seq(Codes) /\ sigio \in BOOLEAN /\ "POLL_IN" \in Codes
  BY DEF AsyncInv, Codes
<1>4. (IF n > HandlerReads THEN old + n - HandlerReads ELSE old) \in Nat
  BY <1>1, <1>3
<1>5. unread' \in Nat /\ old' \in Nat
  BY <1>1, <1>2, <1>3, <1>4
<1>6. HandlerReads' = HandlerReads
  BY <1>2 DEF HandlerReads
<1>7. rt' \in Seq(Codes) /\ sigio' \in BOOLEAN
  BY <1>2, <1>3, WhatIsSent
<1>8. CASE setup' = "killed"
  BY <1>2, <1>5, <1>7, <1>8 DEF AsyncInv, InputIsSignalled
<1>9. CASE setup \in {"opened", "async"} /\ Sends = "nothing" /\ UNCHANGED <<setup, rt, sigio>>
  <2>1. unread' <= old'
    BY <1>1, <1>2, <1>3, <1>9 DEF AsyncInv
  <2>2. QED
    BY <1>2, <1>5, <1>7, <1>9, <2>1 DEF AsyncInv, InputIsSignalled
<1>10. ASSUME setup = "ready", setup' = "ready",
              (reader = "sigio" => rt' = rt) /\ (reader # "sigio" => sigio' = sigio),
              unread' <= old' + HandlerReads * Promises'
       PROVE  AsyncInv'
  BY <1>2, <1>5, <1>6, <1>7, <1>10 DEF AsyncInv, InputIsSignalled
<1>11. CASE /\ setup = "ready" /\ setup' = "ready" /\ reader = "sigio"
            /\ Sends = "SIGIO" /\ rt' = rt /\ sigio' = TRUE
  <2>1. unread <= old + HandlerReads * Promises
    BY <1>11 DEF AsyncInv, InputIsSignalled
  <2>2. CASE sigio = TRUE
    <3>1. Promises' = Promises /\ old' = old + n
      BY <1>2, <1>11, <2>2 DEF Promises
    <3>2. QED
      BY <1>1, <1>2, <1>3, <1>10, <1>11, <2>1, <3>1, OnePromiseMore
  <2>3. CASE sigio = FALSE
    <3>1. Promises' = Promises + 1
      BY <1>3, <1>11, <2>3, PollsFinite DEF Promises
    <3>2. old' = IF n > HandlerReads THEN old + n - HandlerReads ELSE old
      BY <1>2, <1>11, <2>3
    <3>3. QED
      BY <1>1, <1>2, <1>3, <1>10, <1>11, <2>1, <3>1, <3>2, OnePromiseMore
  <2>4. QED
    BY <1>3, <2>2, <2>3
<1>12. CASE /\ setup = "ready" /\ setup' = "ready" /\ reader # "sigio"
            /\ Sends = "SIGRTMIN" /\ rt' = Append(rt, "POLL_IN") /\ UNCHANGED sigio
  <2>1. unread <= old + HandlerReads * Promises
    BY <1>12 DEF AsyncInv, InputIsSignalled
  <2>2. Promises' = Promises + 1
    BY <1>3, <1>12, PollsFinite, PollQueued DEF Promises
  <2>3. old' = IF n > HandlerReads THEN old + n - HandlerReads ELSE old
    BY <1>2, <1>12
  <2>4. QED
    BY <1>1, <1>2, <1>3, <1>10, <1>12, <2>1, <2>2, <2>3, OnePromiseMore
<1>13. QED
  BY <1>2, <1>3, <1>8, <1>9, <1>11, <1>12, WhatIsSent

LEMMA OtherEventStep == AsyncInv /\ OtherEvent => AsyncInv'
<1> SUFFICES ASSUME AsyncInv, OtherEvent PROVE AsyncInv'
  OBVIOUS
<1>1. /\ Signalled("other") /\ Alive /\ UNCHANGED <<reader, unread, old>> /\ "other" \in Codes
      /\ HandlerReads' = HandlerReads
  BY DEF OtherEvent, Codes, HandlerReads
<1>2. /\ unread \in Nat /\ old \in Nat /\ rt \in Seq(Codes) /\ sigio \in BOOLEAN
      /\ HandlerReads \in Nat /\ Promises \in Nat
  BY ReadsAre DEF AsyncInv
<1>3. rt' \in Seq(Codes) /\ sigio' \in BOOLEAN
  BY <1>1, WhatIsSent
<1>4. CASE setup' = "killed"
  BY <1>1, <1>3, <1>4 DEF AsyncInv, InputIsSignalled
<1>5. CASE setup \in {"opened", "async"} /\ Sends = "nothing" /\ UNCHANGED <<setup, rt, sigio>>
  BY <1>1, <1>5 DEF AsyncInv, InputIsSignalled
<1>6. ASSUME setup = "ready", setup' = "ready",
             (reader = "sigio" => rt' = rt) /\ (reader # "sigio" => sigio' = sigio),
             Promises' = Promises \/ Promises' = Promises + 1
      PROVE  AsyncInv'
  <2>1. unread <= old + HandlerReads * Promises
    BY <1>6 DEF AsyncInv, InputIsSignalled
  <2>2. unread + 0 <= (IF 0 > HandlerReads THEN old + 0 - HandlerReads ELSE old) + HandlerReads * (Promises + 1)
    BY <1>2, <2>1, OnePromiseMore
  <2>3. unread <= old + HandlerReads * (Promises + 1)
    BY <1>2, <2>2
  <2>4. unread' <= old' + HandlerReads' * Promises'
    BY <1>1, <1>6, <2>1, <2>3
  <2>5. QED
    BY <1>1, <1>3, <1>6, <2>4 DEF AsyncInv, InputIsSignalled
<1>7. CASE /\ setup = "ready" /\ setup' = "ready" /\ reader = "sigio"
           /\ Sends = "SIGIO" /\ rt' = rt /\ sigio' = TRUE
  <2>1. Promises' = Promises \/ Promises' = Promises + 1
    BY <1>2, <1>7, PollsFinite DEF Promises
  <2>2. QED
    BY <1>6, <1>7, <2>1
<1>8. CASE /\ setup = "ready" /\ setup' = "ready" /\ reader # "sigio"
           /\ Sends = "SIGRTMIN" /\ rt' = Append(rt, "other") /\ UNCHANGED sigio
  <2>1. Promises' = Promises
    BY <1>2, <1>8, PollQueued DEF Promises
  <2>2. QED
    BY <1>6, <1>8, <2>1
<1>9. QED
  BY <1>1, <1>4, <1>5, <1>7, <1>8, WhatIsSent

LEMMA CountedDown ==
  ASSUME setup = "ready", CountDown
  PROVE  setup' \in {"ready", "closed"}
BY DEF CountDown

LEMMA io_handlerStep == AsyncInv /\ io_handler => AsyncInv'
<1> SUFFICES ASSUME AsyncInv, io_handler PROVE AsyncInv'
  OBVIOUS
<1>1. /\ setup = "ready" /\ rt # <<>> /\ rt' = Tail(rt)
      /\ UNCHANGED <<reader, sigio, old>> /\ HandlerReads' = HandlerReads
  BY DEF io_handler, HandlerReads
<1>2. /\ unread \in Nat /\ old \in Nat /\ rt \in Seq(Codes) /\ sigio = FALSE /\ reader # "sigio"
      /\ HandlerReads \in Nat /\ Promises \in Nat /\ Tail(rt) \in Seq(Codes)
      /\ unread <= old + HandlerReads * Promises
  BY <1>1, ReadsAre DEF AsyncInv, InputIsSignalled
<1>3. /\ Promises' \in Nat
      /\ Head(rt) = "POLL_IN" => Promises = Promises' + 1
      /\ Head(rt) # "POLL_IN" => Promises' = Promises
  <2>1. Promises = Cardinality(Polls(rt)) + 0 /\ Promises' = Cardinality(Polls(Tail(rt))) + 0
    BY <1>1, <1>2 DEF Promises
  <2>2. /\ Cardinality(Polls(rt)) \in Nat /\ Cardinality(Polls(Tail(rt))) \in Nat
        /\ Cardinality(Polls(rt)) =
             Cardinality(Polls(Tail(rt))) + (IF Head(rt) = "POLL_IN" THEN 1 ELSE 0)
    BY <1>1, <1>2, PollHandled, PollsFinite
  <2>3. QED
    BY <2>1, <2>2
<1>4. CASE Head(rt) = "POLL_IN"
  <2>1. unread' = unread - SmallerOf(unread, HandlerReads) /\ CountDown
    BY <1>4 DEF io_handler, ReadCodes, ReadSome
  <2>2. Promises = Promises' + 1
    BY <1>3, <1>4
  <2>3. ASSUME NEW g \in Nat, Promises = g + 1
        PROVE  unread' \in Nat /\ unread' <= old + HandlerReads * g
    BY <1>2, <2>1, <2>3, OnePromiseLess
  <2>4. unread' \in Nat /\ unread' <= old + HandlerReads * Promises'
    BY <1>3, <2>2, <2>3
  <2>5. setup' \in {"ready", "closed"}
    BY <1>1, <2>1, CountedDown
  <2>6. QED
    BY <1>1, <1>2, <2>4, <2>5 DEF AsyncInv, InputIsSignalled
<1>5. CASE Head(rt) # "POLL_IN"
  <2>1. UNCHANGED <<unread, setup>>
    BY <1>5 DEF io_handler, ReadCodes
  <2>2. Promises' = Promises
    BY <1>2, <1>3, <1>5
  <2>3. QED
    BY <1>1, <1>2, <2>1, <2>2 DEF AsyncInv, InputIsSignalled
<1>6. QED
  BY <1>4, <1>5

LEMMA sigio_handlerStep == AsyncInv /\ sigio_handler => AsyncInv'
<1> SUFFICES ASSUME AsyncInv, sigio_handler PROVE AsyncInv'
  OBVIOUS
<1>1. /\ setup = "ready" /\ sigio = TRUE /\ reader = "sigio" /\ sigio' = FALSE
      /\ UNCHANGED <<reader, rt, old>> /\ HandlerReads' = HandlerReads
      /\ unread' = unread - SmallerOf(unread, HandlerReads) /\ CountDown
  BY DEF sigio_handler, HandlerReads, ReadSome, AsyncInv
<1>2. /\ unread \in Nat /\ old \in Nat /\ rt \in Seq(Codes)
      /\ HandlerReads \in Nat /\ Promises \in Nat
      /\ unread <= old + HandlerReads * Promises
  BY <1>1, ReadsAre DEF AsyncInv, InputIsSignalled
<1>3. Promises' \in Nat /\ Promises = Promises' + 1
  BY <1>1, <1>2, PollsFinite DEF Promises
<1>4. ASSUME NEW g \in Nat, Promises = g + 1
      PROVE  unread' \in Nat /\ unread' <= old + HandlerReads * g
  BY <1>1, <1>2, <1>4, OnePromiseLess
<1>5. unread' \in Nat /\ unread' <= old + HandlerReads * Promises'
  BY <1>3, <1>4
<1>6. setup' \in {"ready", "closed"}
  BY <1>1, CountedDown
<1>7. QED
  BY <1>1, <1>2, <1>5, <1>6 DEF AsyncInv, InputIsSignalled

\* InputIsSignalled: whatever sizes the reads and the bursts have, however many
\* signals the kernel queues and whatever else they say, a program stays behind
\* its input only by what no signal ever stood for.
THEOREM SignalsAreEnough == AsyncSpec => []InputIsSignalled
<1>1. AsyncInv /\ [AsyncNext]_asyncVars => AsyncInv'
  <2>1. AsyncInv /\ UNCHANGED asyncVars => AsyncInv'
    BY DEF AsyncInv, asyncVars, InputIsSignalled, HandlerReads, Promises
  <2>2. QED
    BY <2>1, SetUpStep, ArriveStep, OtherEventStep, io_handlerStep, sigio_handlerStep DEF AsyncNext
<1>2. AsyncInv => InputIsSignalled
  BY DEF AsyncInv
<1>3. QED
  BY <1>1, <1>2, AsyncInitial, PTL DEF AsyncSpec
-----------------------------------------------------------------------------
Active == {"name", "ready", "body", "close"}

ServerTypeOK ==
  /\ fdTable \in [Fds -> Client \cup {None}]
  /\ backlog \in Seq(Client)
  /\ pc \in [Client -> {"unborn", "begin", "ended"} \cup Active]
  /\ sock \in [Client -> Int] /\ app_sock \in Int
  /\ k \in [Client -> 0 .. Chunks]
  /\ waitsOn \in [Client -> Client \cup {None}]
  /\ server \in {"up", "dead"}
  /\ down \in [Client -> Seq(Int)] /\ ready \in [Client -> Nat]
  /\ cpc \in [Client -> {"off", "name", "body", "success", "killed"}]
  /\ \A t \in Client : /\ pc[t] # "unborn" => app_sock \in Fds
                       /\ pc[t] \in Active => sock[t] \in Fds
  /\ name \in [Client -> Seq(Int)] /\ got \in [Client -> Seq(Int)]

(* A client that waits to be accepted waits once, and has no thread.        *)
BacklogInv ==
  /\ \A i \in DOMAIN backlog : pc[backlog[i]] = "unborn" /\ cpc[backlog[i]] # "off"
  /\ \A i, j \in DOMAIN backlog : backlog[i] = backlog[j] => i = j
  /\ \A c \in Client : cpc[c] = "off" => pc[c] = "unborn"

\* The descriptor a thread was started for, and then works with, is its own.
FdInv(c) ==
  /\ pc[c] = "begin" => \E f \in Fds : fdTable[f] = c
  /\ pc[c] \in Active => sock[c] \in Fds /\ fdTable[sock[c]] = c
  /\ waitsOn[c] \in {None, c}

\* Chunks 1 to k in their order, the first in got, the others on their way.
InOrder(s, from) == \A i \in 1 .. Len(s) : s[i] = from + i
Stream(c) == /\ Len(got[c]) + Len(down[c]) = k[c]
             /\ InOrder(got[c], 0) /\ InOrder(down[c], Len(got[c]))

(* How far the thread and its client have come together: the contents are   *)
(* not sent before the client has read the name and said "ready".           *)
StreamInv(c) ==
  /\ pc[c] \in {"unborn", "begin", "name"} =>
       cpc[c] \in {"off", "name", "killed"} /\ k[c] = 0 /\ down[c] = <<>>
  /\ pc[c] = "ready" => k[c] = 0
  /\ cpc[c] \in {"off", "name"} => got[c] = <<>> /\ ready[c] = 0
  /\ cpc[c] = "name" => /\ pc[c] # "body"
                        /\ down[c] # <<>> => pc[c] = "ready" /\ down[c] = <<Name>>
  /\ cpc[c] = "body" => /\ pc[c] \in {"ready", "body", "close", "ended"}
                        /\ name[c] = <<Name>> /\ Stream(c)
                        /\ pc[c] \in {"close", "ended"} => k[c] = Chunks
  /\ cpc[c] = "success" => /\ name[c] = <<Name>>
                           /\ Len(got[c]) <= Chunks
                           /\ InOrder(got[c], 0)
                           /\ server = "up" => Len(got[c]) = Chunks /\ pc[c] = "ended"

ServesInv == \A c \in Client : FdInv(c) /\ StreamInv(c)

ServerInv == ServerTypeOK /\ BacklogInv /\ (~mixedUp => ServesInv)
-----------------------------------------------------------------------------
\* What is written follows what is on its way.
LEMMA StreamGrows ==
  ASSUME NEW g \in Seq(Int), NEW d \in Seq(Int), NEW n \in Int, Len(g) + Len(d) = n,
         InOrder(d, Len(g))
  PROVE  /\ Len(g) + Len(Append(d, n + 1)) = n + 1
         /\ InOrder(Append(d, n + 1), Len(g))
<1>1. ASSUME NEW e \in Seq(Int), Len(e) = Len(d) + 1, e[Len(d) + 1] = n + 1,
             \A i \in 1 .. Len(d) : e[i] = d[i]
      PROVE  Len(g) + Len(e) = n + 1 /\ InOrder(e, Len(g))
  <2>1. Len(g) + Len(e) = n + 1
    BY <1>1
  <2>2. ASSUME NEW i \in 1 .. Len(e) PROVE e[i] = Len(g) + i
    <3>1. CASE i \in 1 .. Len(d)
      BY <1>1, <3>1 DEF InOrder
    <3>2. CASE i = Len(d) + 1
      <4>1. e[i] = n + 1
        BY <1>1, <3>2, Zenon
      <4>2. Len(g) + i = n + 1
        <5>1. \A x, y, z \in Int : x + y = z => x + (y + 1) = z + 1
          OBVIOUS
        <5>2. Len(g) \in Int /\ Len(d) \in Int
          OBVIOUS
        <5>3. Len(g) + (Len(d) + 1) = n + 1
          BY <5>1, <5>2
        <5>4. QED
          BY <3>2, <5>3, Zenon
      <4>3. QED
        BY <4>1, <4>2, Zenon
    <3>3. QED
      BY <1>1, <3>1, <3>2
  <2>3. QED
    BY <2>1, <2>2 DEF InOrder
<1>2. /\ Append(d, n + 1) \in Seq(Int)
      /\ Len(Append(d, n + 1)) = Len(d) + 1 /\ Append(d, n + 1)[Len(d) + 1] = n + 1
      /\ \A i \in 1 .. Len(d) : Append(d, n + 1)[i] = d[i]
  OBVIOUS
<1>3. QED
  BY <1>1, <1>2

\* What is read moves from the way to the file, in its order.
LEMMA StreamMoves ==
  ASSUME NEW g \in Seq(Int), NEW d \in Seq(Int), NEW n \in 1 .. Len(d),
         InOrder(g, 0), InOrder(d, Len(g))
  PROVE  LET h == g \o SubSeq(d, 1, n)
             r == SubSeq(d, n + 1, Len(d))
         IN  Len(h) + Len(r) = Len(g) + Len(d) /\ InOrder(h, 0) /\ InOrder(r, Len(h))
<1> DEFINE p == SubSeq(d, 1, n)
<1> DEFINE h == g \o p
<1> DEFINE r == SubSeq(d, n + 1, Len(d))
<1>1. p \in Seq(Int) /\ Len(p) = n /\ \A i \in 1 .. n : p[i] = d[i]
  <2>1. \A i \in 1 .. n : d[i] \in Int
    OBVIOUS
  <2>2. /\ p \in Seq(Int) /\ Len(p) = IF 1 <= n THEN n - 1 + 1 ELSE 0
        /\ \A i \in 1 .. n - 1 + 1 : p[i] = d[1 + i - 1]
    BY <2>1, SubSeqProperties
  <2>3. QED
    BY <2>2
<1>2. /\ r \in Seq(Int) /\ Len(r) = Len(d) - n
      /\ \A i \in 1 .. Len(d) - n : r[i] = d[n + i]
  <2>1. \A i \in n + 1 .. Len(d) : d[i] \in Int
    OBVIOUS
  <2>2. /\ r \in Seq(Int) /\ Len(r) = IF n + 1 <= Len(d) THEN Len(d) - (n + 1) + 1 ELSE 0
        /\ \A i \in 1 .. Len(d) - (n + 1) + 1 : r[i] = d[n + 1 + i - 1]
    BY <2>1, SubSeqProperties
  <2> HIDE DEF r
  <2>3. Len(d) \in Nat /\ n \in Nat /\ n <= Len(d)
    OBVIOUS
  <2>4. Len(r) = Len(d) - n
    BY <2>2, <2>3
  <2>5. ASSUME NEW i \in 1 .. Len(d) - n PROVE r[i] = d[n + i]
    <3>1. i \in 1 .. Len(d) - (n + 1) + 1 /\ n + 1 + i - 1 = n + i
      BY <2>3
    <3>2. QED
      BY <2>2, <3>1
  <2>6. QED
    BY <2>2, <2>4, <2>5
<1>3. /\ h \in Seq(Int) /\ Len(h) = Len(g) + n
      /\ \A i \in 1 .. Len(g) + n : h[i] = IF i <= Len(g) THEN g[i] ELSE p[i - Len(g)]
  BY <1>1, ConcatProperties
<1> HIDE DEF p, h, r
<1>4. ASSUME NEW i \in 1 .. Len(h) PROVE h[i] = i
  <2>0. i \in 1 .. Len(g) + n /\ Len(g) \in Nat /\ n \in Nat /\ n <= Len(d)
    BY <1>3
  <2>1. CASE i <= Len(g)
    <3>1. h[i] = g[i] /\ i \in 1 .. Len(g)
      BY <1>3, <2>0, <2>1
    <3>2. g[i] = 0 + i
      BY <3>1 DEF InOrder
    <3>3. QED
      BY <3>1, <3>2
  <2>2. CASE ~(i <= Len(g))
    <3>1. h[i] = p[i - Len(g)]
      BY <1>3, <2>0, <2>2
    <3>2. i - Len(g) \in 1 .. n /\ i - Len(g) \in 1 .. Len(d)
      BY <2>0, <2>2
    <3>3. p[i - Len(g)] = d[i - Len(g)]
      BY <1>1, <3>2
    <3>4. d[i - Len(g)] = Len(g) + (i - Len(g))
      BY <3>2 DEF InOrder
    <3>5. QED
      BY <2>0, <3>1, <3>3, <3>4
  <2>3. QED
    BY <2>1, <2>2
<1>5. \A i \in 1 .. Len(r) : r[i] = Len(h) + i
  BY <1>2, <1>3 DEF InOrder
<1>6. Len(h) + Len(r) = Len(g) + Len(d)
  BY <1>2, <1>3
<1>7. InOrder(h, 0) /\ InOrder(r, Len(h))
  BY <1>4, <1>5 DEF InOrder
<1>8. QED
  BY <1>6, <1>7 DEF p, h, r
-----------------------------------------------------------------------------
LEMMA InitServer == Init => ServerInv
<1> SUFFICES ASSUME Init PROVE ServerInv
  OBVIOUS
<1>1. <<>> \in Seq(Client) /\ <<>> \in Seq(Int) /\ 0 \in 0 .. Chunks
  BY ServerAssumption, EmptySeq DEF ServerAssumption
<1>2. ServerTypeOK
  BY <1>1 DEF Init, ServerTypeOK, None, Active
<1>3. BacklogInv
  BY DEF Init, BacklogInv
<1>4. ServesInv
  BY <1>1 DEF Init, ServesInv, FdInv, StreamInv, Active, None
<1>5. QED
  BY <1>2, <1>3, <1>4 DEF ServerInv

(* What a step does not touch of client c and of its thread.                *)
Mine(c) == <<pc[c], sock[c], k[c], waitsOn[c], down[c], ready[c], cpc[c], name[c], got[c]>>

LEMMA NotMine ==
  ASSUME NEW c \in Client, FdInv(c), StreamInv(c), UNCHANGED Mine(c),
         server' = "up" => server = "up",
         \A f \in Fds : fdTable[f] = c => fdTable'[f] = c
  PROVE  FdInv(c)' /\ StreamInv(c)'
<1>1. FdInv(c)'
  BY DEF FdInv, Mine
<1>2. Stream(c) => Stream(c)'
  BY DEF Stream, Mine
<1>3. StreamInv(c)'
  BY <1>2 DEF StreamInv, Mine
<1>4. QED
  BY <1>1, <1>3

\* A step of one thread or client that leaves the descriptors alone.
LEMMA OthersKeep ==
  ASSUME ServerTypeOK, ServesInv, NEW t \in Client, fdTable' = fdTable,
         server' = "up" => server = "up",
         \A c \in Client \ {t} : UNCHANGED Mine(c)
  PROVE  \A c \in Client \ {t} : FdInv(c)' /\ StreamInv(c)'
BY NotMine DEF ServesInv

LEMMA BacklogKeeps ==
  ASSUME ServerTypeOK, BacklogInv, backlog' = backlog,
         \A c \in Client : /\ pc[c] = "unborn" => pc'[c] = "unborn"
                           /\ cpc[c] # "off" => cpc'[c] # "off"
  PROVE  BacklogInv'
<1>1. \A i \in DOMAIN backlog : backlog[i] \in Client
  BY DEF ServerTypeOK
<1>2. QED
  BY <1>1 DEF BacklogInv

LEMMA AcceptStep == ServerInv /\ Accept => ServerInv'
<1> SUFFICES ASSUME ServerInv, Accept PROVE ServerInv'
  OBVIOUS
<1>0. ServerTypeOK /\ BacklogInv
  BY DEF ServerInv
<1>h. PICK h \in Client : h = Head(backlog)
  BY <1>0 DEF ServerTypeOK, Accept
<1>1. PICK f \in Free : app_sock' = f /\ fdTable' = [fdTable EXCEPT ![f] = h]
  BY <1>h DEF Accept
<1>2. f \in Fds /\ fdTable[f] = None /\ None \notin Client /\ f \in Int
  BY <1>1, ServerAssumption DEF Free, ServerAssumption, None
<1>3. /\ backlog # <<>> /\ backlog' = Tail(backlog) /\ pc' = [pc EXCEPT ![h] = "begin"]
      /\ UNCHANGED <<sock, k, waitsOn, server, down, ready, cpc, name, got, mixedUp>>
  BY <1>h DEF Accept, Goto, wires, clients
<1>4. /\ h \in Client /\ h = backlog[1] /\ Tail(backlog) \in Seq(Client)
      /\ Len(backlog) \in Nat \ {0} /\ Len(Tail(backlog)) = Len(backlog) - 1
      /\ \A i \in 1 .. Len(backlog) - 1 : Tail(backlog)[i] = backlog[i + 1]
  BY <1>0, <1>3, <1>h DEF ServerTypeOK
<1>5. pc[h] = "unborn" /\ cpc[h] # "off"
  <2>1. 1 \in DOMAIN backlog
    BY <1>0, <1>4 DEF ServerTypeOK
  <2>2. QED
    BY <1>0, <1>4, <2>1 DEF BacklogInv
<1>6. ServerTypeOK'
  BY <1>0, <1>1, <1>2, <1>3, <1>4 DEF ServerTypeOK, Active
<1>7. BacklogInv'
  <2>1. \A i \in DOMAIN backlog' : /\ i + 1 \in DOMAIN backlog /\ i \in Int
                                   /\ backlog'[i] = backlog[i + 1] /\ i + 1 # 1
    <3>1. DOMAIN backlog = 1 .. Len(backlog) /\ DOMAIN backlog' = 1 .. Len(backlog')
      BY <1>0, <1>3, <1>4, LenProperties DEF ServerTypeOK
    <3>2. DOMAIN backlog' = 1 .. Len(backlog) - 1
      BY <1>3, <1>4, <3>1
    <3>3. ASSUME NEW n \in Nat \ {0}, NEW i \in 1 .. n - 1
          PROVE  i + 1 \in 1 .. n /\ i \in Int /\ i + 1 # 1
      OBVIOUS
    <3>4. QED
      BY <1>3, <1>4, <3>1, <3>2, <3>3
  <2>2. 1 \in DOMAIN backlog
    BY <1>0, <1>4 DEF ServerTypeOK
  <2>3. \A i \in DOMAIN backlog' : backlog'[i] # h /\ backlog'[i] \in Client
    <3>1. \A i \in DOMAIN backlog : i # 1 => backlog[i] # backlog[1]
      BY <1>0, <2>2 DEF BacklogInv
    <3>2. \A i \in DOMAIN backlog : backlog[i] \in Client
      BY <1>0 DEF ServerTypeOK
    <3>3. QED
      BY <1>4, <2>1, <3>1, <3>2
  <2>4. \A c \in Client : pc'[c] = IF c = h THEN "begin" ELSE pc[c]
    BY <1>0, <1>3 DEF ServerTypeOK
  <2>5. \A i \in DOMAIN backlog' : pc'[backlog'[i]] = "unborn" /\ cpc'[backlog'[i]] # "off"
    BY <1>0, <1>3, <2>1, <2>3, <2>4 DEF BacklogInv
  <2>6. ASSUME NEW i \in DOMAIN backlog', NEW j \in DOMAIN backlog', backlog'[i] = backlog'[j]
        PROVE  i = j
    <3>1. i + 1 = j + 1
      BY <1>0, <2>1, <2>6 DEF BacklogInv
    <3>2. QED
      BY <2>1, <3>1
  <2>7. \A c \in Client : cpc'[c] = "off" => pc'[c] = "unborn"
    BY <1>0, <1>3, <1>5, <2>4 DEF BacklogInv
  <2>8. QED
    BY <2>5, <2>6, <2>7 DEF BacklogInv
<1>8. ASSUME ~mixedUp' PROVE ServesInv'
  <2>0. ServesInv
    BY <1>3, <1>8 DEF ServerInv
  <2>1. ASSUME NEW c \in Client, c # h PROVE FdInv(c)' /\ StreamInv(c)'
    <3>1. UNCHANGED Mine(c)
      BY <1>0, <1>3, <2>1 DEF Mine, ServerTypeOK
    <3>2. \A g \in Fds : fdTable[g] = c => fdTable'[g] = c
      BY <1>0, <1>1, <1>2, <2>1 DEF ServerTypeOK
    <3>3. QED
      BY <1>3, <2>0, <3>1, <3>2, NotMine DEF ServesInv
  <2>2. pc'[h] = "begin"
    BY <1>0, <1>3, <1>4 DEF ServerTypeOK
  <2>3. FdInv(h)'
    <3>1. fdTable'[f] = h
      BY <1>0, <1>1, <1>2 DEF ServerTypeOK
    <3>2. waitsOn'[h] \in {None, h}
      BY <1>3, <1>4, <2>0 DEF ServesInv, FdInv
    <3>3. QED
      BY <1>2, <2>2, <3>1, <3>2 DEF FdInv, Active
  <2>4. StreamInv(h)'
    BY <1>3, <1>4, <1>5, <2>0, <2>2 DEF ServesInv, StreamInv
  <2>5. QED
    BY <1>4, <2>1, <2>3, <2>4 DEF ServesInv
<1>9. QED
  BY <1>6, <1>7, <1>8 DEF ServerInv

LEMMA BeginStep == ASSUME NEW t \in Client, ServerInv, Begin(t) PROVE ServerInv'
<1>0. ServerTypeOK /\ BacklogInv
  BY DEF ServerInv
<1>1. /\ pc[t] = "begin" /\ sock' = [sock EXCEPT ![t] = app_sock]
      /\ UNCHANGED <<app_sock, fdTable, backlog, k, waitsOn, server, down, ready, cpc, name, got>>
  BY DEF Begin, wires, clients
<1>2. PICK label \in {"name", "close"} : pc' = [pc EXCEPT ![t] = label]
  BY DEF Begin, Goto
<1>3. ServerTypeOK'
  BY <1>0, <1>1, <1>2 DEF ServerTypeOK, Active
<1>4. BacklogInv'
  BY <1>0, <1>1, <1>2, BacklogKeeps DEF ServerTypeOK
<1>5. ASSUME ~mixedUp' PROVE ServesInv'
  <2>1. ~mixedUp /\ fdTable[app_sock] = t
    BY <1>5, Zenon DEF Begin
  <2>2. ServesInv
    BY <2>1 DEF ServerInv
  <2>3. \A c \in Client \ {t} : UNCHANGED Mine(c)
    BY <1>0, <1>1, <1>2 DEF Mine, ServerTypeOK
  <2>4. \A c \in Client \ {t} : FdInv(c)' /\ StreamInv(c)'
    BY <1>0, <1>1, <2>2, <2>3, OthersKeep
  <2>5. sock'[t] = app_sock /\ pc'[t] = label /\ app_sock \in Fds
    BY <1>0, <1>1, <1>2 DEF ServerTypeOK
  <2>6. FdInv(t)'
    BY <1>1, <2>1, <2>2, <2>5 DEF ServesInv, FdInv, Active
  <2>7. cpc[t] # "off"
    BY <1>0, <1>1 DEF BacklogInv
  <2>8. StreamInv(t)'
    BY <1>1, <2>2, <2>5, <2>7 DEF ServesInv, StreamInv
  <2>9. QED
    BY <2>4, <2>6, <2>8 DEF ServesInv
<1>6. QED
  BY <1>3, <1>4, <1>5 DEF ServerInv

(* write() by a thread that has its own descriptor: it goes to its client,  *)
(* and only a client that is gone can end the server.                       *)
LEMMA WriteTypes ==
  ASSUME ServerTypeOK, NEW t \in Client, pc[t] \in Active, NEW data \in Int,
         NEW then \in Active, Write(t, data, then), data # Name => k[t] < Chunks
  PROVE  /\ pc' \in [Client -> {"unborn", "begin", "ended"} \cup Active]
         /\ k' \in [Client -> 0 .. Chunks]
         /\ server' \in {"up", "dead"}
         /\ down' \in [Client -> Seq(Int)]
         /\ \A c \in Client \ {t} : pc'[c] = pc[c] /\ k'[c] = k[c]
         /\ pc'[t] \in Active
<1> DEFINE c == fdTable[sock[t]]
<1>1. c \in Client \cup {None}
  BY DEF ServerTypeOK
<1>2. CASE c = None /\ pc' = [pc EXCEPT ![t] = "close"] /\ UNCHANGED <<down, server, k>>
  BY <1>2 DEF ServerTypeOK, Active
<1>3. CASE c # None /\ server' = "dead" /\ UNCHANGED <<pc, down, k>>
  BY <1>3 DEF ServerTypeOK, Active
<1>4. CASE /\ c # None
           /\ down' = IF ClientSide(c) THEN [down EXCEPT ![c] = Append(@, data)] ELSE down
           /\ k' = [k EXCEPT ![t] = IF data = Name THEN @ ELSE @ + 1]
           /\ pc' = [pc EXCEPT ![t] = then] /\ UNCHANGED server
  <2>1. down' \in [Client -> Seq(Int)]
    BY <1>1, <1>4 DEF ServerTypeOK
  <2>2. (IF data = Name THEN k[t] ELSE k[t] + 1) \in 0 .. Chunks
    BY ServerAssumption DEF ServerTypeOK, ServerAssumption
  <2>3. k' \in [Client -> 0 .. Chunks] /\ \A d \in Client \ {t} : k'[d] = k[d]
    BY <1>4, <2>2 DEF ServerTypeOK
  <2>4. QED
    BY <1>4, <2>1, <2>3 DEF ServerTypeOK, Active
<1>5. QED
  BY <1>2, <1>3, <1>4 DEF Write, Goto

LEMMA OwnWrite ==
  ASSUME ServerTypeOK, NEW t \in Client, fdTable[sock[t]] = t, NEW data \in Int,
         NEW then \in Active, Write(t, data, then)
  PROVE  \/ /\ pc'[t] = then /\ server' = server
            /\ k'[t] = IF data = Name THEN k[t] ELSE k[t] + 1
            /\ down'[t] = IF ClientSide(t) THEN Append(down[t], data) ELSE down[t]
            /\ \A c \in Client \ {t} : down'[c] = down[c]
         \/ ~ClientSide(t) /\ server' = "dead" /\ UNCHANGED <<pc, down, k>>
<1>1. t # None
  BY ServerAssumption DEF ServerAssumption, None
<1>2. \/ /\ down' = IF ClientSide(t) THEN [down EXCEPT ![t] = Append(@, data)] ELSE down
         /\ k' = [k EXCEPT ![t] = IF data = Name THEN @ ELSE @ + 1]
         /\ pc' = [pc EXCEPT ![t] = then]
         /\ UNCHANGED server
      \/ ~ClientSide(t) /\ server' = "dead" /\ UNCHANGED <<pc, down, k>>
  BY <1>1 DEF Write, Goto
<1>3. CASE /\ down' = IF ClientSide(t) THEN [down EXCEPT ![t] = Append(@, data)] ELSE down
           /\ k' = [k EXCEPT ![t] = IF data = Name THEN @ ELSE @ + 1]
           /\ pc' = [pc EXCEPT ![t] = then]
           /\ UNCHANGED server
  <2>1. pc'[t] = then /\ k'[t] = IF data = Name THEN k[t] ELSE k[t] + 1
    BY <1>3 DEF ServerTypeOK
  <2>2. /\ down'[t] = IF ClientSide(t) THEN Append(down[t], data) ELSE down[t]
        /\ \A c \in Client \ {t} : down'[c] = down[c]
    <3>1. CASE ClientSide(t)
      BY <1>3, <3>1 DEF ServerTypeOK
    <3>2. CASE ~ClientSide(t)
      BY <1>3, <3>2
    <3>3. QED
      BY <3>1, <3>2
  <2>3. QED
    BY <1>3, <2>1, <2>2
<1>4. QED
  BY <1>2, <1>3

LEMMA SendNameStep ==
  ASSUME NEW t \in Client, ServerInv, server = "up", SendName(t)
  PROVE  ServerInv'
<1>0. ServerTypeOK /\ BacklogInv
  BY DEF ServerInv
<1>1. /\ pc[t] = "name" /\ Write(t, Name, "ready") /\ Name \in Int /\ "ready" \in Active
      /\ UNCHANGED <<app_sock, fdTable, backlog, sock, waitsOn, ready, cpc, name, got, mixedUp>>
  BY DEF SendName, clients, Name, Active
<1>2. pc[t] \in Active
  BY <1>1 DEF Active
<1>3. /\ pc' \in [Client -> {"unborn", "begin", "ended"} \cup Active]
      /\ k' \in [Client -> 0 .. Chunks] /\ server' \in {"up", "dead"}
      /\ down' \in [Client -> Seq(Int)]
      /\ \A c \in Client \ {t} : pc'[c] = pc[c] /\ k'[c] = k[c]
      /\ pc'[t] \in Active
  BY <1>0, <1>1, <1>2, WriteTypes
<1>4. ServerTypeOK'
  BY <1>0, <1>1, <1>2, <1>3 DEF ServerTypeOK
<1>5. BacklogInv'
  <2>1. \A c \in Client : pc[c] = "unborn" => pc'[c] = "unborn"
    BY <1>1, <1>3
  <2>2. QED
    BY <1>0, <1>1, <2>1, BacklogKeeps
<1>6. ASSUME ~mixedUp' PROVE ServesInv'
  <2>0. ServesInv /\ FdInv(t) /\ StreamInv(t)
    BY <1>1, <1>6 DEF ServerInv, ServesInv
  <2>1. fdTable[sock[t]] = t
    BY <1>2, <2>0 DEF FdInv
  <2>2. \/ /\ pc'[t] = "ready" /\ server' = server /\ k'[t] = k[t]
           /\ down'[t] = IF ClientSide(t) THEN Append(down[t], Name) ELSE down[t]
           /\ \A c \in Client \ {t} : down'[c] = down[c]
        \/ ~ClientSide(t) /\ server' = "dead" /\ UNCHANGED <<pc, down, k>>
    BY <1>0, <1>1, <2>1, OwnWrite
  <2>3. \A c \in Client \ {t} : UNCHANGED Mine(c)
    BY <1>1, <1>3, <2>2 DEF Mine
  <2>4. \A c \in Client \ {t} : FdInv(c)' /\ StreamInv(c)'
    BY <1>0, <1>1, <2>0, <2>2, <2>3, OthersKeep
  <2>5. FdInv(t)'
    BY <1>1, <1>2, <1>3, <2>0 DEF FdInv, Active
  <2>6. cpc[t] \in {"name", "killed"} /\ k[t] = 0 /\ down[t] = <<>>
    BY <1>0, <1>1, <2>0 DEF StreamInv, BacklogInv
  <2>7. StreamInv(t)'
    <3>1. CASE server' = "dead" /\ UNCHANGED <<pc, down, k>>
      BY <1>1, <2>0, <2>6, <3>1 DEF StreamInv
    <3>2. CASE cpc[t] = "killed" /\ pc'[t] = "ready" /\ k'[t] = k[t]
      BY <1>1, <2>6, <3>2 DEF StreamInv
    <3>3. CASE cpc[t] = "name" /\ pc'[t] = "ready" /\ k'[t] = k[t] /\ down'[t] = Append(down[t], Name)
      <4>1. down'[t] = <<Name>>
        BY <2>6, <3>3
      <4>2. got[t] = <<>> /\ ready[t] = 0
        BY <2>0, <3>3 DEF StreamInv
      <4>3. QED
        BY <1>1, <2>6, <3>3, <4>1, <4>2 DEF StreamInv
    <3>4. QED
      BY <2>2, <2>6, <3>1, <3>2, <3>3 DEF ClientSide
  <2>8. QED
    BY <2>4, <2>5, <2>7 DEF ServesInv
<1>7. QED
  BY <1>4, <1>5, <1>6 DEF ServerInv

LEMMA AwaitStep == ASSUME NEW t \in Client, ServerInv, AwaitReady(t) PROVE ServerInv'
<1>0. ServerTypeOK /\ BacklogInv
  BY DEF ServerInv
<1>1. /\ pc[t] = "ready" /\ pc[t] \in Active
      /\ UNCHANGED <<app_sock, fdTable, backlog, sock, k, server, down, cpc, name, got, mixedUp>>
  BY DEF AwaitReady, clients, Active
<1>2. /\ pc' \in [Client -> {"unborn", "begin", "ended"} \cup Active]
      /\ waitsOn' \in [Client -> Client \cup {None}] /\ ready' \in [Client -> Nat]
      /\ \A c \in Client \ {t} : pc'[c] = pc[c] /\ waitsOn'[c] = waitsOn[c]
      /\ pc'[t] \in {"ready", "body"}
  <2>1. CASE /\ waitsOn[t] = None /\ fdTable[sock[t]] # None
             /\ waitsOn' = [waitsOn EXCEPT ![t] = fdTable[sock[t]]]
             /\ UNCHANGED <<pc, ready>>
    BY <1>0, <1>1, <2>1 DEF ServerTypeOK
  <2>2. CASE pc' = [pc EXCEPT ![t] = "body"] /\ UNCHANGED <<waitsOn, ready>>
    BY <1>0, <1>1, <2>2 DEF ServerTypeOK, Active
  <2>3. CASE /\ waitsOn[t] # None /\ ready' = [ready EXCEPT ![waitsOn[t]] = 0]
             /\ waitsOn' = [waitsOn EXCEPT ![t] = None] /\ pc' = [pc EXCEPT ![t] = "body"]
    BY <1>0, <1>1, <2>3 DEF ServerTypeOK, Active
  <2>4. QED
    BY <2>1, <2>2, <2>3 DEF AwaitReady, Goto
<1>3. ServerTypeOK'
  BY <1>0, <1>1, <1>2 DEF ServerTypeOK, Active
<1>4. BacklogInv'
  <2>1. \A c \in Client : pc[c] = "unborn" => pc'[c] = "unborn"
    BY <1>1, <1>2
  <2>2. QED
    BY <1>0, <1>1, <2>1, BacklogKeeps
<1>5. ASSUME ~mixedUp' PROVE ServesInv'
  <2>0. ServesInv /\ FdInv(t) /\ StreamInv(t)
    BY <1>1, <1>5 DEF ServerInv, ServesInv
  <2>1. fdTable[sock[t]] = t /\ waitsOn[t] \in {None, t} /\ sock[t] \in Fds /\ t # None
    BY <1>1, <2>0, ServerAssumption DEF FdInv, ServerAssumption, None
  <2>2. \/ /\ waitsOn[t] = None /\ waitsOn' = [waitsOn EXCEPT ![t] = t]
           /\ UNCHANGED <<pc, ready>>
        \/ /\ waitsOn[t] = t /\ ReadReturns(t)
           /\ ready' = [ready EXCEPT ![t] = 0]
           /\ waitsOn' = [waitsOn EXCEPT ![t] = None] /\ pc' = [pc EXCEPT ![t] = "body"]
    BY <2>1 DEF AwaitReady, Goto
  <2>3. /\ \A c \in Client \ {t} : ready'[c] = ready[c]
        /\ waitsOn'[t] \in {None, t}
        /\ ready'[t] \in {0, ready[t]}
    BY <1>0, <2>2 DEF ServerTypeOK
  <2>4. pc'[t] = "body" => ReadReturns(t)
    BY <1>1, <2>2
  <2>5. \A c \in Client \ {t} : UNCHANGED Mine(c)
    BY <1>1, <1>2, <2>3 DEF Mine
  <2>6. \A c \in Client \ {t} : FdInv(c)' /\ StreamInv(c)'
    BY <1>0, <1>1, <2>0, <2>5, OthersKeep
  <2>7. FdInv(t)'
    BY <1>1, <1>2, <2>1, <2>3 DEF FdInv, Active
  <2>8. cpc[t] # "off" /\ k[t] = 0
    BY <1>0, <1>1, <2>0 DEF BacklogInv, StreamInv
  <2>9. pc'[t] = "body" => cpc[t] # "name"
    BY <2>0, <2>4 DEF ReadReturns, ClientSide, StreamInv
  <2>10. Stream(t)' = Stream(t)
    BY <1>1 DEF Stream
  <2>11. cpc[t] = "success" => server # "up"
    BY <1>1, <2>0 DEF StreamInv
  <2>12. StreamInv(t)'
    BY <1>1, <1>2, <2>0, <2>3, <2>8, <2>9, <2>10, <2>11 DEF StreamInv
  <2>13. QED
    BY <2>6, <2>7, <2>12 DEF ServesInv
<1>6. QED
  BY <1>3, <1>4, <1>5 DEF ServerInv

LEMMA SendChunkStep ==
  ASSUME NEW t \in Client, ServerInv, server = "up", SendChunk(t)
  PROVE  ServerInv'
<1>0. ServerTypeOK /\ BacklogInv
  BY DEF ServerInv
<1>1. /\ pc[t] = "body" /\ pc[t] \in Active /\ k[t] \in 0 .. Chunks /\ k[t] + 1 \in Int
      /\ UNCHANGED <<app_sock, fdTable, backlog, sock, waitsOn, ready, cpc, name, got, mixedUp>>
  BY <1>0 DEF SendChunk, clients, Active, ServerTypeOK
<1>2. \/ k[t] < Chunks /\ Write(t, k[t] + 1, "body")
      \/ /\ k[t] = Chunks /\ pc' = [pc EXCEPT ![t] = "close"]
         /\ UNCHANGED <<down, server, k>>
  BY <1>1, ServerAssumption DEF SendChunk, More, Goto, ServerAssumption
<1>3. /\ pc' \in [Client -> {"unborn", "begin", "ended"} \cup Active]
      /\ k' \in [Client -> 0 .. Chunks] /\ server' \in {"up", "dead"}
      /\ down' \in [Client -> Seq(Int)]
      /\ \A c \in Client \ {t} : pc'[c] = pc[c] /\ k'[c] = k[c]
      /\ pc'[t] \in Active
  <2>1. CASE k[t] < Chunks /\ Write(t, k[t] + 1, "body")
    BY <1>0, <1>1, <2>1, WriteTypes DEF Active
  <2>2. CASE pc' = [pc EXCEPT ![t] = "close"] /\ UNCHANGED <<down, server, k>>
    BY <1>0, <2>2 DEF ServerTypeOK, Active
  <2>3. QED
    BY <1>2, <2>1, <2>2
<1>4. ServerTypeOK'
  BY <1>0, <1>1, <1>3 DEF ServerTypeOK
<1>5. BacklogInv'
  <2>1. \A c \in Client : pc[c] = "unborn" => pc'[c] = "unborn"
    BY <1>1, <1>3
  <2>2. QED
    BY <1>0, <1>1, <2>1, BacklogKeeps
<1>6. ASSUME ~mixedUp' PROVE ServesInv'
  <2>0. ServesInv /\ FdInv(t) /\ StreamInv(t)
    BY <1>1, <1>6 DEF ServerInv, ServesInv
  <2>1. fdTable[sock[t]] = t
    BY <1>1, <2>0 DEF FdInv
  <2>2. cpc[t] \in {"body", "killed"}
    <3>1. cpc[t] \in {"off", "name", "body", "success", "killed"}
      BY <1>0 DEF ServerTypeOK
    <3>2. cpc[t] # "off"
      BY <1>0, <1>1 DEF BacklogInv
    <3>3. QED
      BY <1>1, <2>0, <3>1, <3>2 DEF StreamInv
  <2>3. \/ /\ k[t] < Chunks /\ pc'[t] = "body" /\ server' = server /\ k'[t] = k[t] + 1
           /\ down'[t] = IF ClientSide(t) THEN Append(down[t], k[t] + 1) ELSE down[t]
           /\ \A c \in Client \ {t} : down'[c] = down[c]
        \/ ~ClientSide(t) /\ server' = "dead" /\ UNCHANGED <<pc, down, k>>
        \/ k[t] = Chunks /\ pc'[t] = "close" /\ UNCHANGED <<down, server, k>>
    <3>1. CASE k[t] < Chunks /\ Write(t, k[t] + 1, "body")
      <4>1. "body" \in Active /\ k[t] + 1 # Name
        BY <1>1 DEF Active, Name
      <4>2. QED
        BY <1>0, <1>1, <2>1, <3>1, <4>1, OwnWrite
    <3>2. CASE k[t] = Chunks /\ pc' = [pc EXCEPT ![t] = "close"] /\ UNCHANGED <<down, server, k>>
      BY <1>0, <3>2 DEF ServerTypeOK
    <3>3. QED
      BY <1>2, <3>1, <3>2
  <2>4. \A c \in Client \ {t} : UNCHANGED Mine(c)
    BY <1>1, <1>3, <2>3 DEF Mine
  <2>5. \A c \in Client \ {t} : FdInv(c)' /\ StreamInv(c)'
    BY <1>0, <1>1, <2>0, <2>3, <2>4, OthersKeep
  <2>6. FdInv(t)'
    BY <1>1, <1>3, <2>0 DEF FdInv, Active
  <2>7. StreamInv(t)'
    <3>1. CASE cpc[t] = "killed"
      BY <1>1, <2>3, <3>1 DEF StreamInv
    <3>2. CASE cpc[t] = "body"
      <4>1. Stream(t) /\ name[t] = <<Name>>
        BY <2>0, <3>2 DEF StreamInv
      <4>2. CASE k[t] = Chunks /\ pc'[t] = "close" /\ UNCHANGED <<down, server, k>>
        <5>1. Stream(t)'
          BY <1>1, <4>1, <4>2 DEF Stream
        <5>2. QED
          BY <1>1, <3>2, <4>1, <4>2, <5>1 DEF StreamInv
      <4>3. CASE pc'[t] = "body" /\ k'[t] = k[t] + 1 /\ down'[t] = Append(down[t], k[t] + 1)
        <5>1. down[t] \in Seq(Int) /\ got[t] \in Seq(Int) /\ k[t] \in Int
          BY <1>0, <1>1 DEF ServerTypeOK
        <5>2. Len(got[t]) + Len(down[t]) = k[t] /\ InOrder(down[t], Len(got[t]))
          BY <4>1 DEF Stream
        <5>3. /\ Len(got[t]) + Len(Append(down[t], k[t] + 1)) = k[t] + 1
              /\ InOrder(Append(down[t], k[t] + 1), Len(got[t]))
          BY <5>1, <5>2, StreamGrows
        <5>4. Len(got[t]) + Len(down'[t]) = k'[t] /\ InOrder(down'[t], Len(got[t]))
          BY <4>3, <5>3, Zenon
        <5>6. Stream(t)'
          BY <1>1, <4>1, <5>4 DEF Stream
        <5>7. QED
          BY <1>1, <3>2, <4>1, <4>3, <5>6 DEF StreamInv
      <4>4. QED
        BY <2>3, <3>2, <4>2, <4>3 DEF ClientSide
    <3>3. QED
      BY <2>2, <3>1, <3>2
  <2>8. QED
    BY <2>5, <2>6, <2>7 DEF ServesInv
<1>7. QED
  BY <1>4, <1>5, <1>6 DEF ServerInv

LEMMA CloseStep == ASSUME NEW t \in Client, ServerInv, Close(t) PROVE ServerInv'
<1>0. ServerTypeOK /\ BacklogInv
  BY DEF ServerInv
<1>1. /\ pc[t] = "close" /\ pc[t] \in Active
      /\ fdTable' = [fdTable EXCEPT ![sock[t]] = None] /\ pc' = [pc EXCEPT ![t] = "ended"]
      /\ UNCHANGED <<app_sock, backlog, sock, k, waitsOn, server, down, ready,
                     cpc, name, got, mixedUp>>
  BY DEF Close, AfterClose, Closed, Goto, Returns, wires, clients, Active
<1>2. sock[t] \in Fds
  BY <1>0, <1>1 DEF ServerTypeOK
<1>3. pc'[t] = "ended" /\ \A c \in Client \ {t} : pc'[c] = pc[c]
  BY <1>0, <1>1 DEF ServerTypeOK
<1>4. ServerTypeOK'
  BY <1>0, <1>1, <1>2 DEF ServerTypeOK, Active
<1>5. BacklogInv'
  <2>1. \A c \in Client : pc[c] = "unborn" => pc'[c] = "unborn"
    BY <1>1, <1>3
  <2>2. QED
    BY <1>0, <1>1, <2>1, BacklogKeeps
<1>6. ASSUME ~mixedUp' PROVE ServesInv'
  <2>0. ServesInv /\ FdInv(t) /\ StreamInv(t)
    BY <1>1, <1>6 DEF ServerInv, ServesInv
  <2>1. fdTable[sock[t]] = t
    BY <1>1, <2>0 DEF FdInv
  <2>2. ASSUME NEW c \in Client \ {t} PROVE FdInv(c)' /\ StreamInv(c)'
    <3>1. \A f \in Fds : fdTable[f] = c => fdTable'[f] = c
      BY <1>0, <1>1, <2>1 DEF ServerTypeOK
    <3>2. UNCHANGED Mine(c)
      BY <1>1, <1>3 DEF Mine
    <3>3. QED
      BY <1>1, <2>0, <3>1, <3>2, NotMine DEF ServesInv
  <2>3. FdInv(t)'
    BY <1>1, <1>3, <2>0 DEF FdInv, Active
  <2>4. Stream(t)' = Stream(t)
    BY <1>1 DEF Stream
  <2>5. StreamInv(t)'
    BY <1>1, <1>3, <2>0, <2>4 DEF StreamInv
  <2>6. QED
    BY <2>2, <2>3, <2>5 DEF ServesInv
<1>7. QED
  BY <1>4, <1>5, <1>6 DEF ServerInv
-----------------------------------------------------------------------------
LEMMA ConnectStep == ASSUME NEW t \in Client, ServerInv, Connect(t) PROVE ServerInv'
<1>0. ServerTypeOK /\ BacklogInv
  BY DEF ServerInv
<1>1. /\ cpc[t] = "off" /\ cpc' = [cpc EXCEPT ![t] = "name"] /\ backlog' = Append(backlog, t)
      /\ UNCHANGED <<app_sock, fdTable, pc, sock, k, waitsOn, server, down, ready,
                     name, got, mixedUp>>
  BY DEF Connect, threads, wires
<1>2. cpc'[t] = "name" /\ \A c \in Client \ {t} : cpc'[c] = cpc[c]
  BY <1>0, <1>1 DEF ServerTypeOK
<1>3. ServerTypeOK'
  BY <1>0, <1>1 DEF ServerTypeOK
<1>4. BacklogInv'
  <2>1. /\ DOMAIN backlog = 1 .. Len(backlog) /\ Len(backlog) \in Nat
        /\ DOMAIN backlog' = 1 .. Len(backlog) + 1
        /\ backlog'[Len(backlog) + 1] = t
        /\ \A i \in 1 .. Len(backlog) : backlog'[i] = backlog[i] /\ backlog[i] \in Client
    BY <1>0, <1>1 DEF ServerTypeOK
  <2>2. \A i \in DOMAIN backlog : backlog[i] # t
    BY <1>0, <1>1 DEF BacklogInv
  <2>3. ASSUME NEW i \in DOMAIN backlog'
        PROVE  \/ i \in DOMAIN backlog /\ backlog'[i] = backlog[i]
               \/ i = Len(backlog) + 1 /\ backlog'[i] = t
    BY <2>1
  <2>4. ASSUME NEW i \in DOMAIN backlog'
        PROVE  pc'[backlog'[i]] = "unborn" /\ cpc'[backlog'[i]] # "off"
    BY <1>0, <1>1, <1>2, <2>1, <2>2, <2>3 DEF BacklogInv
  <2>5. \A i, j \in DOMAIN backlog' : backlog'[i] = backlog'[j] => i = j
    BY <1>0, <2>2, <2>3 DEF BacklogInv
  <2>6. \A c \in Client : cpc'[c] = "off" => pc'[c] = "unborn"
    BY <1>0, <1>1, <1>2 DEF BacklogInv
  <2>7. QED
    BY <2>4, <2>5, <2>6 DEF BacklogInv
<1>5. ASSUME ~mixedUp' PROVE ServesInv'
  <2>0. ServesInv /\ FdInv(t) /\ StreamInv(t)
    BY <1>1, <1>5 DEF ServerInv, ServesInv
  <2>1. \A c \in Client \ {t} : UNCHANGED Mine(c)
    BY <1>1, <1>2 DEF Mine
  <2>2. \A c \in Client \ {t} : FdInv(c)' /\ StreamInv(c)'
    BY <1>0, <1>1, <2>0, <2>1, OthersKeep
  <2>3. FdInv(t)'
    BY <1>1, <2>0 DEF FdInv
  <2>4. pc[t] = "unborn"
    BY <1>0, <1>1 DEF BacklogInv
  <2>5. StreamInv(t)'
    BY <1>1, <1>2, <2>0, <2>4 DEF StreamInv
  <2>6. QED
    BY <2>2, <2>3, <2>5 DEF ServesInv
<1>6. QED
  BY <1>3, <1>4, <1>5 DEF ServerInv

\* The other steps of a client leave the backlog and the descriptors alone.
LEMMA ClientStep ==
  ASSUME NEW t \in Client, ServerInv, ServerTypeOK', cpc[t] # "off", cpc'[t] # "off",
         UNCHANGED <<app_sock, fdTable, backlog, pc, sock, k, waitsOn, server, mixedUp>>,
         \A c \in Client \ {t} : UNCHANGED Mine(c),
         ServesInv => StreamInv(t)'
  PROVE  ServerInv'
<1>0. ServerTypeOK /\ BacklogInv
  BY DEF ServerInv
<1>1. \A c \in Client : cpc[c] # "off" => cpc'[c] # "off"
  BY DEF Mine
<1>2. BacklogInv'
  BY <1>0, <1>1, BacklogKeeps
<1>3. ASSUME ~mixedUp' PROVE ServesInv'
  <2>0. ServesInv
    BY <1>3 DEF ServerInv
  <2>1. FdInv(t)'
    BY <2>0 DEF ServesInv, FdInv
  <2>2. \A c \in Client \ {t} : FdInv(c)' /\ StreamInv(c)'
    BY <1>0, <2>0, OthersKeep
  <2>3. QED
    BY <2>0, <2>1, <2>2 DEF ServesInv
<1>4. QED
  BY <1>2, <1>3 DEF ServerInv

LEMMA ReadNameStep == ASSUME NEW t \in Client, ServerInv, ReadName(t) PROVE ServerInv'
<1>0. ServerTypeOK
  BY DEF ServerInv
<1>1. /\ cpc[t] = "name" /\ down[t] # <<>>
      /\ name' = [name EXCEPT ![t] = down[t]] /\ down' = [down EXCEPT ![t] = <<>>]
      /\ ready' = [ready EXCEPT ![t] = 1] /\ cpc' = [cpc EXCEPT ![t] = "body"]
      /\ UNCHANGED <<app_sock, fdTable, backlog, pc, sock, k, waitsOn, server, got, mixedUp>>
  BY DEF ReadName, threads
<1>2. <<>> \in Seq(Int)
  BY EmptySeq
<1>3. ServerTypeOK'
  BY <1>0, <1>1, <1>2 DEF ServerTypeOK
<1>4. \A c \in Client \ {t} : UNCHANGED Mine(c)
  BY <1>0, <1>1 DEF Mine, ServerTypeOK
<1>5. name'[t] = down[t] /\ down'[t] = <<>> /\ cpc'[t] = "body"
  BY <1>0, <1>1 DEF ServerTypeOK
<1>6. ASSUME ServesInv PROVE StreamInv(t)'
  <2>1. StreamInv(t)
    BY <1>6 DEF ServesInv
  <2>2. pc[t] = "ready" /\ down[t] = <<Name>> /\ k[t] = 0 /\ got[t] = <<>>
    BY <1>1, <2>1 DEF StreamInv
  <2>3. Stream(t)'
    <3>1. got'[t] = <<>> /\ k'[t] = 0 /\ down'[t] = <<>>
      BY <1>1, <1>5, <2>2
    <3>2. Len(got'[t]) = 0 /\ Len(down'[t]) = 0
      BY <3>1, EmptySeq
    <3>3. QED
      BY <3>1, <3>2 DEF Stream, InOrder
  <2>4. QED
    BY <1>1, <1>5, <2>2, <2>3 DEF StreamInv
<1>7. QED
  BY <1>1, <1>3, <1>4, <1>5, <1>6, ClientStep

LEMMA KillStep == ASSUME NEW t \in Client, ServerInv, Kill(t) PROVE ServerInv'
<1>0. ServerTypeOK
  BY DEF ServerInv
<1>1. /\ cpc[t] \in {"name", "body"} /\ cpc' = [cpc EXCEPT ![t] = "killed"]
      /\ down' = [down EXCEPT ![t] = <<>>]
      /\ UNCHANGED <<app_sock, fdTable, backlog, pc, sock, k, waitsOn, server, ready,
                     name, got, mixedUp>>
  BY DEF Kill, ClientSide, threads
<1>2. ServerTypeOK'
  BY <1>0, <1>1, EmptySeq DEF ServerTypeOK
<1>3. \A c \in Client \ {t} : UNCHANGED Mine(c)
  BY <1>0, <1>1 DEF Mine, ServerTypeOK
<1>4. cpc'[t] = "killed" /\ down'[t] = <<>>
  BY <1>0, <1>1 DEF ServerTypeOK
<1>5. ServesInv => StreamInv(t)'
  BY <1>1, <1>4 DEF ServesInv, StreamInv
<1>6. QED
  BY <1>1, <1>2, <1>3, <1>4, <1>5, ClientStep

LEMMA ReadBodyStep == ASSUME NEW t \in Client, ServerInv, ReadBody(t) PROVE ServerInv'
<1>0. ServerTypeOK /\ got[t] \in Seq(Int) /\ down[t] \in Seq(Int)
  BY DEF ServerInv, ServerTypeOK
<1>1. /\ cpc[t] = "body"
      /\ UNCHANGED <<app_sock, fdTable, backlog, pc, sock, k, waitsOn, server, ready,
                     name, mixedUp>>
  BY DEF ReadBody, threads
<1>2. CASE down[t] # <<>> /\ UNCHANGED cpc
  <2>1. PICK n \in 1 .. Len(down[t]) :
          /\ got' = [got EXCEPT ![t] = @ \o SubSeq(down[t], 1, n)]
          /\ down' = [down EXCEPT ![t] = SubSeq(@, n + 1, Len(@))]
    BY <1>2 DEF ReadBody
  <2>2. /\ got'[t] = got[t] \o SubSeq(down[t], 1, n)
        /\ down'[t] = SubSeq(down[t], n + 1, Len(down[t]))
    BY <1>0, <2>1 DEF ServerTypeOK
  <2>3. \A c \in Client \ {t} : UNCHANGED Mine(c)
    BY <1>0, <1>1, <1>2, <2>1 DEF Mine, ServerTypeOK
  <2>4. ServerTypeOK'
    <3>1. SubSeq(down[t], 1, n) \in Seq(Int) /\ SubSeq(down[t], n + 1, Len(down[t])) \in Seq(Int)
      BY <1>0
    <3>2. got[t] \o SubSeq(down[t], 1, n) \in Seq(Int)
      BY <1>0, <3>1
    <3>3. got' \in [Client -> Seq(Int)] /\ down' \in [Client -> Seq(Int)]
      BY <1>0, <2>1, <3>1, <3>2 DEF ServerTypeOK
    <3>4. QED
      BY <1>0, <1>1, <1>2, <3>3 DEF ServerTypeOK
  <2>5. ASSUME ServesInv PROVE StreamInv(t)'
    <3>1. StreamInv(t) /\ Stream(t)
      BY <1>1, <2>5 DEF ServesInv, StreamInv
    <3>2. /\ InOrder(got[t], 0) /\ InOrder(down[t], Len(got[t]))
          /\ Len(got[t]) + Len(down[t]) = k[t]
      BY <3>1 DEF Stream
    <3>3. /\ Len(got'[t]) + Len(down'[t]) = Len(got[t]) + Len(down[t])
          /\ InOrder(got'[t], 0) /\ InOrder(down'[t], Len(got'[t]))
      <4> DEFINE h == got[t] \o SubSeq(down[t], 1, n)
      <4> DEFINE r == SubSeq(down[t], n + 1, Len(down[t]))
      <4>1. /\ Len(h) + Len(r) = Len(got[t]) + Len(down[t])
            /\ InOrder(h, 0) /\ InOrder(r, Len(h))
        BY <1>0, <3>2, StreamMoves
      <4>2. got'[t] = h /\ down'[t] = r
        BY <2>2
      <4> HIDE DEF h, r
      <4>3. QED
        BY <4>1, <4>2, Zenon
    <3>4. Stream(t)'
      BY <1>1, <3>2, <3>3 DEF Stream
    <3>5. QED
      BY <1>1, <1>2, <3>1, <3>4 DEF StreamInv
  <2>6. QED
    BY <1>1, <1>2, <2>3, <2>4, <2>5, ClientStep
<1>3. CASE /\ down[t] = <<>> /\ ~ServerSide(t) /\ cpc' = [cpc EXCEPT ![t] = "success"]
           /\ UNCHANGED <<got, down>>
  <2>1. cpc'[t] = "success" /\ \A c \in Client \ {t} : UNCHANGED Mine(c)
    BY <1>0, <1>1, <1>3 DEF Mine, ServerTypeOK
  <2>2. ServerTypeOK'
    BY <1>0, <1>1, <1>3 DEF ServerTypeOK
  <2>3. ASSUME ServesInv PROVE StreamInv(t)'
    <3>0. StreamInv(t) /\ FdInv(t) /\ Stream(t) /\ name[t] = <<Name>>
      BY <1>1, <2>3 DEF ServesInv, StreamInv
    <3>1. Len(got[t]) = k[t] /\ k[t] \in 0 .. Chunks
      <4>1. Len(down[t]) = 0
        BY <1>3, EmptySeq
      <4>2. Len(got[t]) \in Nat /\ k[t] \in 0 .. Chunks
        BY <1>0 DEF ServerTypeOK
      <4>3. QED
        BY <3>0, <4>1, <4>2 DEF Stream
    <3>2. InOrder(got[t], 0)
      BY <3>0 DEF Stream
    <3>3. ASSUME server = "up" PROVE pc[t] = "ended" /\ k[t] = Chunks
      <4>1. \A f \in Fds : fdTable[f] # t
        BY <1>3, <3>3 DEF ServerSide
      <4>2. pc[t] \notin Active /\ pc[t] # "begin"
        BY <3>0, <4>1 DEF FdInv
      <4>3. QED
        BY <1>1, <3>0, <4>2 DEF StreamInv, Active
    <3>4. Len(got[t]) <= Chunks
      BY <3>1, ServerAssumption DEF ServerAssumption
    <3>5. pc[t] \notin {"unborn", "begin", "name"} /\ (pc[t] = "ready" => k[t] = 0)
      BY <1>1, <3>0 DEF StreamInv
    <3>6. QED
      BY <1>1, <1>3, <2>1, <3>0, <3>1, <3>2, <3>3, <3>4, <3>5 DEF StreamInv
  <2>4. QED
    BY <1>1, <2>1, <2>2, <2>3, ClientStep
<1>4. QED
  BY <1>2, <1>3 DEF ReadBody

LEMMA ServerStep == ServerInv /\ [Next]_vars => ServerInv'
<1> SUFFICES ASSUME ServerInv, [Next]_vars PROVE ServerInv'
  OBVIOUS
<1>1. CASE UNCHANGED vars
  BY <1>1 DEF vars, threads, wires, clients, ServerInv, ServerTypeOK, BacklogInv, ServesInv,
              FdInv, StreamInv, Stream
<1>2. CASE Accept
  BY <1>2, AcceptStep
<1>3. ASSUME NEW c \in Client, Thread(c) PROVE ServerInv'
  BY <1>3, BeginStep, SendNameStep, AwaitStep, SendChunkStep, CloseStep DEF Thread
<1>4. ASSUME NEW c \in Client, Connect(c) \/ ReadName(c) \/ ReadBody(c) \/ Kill(c)
      PROVE  ServerInv'
  BY <1>4, ConnectStep, ReadNameStep, ReadBodyStep, KillStep
<1>5. QED
  BY <1>1, <1>2, <1>3, <1>4 DEF Next

LEMMA ServerAlways == Spec => []ServerInv
BY InitServer, ServerStep, PTL DEF Spec

(* For any number of clients and descriptors: as long as each thread read   *)
(* app_sock before the next accept, the descriptor it will close is the one *)
(* of its own client, although the numbers are reused (tcp_recvfile.cpp).   *)
THEOREM ClosesItsOwn == Spec => []OwnDescriptor
<1>1. ServerInv => OwnDescriptor
  BY DEF ServerInv, ServesInv, FdInv, OwnDescriptor, Active
<1>2. QED
  BY <1>1, ServerAlways, PTL

(* For a file of any length, read in parts of any size: a client that comes *)
(* to its end has stored the file under its name and nothing else, shorter  *)
(* only when the server is lost (tcp_recvfile.cpp, tcp_sendfile.cpp).       *)
THEOREM StoresTheFile == Spec => []FileUnderItsName
<1>1. ServerInv => FileUnderItsName
  <2> SUFFICES ASSUME ServerInv, ~mixedUp, NEW c \in Client, cpc[c] = "success"
               PROVE  /\ name[c] = <<Name>>
                      /\ got[c] = SubSeq(WholeFile, 1, Len(got[c]))
                      /\ server = "up" => got[c] = WholeFile
    BY DEF FileUnderItsName
  <2>1. /\ name[c] = <<Name>> /\ Len(got[c]) <= Chunks
        /\ InOrder(got[c], 0)
        /\ server = "up" => Len(got[c]) = Chunks
    BY DEF ServerInv, ServesInv, StreamInv
  <2>2. got[c] \in Seq(Int) /\ Chunks \in Nat /\ Len(got[c]) \in Nat
    BY ServerAssumption DEF ServerInv, ServerTypeOK, ServerAssumption
  <2>3. /\ WholeFile \in Seq(Int) /\ Len(WholeFile) = Chunks
        /\ \A i \in 1 .. Chunks : WholeFile[i] = i
    BY <2>2 DEF WholeFile
  <2> HIDE DEF WholeFile
  <2>4. \A i \in 1 .. Len(got[c]) : WholeFile[i] \in Int /\ WholeFile[i] = i
    BY <2>1, <2>2, <2>3
  <2>5. /\ SubSeq(WholeFile, 1, Len(got[c])) \in Seq(Int)
        /\ Len(SubSeq(WholeFile, 1, Len(got[c]))) = Len(got[c])
        /\ \A i \in 1 .. Len(got[c]) : SubSeq(WholeFile, 1, Len(got[c]))[i] = WholeFile[i]
    BY <2>2, <2>4, SubSeqProperties
  <2>9. \A i \in 1 .. Len(got[c]) : got[c][i] = i
    BY <2>1, <2>2 DEF InOrder
  <2>6. got[c] = SubSeq(WholeFile, 1, Len(got[c]))
    BY <2>2, <2>4, <2>5, <2>9, SeqEqual
  <2>7. ASSUME server = "up" PROVE got[c] = WholeFile
    BY <2>1, <2>2, <2>3, <2>7, <2>9, SeqEqual
  <2>8. QED
    BY <2>1, <2>6, <2>7
<1>2. QED
  BY <1>1, ServerAlways, PTL
=============================================================================
