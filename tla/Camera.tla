-------------------------------- MODULE Camera --------------------------------
(***************************************************************************)
(* v4l2_camera.c: three buffers mapped from the camera's driver go round     *)
(* between the driver, which fills them, and v4l2_read_data, which copies    *)
(* them to the screen.  The loop counts in buf.index, into which             *)
(* VIDIOC_DQBUF writes the buffer it gives out; neither ioctl's result is    *)
(* looked at.                                                                *)
(***************************************************************************)
EXTENDS Integers, Sequences, SequencesExt

CONSTANTS FRAMEBUFFER_COUNT,
          MaxFrames    \* bound: frames the camera takes

ASSUME CameraAssumption == FRAMEBUFFER_COUNT \in Nat \ {0} /\ MaxFrames \in Nat

VARIABLES camera,    \* where main stands
          queued, filled, \* the driver's two queues of buffers
          frame,     \* the number of the frame a buffer holds, 0 for none
          captured,  \* frames taken
          index,     \* buf.index
          given,     \* history: VIDIOC_DQBUF of this turn gave a buffer out
          displayed  \* history: the last frame shown from a buffer given out

cameraVars == <<camera, queued, filled, frame, captured, index, given, displayed>>
Buffers == 0 .. FRAMEBUFFER_COUNT - 1

CameraInit == /\ camera = "setup" /\ queued = <<>> /\ filled = <<>>
              /\ frame = [b \in Buffers |-> 0] /\ captured = 0
              /\ index = 0 /\ given = FALSE /\ displayed = 0

\* fb_dev_init, v4l2_dev_init, v4l2_set_format; any of them may fail.
OpenDevices ==
  /\ camera = "setup"
  /\ camera' \in {"init_buffer", "exit"}
  /\ UNCHANGED <<queued, filled, frame, captured, index, given, displayed>>

\* v4l2_init_buffer: VIDIOC_REQBUFS or an mmap fails, or the buffers are
\* queued one by one, until one is refused.
v4l2_init_buffer ==
  /\ camera = "init_buffer"
  /\ \/ /\ index \in Buffers
        /\ queued' = Append(queued, index) /\ index' = index + 1
        /\ UNCHANGED camera
     \/ /\ index \notin Buffers
        /\ camera' = "stream_on" /\ UNCHANGED <<queued, index>>
     \/ camera' = "exit" /\ UNCHANGED <<queued, index>>
  /\ UNCHANGED <<filled, frame, captured, given, displayed>>

v4l2_stream_on ==
  /\ camera = "stream_on"
  /\ \/ camera' = "dqbuf" /\ index' = 0
     \/ camera' = "exit" /\ UNCHANGED index
  /\ UNCHANGED <<queued, filled, frame, captured, given, displayed>>

\* The driver fills the buffer that was queued first; without one the frame
\* is lost.
Capture ==
  /\ camera \in {"dqbuf", "copy"} /\ captured < MaxFrames
  /\ captured' = captured + 1
  /\ IF queued = <<>> THEN UNCHANGED <<queued, filled, frame>>
     ELSE /\ frame' = [frame EXCEPT ![Head(queued)] = captured + 1]
          /\ filled' = Append(filled, Head(queued))
          /\ queued' = Tail(queued)
  /\ UNCHANGED <<camera, index, given, displayed>>

KeepsIndex == index                                                \* (mutant)
GivenOut == Head(filled)

\* VIDIOC_DQBUF waits for a filled buffer, or fails.
DQBUF ==
  /\ camera = "dqbuf" /\ camera' = "copy"
  /\ \/ /\ filled # <<>>
        /\ index' = GivenOut /\ filled' = Tail(filled) /\ given' = TRUE
     \/ given' = FALSE /\ UNCHANGED <<index, filled>>
  /\ UNCHANGED <<queued, frame, captured, displayed>>

\* The copy is over.  VIDIOC_QBUF refuses a buffer that is in a queue; the
\* loop goes on with the index behind the buffer's.
QBUF ==
  /\ camera = "copy" /\ camera' = "dqbuf"
  /\ queued' = IF index \in ToSet(queued) \cup ToSet(filled) THEN queued
               ELSE Append(queued, index)
  /\ displayed' = IF given THEN frame[index] ELSE displayed
  /\ index' = IF index + 1 \in Buffers THEN index + 1 ELSE 0
  /\ UNCHANGED <<filled, frame, captured, given>>

CameraNext == OpenDevices \/ v4l2_init_buffer \/ v4l2_stream_on \/ Capture \/ DQBUF \/ QBUF
CameraSpec == CameraInit /\ [][CameraNext]_cameraVars
-----------------------------------------------------------------------------
(* While a buffer that was given out is copied, the driver does not have    *)
(* it, and the frame in it is newer than every one shown before; and no     *)
(* failing call loses a buffer or puts one into both queues.  (A turn whose  *)
(* VIDIOC_DQBUF failed copies a buffer the driver may be filling.)          *)
CameraShowsInOrder ==
  camera \in {"dqbuf", "copy"} =>
    LET held == IF camera = "copy" /\ given THEN {index} ELSE {}
    IN  /\ ToSet(queued) \cup ToSet(filled) \cup held = Buffers
        /\ IsInjective(queued \o filled)
        /\ held \cap (ToSet(queued) \cup ToSet(filled)) = {}
        /\ \A b \in held : frame[b] > displayed
=============================================================================
