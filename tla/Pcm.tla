-------------------------------- MODULE Pcm --------------------------------
(***************************************************************************)
(* The WAV players and recorders of study_test/ALIS_pcm.  Each program has  *)
(* a main() that blocks in the card's calls (pcm_playback, pcm_capture),    *)
(* waits in poll() (_poll), or leaves the work to a SIGIO handler (_async,  *)
(* _ctrl, _mixer): the kernel raises SIGIO whenever the card has played or  *)
(* recorded a period, and the handler, running on top of main(), fills or   *)
(* empties the card's ring.  main and handler use the same file, buffer and *)
(* card; _ctrl and _mixer keep SIGIO masked where that would clash, _async  *)
(* does not.  The volume keys of _mixer touch nothing of this.              *)
(***************************************************************************)
EXTENDS Integers, Sequences

CONSTANTS Programs,    \* the programs examined
          Lengths,     \* frames of the WAV data, or frames there are to record
          Period,      \* period_size
          Periods,     \* periods the ring holds
          Header,      \* frames that would fit in front of the WAV data
          MaxShort,    \* bound: writes the card or the disk cuts short
          MaxPauses    \* bound: how often playback is paused

ASSUME PcmAssumption ==
  /\ Programs \subseteq {"plain", "poll", "async", "ctrl", "mixer",
                        "capture", "capture_poll", "capture_async"}
  /\ Lengths \subseteq Nat
  /\ {Period, Periods} \subseteq Nat \ {0}
  /\ {Header, MaxShort, MaxPauses} \subseteq Nat

VARIABLES program, length,
          pos,         \* data frames read so far, from the file or the card
          buf,         \* what was read last (frame numbers, 0 is silence)
          held,        \* what is open, allocated or changed
          pcm,         \* state of the card
          queued,      \* frames in the ring
          masked, sigio,  \* SIGIO is blocked; SIGIO is pending
          at,          \* where main and the handler stand
          wrote,       \* the ret of their last snd_pcm_writei
          todo,        \* what they still have to release before exit()
          written,     \* history: every frame put into the ring, or into the file
          why,         \* history: why the program ends
          spoilt,      \* history: a short write that the code gets wrong
          shorts, pauses

file == <<pos, buf>>
card == <<pcm, queued, written>>
signal == <<masked, sigio>>
counts == <<shorts, pauses>>
fixed == <<program, length>>
control == <<at, wrote, todo, why>>
vars == <<fixed, file, held, card, signal, control, spoilt, counts>>

Actors == {"main", "callback"}
Ring == Period * Periods

(* The programs.  takes: what main acquires, in this order; main, callback: *)
(* the calls at their err labels and at out, in order; first: where main    *)
(* goes from there; waits: where it waits when there is nothing to do.      *)
Plain == [takes |-> <<"file", "pcm", "buf">>, main |-> <<"buf", "pcm", "file">>,
          callback |-> <<>>, first |-> "read", waits |-> "read"]

Polls == [takes |-> <<"file", "pcm", "buf">>, main |-> <<"buf", "pcm", "file">>,
          callback |-> <<>>, first |-> "pfds", waits |-> "poll"]

Async == [takes |-> <<"file", "pcm", "buf">>, main |-> <<"buf", "pcm", "file">>,
          callback |-> <<"pcm", "buf", "file">>, first |-> "avail", waits |-> "keys"]

Ctrl == [takes |-> <<"file", "pcm", "buf", "tty">>,
         main |-> <<"drop", "tty", "buf", "pcm", "file">>,
         callback |-> <<"drain", "pcm", "tty", "buf", "file">>,
         first |-> "avail", waits |-> "unmask"]

Handling(calls) == [takes |-> <<"file", "pcm", "mixer", "buf", "tty">>,
                    main |-> <<"drop", "tty", "buf", "mixer", "pcm", "file">>,
                    callback |-> calls, first |-> "avail", waits |-> "unmask"]
DropsInstead == Handling(<<"drop", "mixer", "pcm", "tty", "buf", "file">>)  \* (mutant)
TtyForgotten == Handling(<<"drain", "mixer", "pcm", "buf", "file">>)        \* (mutant)
Mixer == Handling(<<"drain", "mixer", "pcm", "tty", "buf", "file">>)

Capture == [takes |-> <<"pcm", "buf", "file">>, main |-> <<"file", "buf", "pcm">>,
            callback |-> <<>>, first |-> "readi", waits |-> "readi"]

CapturePoll == [takes |-> <<"pcm", "buf", "file">>, main |-> <<"file", "buf", "pcm">>,
                callback |-> <<>>, first |-> "pfds", waits |-> "poll"]

CaptureAsync == [takes |-> <<"pcm", "buf", "file">>, main |-> <<"file", "buf", "pcm">>,
                 callback |-> <<"pcm", "buf", "file">>, first |-> "start", waits |-> "keys"]

The == CASE program = "plain" -> Plain [] program = "poll" -> Polls
         [] program = "async" -> Async [] program = "ctrl" -> Ctrl
         [] program = "mixer" -> Mixer [] program = "capture" -> Capture
         [] program = "capture_poll" -> CapturePoll
         [] program = "capture_async" -> CaptureAsync

HasHandler == The.callback # <<>>
Masks == The.waits = "unmask"
Records == program \in {"capture", "capture_poll", "capture_async"}
Needed == {The.takes[i] : i \in DOMAIN The.takes}

Init == /\ program \in Programs /\ length \in Lengths
        /\ pos = 0 /\ buf = <<>>
        /\ held = {}
        /\ pcm = "closed" /\ queued = 0 /\ written = <<>>
        /\ masked = FALSE /\ sigio = FALSE
        /\ at = [main |-> Head(The.takes), callback |-> "idle"]
        /\ wrote = [a \in Actors |-> 0]
        /\ todo = [a \in Actors |-> <<>>]
        /\ why = "running" /\ spoilt = FALSE
        /\ shorts = 0 /\ pauses = 0

\* The handler runs on main's stack: main stands still until it returns.
Running(a, label) == at[a] = label /\ (a = "main" => at.callback = "idle")
Goto(a, label) == at' = [at EXCEPT ![a] = label]

Leave(a, reason) ==
  /\ Goto(a, "leave")
  /\ todo' = [todo EXCEPT ![a] = IF a = "main" THEN The.main ELSE The.callback]
  /\ why' = IF why = "running" THEN reason ELSE why
-----------------------------------------------------------------------------
(* main() before its loop.  Each acquisition may fail; the error labels     *)
(* release what the earlier ones took, in the opposite order.               *)
Labels(r) ==
  LET from == CHOOSE i \in DOMAIN The.main : The.main[i] = r
  IN  SubSeq(The.main, from, Len(The.main))
Place(r) == CHOOSE i \in DOMAIN The.takes : The.takes[i] = r
Following(r) == IF Place(r) = Len(The.takes) THEN The.first ELSE The.takes[Place(r) + 1]
TakenBefore(r) == IF Place(r) = 1 THEN <<>> ELSE Labels(The.takes[Place(r) - 1])

Take(r) ==
  /\ Running("main", r)
  /\ held' = held \cup {r}
  /\ Goto("main", Following(r))
  /\ UNCHANGED <<todo, why>>

Fail(step, steps) ==
  /\ Running("main", step)
  /\ Goto("main", "leave")
  /\ todo' = [todo EXCEPT !.main = steps]
  /\ why' = "setup"
  /\ UNCHANGED held

UnmaskedFirst == FALSE                                             \* (mutant)
MasksFirst == Masks

(* A file without a data chunk is the one that is left open.                *)
open_wav_file ==
  /\ ~Records
  /\ masked' = MasksFirst
  /\ \/ Take("file")
     \/ Fail("file", <<>>)
     \/ /\ Running("main", "file")
        /\ held' = held \cup {"file"}
        /\ Goto("main", "leave")
        /\ why' = "no data chunk"
        /\ UNCHANGED todo
  /\ UNCHANGED <<fixed, file, card, sigio, wrote, spoilt, counts>>

\* A new file, refused if there is one.
open_new_file ==
  /\ Records
  /\ Take("file") \/ Fail("file", TakenBefore("file"))
  /\ UNCHANGED <<fixed, file, card, signal, wrote, spoilt, counts>>

(* Opens the card and sets its parameters, one of which may be refused.     *)
snd_pcm_init ==
  /\ \/ Take("pcm") /\ pcm' = "prepared"
     \/ Fail("pcm", TakenBefore("pcm")) /\ UNCHANGED pcm
  /\ UNCHANGED <<fixed, file, queued, written, signal, wrote, spoilt, counts>>

snd_mixer_init ==
  /\ program = "mixer"
  /\ Take("mixer") \/ Fail("mixer", TakenBefore("mixer"))
  /\ UNCHANGED <<fixed, file, card, signal, wrote, spoilt, counts>>

Malloc ==
  /\ Take("buf") \/ Fail("buf", TakenBefore("buf"))
  /\ UNCHANGED <<fixed, file, card, signal, wrote, spoilt, counts>>

\* The array of descriptors stays with the process.
snd_pcm_poll_init ==
  /\ \/ /\ Running("main", "pfds")
        /\ Goto("main", IF Records THEN "start" ELSE "poll")
        /\ UNCHANGED <<held, todo, why>>
     \/ Fail("pfds", The.main)
  /\ UNCHANGED <<fixed, file, card, signal, wrote, spoilt, counts>>

\* Canonical mode and echo off.
RawTerminal ==
  /\ Masks
  /\ Take("tty")
  /\ UNCHANGED <<fixed, file, card, signal, wrote, spoilt, counts>>

\* snd_pcm_start: recording begins.
Start ==
  /\ \/ /\ Running("main", "start")
        /\ pcm' = "running"
        /\ Goto("main", The.waits)
        /\ UNCHANGED <<held, todo, why>>
     \/ Fail("start", The.main) /\ UNCHANGED pcm
  /\ UNCHANGED <<fixed, file, queued, written, signal, wrote, spoilt, counts>>

Setup == \/ open_wav_file \/ open_new_file \/ snd_pcm_init \/ snd_mixer_init \/ Malloc
         \/ snd_pcm_poll_init \/ RawTerminal \/ Start
-----------------------------------------------------------------------------
(* The test of the filling loop.  snd_pcm_avail_update is negative after an *)
(* underrun; compared with the unsigned period_size it counts as plenty.    *)
RoomSigned == pcm # "xrun" /\ Ring - queued >= Period               \* (mutant)
RoomForPeriod == pcm = "xrun" \/ (IF Records THEN queued ELSE Ring - queued) >= Period

\* Where an actor goes when there is no period to write or read ...
Done(a) == IF a = "callback" THEN "idle" ELSE The.waits
\* ... and after a write: the blocking programs do not ask first.
Again == CASE program = "plain" -> "read" [] program = "capture" -> "readi" [] OTHER -> "avail"

Avail(a) ==
  /\ Running(a, "avail")
  /\ Goto(a, IF ~RoomForPeriod THEN Done(a) ELSE IF Records THEN "readi" ELSE "read")
  /\ UNCHANGED <<fixed, file, held, card, signal, wrote, todo, why, spoilt, counts>>

(* poll() returns with POLLERR after an overrun or underrun, else when      *)
(* there is a period to read or write.                                      *)
Poll ==
  /\ Running("main", "poll")
  /\ \/ pcm = "xrun" /\ Leave("main", "xrun")
     \/ /\ pcm # "xrun" /\ RoomForPeriod
        /\ Goto("main", "avail")
        /\ UNCHANGED <<todo, why>>
  /\ UNCHANGED <<fixed, file, held, card, signal, wrote, spoilt, counts>>

Advanced == IF pos + Period <= length THEN pos + Period ELSE length

\* memset and read: the rest of an incomplete period is silence.
Read(a) ==
  /\ Running(a, "read")
  /\ \/ /\ pos < length
        /\ buf' = [i \in 1 .. Period |-> IF pos + i <= length THEN pos + i ELSE 0]
        /\ pos' = Advanced
        /\ Goto(a, "write")
        /\ UNCHANGED <<todo, why>>
     \/ /\ pos >= length
        /\ buf' = [i \in 1 .. Period |-> 0]
        /\ Leave(a, IF a = "main" THEN "end in main" ELSE "played")
        /\ UNCHANGED pos
  /\ UNCHANGED <<fixed, held, card, signal, wrote, spoilt, counts>>

(* snd_pcm_writei.  It starts the card, fails after an underrun, waits for  *)
(* room, and may be cut short.                                              *)
Write(a) ==
  /\ Running(a, "write")
  /\ \/ /\ pcm = "xrun"
        /\ Leave(a, "xrun")
        /\ UNCHANGED <<card, wrote, shorts>>
     \/ /\ pcm # "xrun"
        /\ \E n \in 1 .. Period :
             /\ queued + n <= Ring
             /\ n < Period => shorts < MaxShort
             /\ shorts' = IF n < Period THEN shorts + 1 ELSE shorts
             /\ queued' = queued + n
             /\ written' = written \o SubSeq(buf, 1, n)
             /\ wrote' = [wrote EXCEPT ![a] = n]
             /\ Goto(a, IF n < Period THEN "seek" ELSE Again)
        /\ pcm' = IF pcm = "prepared" THEN "running" ELSE pcm
        /\ UNCHANGED <<todo, why>>
  /\ UNCHANGED <<fixed, file, held, signal, spoilt, pauses>>

Rewind(n) == Period - n

(* lseek back over the frames the card did not take.                        *)
Seek(a) ==
  /\ Running(a, "seek")
  /\ spoilt' = (spoilt \/ buf[Period] = 0)
  /\ \/ /\ pos - Rewind(wrote[a]) >= -Header
        /\ pos' = pos - Rewind(wrote[a])
        /\ Goto(a, Again)
        /\ UNCHANGED <<todo, why>>
     \/ /\ pos - Rewind(wrote[a]) < -Header
        /\ Leave(a, "seek")
        /\ UNCHANGED pos
  /\ UNCHANGED <<fixed, buf, held, card, signal, wrote, counts>>
-----------------------------------------------------------------------------
(* snd_pcm_readi: starts a card that is not running, waits for a period     *)
(* (only pcm_capture has to), fails after an overrun.                       *)
ReadCard(a) ==
  /\ Running(a, "readi")
  /\ \/ pcm = "prepared" /\ pcm' = "running" /\ UNCHANGED <<pos, buf, queued, at, todo, why>>
     \/ pcm = "xrun" /\ Leave(a, "xrun") /\ UNCHANGED <<pos, buf, pcm, queued>>
     \/ /\ pcm = "running" /\ queued >= Period
        /\ buf' = [i \in 1 .. Period |-> pos + i]
        /\ pos' = pos + Period
        /\ queued' = queued - Period
        /\ Goto(a, "store")
        /\ UNCHANGED <<pcm, todo, why>>
  /\ UNCHANGED <<fixed, held, written, signal, wrote, spoilt, counts>>

(* write() into the file.  A full disk may take a part of the period, which *)
(* the code does not notice, or nothing, which ends the program.            *)
Store(a) ==
  /\ Running(a, "store")
  /\ \E n \in 0 .. Period :
       /\ n < Period => shorts < MaxShort
       /\ shorts' = IF n < Period THEN shorts + 1 ELSE shorts
       /\ written' = written \o SubSeq(buf, 1, n)
       /\ spoilt' = (spoilt \/ n \in 1 .. Period - 1)
       /\ IF n = 0 THEN Leave(a, "disk full")
          ELSE Goto(a, Again) /\ UNCHANGED <<todo, why>>
  /\ UNCHANGED <<fixed, file, held, pcm, queued, signal, wrote, pauses>>
-----------------------------------------------------------------------------
Unmask ==
  /\ Running("main", "unmask")
  /\ masked' = FALSE
  /\ Goto("main", "keys")
  /\ UNCHANGED <<fixed, file, held, card, sigio, wrote, todo, why, spoilt, counts>>

(* ' ': pause a running card, resume a paused one.                          *)
Space ==
  /\ Running("main", "keys") /\ Masks
  /\ \/ /\ pcm = "running" /\ pauses < MaxPauses
        /\ pcm' = "paused"
        /\ pauses' = pauses + 1
     \/ /\ pcm = "paused"
        /\ pcm' = "running"
        /\ UNCHANGED pauses
  /\ UNCHANGED <<fixed, file, held, queued, written, signal, control, spoilt, shorts>>

Quit ==
  /\ Running("main", "keys") /\ Masks
  /\ Goto("main", "mask")
  /\ UNCHANGED <<fixed, file, held, card, signal, wrote, todo, why, spoilt, counts>>

QuitUnmasked == FALSE                                              \* (mutant)
MaskAtQuit == TRUE

Mask ==
  /\ Running("main", "mask")
  /\ masked' = MaskAtQuit
  /\ Leave("main", "quit")
  /\ UNCHANGED <<fixed, file, held, card, sigio, wrote, spoilt, counts>>

(* One of the calls that end the program; exit() after the last.  snd_pcm_  *)
(* drain returns when the ring has been played, snd_pcm_drop empties it.    *)
Release(a) ==
  /\ Running(a, "leave")
  /\ \/ /\ todo[a] = <<>>
        /\ at' = [main |-> "exited", callback |-> "idle"]
        /\ UNCHANGED <<todo, held, pcm, queued, written>>
     \/ /\ todo[a] # <<>>
        /\ \/ Head(todo[a]) # "drain"
           \/ pcm \in {"prepared", "xrun"}
           \/ pcm = "draining" /\ queued = 0
        /\ held' = held \ {Head(todo[a])}
        /\ pcm' = CASE Head(todo[a]) \in {"drop", "drain"} -> "setup"
                    [] Head(todo[a]) = "pcm" -> "closed"
                    [] OTHER -> pcm
        /\ queued' = IF Head(todo[a]) \in {"drop", "pcm"} THEN 0 ELSE queued
        /\ written' = IF Head(todo[a]) \in {"drop", "pcm"} /\ ~Records
                      THEN SubSeq(written, 1, Len(written) - queued) ELSE written
        /\ todo' = [todo EXCEPT ![a] = Tail(@)]
        /\ UNCHANGED at
  /\ UNCHANGED <<fixed, file, signal, wrote, why, spoilt, counts>>
-----------------------------------------------------------------------------
(* The kernel.                                                              *)

\* snd_pcm_drain, once called, starts or resumes the card.
DrainStarts ==
  /\ \E a \in Actors : /\ Running(a, "leave") /\ todo[a] # <<>>
                       /\ Head(todo[a]) = "drain"
  /\ pcm \in {"running", "paused"}
  /\ pcm' = "draining"
  /\ UNCHANGED <<fixed, file, held, queued, written, signal, control, spoilt, counts>>

(* The card plays a frame: SIGIO after every period, an underrun when the   *)
(* ring runs empty.                                                         *)
Play ==
  /\ ~Records
  /\ pcm \in {"running", "draining"} /\ queued > 0
  /\ queued' = queued - 1
  /\ pcm' = IF pcm = "running" /\ queued = 1 THEN "xrun" ELSE pcm
  /\ sigio' = (sigio \/ (HasHandler /\ (pcm' = "xrun" \/ (Len(written) - queued') % Period = 0)))
  /\ UNCHANGED <<fixed, file, held, written, masked, control, spoilt, counts>>

(* The card records a frame: SIGIO after every period, an overrun when the  *)
(* ring is full.                                                            *)
Record ==
  /\ Records
  /\ pcm = "running" /\ pos + queued < length
  /\ queued' = queued + 1
  /\ pcm' = IF queued' = Ring THEN "xrun" ELSE pcm
  /\ sigio' = (sigio \/ (HasHandler /\ (pos + queued') % Period = 0))
  /\ UNCHANGED <<fixed, file, held, written, masked, control, spoilt, counts>>

(* A pending SIGIO enters the handler, as long as the card is open.         *)
Deliver ==
  /\ sigio /\ ~masked /\ at.callback = "idle"
  /\ "pcm" \in held
  /\ sigio' = FALSE
  /\ Goto("callback", "avail")
  /\ UNCHANGED <<fixed, file, held, card, masked, wrote, todo, why, spoilt, counts>>
-----------------------------------------------------------------------------
Step(a) == Avail(a) \/ Read(a) \/ Write(a) \/ Seek(a) \/ ReadCard(a) \/ Store(a) \/ Release(a)
MainStep == Setup \/ Poll \/ Unmask \/ Mask \/ Step("main")
CallbackStep == Step("callback")

Next == MainStep \/ CallbackStep \/ Space \/ Quit \/ DrainStarts \/ Play \/ Record \/ Deliver

Spec == Init /\ [][Next]_vars

(* The processor runs the program, the kernel delivers signals and the card *)
(* plays; keys are pressed or not.                                          *)
Fairness == /\ WF_vars(MainStep) /\ WF_vars(CallbackStep)
            /\ WF_vars(Deliver) /\ WF_vars(Play \/ DrainStarts \/ Record)
FairSpec == Spec /\ Fairness
-----------------------------------------------------------------------------
Exited == at.main = "exited"

(* Where main masks SIGIO (_ctrl, _mixer) or leaves everything to the       *)
(* handler (capture_async), the handler never works with a buffer, card or  *)
(* file main has given up, and nothing is released twice, whenever the      *)
(* signal and the keys arrive.                                              *)
ReleasesWhatItHolds ==
  Masks \/ program = "capture_async" =>
    /\ at.callback \in {"avail", "read", "write", "seek", "readi", "store"} => held = Needed
    /\ \A a \in Actors : \A i \in DOMAIN todo[a] :
         todo[a][i] \in held \cup {"drop", "drain"}

(* The card is given every frame of the file once and in order, and silence *)
(* only after the last, although main and a handler share the position and  *)
(* the buffer; the recorded file holds the frames of the card once and in   *)
(* order.  Except after a cut short write of an incomplete period or into a *)
(* full disk, and except in _async, whose handler may run in the middle of  *)
(* main's filling.                                                          *)
OnceInOrder ==
  program # "async" /\ ~spoilt =>
    \A i \in DOMAIN written : written[i] = IF i <= length THEN i ELSE 0

(* A player whose handler meets the end of the file has been heard to the   *)
(* end of it when it exits.                                                 *)
WholeFileHeard ==
  Exited /\ why = "played" /\ Masks /\ ~spoilt =>
    /\ queued = 0
    /\ Len(written) >= length

(* However a program ends - key, end of file, underrun or overrun, full     *)
(* disk, failed set-up - the terminal has its old settings and every        *)
(* resource was released, with the exception of the file open_wav_file      *)
(* finds no data in.                                                        *)
NothingHeldAtExit ==
  Exited => held = IF why = "no data chunk" THEN {"file"} ELSE {}

(* Without a user who keeps it paused every player ends by itself, and a    *)
(* recorder the card has overrun ends too: neither a SIGIO that arrives     *)
(* while masked or while the handler runs, nor an underrun or overrun       *)
(* leaves it hanging.                                                       *)
Ends == /\ ~Records /\ []<>(pcm # "paused") => <>Exited
        /\ Records /\ pcm = "xrun" ~> Exited

(* What pcm_playback_async.c:61 says of the rewind: it rereads the data     *)
(* that was not played, so that nothing is given to the card twice.         *)
NothingTwice ==
  \A i, j \in DOMAIN written : i # j /\ written[i] # 0 => written[i] # written[j]
=============================================================================
