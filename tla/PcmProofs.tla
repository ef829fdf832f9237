------------------------------ MODULE PcmProofs ------------------------------
(***************************************************************************)
(* The WAV players and recorders, for periods, rings and files of any      *)
(* length.                                                                 *)
(***************************************************************************)
EXTENDS Pcm, SequenceTheorems, TLAPS

Resources == {"file", "pcm", "mixer", "buf", "tty"}
Endings == {"drop", "drain"}
Calls == Resources \cup Endings
Fills == {"avail", "read", "write", "seek", "readi", "store"}
SettingUp == Resources \cup {"pfds", "start"}
Over == {"leave", "exited"}
Stops == SettingUp \cup Fills \cup {"poll", "unmask", "keys", "mask", "idle"} \cup Over
States == {"closed", "prepared", "running", "paused", "draining", "setup", "xrun"}

NoRepeats(s) == \A i, j \in 1 .. Len(s) : s[i] = s[j] => i = j
Elements(s) == {s[i] : i \in 1 .. Len(s)}

ControlType ==
  /\ program \in Programs
  /\ at \in [Actors -> Stops]
  /\ at.main # "idle" /\ at.callback \in Fills \cup {"idle", "leave"}
  /\ todo \in [Actors -> Seq(Calls)]
  /\ held \subseteq Needed
  /\ masked \in BOOLEAN /\ sigio \in BOOLEAN /\ pcm \in States

\* Each program stays within its own part of the code.
Kept ==
  /\ Records => /\ at.main \notin {"read", "write", "seek"}
                /\ at.callback \notin {"read", "write", "seek"}
  /\ ~Records => /\ at.main \notin {"readi", "store", "start"}
                 /\ at.callback \notin {"readi", "store"}
  /\ at.main \in Resources => at.main \in Needed
  /\ at.main \in {"unmask", "mask"} => Masks
  /\ at.main \in {"pfds", "poll"} => The.first = "pfds"
  /\ program = "capture_async" => at.main \notin Fills
  /\ ~HasHandler => at.callback = "idle" /\ sigio = FALSE

\* During the set-up the card is still and no signal is pending.
StillInv ==
  at.main \in SettingUp =>
    /\ at.callback = "idle" /\ sigio = FALSE /\ why = "running"
    /\ pcm \in {"closed", "prepared"} /\ queued = 0 /\ written = <<>> /\ pos = 0

\* The handler never runs while main fills or gives up.
AloneInv ==
  /\ Masks /\ at.main \notin {"file", "keys", "mask", "exited"} => masked = TRUE
  /\ Masks /\ at.main \notin {"file", "keys", "mask"} => at.callback = "idle"
  /\ program = "capture_async" /\ at.main # "keys" => at.callback = "idle"
  /\ program = "capture_async" /\ at.main \notin {"keys", "exited"} => sigio = FALSE /\ pcm # "running"
  /\ at.main = "exited" => at.callback = "idle"

\* What main has taken when it comes to step r.
Taken(r) == {The.takes[i] : i \in 1 .. Place(r) - 1}

\* Who is not at the end of the program has nothing left to release.
TodoInv ==
  /\ at.main \notin Over => todo.main = <<>>
  /\ at.callback # "leave" => todo.callback = <<>>
  /\ NoRepeats(todo.main) /\ NoRepeats(todo.callback)

\* What is held will be released.
HeldInv ==
  /\ at.main \in Resources => held = Taken(at.main)
  /\ at.main \notin Resources \cup Over /\ at.callback # "leave" => held = Needed
  /\ at.callback = "leave" => held \subseteq Elements(todo.callback)
  /\ at.main = "leave" /\ why # "no data chunk" => held \subseteq Elements(todo.main)
  /\ at.main = "exited" /\ why # "no data chunk" => held = {}

\* The file that is left open.
NoDataInv ==
  why = "no data chunk" =>
    /\ at.main \in Over /\ at.callback = "idle" /\ held = {"file"} /\ todo.main = <<>>

\* What will be released is held; only in _async may main and the handler
\* release the same.
OwnInv ==
  program # "async" =>
    /\ Elements(todo.main) \subseteq held \cup Endings
    /\ Elements(todo.callback) \subseteq held \cup Endings

ControlInv ==
  ControlType /\ Kept /\ StillInv /\ AloneInv /\ TodoInv /\ HeldInv /\ NoDataInv /\ OwnInv

DataType ==
  /\ length \in Nat /\ pos \in Int /\ queued \in Nat
  /\ buf \in Seq(Int) /\ written \in Seq(Int)
  /\ wrote \in [Actors -> Nat] /\ spoilt \in BOOLEAN

\* A period has been read when one is written or stored.
Busy == {"write", "seek", "store"}
BufInv == \A a \in Actors : at[a] \in Busy => Len(buf) = Period

\* A card that has not started, or has run dry, holds nothing.
QueueInv ==
  ~Records => /\ pcm \in {"prepared", "xrun"} => queued = 0
              /\ queued <= Len(written)

Left == at.main \in Over \/ at.callback = "leave"
Ideal(i) == IF i <= length THEN i ELSE 0

OrderInv ==
  program # "async" /\ ~spoilt => \A i \in 1 .. Len(written) : written[i] = Ideal(i)

\* How far a player has read and written: before a write the period read
\* comes next; after a short one the rewind leads back to what was written.
PlayedInv ==
  program # "async" /\ ~Records /\ ~spoilt /\ ~Left =>
    /\ \A a \in Actors : at[a] = "write" =>
         /\ Len(written) < length
         /\ \A i \in 1 .. Period : buf[i] = Ideal(Len(written) + i)
         /\ pos = IF Len(written) + Period <= length THEN Len(written) + Period ELSE length
    /\ \A a \in Actors : at[a] = "seek" /\ buf[Period] # 0 =>
         /\ wrote[a] \in 1 .. Period - 1
         /\ pos = Len(written) - wrote[a] + Period /\ pos <= length
    /\ (\A a \in Actors : at[a] \notin {"write", "seek"}) =>
         /\ pos \in 0 .. length
         /\ pos < length => Len(written) = pos
         /\ pos = length => Len(written) >= length

\* How far a recorder has read and stored.
RecordedInv ==
  Records =>
    /\ pos \in Nat /\ pos + queued <= length
    /\ ~spoilt /\ ~Left =>
         /\ \A a \in Actors : at[a] = "store" =>
              /\ pos = Len(written) + Period
              /\ \A i \in 1 .. Period : buf[i] = Len(written) + i
         /\ (\A a \in Actors : at[a] # "store") => Len(written) = pos

\* The handler of _ctrl and _mixer at the end of the file: everything was
\* written, and nothing is dropped before it has been played.
HeardInv ==
  Masks /\ why = "played" =>
    /\ ~spoilt => Len(written) >= length
    /\ \/ at.callback = "leave" /\ todo.callback = The.callback
       \/ queued = 0 /\ (at.callback = "leave" \/ at.main = "exited")

DataInv == DataType /\ BufInv /\ QueueInv /\ OrderInv /\ PlayedInv /\ RecordedInv
-----------------------------------------------------------------------------
LEMMA PcmNat ==
  /\ Period \in Nat \ {0} /\ Periods \in Nat \ {0} /\ Header \in Nat
  /\ Lengths \subseteq Nat
BY PcmAssumption

(* The programs.                                                            *)

\* main releases what it took in the opposite order; the handler, if there
\* is one, releases the same.
Shape(p) ==
  /\ p.takes \in Seq(Resources) /\ p.main \in Seq(Calls) /\ p.callback \in Seq(Calls)
  /\ Len(p.takes) \in 1 .. Len(p.main)
  /\ NoRepeats(p.takes) /\ NoRepeats(p.main) /\ NoRepeats(p.callback)
  /\ \A i \in 1 .. Len(p.takes) : p.main[Len(p.main) + 1 - i] = p.takes[i]
  /\ \A i \in 1 .. Len(p.main) - Len(p.takes) : p.main[i] \in Endings
  /\ p.callback # <<>> =>
       /\ Elements(p.callback) \subseteq Elements(p.takes) \cup Endings
       /\ Elements(p.takes) \subseteq Elements(p.callback)

LEMMA PlainShape == Shape(Plain)
<1>1. /\ Plain.takes = <<"file", "pcm", "buf">> /\ Plain.main = <<"buf", "pcm", "file">>
      /\ Plain.callback = <<>>
  BY DEF Plain
<1>2. QED
  BY <1>1 DEF Shape, NoRepeats, Elements, Calls, Resources, Endings

LEMMA PollsShape == Shape(Polls)
<1>1. Polls.takes = Plain.takes /\ Polls.main = Plain.main /\ Polls.callback = Plain.callback
  BY DEF Polls, Plain
<1>2. QED
  BY <1>1, PlainShape DEF Shape

LEMMA AsyncShape == Shape(Async)
<1>1. /\ Async.takes = <<"file", "pcm", "buf">> /\ Async.main = <<"buf", "pcm", "file">>
      /\ Async.callback = <<"pcm", "buf", "file">>
  BY DEF Async
<1>2. QED
  BY <1>1 DEF Shape, NoRepeats, Elements, Calls, Resources, Endings

LEMMA CtrlShape == Shape(Ctrl)
<1>1. /\ Ctrl.takes = <<"file", "pcm", "buf", "tty">>
      /\ Ctrl.main = <<"drop", "tty", "buf", "pcm", "file">>
      /\ Ctrl.callback = <<"drain", "pcm", "tty", "buf", "file">>
  BY DEF Ctrl
<1>2. Ctrl.takes \in Seq(Resources) /\ Ctrl.main \in Seq(Calls) /\ Ctrl.callback \in Seq(Calls)
  BY <1>1 DEF Calls, Resources, Endings
<1>3. Len(Ctrl.takes) = 4 /\ Len(Ctrl.main) = 5 /\ Len(Ctrl.callback) = 5
  BY <1>1
<1>4. NoRepeats(Ctrl.takes) /\ NoRepeats(Ctrl.main) /\ NoRepeats(Ctrl.callback)
  BY <1>1, <1>3 DEF NoRepeats
<1>5. \A i \in 1 .. 4 : Ctrl.main[6 - i] = Ctrl.takes[i]
  BY <1>1
<1>6. \A i \in 1 .. 1 : Ctrl.main[i] \in Endings
  BY <1>1 DEF Endings
<1>7. /\ Elements(Ctrl.callback) \subseteq Elements(Ctrl.takes) \cup Endings
      /\ Elements(Ctrl.takes) \subseteq Elements(Ctrl.callback)
  BY <1>1, <1>3 DEF Elements, Endings
<1>8. QED
  BY <1>2, <1>3, <1>4, <1>5, <1>6, <1>7 DEF Shape

LEMMA MixerShape == Shape(Mixer)
<1>1. /\ Mixer.takes = <<"file", "pcm", "mixer", "buf", "tty">>
      /\ Mixer.main = <<"drop", "tty", "buf", "mixer", "pcm", "file">>
      /\ Mixer.callback = <<"drain", "mixer", "pcm", "tty", "buf", "file">>
  BY DEF Mixer, Handling
<1>2. Mixer.takes \in Seq(Resources) /\ Mixer.main \in Seq(Calls) /\ Mixer.callback \in Seq(Calls)
  BY <1>1 DEF Calls, Resources, Endings
<1>3. Len(Mixer.takes) = 5 /\ Len(Mixer.main) = 6 /\ Len(Mixer.callback) = 6
  BY <1>1
<1>4. NoRepeats(Mixer.takes) /\ NoRepeats(Mixer.main) /\ NoRepeats(Mixer.callback)
  BY <1>1, <1>3 DEF NoRepeats
<1>5. \A i \in 1 .. 5 : Mixer.main[7 - i] = Mixer.takes[i]
  BY <1>1
<1>6. \A i \in 1 .. 1 : Mixer.main[i] \in Endings
  BY <1>1 DEF Endings
<1>7. /\ Elements(Mixer.callback) \subseteq Elements(Mixer.takes) \cup Endings
      /\ Elements(Mixer.takes) \subseteq Elements(Mixer.callback)
  BY <1>1, <1>3 DEF Elements, Endings
<1>8. QED
  BY <1>2, <1>3, <1>4, <1>5, <1>6, <1>7 DEF Shape

LEMMA CaptureShape == Shape(Capture)
<1>1. /\ Capture.takes = <<"pcm", "buf", "file">> /\ Capture.main = <<"file", "buf", "pcm">>
      /\ Capture.callback = <<>>
  BY DEF Capture
<1>2. QED
  BY <1>1 DEF Shape, NoRepeats, Elements, Calls, Resources, Endings

LEMMA CapturePollShape == Shape(CapturePoll)
<1>1. /\ CapturePoll.takes = Capture.takes /\ CapturePoll.main = Capture.main
      /\ CapturePoll.callback = Capture.callback
  BY DEF CapturePoll, Capture
<1>2. QED
  BY <1>1, CaptureShape DEF Shape

LEMMA CaptureAsyncShape == Shape(CaptureAsync)
<1>1. /\ CaptureAsync.takes = <<"pcm", "buf", "file">>
      /\ CaptureAsync.main = <<"file", "buf", "pcm">>
      /\ CaptureAsync.callback = <<"pcm", "buf", "file">>
  BY DEF CaptureAsync
<1>2. QED
  BY <1>1 DEF Shape, NoRepeats, Elements, Calls, Resources, Endings

LEMMA ThePrograms ==
  /\ program = "plain" => The = Plain
  /\ program = "poll" => The = Polls
  /\ program = "async" => The = Async
  /\ program = "ctrl" => The = Ctrl
  /\ program = "mixer" => The = Mixer
  /\ program = "capture" => The = Capture
  /\ program = "capture_poll" => The = CapturePoll
  /\ program = "capture_async" => The = CaptureAsync
BY DEF The

LEMMA ProgramNames ==
  ASSUME program \in Programs
  PROVE  program \in {"plain", "poll", "async", "ctrl", "mixer",
                      "capture", "capture_poll", "capture_async"}
BY PcmAssumption

LEMMA TheShape == ASSUME program \in Programs PROVE Shape(The)
BY ProgramNames, ThePrograms, PlainShape, PollsShape, AsyncShape, CtrlShape, MixerShape,
   CaptureShape, CapturePollShape, CaptureAsyncShape

\* What follows the set-up, where main waits, and whether there is a handler.
LEMMA Kinds ==
  ASSUME program \in Programs
  PROVE  /\ Masks <=> program \in {"ctrl", "mixer"}
         /\ HasHandler <=> program \in {"async", "ctrl", "mixer", "capture_async"}
         /\ Masks => The.first = "avail" /\ The.waits = "unmask"
         /\ program = "async" => The.first = "avail" /\ The.waits = "keys"
         /\ program = "capture_async" => The.first = "start" /\ The.waits = "keys"
         /\ Records => /\ The.first \in {"readi", "pfds", "start"}
                       /\ The.waits \in {"readi", "poll", "keys"}
         /\ ~Records => /\ The.first \in {"read", "pfds", "avail"}
                        /\ The.waits \in {"read", "poll", "keys", "unmask"}
         /\ The.first = "pfds" \/ The.waits = "poll" =>
              /\ The.first = "pfds" /\ The.waits = "poll" /\ ~HasHandler
<1>1. CASE program = "plain" \/ program = "poll" \/ program = "async"
  BY <1>1, ThePrograms DEF Plain, Polls, Async, Masks, HasHandler, Records
<1>2. CASE program = "ctrl" \/ program = "mixer"
  BY <1>2, ThePrograms DEF Ctrl, Mixer, Handling, Masks, HasHandler, Records
<1>3. CASE program = "capture" \/ program = "capture_poll" \/ program = "capture_async"
  BY <1>3, ThePrograms DEF Capture, CapturePoll, CaptureAsync, Masks, HasHandler, Records
<1>4. QED
  BY <1>1, <1>2, <1>3, ProgramNames

LEMMA AgainIn ==
  ASSUME program \in Programs
  PROVE  /\ Records => Again \in {"readi", "avail"}
         /\ ~Records => Again \in {"read", "avail"}
BY DEF Again, Records

LEMMA SameProgram ==
  ASSUME program' = program
  PROVE  /\ The' = The /\ Masks' = Masks /\ HasHandler' = HasHandler /\ Records' = Records
         /\ Needed' = Needed
BY DEF The, Masks, HasHandler, Records, Needed
-----------------------------------------------------------------------------
(* The calls at an error label, and what is left after one of them.         *)
LEMMA TailLeft ==
  ASSUME NEW S, NEW s \in Seq(S), s # <<>>, NoRepeats(s)
  PROVE  /\ Tail(s) \in Seq(S) /\ NoRepeats(Tail(s)) /\ Head(s) \in Elements(s)
         /\ Elements(Tail(s)) = Elements(s) \ {Head(s)}
<1>1. /\ Len(s) \in Nat \ {0} /\ Tail(s) \in Seq(S) /\ Len(Tail(s)) = Len(s) - 1
      /\ Head(s) = s[1] /\ \A i \in 1 .. Len(s) - 1 : Tail(s)[i] = s[i + 1]
  OBVIOUS
<1>2. NoRepeats(Tail(s))
  <2>1. ASSUME NEW i \in 1 .. Len(s) - 1, NEW j \in 1 .. Len(s) - 1, Tail(s)[i] = Tail(s)[j]
        PROVE  i = j
    <3>1. s[i + 1] = s[j + 1] /\ i + 1 \in 1 .. Len(s) /\ j + 1 \in 1 .. Len(s)
      BY <1>1, <2>1
    <3>2. i + 1 = j + 1
      BY <3>1 DEF NoRepeats
    <3>3. QED
      BY <3>2
  <2>2. QED
    BY <1>1, <2>1 DEF NoRepeats
<1>3. ASSUME NEW x \in Elements(Tail(s)) PROVE x \in Elements(s) \ {Head(s)}
  <2>1. PICK i \in 1 .. Len(s) - 1 : x = s[i + 1]
    BY <1>1 DEF Elements
  <2>2. i + 1 \in 1 .. Len(s) /\ i + 1 # 1 /\ 1 \in 1 .. Len(s)
    BY <1>1
  <2>3. s[i + 1] # s[1]
    BY <2>2 DEF NoRepeats
  <2>4. QED
    BY <1>1, <2>1, <2>2, <2>3 DEF Elements
<1>4. ASSUME NEW x \in Elements(s), x # Head(s) PROVE x \in Elements(Tail(s))
  <2>1. PICK i \in 1 .. Len(s) : x = s[i]
    BY DEF Elements
  <2>2. i - 1 \in 1 .. Len(s) - 1 /\ i = (i - 1) + 1
    BY <1>1, <1>4, <2>1
  <2>3. Tail(s)[i - 1] = x
    BY <1>1, <2>1, <2>2
  <2>4. QED
    BY <1>1, <2>2, <2>3 DEF Elements
<1>5. Head(s) \in Elements(s)
  BY <1>1 DEF Elements
<1>6. QED
  BY <1>1, <1>2, <1>3, <1>4, <1>5

LEMMA TakesType ==
  ASSUME program \in Programs
  PROVE  /\ The.takes \in Seq(Resources) /\ Len(The.takes) \in Nat \ {0}
         /\ DOMAIN The.takes = 1 .. Len(The.takes) /\ NoRepeats(The.takes)
         /\ Needed = Elements(The.takes) /\ Needed \subseteq Resources
<1>1. /\ The.takes \in Seq(Resources) /\ Len(The.takes) \in Nat \ {0} /\ NoRepeats(The.takes)
  BY TheShape DEF Shape
<1>2. QED
  BY <1>1 DEF Needed, Elements

LEMMA PlaceOf ==
  ASSUME program \in Programs, NEW r \in Needed
  PROVE  Place(r) \in 1 .. Len(The.takes) /\ The.takes[Place(r)] = r
BY TakesType DEF Place, Needed

LEMMA PlaceIs ==
  ASSUME program \in Programs, NEW i \in 1 .. Len(The.takes)
  PROVE  The.takes[i] \in Needed /\ Place(The.takes[i]) = i
<1>1. The.takes[i] \in Needed
  BY TakesType DEF Needed
<1>2. The.takes[Place(The.takes[i])] = The.takes[i] /\ Place(The.takes[i]) \in 1 .. Len(The.takes)
  BY <1>1, PlaceOf
<1>3. QED
  BY <1>1, <1>2, TakesType DEF NoRepeats

\* A player opens the file first.
LEMMA FileFirst ==
  ASSUME program \in Programs, ~Records
  PROVE  Place("file") = 1 /\ Taken("file") = {}
<1>1. program \in {"plain", "poll", "async", "ctrl", "mixer"}
  BY ProgramNames DEF Records
<1>2. The \in {Plain, Polls, Async, Ctrl, Mixer}
  BY <1>1, ThePrograms
<1>3. The.takes[1] = "file"
  BY <1>2 DEF Plain, Polls, Async, Ctrl, Mixer, Handling
<1>4. Place("file") = 1
  BY <1>3, PlaceIs, TakesType
<1>5. 1 .. Place("file") - 1 = {}
  BY <1>4
<1>6. QED
  BY <1>4, <1>5 DEF Taken

\* After a step comes the next one, or what follows the set-up.
LEMMA NextTake ==
  ASSUME program \in Programs, NEW r \in Needed
  PROVE  \/ Following(r) \in Needed /\ Taken(Following(r)) = Taken(r) \cup {r}
         \/ /\ Following(r) = The.first /\ Needed = Taken(r) \cup {r}
<1> DEFINE k == Place(r)
           n == Len(The.takes)
<1>1. k \in 1 .. n /\ The.takes[k] = r /\ n \in Nat
  BY PlaceOf, TakesType
<1>2. Taken(r) \cup {r} = {The.takes[i] : i \in 1 .. k}
  <2>1. \A i \in 1 .. k : i \in 1 .. k - 1 \/ i = k
    BY <1>1
  <2>2. \A i \in 1 .. k - 1 : i \in 1 .. k
    BY <1>1
  <2>3. k \in 1 .. k
    BY <1>1
  <2>4. QED
    BY <1>1, <2>1, <2>2, <2>3 DEF Taken
<1>3. CASE k = n
  <2>1. Following(r) = The.first
    BY <1>3 DEF Following
  <2>2. Needed = {The.takes[i] : i \in 1 .. k}
    BY <1>3, TakesType DEF Elements
  <2>3. QED
    BY <1>2, <2>1, <2>2
<1>4. CASE k # n
  <2>1. Following(r) = The.takes[k + 1] /\ k + 1 \in 1 .. n /\ (k + 1) - 1 = k
    BY <1>1, <1>4 DEF Following
  <2>2. Following(r) \in Needed /\ Place(Following(r)) = k + 1
    BY <2>1, PlaceIs
  <2>3. Taken(Following(r)) = {The.takes[i] : i \in 1 .. k}
    BY <2>1, <2>2 DEF Taken
  <2>4. QED
    BY <1>2, <2>2, <2>3
<1>5. QED
  BY <1>3, <1>4

\* The error labels release what was taken before the step that failed.
LEMMA Unwinding ==
  ASSUME program \in Programs, NEW r \in Needed
  PROVE  /\ TakenBefore(r) \in Seq(Calls) /\ NoRepeats(TakenBefore(r))
         /\ Elements(TakenBefore(r)) = Taken(r)
<1> DEFINE k == Place(r)
           n == Len(The.takes)
           m == Len(The.main)
<1>1. k \in 1 .. n /\ n \in Nat /\ m \in Nat /\ n <= m
  BY PlaceOf, TakesType, TheShape DEF Shape
<1>2. /\ The.main \in Seq(Calls) /\ NoRepeats(The.main)
      /\ \A i \in 1 .. n : The.main[m + 1 - i] = The.takes[i]
  BY TheShape DEF Shape
<1>3. CASE k = 1
  <2>1. TakenBefore(r) = <<>>
    BY <1>3 DEF TakenBefore
  <2>2. Taken(r) = {} /\ Elements(<<>>) = {} /\ NoRepeats(<<>>)
    BY <1>3 DEF Taken, Elements, NoRepeats
  <2>3. QED
    BY <2>1, <2>2
<1>4. CASE k # 1
  <2>1. k - 1 \in 1 .. n /\ m + 1 - (k - 1) \in 1 .. m
    BY <1>1, <1>4
  <2>2. TakenBefore(r) = Labels(The.takes[k - 1])
    BY <1>4 DEF TakenBefore
  <2>3. \A i \in DOMAIN The.main : The.main[i] = The.takes[k - 1] <=> i = m + 1 - (k - 1)
    <3>1. DOMAIN The.main = 1 .. m /\ The.main[m + 1 - (k - 1)] = The.takes[k - 1]
      BY <1>2, <2>1
    <3>2. QED
      BY <1>2, <2>1, <3>1 DEF NoRepeats
  <2>4. DOMAIN The.main = 1 .. m
    BY <1>2
  <2> DEFINE from == m + 1 - (k - 1)
             s == SubSeq(The.main, from, m)
  <2>5. (CHOOSE i \in DOMAIN The.main : The.main[i] = The.takes[k - 1]) = from
    BY <2>1, <2>3, <2>4
  <2>6. TakenBefore(r) = s
    BY <2>2, <2>5 DEF Labels
  <2>7. /\ s \in Seq(Calls) /\ Len(s) = k - 1
        /\ \A i \in 1 .. k - 1 : s[i] = The.main[from + i - 1]
    <3>1. from \in 1 .. m + 1 /\ m \in from - 1 .. m /\ m - from + 1 = k - 1
      BY <1>1, <2>1
    <3>2. QED
      BY <1>2, <3>1, SubSeqProperties
  <2>7a. /\ Taken(r) = {The.takes[i] : i \in 1 .. k - 1}
         /\ from = m + 1 - (k - 1)
    BY DEF Taken
  <2> HIDE DEF k, n, m, from, s
  <2>8. NoRepeats(s)
    <3>1. ASSUME NEW i \in 1 .. k - 1, NEW j \in 1 .. k - 1, s[i] = s[j]
          PROVE  i = j
      <4>1. from + i - 1 \in 1 .. m /\ from + j - 1 \in 1 .. m
        BY <1>1, <2>7a
      <4>2. from + i - 1 = from + j - 1
        BY <1>2, <2>7, <3>1, <4>1 DEF NoRepeats, m
      <4>3. QED
        BY <1>1, <2>7a, <4>2
    <3>2. QED
      BY <2>7, <3>1 DEF NoRepeats
  <2>9. ASSUME NEW i \in 1 .. k - 1
        PROVE  s[i] = The.takes[k - i] /\ k - i \in 1 .. k - 1
    <3>1. k - i \in 1 .. n /\ from + i - 1 = m + 1 - (k - i) /\ k - i \in 1 .. k - 1
      BY <1>1, <2>7a
    <3>2. QED
      BY <1>2, <2>7, <3>1
  <2>10. Elements(s) = {The.takes[i] : i \in 1 .. k - 1}
    <3>1. \A i \in 1 .. k - 1 : k - i \in 1 .. k - 1 /\ i = k - (k - i)
      BY <1>1
    <3>2. \A i \in 1 .. k - 1 : s[k - i] = The.takes[i]
      BY <2>9, <3>1
    <3>3. QED
      BY <2>7, <2>9, <3>1, <3>2 DEF Elements
  <2>11. QED
    BY <2>6, <2>7, <2>7a, <2>8, <2>10
<1>5. QED
  BY <1>3, <1>4

\* main releases everything, and so does the handler.
LEMMA Releases ==
  ASSUME program \in Programs
  PROVE  /\ The.main \in Seq(Calls) /\ NoRepeats(The.main)
         /\ Needed \subseteq Elements(The.main) /\ Elements(The.main) \subseteq Needed \cup Endings
         /\ The.callback \in Seq(Calls) /\ NoRepeats(The.callback)
         /\ HasHandler => /\ Needed \subseteq Elements(The.callback)
                          /\ Elements(The.callback) \subseteq Needed \cup Endings
<1> DEFINE n == Len(The.takes)
           m == Len(The.main)
<1>1. /\ Shape(The) /\ Needed = Elements(The.takes)
  BY TheShape, TakesType
<1>2. /\ n \in Nat /\ m \in Nat /\ n <= m
      /\ \A i \in 1 .. n : The.main[m + 1 - i] = The.takes[i]
      /\ \A i \in 1 .. m - n : The.main[i] \in Endings
  BY <1>1 DEF Shape
<1>3. ASSUME NEW x \in Needed PROVE x \in Elements(The.main)
  <2>1. PICK i \in 1 .. n : x = The.takes[i]
    BY <1>1 DEF Elements
  <2>2. m + 1 - i \in 1 .. m
    BY <1>2
  <2>3. QED
    BY <1>2, <2>1, <2>2 DEF Elements
<1>4. ASSUME NEW x \in Elements(The.main) PROVE x \in Needed \cup Endings
  <2>1. PICK j \in 1 .. m : x = The.main[j]
    BY DEF Elements
  <2>2. CASE j \in 1 .. m - n
    BY <1>2, <2>1, <2>2
  <2>3. CASE j \notin 1 .. m - n
    <3>1. m + 1 - j \in 1 .. n /\ m + 1 - (m + 1 - j) = j
      BY <1>2, <2>3
    <3>2. QED
      BY <1>1, <1>2, <2>1, <3>1 DEF Elements
  <2>4. QED
    BY <2>2, <2>3
<1>5. QED
  BY <1>1, <1>3, <1>4 DEF Shape, HasHandler
-----------------------------------------------------------------------------
(* How the two actors move.                                                 *)
LEMMA Moves ==
  ASSUME ControlType, NEW a \in Actors, NEW from, NEW to \in Stops,
         Running(a, from), Goto(a, to)
  PROVE  /\ at' \in [Actors -> Stops]
         /\ a = "main" => /\ at.main = from /\ at.callback = "idle"
                          /\ at'.main = to /\ at'.callback = "idle"
         /\ a = "callback" => at.callback = from /\ at'.main = at.main /\ at'.callback = to
BY DEF ControlType, Running, Goto, Actors

LEMMA Leaving ==
  ASSUME ControlType, NEW a \in Actors, NEW calls \in Seq(Calls),
         todo' = [todo EXCEPT ![a] = calls]
  PROVE  /\ todo' \in [Actors -> Seq(Calls)]
         /\ a = "main" => todo'.main = calls /\ todo'.callback = todo.callback
         /\ a = "callback" => todo'.callback = calls /\ todo'.main = todo.main
BY DEF ControlType, Actors

\* The calls an actor has to make when it leaves.
Last(a) == IF a = "main" THEN The.main ELSE The.callback

\* A step of the set-up takes something, goes on, or gives up.
LEMMA SetupSteps ==
  ASSUME ControlType, Kept, Setup
  PROVE  /\ at.main \in SettingUp /\ at.callback = "idle"
         /\ UNCHANGED <<fixed, file, queued, written, sigio, wrote, spoilt, counts>>
         /\ masked' \in BOOLEAN
         /\ IF at.main = "file" /\ ~Records THEN masked' = Masks ELSE masked' = masked
         /\ \/ pcm' = pcm \/ pcm' = "prepared"
            \/ at.main = "start" /\ pcm' = "running" /\ Goto("main", The.waits)
         /\ \/ /\ at.main \in Needed /\ Goto("main", Following(at.main))
               /\ held' = held \cup {at.main} /\ UNCHANGED <<todo, why>>
            \/ /\ at.main = "pfds" /\ Goto("main", IF Records THEN "start" ELSE "poll")
               /\ UNCHANGED <<held, todo, why>>
            \/ /\ at.main = "start" /\ Goto("main", The.waits)
               /\ UNCHANGED <<held, todo, why>>
            \/ /\ Goto("main", "leave") /\ why' = "setup" /\ UNCHANGED held
               /\ \/ at.main \in Needed /\ todo' = [todo EXCEPT !.main = TakenBefore(at.main)]
                  \/ at.main \notin Needed /\ todo' = [todo EXCEPT !.main = The.main]
            \/ /\ ~Records /\ at.main = "file" /\ Goto("main", "leave")
               /\ held' = held \cup {"file"} /\ why' = "no data chunk" /\ UNCHANGED todo
<1> USE DEF Resources, SettingUp, Take, Fail, Running, file, card, signal, counts, fixed
<1>0. Masks \in BOOLEAN
  BY DEF Masks
<1>1. CASE open_wav_file
  <2>1. at.main = "file" /\ ~Records /\ "file" \in Needed
    BY <1>1 DEF open_wav_file, Kept
  <2>2. TakenBefore("file") = <<>>
    <3>1. Place("file") = 1
      BY <2>1, FileFirst DEF ControlType
    <3>2. QED
      BY <3>1 DEF TakenBefore
  <2>3. QED
    BY <1>0, <1>1, <2>1, <2>2 DEF open_wav_file, MasksFirst
<1>2. CASE open_new_file
  BY <1>2 DEF open_new_file, Kept, ControlType
<1>3. CASE snd_pcm_init
  BY <1>3 DEF snd_pcm_init, Kept, ControlType
<1>4. CASE snd_mixer_init
  BY <1>4 DEF snd_mixer_init, Kept, ControlType
<1>5. CASE Malloc
  BY <1>5 DEF Malloc, Kept, ControlType
<1>6. CASE snd_pcm_poll_init
  <2>1. at.main = "pfds" /\ "pfds" \notin Needed
    BY <1>6, TakesType DEF snd_pcm_poll_init, ControlType
  <2>2. QED
    BY <1>6, <2>1 DEF snd_pcm_poll_init, ControlType
<1>7. CASE RawTerminal
  BY <1>7 DEF RawTerminal, Kept, ControlType
<1>8. CASE Start
  <2>1. at.main = "start" /\ "start" \notin Needed
    BY <1>8, TakesType DEF Start, ControlType
  <2>2. QED
    BY <1>8, <2>1 DEF Start, ControlType
<1>9. QED
  BY <1>1, <1>2, <1>3, <1>4, <1>5, <1>6, <1>7, <1>8 DEF Setup

\* A step of the filling loop goes on with the loop, ends it or gives up.
LEMMA FillSteps ==
  ASSUME ControlType, Kept, NEW a \in Actors,
         Avail(a) \/ Read(a) \/ Write(a) \/ Seek(a) \/ ReadCard(a) \/ Store(a)
  PROVE  /\ \E from \in Fills : Running(a, from)
         /\ UNCHANGED <<fixed, held, masked, sigio>>
         /\ pcm' = pcm \/ (pcm = "prepared" /\ pcm' = "running")
         /\ \/ /\ \E to \in Fills \cup {Done(a)} :
                    /\ Goto(a, to)
                    /\ Records => to \notin {"read", "write", "seek"}
                    /\ ~Records => to \notin {"readi", "store"}
               /\ UNCHANGED <<todo, why>>
            \/ /\ Goto(a, "leave") /\ todo' = [todo EXCEPT ![a] = Last(a)]
               /\ why' = why \/ why' \notin {"running", "no data chunk"}
               /\ a = "main" => why' # "played" \/ why' = why
<1> USE DEF card, signal, counts, fixed, file, Fills
<1>0. program \in Programs
  BY DEF ControlType
<1>1. CASE Avail(a)
  <2>1. Done(a) \notin {"read", "write", "seek"} \/ ~Records
    BY <1>0, Kinds DEF Done
  <2>2. Done(a) \notin {"readi", "store"} \/ Records
    BY <1>0, Kinds DEF Done
  <2>3. QED
    BY <1>1, <2>1, <2>2 DEF Avail
<1>2. CASE Read(a)
  <2>1. ~Records /\ Running(a, "read")
    BY <1>2 DEF Read, Running, Kept, Actors
  <2>2. UNCHANGED <<fixed, held, masked, sigio, pcm>>
    BY <1>2 DEF Read
  <2>3. \/ Goto(a, "write") /\ UNCHANGED <<todo, why>>
        \/ Leave(a, IF a = "main" THEN "end in main" ELSE "played")
    BY <1>2 DEF Read
  <2>4. CASE Goto(a, "write") /\ UNCHANGED <<todo, why>>
    BY <2>1, <2>2, <2>4
  <2>5. CASE Leave(a, IF a = "main" THEN "end in main" ELSE "played")
    <3>1. /\ Goto(a, "leave") /\ todo' = [todo EXCEPT ![a] = Last(a)]
          /\ why' = why \/ why' \notin {"running", "no data chunk"}
          /\ a = "main" => why' # "played" \/ why' = why
      BY <2>5 DEF Leave, Last
    <3>2. QED
      BY <2>1, <2>2, <3>1
  <2>6. QED
    BY <2>3, <2>4, <2>5
<1>3. CASE Write(a)
  <2>1. ~Records /\ Running(a, "write")
    BY <1>3 DEF Write, Running, Kept, Actors
  <2>2. Again \in {"read", "avail"}
    BY <1>0, <2>1, AgainIn
  <2>3. UNCHANGED <<fixed, held, masked, sigio>>
    BY <1>3 DEF Write
  <2>4. pcm' = pcm \/ (pcm = "prepared" /\ pcm' = "running")
    BY <1>3 DEF Write
  <2>5. \/ (Goto(a, "seek") \/ Goto(a, Again)) /\ UNCHANGED <<todo, why>>
        \/ Leave(a, "xrun")
    BY <1>3 DEF Write
  <2>6. CASE (Goto(a, "seek") \/ Goto(a, Again)) /\ UNCHANGED <<todo, why>>
    BY <2>1, <2>2, <2>3, <2>4, <2>6
  <2>7. CASE Leave(a, "xrun")
    <3>1. /\ Goto(a, "leave") /\ todo' = [todo EXCEPT ![a] = Last(a)]
          /\ why' = why \/ why' = "xrun"
      BY <2>7 DEF Leave, Last
    <3>2. QED
      BY <2>1, <2>3, <2>4, <3>1
  <2>8. QED
    BY <2>5, <2>6, <2>7
<1>4. CASE Seek(a)
  <2>1. ~Records /\ Running(a, "seek")
    BY <1>4 DEF Seek, Running, Kept, Actors
  <2>2. Again \in {"read", "avail"}
    BY <1>0, <2>1, AgainIn
  <2>3. UNCHANGED <<fixed, held, masked, sigio, pcm>>
    BY <1>4 DEF Seek
  <2>4. \/ Goto(a, Again) /\ UNCHANGED <<todo, why>>
        \/ Leave(a, "seek")
    BY <1>4 DEF Seek
  <2>5. QED
    BY <2>1, <2>2, <2>3, <2>4 DEF Leave, Last
<1>5. CASE ReadCard(a)
  <2>1. Records /\ Running(a, "readi")
    BY <1>5 DEF ReadCard, Running, Kept, Actors
  <2>2. UNCHANGED at => Goto(a, "readi")
    BY <2>1 DEF Running, Goto, ControlType
  <2>3. QED
    BY <1>5, <2>1, <2>2 DEF ReadCard, Leave, Last
<1>6. CASE Store(a)
  <2>1. Records
    BY <1>6 DEF Store, Running, Kept, Actors
  <2>2. QED
    BY <1>0, <1>6, <2>1, AgainIn DEF Store, Leave, Last
<1>7. QED
  BY <1>1, <1>2, <1>3, <1>4, <1>5, <1>6
-----------------------------------------------------------------------------
(* The control invariant, action by action.                                 *)
LEMMA ControlInit == Init => ControlInv
<1> SUFFICES ASSUME Init PROVE ControlInv
  OBVIOUS
<1>1. program \in Programs /\ The.takes \in Seq(Resources) /\ Len(The.takes) \in Nat \ {0}
  BY TakesType DEF Init
<1>2. Head(The.takes) = The.takes[1] /\ 1 \in 1 .. Len(The.takes)
  BY <1>1
<1>3. Head(The.takes) \in Needed /\ Place(Head(The.takes)) = 1
  BY <1>1, <1>2, PlaceIs
<1>4. /\ at \in [Actors -> Stops] /\ at.main = Head(The.takes) /\ at.callback = "idle"
      /\ at.main \in Resources /\ at.main \notin Over
  BY <1>1, <1>3, TakesType DEF Init, Actors, Stops, SettingUp, Resources, Over
<1>5. todo \in [Actors -> Seq(Calls)] /\ todo.main = <<>> /\ todo.callback = <<>>
  BY DEF Init, Actors
<1>6. ControlType
  BY <1>1, <1>4, <1>5 DEF Init, ControlType, States, Resources
<1>7. Kept
  BY <1>3, <1>4 DEF Init, Kept, Resources, Fills
<1>8. StillInv /\ AloneInv
  <2>1. AloneInv
    <3>1. Masks => at.main = "file"
      <4>1. ASSUME Masks PROVE The \in {Ctrl, Mixer}
        BY <1>1, <4>1, Kinds, ThePrograms
      <4>2. ASSUME Masks PROVE The.takes[1] = "file"
        BY <4>1, <4>2 DEF Ctrl, Mixer, Handling
      <4>3. QED
        BY <1>2, <1>4, <4>2
    <3>2. QED
      BY <1>4, <3>1 DEF Init, AloneInv, Resources
  <2>2. QED
    BY <1>4, <2>1 DEF Init, StillInv
<1>9. NoRepeats(<<>>) /\ Elements(<<>>) = {}
  BY DEF NoRepeats, Elements
<1>10. TodoInv /\ NoDataInv /\ OwnInv
  BY <1>5, <1>9 DEF Init, TodoInv, NoDataInv, OwnInv
<1>11. HeldInv
  <2>1. Taken(at.main) = {}
    BY <1>3, <1>4 DEF Taken
  <2>2. QED
    BY <1>4, <2>1 DEF Init, HeldInv
<1>12. QED
  BY <1>6, <1>7, <1>8, <1>10, <1>11 DEF ControlInv

\* main gives up after the set-up.
LEMMA MainLeaves ==
  ASSUME ControlInv, NEW from, from \notin SettingUp \cup Over,
         Running("main", from), Goto("main", "leave"),
         UNCHANGED <<program, held, sigio>>, pcm' \in States,
         todo' = [todo EXCEPT !["main"] = The.main],
         why' # "no data chunk", masked' = masked \/ masked' = TRUE,
         from \in {"keys", "mask"} => masked' = TRUE,
         program # "capture_async"
  PROVE  ControlInv'
<1>1. /\ ControlType /\ Kept /\ StillInv /\ AloneInv /\ TodoInv /\ HeldInv /\ NoDataInv /\ OwnInv
      /\ program \in Programs
  BY DEF ControlInv, ControlType
<1>2. /\ at' \in [Actors -> Stops] /\ at.main = from /\ at.callback = "idle"
      /\ at'.main = "leave" /\ at'.callback = "idle"
  BY <1>1, Moves DEF Actors, Stops, Over
<1>3. /\ The.main \in Seq(Calls) /\ NoRepeats(The.main)
      /\ Needed \subseteq Elements(The.main) /\ Elements(The.main) \subseteq Needed \cup Endings
  BY <1>1, Releases
<1>4. /\ todo' \in [Actors -> Seq(Calls)] /\ todo'.main = The.main
      /\ todo'.callback = todo.callback /\ todo.callback = <<>>
  BY <1>1, <1>2, <1>3, Leaving DEF Actors, TodoInv
<1>5. The' = The /\ Masks' = Masks /\ HasHandler' = HasHandler /\ Records' = Records /\ Needed' = Needed
  BY SameProgram
<1>6. held = Needed
  BY <1>1, <1>2 DEF HeldInv, SettingUp
<1>7. ControlType'
  BY <1>1, <1>2, <1>4, <1>5 DEF ControlType
<1>8. Kept' /\ StillInv'
  BY <1>1, <1>2, <1>5 DEF Kept, StillInv, SettingUp, Resources, Fills
<1>9. AloneInv'
  <2>1. Masks => masked' = TRUE
    BY <1>1, <1>2 DEF AloneInv, SettingUp, Resources, Over
  <2>2. QED
    BY <1>1, <1>2, <1>5, <2>1 DEF AloneInv
<1>10. TodoInv'
  BY <1>1, <1>2, <1>3, <1>4 DEF TodoInv, Over
<1>11. HeldInv' /\ NoDataInv'
  BY <1>1, <1>2, <1>3, <1>4, <1>5, <1>6 DEF HeldInv, NoDataInv, Resources, Over
<1>12. OwnInv'
  BY <1>1, <1>3, <1>4, <1>6 DEF OwnInv
<1>13. QED
  BY <1>7, <1>8, <1>9, <1>10, <1>11, <1>12 DEF ControlInv

\* The handler gives up.
LEMMA CallbackLeaves ==
  ASSUME ControlInv, NEW from \in Fills, Running("callback", from), Goto("callback", "leave"),
         UNCHANGED <<program, held, masked, sigio>>, pcm' \in States,
         pcm' = "running" => pcm \in {"running", "prepared"},
         todo' = [todo EXCEPT !["callback"] = The.callback],
         why' # "no data chunk"
  PROVE  ControlInv'
<1>1. /\ ControlType /\ Kept /\ StillInv /\ AloneInv /\ TodoInv /\ HeldInv /\ NoDataInv /\ OwnInv
      /\ program \in Programs
  BY DEF ControlInv, ControlType
<1>2. /\ at' \in [Actors -> Stops] /\ at.callback = from /\ from # "idle" /\ from # "leave"
      /\ at'.main = at.main /\ at'.callback = "leave"
  BY <1>1, Moves DEF Actors, Stops, Over, Fills
<1>3. HasHandler /\ at.main \notin SettingUp /\ at.main # "exited"
  BY <1>1, <1>2 DEF Kept, StillInv, AloneInv
<1>4. /\ The.callback \in Seq(Calls) /\ NoRepeats(The.callback)
      /\ Needed \subseteq Elements(The.callback) /\ Elements(The.callback) \subseteq Needed \cup Endings
  BY <1>1, <1>3, Releases
<1>5. /\ todo' \in [Actors -> Seq(Calls)] /\ todo'.callback = The.callback
      /\ todo'.main = todo.main
  BY <1>1, <1>4, Leaving DEF Actors
<1>6. The' = The /\ Masks' = Masks /\ HasHandler' = HasHandler /\ Records' = Records /\ Needed' = Needed
  BY SameProgram
<1>7. ControlType'
  BY <1>1, <1>2, <1>5, <1>6 DEF ControlType
<1>8. Kept' /\ StillInv'
  BY <1>1, <1>2, <1>3, <1>6 DEF Kept, StillInv
<1>9. AloneInv'
  BY <1>1, <1>2, <1>6 DEF AloneInv
<1>10. TodoInv'
  BY <1>1, <1>2, <1>4, <1>5 DEF TodoInv
<1>11. held \subseteq Needed
  BY <1>1 DEF ControlType
<1>12. HeldInv' /\ NoDataInv'
  BY <1>1, <1>2, <1>3, <1>4, <1>5, <1>6, <1>11 DEF HeldInv, NoDataInv, SettingUp, Over
<1>13. OwnInv'
  <2>1. program # "async" => at.main \in {"keys", "mask"}
    BY <1>1, <1>2, <1>3, Kinds DEF AloneInv, StillInv, SettingUp, Resources
  <2>2. program # "async" => held = Needed
    BY <1>1, <1>2, <2>1 DEF HeldInv, Resources, Over
  <2>3. QED
    BY <1>1, <1>4, <1>5, <2>2 DEF OwnInv
<1>14. QED
  BY <1>7, <1>8, <1>9, <1>10, <1>12, <1>13 DEF ControlInv

LEMMA SetupControl == ASSUME ControlInv, Setup PROVE ControlInv'
<1>1. /\ ControlType /\ Kept /\ StillInv /\ AloneInv /\ TodoInv /\ HeldInv /\ NoDataInv /\ OwnInv
      /\ program \in Programs
  BY DEF ControlInv, ControlType
<1>2. /\ at.main \in SettingUp /\ at.callback = "idle" /\ Running("main", at.main)
      /\ at.main \notin Over
      /\ program' = program /\ UNCHANGED <<queued, written, sigio, pos>> /\ masked' \in BOOLEAN
      /\ IF at.main = "file" /\ ~Records THEN masked' = Masks ELSE masked' = masked
      /\ \/ pcm' = pcm \/ pcm' = "prepared"
         \/ at.main = "start" /\ pcm' = "running" /\ Goto("main", The.waits)
  BY <1>1, SetupSteps DEF fixed, file, Running, SettingUp, Resources, Over
<1>3. /\ sigio = FALSE /\ why = "running" /\ pcm \in {"closed", "prepared"} /\ queued = 0
      /\ written = <<>> /\ pos = 0 /\ todo.main = <<>> /\ todo.callback = <<>>
  BY <1>1, <1>2 DEF StillInv, TodoInv
<1>4. The' = The /\ Masks' = Masks /\ HasHandler' = HasHandler /\ Records' = Records /\ Needed' = Needed
  BY <1>2, SameProgram
<1>5. Needed \subseteq Resources
  BY <1>1, TakesType
<1>6. Masks => ~Records
  BY <1>1, Kinds DEF Records
<1>7. pcm' \in States
  BY <1>3, <1>2 DEF States
<1>8. Masks => masked' = TRUE
  BY <1>1, <1>2, <1>6 DEF AloneInv, SettingUp, Resources
\* The set-up goes on, or is over.
<1>9. ASSUME NEW to \in Stops, Goto("main", to), UNCHANGED <<todo, why>>, held' \subseteq Needed,
             to \notin Over \cup {"idle", "mask"},
             to \in Resources => to \in Needed /\ held' = Taken(to),
             to \notin Resources => held' = Needed,
             to \in {"pfds", "poll"} => The.first = "pfds",
             to = "unmask" => Masks,
             Records => to \notin {"read", "write", "seek"},
             ~Records => to \notin {"readi", "store", "start"},
             program = "capture_async" => to \in Resources \cup {"start", "keys"},
             pcm' = "running" => to \notin SettingUp /\ (program = "capture_async" => to = "keys")
      PROVE  ControlInv'
  <2>1. /\ at' \in [Actors -> Stops] /\ at'.main = to /\ at'.callback = "idle"
    BY <1>1, <1>2, <1>9, Moves DEF Actors
  <2>2. ControlType'
    BY <1>1, <1>2, <1>4, <1>7, <1>9, <2>1 DEF ControlType
  <2>3. Kept'
    BY <1>1, <1>2, <1>3, <1>4, <1>9, <2>1 DEF Kept, Fills, Resources
  <2>4. StillInv'
    BY <1>2, <1>3, <1>9, <2>1 DEF StillInv
  <2>5. AloneInv'
    BY <1>2, <1>3, <1>4, <1>8, <1>9, <2>1 DEF AloneInv, Over
  <2>6. TodoInv' /\ NoDataInv'
    BY <1>1, <1>2, <1>3, <1>9, <2>1 DEF TodoInv, NoDataInv
  <2>7. Taken(to)' = Taken(to)
    BY <1>4 DEF Taken, Place
  <2>8. HeldInv'
    BY <1>4, <1>9, <2>1, <2>7 DEF HeldInv, Over
  <2>9. OwnInv'
    <3>1. Elements(<<>>) = {}
      BY DEF Elements
    <3>2. QED
      BY <1>3, <1>9, <3>1 DEF OwnInv
  <2>10. QED
    BY <2>2, <2>3, <2>4, <2>5, <2>6, <2>8, <2>9 DEF ControlInv
\* The set-up is given up.
<1>10. ASSUME Goto("main", "leave"), NEW calls \in Seq(Calls), todo'.main = calls,
              todo'.callback = todo.callback, todo' \in [Actors -> Seq(Calls)],
              NoRepeats(calls), held' \subseteq Needed, pcm' # "running",
              Elements(calls) \subseteq held' \cup Endings,
              IF why' = "no data chunk" THEN held' = {"file"} /\ calls = <<>>
                                        ELSE held' \subseteq Elements(calls)
       PROVE  ControlInv'
  <2>1. /\ at' \in [Actors -> Stops] /\ at'.main = "leave" /\ at'.callback = "idle"
    BY <1>1, <1>2, <1>10, Moves DEF Actors, Stops, Over
  <2>2. ControlType'
    BY <1>1, <1>2, <1>4, <1>7, <1>10, <2>1 DEF ControlType
  <2>3. Kept' /\ StillInv'
    BY <1>1, <1>2, <1>3, <1>4, <2>1 DEF Kept, StillInv, Fills, Resources, SettingUp
  <2>4. AloneInv'
    BY <1>2, <1>3, <1>4, <1>8, <1>10, <2>1 DEF AloneInv
  <2>5. TodoInv' /\ NoDataInv'
    BY <1>1, <1>3, <1>10, <2>1 DEF TodoInv, NoDataInv, Over
  <2>6. HeldInv'
    BY <1>10, <2>1 DEF HeldInv, Over, Resources
  <2>7. OwnInv'
    <3>1. Elements(<<>>) = {}
      BY DEF Elements
    <3>2. QED
      BY <1>3, <1>10, <3>1 DEF OwnInv
  <2>8. QED
    BY <2>2, <2>3, <2>4, <2>5, <2>6, <2>7 DEF ControlInv
<1>11. CASE /\ at.main \in Needed /\ Goto("main", Following(at.main))
            /\ held' = held \cup {at.main} /\ UNCHANGED <<todo, why>>
  <2>1. held = Taken(at.main) /\ at.main # "start"
    BY <1>1, <1>5, <1>11 DEF HeldInv, Resources
  <2>2. pcm' # "running"
    BY <1>2, <1>3, <2>1
  <2>3. held' \subseteq Needed
    BY <1>1, <1>11 DEF ControlType
  <2>4. CASE /\ Following(at.main) \in Needed
             /\ Taken(Following(at.main)) = Taken(at.main) \cup {at.main}
    <3>1. held' = Taken(Following(at.main)) /\ Following(at.main) \in Resources
      BY <1>5, <1>11, <2>1, <2>4
    <3>2. Following(at.main) \in Stops /\ Following(at.main) \notin {"pfds", "start", "poll", "idle", "unmask", "mask"} \cup Over \cup Fills
      BY <3>1 DEF Resources, Stops, SettingUp, Over, Fills
    <3>3. QED
      BY <1>9, <1>11, <2>2, <2>3, <2>4, <3>1, <3>2 DEF Fills
  <2>5. CASE Following(at.main) = The.first /\ Needed = Taken(at.main) \cup {at.main}
    <3>1. held' = Needed
      BY <1>11, <2>1, <2>5
    <3>2. /\ The.first \in {"readi", "pfds", "start", "read", "avail"}
          /\ Records => The.first \notin {"read", "write", "seek"}
          /\ ~Records => The.first \notin {"readi", "store", "start"}
          /\ program = "capture_async" => The.first = "start"
      BY <1>1, Kinds
    <3>3. The.first \in Stops /\ The.first \notin Over \cup Resources \cup {"idle", "mask", "unmask", "poll"}
      BY <3>2 DEF Stops, SettingUp, Fills, Over, Resources
    <3>4. QED
      BY <1>9, <1>11, <2>2, <2>5, <3>1, <3>2, <3>3
  <2>6. QED
    BY <1>1, <1>11, <2>4, <2>5, NextTake
<1>12. CASE /\ at.main = "pfds" /\ Goto("main", IF Records THEN "start" ELSE "poll")
            /\ UNCHANGED <<held, todo, why>>
  <2>1. held = Needed /\ The.first = "pfds" /\ program # "capture_async"
    BY <1>1, <1>2, <1>12, Kinds DEF HeldInv, Kept, Resources, Over
  <2>2. pcm' # "running"
    BY <1>2, <1>3, <1>12
  <2>3. "start" \in Stops /\ "poll" \in Stops
    BY DEF Stops, SettingUp
  <2>4. QED
    BY <1>9, <1>12, <2>1, <2>2, <2>3 DEF Over, Resources
<1>13. CASE at.main = "start" /\ Goto("main", The.waits) /\ UNCHANGED <<held, todo, why>>
  <2>1. held = Needed /\ Records
    BY <1>1, <1>2, <1>13 DEF HeldInv, Kept, Resources, Over
  <2>2. /\ The.waits \in {"readi", "poll", "keys"}
        /\ The.waits = "poll" => The.first = "pfds"
        /\ program = "capture_async" => The.waits = "keys"
    BY <1>1, <2>1, Kinds
  <2>3. /\ The.waits \in Stops
        /\ The.waits \notin Over \cup SettingUp \cup {"idle", "mask", "unmask", "read", "write", "seek"}
    BY <2>2 DEF Stops, SettingUp, Fills, Over, Resources
  <2>4. QED
    BY <1>9, <1>13, <2>1, <2>2, <2>3 DEF SettingUp
<1>14. CASE /\ Goto("main", "leave") /\ why' = "setup" /\ UNCHANGED held
            /\ \/ at.main \in Needed /\ todo' = [todo EXCEPT !.main = TakenBefore(at.main)]
               \/ at.main \notin Needed /\ todo' = [todo EXCEPT !.main = The.main]
  <2>1. pcm' # "running"
    <3>1. at'.main = "leave"
      BY <1>1, <1>2, <1>14, Moves DEF Actors, Stops, Over
    <3>2. Goto("main", The.waits) /\ The.waits \in Stops => at'.main = The.waits
      BY <1>1, <1>2, Moves DEF Actors
    <3>3. The.waits \in {"read", "readi", "poll", "keys", "unmask"}
      BY <1>1, Kinds
    <3>4. The.waits \in Stops /\ The.waits # "leave"
      BY <3>3 DEF Stops, Fills
    <3>5. QED
      BY <1>2, <1>3, <3>1, <3>2, <3>4
  <2>2. CASE at.main \in Needed /\ todo' = [todo EXCEPT !.main = TakenBefore(at.main)]
    <3>1. /\ TakenBefore(at.main) \in Seq(Calls) /\ NoRepeats(TakenBefore(at.main))
          /\ Elements(TakenBefore(at.main)) = Taken(at.main)
      BY <1>1, <2>2, Unwinding
    <3>2. held = Taken(at.main) /\ held \subseteq Needed
      BY <1>1, <1>5, <2>2 DEF HeldInv, ControlType
    <3>3. /\ todo' \in [Actors -> Seq(Calls)] /\ todo'.main = TakenBefore(at.main)
          /\ todo'.callback = todo.callback
      BY <1>1, <2>2, <3>1, Leaving DEF Actors
    <3>4. QED
      BY <1>10, <1>14, <2>1, <3>1, <3>2, <3>3
  <2>3. CASE at.main \notin Needed /\ todo' = [todo EXCEPT !.main = The.main]
    <3>1. /\ The.main \in Seq(Calls) /\ NoRepeats(The.main)
          /\ Needed \subseteq Elements(The.main) /\ Elements(The.main) \subseteq Needed \cup Endings
      BY <1>1, Releases
    <3>2. held = Needed
      BY <1>1, <1>2, <2>3 DEF HeldInv, Kept
    <3>3. /\ todo' \in [Actors -> Seq(Calls)] /\ todo'.main = The.main
          /\ todo'.callback = todo.callback
      BY <1>1, <2>3, <3>1, Leaving DEF Actors
    <3>4. QED
      BY <1>10, <1>14, <2>1, <3>1, <3>2, <3>3
  <2>4. QED
    BY <1>14, <2>2, <2>3
<1>15. CASE /\ ~Records /\ at.main = "file" /\ Goto("main", "leave")
            /\ held' = held \cup {"file"} /\ why' = "no data chunk" /\ UNCHANGED todo
  <2>1. "file" \in Needed /\ pcm' # "running"
    BY <1>1, <1>2, <1>3, <1>15 DEF Kept, Resources
  <2>2. held = {} /\ held' = {"file"}
    <3>1. held = Taken("file") /\ Taken("file") = {}
      BY <1>1, <1>15, FileFirst DEF HeldInv, Resources
    <3>2. QED
      BY <1>15, <3>1
  <2>3. /\ <<>> \in Seq(Calls) /\ NoRepeats(<<>>) /\ Elements(<<>>) = {}
    BY DEF NoRepeats, Elements
  <2>4. todo' \in [Actors -> Seq(Calls)]
    BY <1>1, <1>15 DEF ControlType
  <2>5. QED
    BY <1>3, <1>10, <1>15, <2>1, <2>2, <2>3, <2>4
<1>16. QED
  BY <1>1, <1>11, <1>12, <1>13, <1>14, <1>15, SetupSteps

\* main goes on after the set-up.
LEMMA MainGoesOn ==
  ASSUME ControlInv, NEW from, from \notin SettingUp \cup Over, NEW to \in Stops,
         to \notin SettingUp \cup Over \cup {"idle"},
         Running("main", from), Goto("main", to),
         UNCHANGED <<program, held, sigio, todo, why>>, pcm' \in States, masked' \in BOOLEAN,
         Records => to \notin {"read", "write", "seek"},
         ~Records => to \notin {"readi", "store"},
         to \in {"unmask", "mask"} => Masks, to = "poll" => The.first = "pfds",
         to \in Fills \cup {"unmask"} => masked' = masked,
         to = "keys" \/ program # "capture_async",
         Masks => from \notin {"keys", "mask"} \/ to \in {"keys", "mask"}
  PROVE  ControlInv'
<1>1. /\ ControlType /\ Kept /\ StillInv /\ AloneInv /\ TodoInv /\ HeldInv /\ NoDataInv /\ OwnInv
      /\ program \in Programs
  BY DEF ControlInv, ControlType
<1>2. /\ at' \in [Actors -> Stops] /\ at.main = from /\ at.callback = "idle"
      /\ at'.main = to /\ at'.callback = "idle"
  BY <1>1, Moves DEF Actors
<1>3. The' = The /\ Masks' = Masks /\ HasHandler' = HasHandler /\ Records' = Records /\ Needed' = Needed
  BY SameProgram
<1>4. ControlType'
  BY <1>1, <1>2, <1>3 DEF ControlType
<1>5. Kept' /\ StillInv'
  BY <1>1, <1>2, <1>3 DEF Kept, StillInv, SettingUp, Fills
<1>6. AloneInv'
  <2>1. Masks /\ to \notin {"keys", "mask"} => masked' = TRUE
    <3>1. Masks => The.first # "pfds"
      BY <1>1, Kinds
    <3>2. Masks /\ to \notin {"keys", "mask"} => to \in Fills \cup {"unmask"}
      BY <3>1 DEF Stops, SettingUp, Over
    <3>3. Masks /\ to \notin {"keys", "mask"} => masked = TRUE
      BY <1>1, <1>2 DEF AloneInv, SettingUp, Resources, Over
    <3>4. masked \in BOOLEAN
      BY <1>1 DEF ControlType
    <3>5. QED
      BY <3>2, <3>3, <3>4
  <2>2. program = "capture_async" => to = "keys"
    OBVIOUS
  <2>3. QED
    BY <1>2, <1>3, <2>1, <2>2 DEF AloneInv, SettingUp, Over
<1>7. TodoInv' /\ NoDataInv'
  BY <1>1, <1>2 DEF TodoInv, NoDataInv, Over
<1>8. HeldInv' /\ OwnInv'
  BY <1>1, <1>2, <1>3 DEF HeldInv, OwnInv, SettingUp, Over
<1>9. QED
  BY <1>4, <1>5, <1>6, <1>7, <1>8 DEF ControlInv

\* The handler goes on or returns.
LEMMA CallbackGoesOn ==
  ASSUME ControlInv, NEW from \in Fills, NEW to \in Fills \cup {"idle"},
         Running("callback", from), Goto("callback", to),
         UNCHANGED <<program, held, masked, sigio, todo, why>>, pcm' \in States,
         Records => to \notin {"read", "write", "seek"},
         ~Records => to \notin {"readi", "store"}
  PROVE  ControlInv'
<1>1. /\ ControlType /\ Kept /\ StillInv /\ AloneInv /\ TodoInv /\ HeldInv /\ NoDataInv /\ OwnInv
      /\ program \in Programs
  BY DEF ControlInv, ControlType
<1>2. /\ at' \in [Actors -> Stops] /\ at.callback = from /\ at'.main = at.main /\ at'.callback = to
      /\ from # "idle" /\ from # "leave" /\ to # "leave"
  BY <1>1, Moves DEF Actors, Stops, Fills
<1>3. The' = The /\ Masks' = Masks /\ HasHandler' = HasHandler /\ Records' = Records /\ Needed' = Needed
  BY SameProgram
<1>4. HasHandler /\ at.main \notin SettingUp
  BY <1>1, <1>2 DEF Kept, StillInv
<1>5. ControlType'
  BY <1>1, <1>2, <1>3 DEF ControlType
<1>6. Kept' /\ StillInv' /\ AloneInv'
  BY <1>1, <1>2, <1>3, <1>4 DEF Kept, StillInv, AloneInv
<1>7. TodoInv' /\ NoDataInv'
  BY <1>1, <1>2 DEF TodoInv, NoDataInv
<1>8. HeldInv' /\ OwnInv'
  BY <1>1, <1>2, <1>3, <1>4 DEF HeldInv, OwnInv, SettingUp
<1>9. QED
  BY <1>5, <1>6, <1>7, <1>8 DEF ControlInv

LEMMA FillControl ==
  ASSUME ControlInv, NEW a \in Actors,
         Avail(a) \/ Read(a) \/ Write(a) \/ Seek(a) \/ ReadCard(a) \/ Store(a)
  PROVE  ControlInv'
<1>1. ControlType /\ Kept /\ NoDataInv /\ program \in Programs
  BY DEF ControlInv, ControlType
<1>2. PICK from \in Fills : Running(a, from)
  BY <1>1, FillSteps
<1>3. /\ UNCHANGED <<program, held, masked, sigio>> /\ pcm' \in States
      /\ pcm' = "running" => pcm \in {"running", "prepared"}
      /\ masked \in BOOLEAN
  BY <1>1, FillSteps DEF fixed, ControlType, States
<1>4. from \notin SettingUp \cup Over /\ from \notin {"keys", "mask"}
  BY DEF Fills, SettingUp, Resources, Over
<1>5. a = "main" => program # "capture_async"
  BY <1>1, <1>2 DEF Kept, Running
<1>6. ASSUME NEW to \in Fills \cup {Done(a)}, Goto(a, to), UNCHANGED <<todo, why>>,
             Records => to \notin {"read", "write", "seek"},
             ~Records => to \notin {"readi", "store"}
      PROVE  ControlInv'
  <2>1. CASE a = "main"
    <3>1. /\ The.waits \in {"read", "readi", "poll", "keys", "unmask"}
          /\ The.waits = "poll" => The.first = "pfds"
          /\ The.waits = "unmask" => Masks
      BY <1>1, Kinds DEF Masks
    <3>2. /\ to \in Fills \cup {"poll", "keys", "unmask"}
          /\ to = "poll" => The.first = "pfds"
          /\ to = "unmask" => Masks
      BY <1>6, <2>1, <3>1 DEF Done, Fills
    <3>3. to \in Stops /\ to \notin SettingUp \cup Over \cup {"idle"}
      BY <3>2 DEF Stops, Fills, SettingUp, Resources, Over
    <3>4. QED
      BY <1>2, <1>3, <1>4, <1>5, <1>6, <2>1, <3>2, <3>3, MainGoesOn DEF Fills
  <2>2. CASE a = "callback"
    <3>1. to \in Fills \cup {"idle"}
      BY <2>2 DEF Done
    <3>2. QED
      BY <1>2, <1>3, <1>6, <2>2, <3>1, CallbackGoesOn
  <2>3. QED
    BY <2>1, <2>2 DEF Actors
<1>7. ASSUME Goto(a, "leave"), todo' = [todo EXCEPT ![a] = Last(a)],
             why' = why \/ why' \notin {"running", "no data chunk"}
      PROVE  ControlInv'
  <2>1. why # "no data chunk"
    <3>1. at.callback # "idle" \/ at.main \notin Over
      BY <1>2, <1>4 DEF Running, Actors, Fills
    <3>2. QED
      BY <1>1, <3>1 DEF NoDataInv
  <2>2. why' # "no data chunk"
    BY <1>7, <2>1
  <2>3. CASE a = "main"
    BY <1>2, <1>3, <1>4, <1>5, <1>7, <2>2, <2>3, MainLeaves DEF Last
  <2>4. CASE a = "callback"
    BY <1>2, <1>3, <1>7, <2>2, <2>4, CallbackLeaves DEF Last
  <2>5. QED
    BY <2>3, <2>4 DEF Actors
<1>8. QED
  BY <1>1, <1>6, <1>7, FillSteps

LEMMA PollControl == ASSUME ControlInv, Poll PROVE ControlInv'
<1>1. ControlType /\ Kept /\ NoDataInv /\ program \in Programs
  BY DEF ControlInv, ControlType
<1>2. /\ Running("main", "poll") /\ UNCHANGED <<program, held, masked, sigio, pcm>>
      /\ pcm' \in States /\ masked \in BOOLEAN /\ at.main = "poll"
  BY <1>1 DEF Poll, fixed, card, signal, Running, ControlType
<1>3. program # "capture_async" /\ why # "no data chunk"
  BY <1>1, <1>2, Kinds DEF Kept, NoDataInv, Over
<1>4. "poll" \notin SettingUp \cup Over
  BY DEF SettingUp, Resources, Over
<1>5. CASE Leave("main", "xrun")
  <2>1. /\ Goto("main", "leave") /\ todo' = [todo EXCEPT !["main"] = The.main]
        /\ why' # "no data chunk"
    BY <1>3, <1>5 DEF Leave
  <2>2. QED
    BY <1>2, <1>3, <1>4, <2>1, MainLeaves
<1>6. CASE Goto("main", "avail") /\ UNCHANGED <<todo, why>>
  <2>1. "avail" \in Stops /\ "avail" \notin SettingUp \cup Over \cup {"idle"}
    BY DEF Stops, Fills, SettingUp, Resources, Over
  <2>2. QED
    BY <1>2, <1>3, <1>4, <1>6, <2>1, MainGoesOn
<1>7. QED
  BY <1>5, <1>6 DEF Poll

LEMMA KeysControl == ASSUME ControlInv, Unmask \/ Quit \/ Mask PROVE ControlInv'
<1>1. ControlType /\ Kept /\ NoDataInv /\ program \in Programs
  BY DEF ControlInv, ControlType
<1>2. pcm \in States /\ masked \in BOOLEAN
  BY <1>1 DEF ControlType
<1>3. {"unmask", "keys", "mask"} \cap (SettingUp \cup Over \cup Fills) = {}
  BY DEF SettingUp, Resources, Over, Fills
<1>4. "keys" \in Stops /\ "mask" \in Stops
  BY DEF Stops
<1>5. CASE Unmask
  <2>1. /\ Running("main", "unmask") /\ Goto("main", "keys") /\ masked' = FALSE
        /\ UNCHANGED <<program, held, sigio, pcm, todo, why>>
    BY <1>5 DEF Unmask, fixed, card
  <2>2. QED
    BY <1>2, <1>3, <1>4, <2>1, MainGoesOn
<1>6. CASE Quit
  <2>1. /\ Running("main", "keys") /\ Goto("main", "mask") /\ Masks
        /\ UNCHANGED <<program, held, masked, sigio, pcm, todo, why>>
    BY <1>6 DEF Quit, fixed, card, signal
  <2>2. program # "capture_async"
    BY <1>1, <2>1, Kinds
  <2>3. QED
    BY <1>2, <1>3, <1>4, <2>1, <2>2, MainGoesOn
<1>7. CASE Mask
  <2>1. /\ Running("main", "mask") /\ masked' = TRUE /\ Leave("main", "quit")
        /\ UNCHANGED <<program, held, sigio, pcm>> /\ at.main = "mask"
    BY <1>7 DEF Mask, MaskAtQuit, fixed, card, Running
  <2>2. program # "capture_async" /\ why # "no data chunk"
    BY <1>1, <2>1, Kinds DEF Kept, NoDataInv, Over
  <2>3. /\ Goto("main", "leave") /\ todo' = [todo EXCEPT !["main"] = The.main]
        /\ why' # "no data chunk"
    BY <2>1, <2>2 DEF Leave
  <2>4. QED
    BY <1>2, <1>3, <2>1, <2>2, <2>3, MainLeaves
<1>8. QED
  BY <1>5, <1>6, <1>7

\* The card and the space key change neither actor.
LEMMA CardControl ==
  ASSUME ControlInv, Space \/ DrainStarts \/ Play \/ Record \/ UNCHANGED vars
  PROVE  ControlInv'
<1>1. /\ ControlType /\ Kept /\ StillInv /\ AloneInv /\ TodoInv /\ HeldInv /\ NoDataInv /\ OwnInv
      /\ program \in Programs
  BY DEF ControlInv, ControlType
<1>2. UNCHANGED <<program, at, held, masked, todo, why>>
  BY DEF Space, DrainStarts, Play, Record, vars, fixed, control, signal
<1>3. The' = The /\ Masks' = Masks /\ HasHandler' = HasHandler /\ Records' = Records /\ Needed' = Needed
  BY <1>2, SameProgram
<1>4. /\ pcm' \in States /\ sigio' \in BOOLEAN /\ (~HasHandler => sigio' = sigio)
      /\ UNCHANGED <<pcm, sigio, queued, pos, written>> \/ pcm \in {"running", "paused", "draining"}
      /\ pcm' = "running" => pcm = "running" \/ Masks \/ pcm' = pcm
      /\ sigio' = sigio \/ pcm = "running" \/ ~Records
  <2>1. sigio \in BOOLEAN /\ pcm \in States /\ HasHandler \in BOOLEAN
    BY <1>1 DEF ControlType, HasHandler
  <2>2. CASE Space
    BY <2>1, <2>2 DEF Space, States, signal
  <2>3. CASE DrainStarts
    BY <2>1, <2>3 DEF DrainStarts, States, signal
  <2>4. CASE Play
    BY <2>1, <2>4 DEF Play, States
  <2>5. CASE Record
    BY <2>1, <2>5 DEF Record, States
  <2>6. CASE UNCHANGED vars
    BY <2>1, <2>6 DEF vars, card, signal, file
  <2>7. QED
    BY <2>2, <2>3, <2>4, <2>5, <2>6
<1>5. ControlType' /\ Kept'
  <2>1. ControlType'
    BY <1>1, <1>2, <1>3, <1>4 DEF ControlType
  <2>2. ~HasHandler => at'.callback = "idle" /\ sigio' = FALSE
    BY <1>1, <1>2, <1>4 DEF Kept
  <2>3. Kept'
    BY <1>1, <1>2, <1>3, <2>2 DEF Kept
  <2>4. QED
    BY <2>1, <2>3
<1>6. StillInv'
  BY <1>1, <1>2, <1>4 DEF StillInv
<1>7. AloneInv'
  <2>1. program = "capture_async" => Records /\ ~Masks
    BY <1>1, Kinds DEF Records
  <2>2. QED
    BY <1>1, <1>2, <1>3, <1>4, <2>1 DEF AloneInv
<1>8. TodoInv' /\ HeldInv' /\ NoDataInv' /\ OwnInv'
  <2>1. Taken(at.main)' = Taken(at.main)
    BY <1>2, <1>3 DEF Taken, Place
  <2>2. QED
    BY <1>1, <1>2, <1>3, <2>1 DEF TodoInv, HeldInv, NoDataInv, OwnInv
<1>9. QED
  BY <1>5, <1>6, <1>7, <1>8 DEF ControlInv

LEMMA DeliverControl == ASSUME ControlInv, Deliver PROVE ControlInv'
<1>1. /\ ControlType /\ Kept /\ StillInv /\ AloneInv /\ TodoInv /\ HeldInv /\ NoDataInv /\ OwnInv
      /\ program \in Programs
  BY DEF ControlInv, ControlType
<1>2. /\ sigio # FALSE /\ masked # TRUE /\ at.callback = "idle" /\ "pcm" \in held /\ sigio' = FALSE
      /\ UNCHANGED <<program, held, pcm, queued, written, pos, masked, todo, why>>
      /\ Running("callback", "idle") /\ Goto("callback", "avail")
  BY DEF Deliver, fixed, card, file, Running
<1>3. /\ at' \in [Actors -> Stops] /\ at'.main = at.main /\ at'.callback = "avail"
  BY <1>1, <1>2, Moves DEF Actors, Stops, Fills
<1>4. The' = The /\ Masks' = Masks /\ HasHandler' = HasHandler /\ Records' = Records /\ Needed' = Needed
  BY <1>2, SameProgram
<1>5. HasHandler /\ at.main \notin SettingUp /\ at.main # "exited" /\ why # "no data chunk"
  <2>1. why # "no data chunk"
    <3>1. "pcm" \in held
      BY <1>2
    <3>2. held # {"file"}
      BY <3>1
    <3>3. QED
      BY <1>1, <3>2 DEF NoDataInv
  <2>2. HasHandler /\ at.main \notin SettingUp
    BY <1>1, <1>2 DEF Kept, StillInv
  <2>3. QED
    BY <1>1, <1>2, <2>1, <2>2 DEF HeldInv
<1>6. ControlType' /\ Kept' /\ StillInv'
  BY <1>1, <1>2, <1>3, <1>4, <1>5 DEF ControlType, Kept, StillInv, Fills
<1>7. AloneInv'
  BY <1>1, <1>2, <1>3, <1>4, <1>5 DEF AloneInv
<1>8. TodoInv' /\ NoDataInv'
  BY <1>1, <1>2, <1>3, <1>5 DEF TodoInv, NoDataInv
<1>9. HeldInv' /\ OwnInv'
  BY <1>1, <1>2, <1>3, <1>4, <1>5 DEF HeldInv, OwnInv, SettingUp
<1>10. QED
  BY <1>6, <1>7, <1>8, <1>9 DEF ControlInv

\* Only in _async does the handler run while main is not waiting for keys.
LEMMA HandlerAlone ==
  ASSUME ControlInv, at.callback # "idle"
  PROVE  /\ at.main \notin SettingUp /\ at.main # "exited" /\ HasHandler
         /\ program # "async" => at.main \in {"keys", "mask"}
<1>1. Kept /\ StillInv /\ AloneInv /\ program \in Programs
  BY DEF ControlInv, ControlType
<1>2. at.main \notin SettingUp /\ at.main # "exited" /\ HasHandler
  BY <1>1 DEF Kept, StillInv, AloneInv
<1>3. at.main # "file"
  BY <1>2 DEF SettingUp, Resources
<1>4. program # "async" => Masks \/ program = "capture_async"
  BY <1>1, <1>2, Kinds
<1>5. program # "async" => at.main \in {"keys", "mask"}
  BY <1>1, <1>3, <1>4 DEF AloneInv
<1>6. QED
  BY <1>2, <1>5

LEMMA ReleaseControl == ASSUME ControlInv, NEW a \in Actors, Release(a) PROVE ControlInv'
<1>1. /\ ControlType /\ Kept /\ StillInv /\ AloneInv /\ TodoInv /\ HeldInv /\ NoDataInv /\ OwnInv
      /\ program \in Programs
  BY DEF ControlInv, ControlType
<1>2. /\ Running(a, "leave") /\ UNCHANGED <<program, masked, sigio, why, pos>>
      /\ at[a] = "leave"
      /\ a = "main" => at.callback = "idle"
  BY DEF Release, fixed, signal, file, Running
<1>3. The' = The /\ Masks' = Masks /\ HasHandler' = HasHandler /\ Records' = Records /\ Needed' = Needed
  BY <1>2, SameProgram
<1>4. \/ a = "main" /\ at.main = "leave" /\ at.callback = "idle" /\ todo.callback = <<>>
      \/ a = "callback" /\ at.callback = "leave"
  BY <1>1, <1>2 DEF Actors, TodoInv
<1>5. /\ at.main \notin SettingUp /\ at.main # "exited"
      /\ a = "callback" /\ program # "async" => todo.main = <<>>
      /\ a = "callback" => HasHandler
  <2>1. CASE a = "main"
    BY <1>4, <2>1 DEF SettingUp, Resources
  <2>2. CASE a = "callback"
    <3>1. /\ at.main \notin SettingUp /\ at.main # "exited" /\ HasHandler
          /\ program # "async" => at.main \in {"keys", "mask"}
      BY <1>4, <2>2, HandlerAlone
    <3>2. QED
      BY <1>1, <2>2, <3>1 DEF TodoInv, Over
  <2>3. QED
    BY <2>1, <2>2 DEF Actors
<1>6. Elements(<<>>) = {} /\ NoRepeats(<<>>)
  BY DEF Elements, NoRepeats
<1>7. CASE todo[a] = <<>>
  <2>1. /\ at' = [main |-> "exited", callback |-> "idle"]
        /\ UNCHANGED <<todo, held, pcm, queued, written>>
    BY <1>7 DEF Release
  <2>2. at' \in [Actors -> Stops] /\ at'.main = "exited" /\ at'.callback = "idle"
    BY <2>1 DEF Actors, Stops, Over
  <2>3. ControlType'
    BY <1>1, <1>2, <1>3, <2>1, <2>2 DEF ControlType
  <2>4. Kept' /\ StillInv'
    BY <1>1, <1>2, <1>3, <2>1, <2>2 DEF Kept, StillInv, Fills, SettingUp, Resources
  <2>5. AloneInv'
    BY <1>2, <1>3, <2>2 DEF AloneInv
  <2>6. TodoInv'
    BY <1>1, <1>4, <1>7, <2>1, <2>2 DEF TodoInv, Over
  <2>7. HeldInv' /\ NoDataInv'
    <3>1. why # "no data chunk" => held = {}
      BY <1>1, <1>4, <1>6, <1>7 DEF HeldInv
    <3>2. why = "no data chunk" => held = {"file"} /\ todo.main = <<>>
      BY <1>1 DEF NoDataInv
    <3>3. QED
      BY <1>2, <2>1, <2>2, <3>1, <3>2 DEF HeldInv, NoDataInv, Over, Resources
  <2>8. OwnInv'
    BY <1>1, <1>2, <2>1 DEF OwnInv
  <2>9. QED
    BY <2>3, <2>4, <2>5, <2>6, <2>7, <2>8 DEF ControlInv
<1>8. CASE todo[a] # <<>>
  <2>1. /\ held' = held \ {Head(todo[a])} /\ todo' = [todo EXCEPT ![a] = Tail(todo[a])]
        /\ pcm' \in {"setup", "closed", pcm} /\ at' = at
    BY <1>8 DEF Release
  <2>2. todo[a] \in Seq(Calls) /\ NoRepeats(todo[a])
    BY <1>1, <1>4 DEF ControlType, TodoInv
  <2>3. /\ Tail(todo[a]) \in Seq(Calls) /\ NoRepeats(Tail(todo[a]))
        /\ Elements(Tail(todo[a])) = Elements(todo[a]) \ {Head(todo[a])}
    BY <1>8, <2>2, TailLeft
  <2>4. /\ todo' \in [Actors -> Seq(Calls)]
        /\ a = "main" => todo'.main = Tail(todo.main) /\ todo'.callback = todo.callback
        /\ a = "callback" => todo'.callback = Tail(todo.callback) /\ todo'.main = todo.main
    BY <1>1, <2>1, <2>3, Leaving
  <2>5. ControlType'
    BY <1>1, <1>2, <1>3, <2>1, <2>4 DEF ControlType, States
  <2>6. Kept' /\ StillInv'
    BY <1>1, <1>2, <1>3, <1>5, <2>1 DEF Kept, StillInv
  <2>7. AloneInv'
    BY <1>1, <1>2, <1>3, <2>1 DEF AloneInv
  <2>8. TodoInv'
    BY <1>1, <1>4, <2>1, <2>3, <2>4 DEF TodoInv, Over
  <2>9. why # "no data chunk"
    BY <1>1, <1>4, <1>8 DEF NoDataInv
  <2>10. HeldInv' /\ NoDataInv'
    <3>1. CASE a = "main"
      BY <1>1, <1>2, <1>4, <2>1, <2>3, <2>4, <2>9, <3>1 DEF HeldInv, NoDataInv, Over, Resources
    <3>2. CASE a = "callback"
      BY <1>1, <1>2, <1>4, <1>5, <2>1, <2>3, <2>4, <2>9, <3>2 DEF HeldInv, NoDataInv, SettingUp
    <3>3. QED
      BY <3>1, <3>2 DEF Actors
  <2>11. OwnInv'
    <3>1. CASE a = "main"
      BY <1>1, <1>2, <1>4, <1>6, <2>1, <2>3, <2>4, <3>1 DEF OwnInv
    <3>2. CASE a = "callback"
      BY <1>1, <1>2, <1>4, <1>5, <1>6, <2>1, <2>3, <2>4, <3>2 DEF OwnInv
    <3>3. QED
      BY <3>1, <3>2 DEF Actors
  <2>12. QED
    BY <2>5, <2>6, <2>7, <2>8, <2>10, <2>11 DEF ControlInv
<1>9. QED
  BY <1>7, <1>8

LEMMA ControlStep == ControlInv /\ [Next]_vars => ControlInv'
<1> SUFFICES ASSUME ControlInv, [Next]_vars PROVE ControlInv'
  OBVIOUS
<1>1. ASSUME NEW a \in Actors, Step(a) PROVE ControlInv'
  BY <1>1, FillControl, ReleaseControl DEF Step
<1>2. QED
  BY <1>1, SetupControl, PollControl, KeysControl, CardControl, DeliverControl
  DEF Next, MainStep, CallbackStep, Actors

(* With main and handler sharing the file, the buffer and the card, neither *)
(* works with what the other has given up, and nothing is released twice    *)
(* (snd_playback_async_callback, main of _ctrl and _mixer, capture_async).  *)
THEOREM HeldWhileUsed == Spec => []ReleasesWhatItHolds
<1>1. ControlInv => ReleasesWhatItHolds
  <2> SUFFICES ASSUME ControlInv, Masks \/ program = "capture_async"
               PROVE  /\ at.callback \in {"avail", "read", "write", "seek", "readi", "store"}
                           => held = Needed
                      /\ \A a \in Actors : \A i \in DOMAIN todo[a] :
                           todo[a][i] \in held \cup {"drop", "drain"}
    BY DEF ReleasesWhatItHolds
  <2>1. ControlType /\ HeldInv /\ OwnInv /\ program # "async"
    BY Kinds DEF ControlInv, ControlType
  <2>2. ASSUME at.callback \in Fills PROVE held = Needed
    <3>1. at.callback # "idle" /\ at.callback # "leave"
      BY <2>2 DEF Fills
    <3>2. at.main \in {"keys", "mask"}
      BY <2>1, <3>1, HandlerAlone
    <3>3. QED
      BY <2>1, <3>1, <3>2 DEF HeldInv, Resources, Over
  <2>3. ASSUME NEW a \in Actors, NEW i \in DOMAIN todo[a]
        PROVE  todo[a][i] \in held \cup {"drop", "drain"}
    <3>1. todo[a] \in Seq(Calls)
      BY <2>1 DEF ControlType
    <3>2. i \in 1 .. Len(todo[a])
      BY <3>1
    <3>3. todo[a][i] \in Elements(todo[a])
      BY <3>2 DEF Elements
    <3>4. Elements(todo[a]) \subseteq held \cup Endings
      BY <2>1 DEF OwnInv, Actors
    <3>5. QED
      BY <3>3, <3>4 DEF Endings
  <2>4. QED
    BY <2>2, <2>3 DEF Fills
<1>2. QED
  BY ControlInit, ControlStep, <1>1, PTL DEF Spec

(* However a program ends, every resource has been released.                *)
THEOREM ReleasedAtExit == Spec => []NothingHeldAtExit
<1>1. ControlInv => NothingHeldAtExit
  BY DEF ControlInv, HeldInv, NoDataInv, NothingHeldAtExit, Exited
<1>2. QED
  BY ControlInit, ControlStep, <1>1, PTL DEF Spec
-----------------------------------------------------------------------------
(* What is read, written and played.                                        *)
LEMMA DataInit == Init => DataInv /\ HeardInv
<1> SUFFICES ASSUME Init PROVE DataInv /\ HeardInv
  OBVIOUS
<1>1. ControlInv
  BY ControlInit
<1>2. /\ length \in Nat /\ pos = 0 /\ buf = <<>> /\ written = <<>> /\ queued = 0
      /\ wrote = [a \in Actors |-> 0] /\ spoilt = FALSE /\ why = "running"
  BY PcmNat DEF Init
<1>3. DataType
  <2>1. <<>> \in Seq(Int)
    OBVIOUS
  <2>2. buf \in Seq(Int) /\ written \in Seq(Int)
    BY <1>2, <2>1, Zenon
  <2>3. wrote \in [Actors -> Nat]
    BY <1>2
  <2>4. length \in Nat /\ pos \in Int /\ queued \in Nat
    BY <1>2
  <2>4a. spoilt \in BOOLEAN
    <3>1. spoilt = FALSE
      BY <1>2
    <3>2. QED
      BY <3>1
  <2>5. QED
    BY <2>2, <2>3, <2>4, <2>4a DEF DataType
<1>4. ControlType /\ at.callback = "idle" /\ at = [main |-> Head(The.takes), callback |-> "idle"]
  BY <1>1 DEF Init, ControlInv
<1>5. at.main \in Resources
  <2>1. program \in Programs
    BY DEF Init
  <2>2. Head(The.takes) \in Resources
    BY <2>1, TakesType
  <2>3. QED
    BY <1>4, <2>2
<1>6. \A a \in Actors : at[a] \notin Busy
  BY <1>4, <1>5 DEF Actors, Resources, Busy
<1>7. QED
  BY <1>2, <1>3, <1>6
  DEF DataInv, BufInv, QueueInv, OrderInv, PlayedInv, RecordedInv, HeardInv, Busy

\* Except in _async, only one of the two fills, and neither has left.
LEMMA OneFills ==
  ASSUME ControlInv, program # "async", NEW a \in Actors, NEW from \in Fills, Running(a, from)
  PROVE  ~Left /\ \A b \in Actors : b # a => at[b] \notin Fills
<1>1. CASE a = "main"
  BY <1>1 DEF Running, Left, Over, Fills, Actors
<1>2. CASE a = "callback"
  <2>1. at.callback = from /\ at.callback \notin {"idle", "leave"}
    BY <1>2 DEF Running, Fills
  <2>2. at.main \in {"keys", "mask"}
    BY <2>1, HandlerAlone
  <2>3. QED
    BY <1>2, <2>1, <2>2 DEF Left, Over, Fills, Actors
<1>3. QED
  BY <1>1, <1>2 DEF Actors

\* Where the actors are after one of them has moved.
LEMMA Moved ==
  ASSUME ControlType, NEW a \in Actors, NEW to \in Stops, Goto(a, to)
  PROVE  at'[a] = to /\ \A b \in Actors : b # a => at'[b] = at[b]
BY DEF ControlType, Goto

\* The steps that read, write or store nothing.
Idle ==
  /\ UNCHANGED <<program, length, pos, buf, wrote, spoilt>>
  /\ \A a \in Actors : at'[a] \in Busy => at'[a] = at[a]
  /\ program # "async" => /\ Left => Left'
                          /\ \A a \in Actors : at[a] \in Busy => at'[a] = at[a]

Other == \/ Setup \/ Poll \/ Unmask \/ Mask \/ Space \/ Quit \/ DrainStarts \/ Play \/ Record
         \/ Deliver \/ (\E a \in Actors : Avail(a) \/ Release(a)) \/ UNCHANGED vars

LEMMA OtherOrData ==
  ASSUME [Next]_vars
  PROVE  Other \/ \E a \in Actors : Read(a) \/ Write(a) \/ Seek(a) \/ ReadCard(a) \/ Store(a)
BY DEF Other, Next, MainStep, CallbackStep, Step, Actors

LEMMA OtherIdle == ASSUME ControlInv, ControlInv', Other PROVE Idle
<1>1. ControlType /\ Kept /\ ControlType' /\ program \in Programs
  BY DEF ControlInv, ControlType
<1>2. CASE Setup
  <2>1. /\ at.main \in SettingUp /\ at.callback = "idle"
        /\ UNCHANGED <<program, length, pos, buf, wrote, spoilt>>
    BY <1>1, <1>2, SetupSteps DEF fixed, file
  <2>2. ~Left /\ at.main \notin Busy
    BY <2>1 DEF Left, Over, SettingUp, Resources, Busy
  <2>3. at'.main \notin Busy /\ at'.callback = "idle"
    <3>1. \E to \in Stops \ Busy : Goto("main", to)
      <4>1. Following(at.main) \in Stops \ Busy \/ at.main \notin Needed
        <5>1. The.first \in {"readi", "pfds", "start", "read", "avail"}
          BY <1>1, Kinds
        <5>2. Needed \subseteq Resources
          BY <1>1, TakesType
        <5>3. The.first \in Stops \ Busy /\ Resources \subseteq Stops \ Busy
          BY <5>1 DEF Stops, SettingUp, Fills, Busy, Resources
        <5>4. QED
          BY <1>1, <5>2, <5>3, NextTake
      <4>2. {"start", "poll", "leave"} \subseteq Stops \ Busy
        BY DEF Stops, SettingUp, Over, Busy
      <4>3. The.waits \in Stops \ Busy
        <5>1. The.waits \in {"read", "readi", "poll", "keys", "unmask"}
          BY <1>1, Kinds
        <5>2. QED
          BY <5>1 DEF Stops, Fills, Busy
      <4>4. QED
        BY <1>1, <1>2, <4>1, <4>2, <4>3, SetupSteps
    <3>2. PICK to \in Stops \ Busy : Goto("main", to)
      BY <3>1
    <3>3. at'["main"] = to /\ at'["callback"] = at["callback"]
      BY <1>1, <3>2, Moved DEF Actors
    <3>4. QED
      BY <2>1, <3>3
  <2>4. QED
    BY <2>1, <2>2, <2>3 DEF Idle, Actors
<1>3. ASSUME NEW a \in Actors, Avail(a) PROVE Idle
  <2>1. /\ UNCHANGED <<program, length, pos, buf, wrote, spoilt>> /\ Running(a, "avail")
        /\ \E to \in {Done(a), "readi", "read"} : Goto(a, to)
    BY <1>3 DEF Avail, fixed, file
  <2>2. Done(a) \in Stops \ Busy /\ "readi" \in Stops \ Busy /\ "read" \in Stops \ Busy
    <3>1. The.waits \in {"read", "readi", "poll", "keys", "unmask"}
      BY <1>1, Kinds
    <3>2. QED
      BY <3>1 DEF Done, Stops, Fills, Busy
  <2>3. PICK to \in Stops \ Busy : Goto(a, to)
    BY <2>1, <2>2
  <2>4. at'[a] = to /\ \A b \in Actors : b # a => at'[b] = at[b]
    BY <1>1, <2>3, Moved
  <2>5. program # "async" => ~Left
    BY <2>1, OneFills DEF Fills
  <2>6. at[a] \notin Busy
    BY <2>1 DEF Running, Busy
  <2>7. QED
    BY <2>1, <2>4, <2>5, <2>6 DEF Idle
<1>4. CASE Poll \/ Unmask \/ Mask \/ Quit
  <2>1. /\ UNCHANGED <<program, length, pos, buf, wrote, spoilt>>
        /\ \E from \in {"poll", "unmask", "mask", "keys"} : Running("main", from)
        /\ \E to \in {"leave", "avail", "keys", "mask"} : Goto("main", to)
    BY <1>4 DEF Poll, Leave, Unmask, Mask, Quit, fixed, file
  <2>2. {"leave", "avail", "keys", "mask"} \subseteq Stops \ Busy
    BY DEF Stops, Fills, Over, Busy
  <2>3. PICK to \in Stops \ Busy : Goto("main", to)
    BY <2>1, <2>2
  <2>4. at'["main"] = to /\ at'["callback"] = at["callback"]
    BY <1>1, <2>3, Moved DEF Actors
  <2>5. at.main \notin Busy /\ ~Left
    BY <2>1 DEF Running, Busy, Left, Over
  <2>6. QED
    BY <2>1, <2>4, <2>5 DEF Idle, Actors
<1>5. ASSUME NEW a \in Actors, Release(a) PROVE Idle
  <2>1. /\ UNCHANGED <<program, length, pos, buf, wrote, spoilt>> /\ at[a] = "leave"
        /\ at' = at \/ at' = [main |-> "exited", callback |-> "idle"]
        /\ Running(a, "leave")
    BY <1>5 DEF Release, Running, fixed, file
  <2>2. CASE at' = at
    BY <2>1, <2>2 DEF Idle, Left
  <2>3. CASE at' = [main |-> "exited", callback |-> "idle"]
    <3>1. at'["main"] = "exited" /\ at'["callback"] = "idle"
      BY <2>3
    <3>2. Left'
      BY <3>1 DEF Left, Over
    <3>3. program # "async" => at["main"] \notin Busy /\ at["callback"] \notin Busy
      <4>1. CASE a = "main"
        BY <2>1, <4>1 DEF Running, Busy
      <4>2. CASE a = "callback"
        BY <2>1, <4>2, HandlerAlone DEF Busy
      <4>3. QED
        BY <4>1, <4>2 DEF Actors
    <3>4. QED
      BY <2>1, <3>1, <3>2, <3>3 DEF Idle, Actors, Busy
  <2>4. QED
    BY <2>1, <2>2, <2>3
<1>6. CASE Space \/ DrainStarts \/ Play \/ Record \/ UNCHANGED vars
  BY <1>6 DEF Space, DrainStarts, Play, Record, vars, fixed, control, file, Idle, Left
<1>7. CASE Deliver
  <2>1. /\ UNCHANGED <<program, length, pos, buf, wrote, spoilt>>
        /\ at.callback = "idle" /\ Goto("callback", "avail") /\ "avail" \in Stops
    BY <1>7 DEF Deliver, fixed, file, Stops, Fills
  <2>2. at'["callback"] = "avail" /\ at'["main"] = at["main"]
    BY <1>1, <2>1, Moved DEF Actors
  <2>3. QED
    BY <2>1, <2>2 DEF Idle, Actors, Busy, Left
<1>8. QED
  BY <1>2, <1>3, <1>4, <1>5, <1>6, <1>7 DEF Other

\* What they do to the ring: only giving up takes frames back out of it.
LEMMA OtherCard ==
  ASSUME ControlInv, DataType, QueueInv, Other
  PROVE  /\ queued' \in Nat /\ QueueInv'
         /\ written' \in Seq(Int) /\ Len(written') \in 0 .. Len(written)
         /\ \A i \in 1 .. Len(written') : written'[i] = written[i]
         /\ Records => written' = written /\ (queued' <= queued \/ pos + queued' <= length)
         /\ ~Left => written' = written
<1>1. ControlType /\ Kept /\ StillInv /\ program \in Programs
  BY DEF ControlInv, ControlType
<1>2. queued \in Nat /\ written \in Seq(Int) /\ Len(written) \in Nat /\ pos \in Int /\ length \in Nat
  BY DEF DataType
<1>3. ASSUME program' = program PROVE Records' = Records
  BY <1>3, SameProgram
<1>4. ASSUME UNCHANGED <<program, queued, written>>,
             ~Records /\ pcm' \in {"prepared", "xrun"} => pcm' = pcm \/ queued = 0
      PROVE  QueueInv'
  BY <1>2, <1>3, <1>4 DEF QueueInv
<1>5. CASE Setup
  <2>1. /\ at.main \in SettingUp /\ UNCHANGED <<program, queued, written>>
    BY <1>1, <1>5, SetupSteps DEF fixed
  <2>2. queued = 0
    BY <1>1, <2>1 DEF StillInv
  <2>3. QED
    BY <1>2, <1>4, <2>1, <2>2
<1>6. CASE \/ Poll \/ Unmask \/ Mask \/ Quit \/ Deliver \/ UNCHANGED vars
           \/ \E a \in Actors : Avail(a)
  <2>1. UNCHANGED <<program, pcm, queued, written>>
    BY <1>6 DEF Poll, Unmask, Mask, Quit, Deliver, vars, Avail, card, fixed
  <2>2. QED
    BY <1>2, <1>4, <2>1
<1>7. CASE Space \/ DrainStarts
  <2>1. UNCHANGED <<program, queued, written>> /\ pcm' \notin {"prepared", "xrun"}
    BY <1>7 DEF Space, DrainStarts, fixed
  <2>2. QED
    BY <1>2, <1>4, <2>1
<1>8. CASE Play
  <2>1. /\ UNCHANGED <<program, written>> /\ ~Records /\ queued > 0 /\ queued' = queued - 1
        /\ pcm' = "xrun" => queued = 1
        /\ pcm' # "prepared"
    BY <1>8 DEF Play, fixed
  <2>2. QED
    BY <1>2, <1>3, <2>1 DEF QueueInv
<1>9. CASE Record
  <2>1. /\ UNCHANGED <<program, written>> /\ Records /\ queued' = queued + 1
        /\ pos + queued < length
    BY <1>9 DEF Record, fixed
  <2>2. QED
    BY <1>2, <1>3, <2>1 DEF QueueInv
<1>10. ASSUME NEW a \in Actors, Release(a)
       PROVE  /\ queued' \in Nat /\ QueueInv'
              /\ written' \in Seq(Int) /\ Len(written') \in 0 .. Len(written)
              /\ \A i \in 1 .. Len(written') : written'[i] = written[i]
              /\ Records => written' = written /\ (queued' <= queued \/ pos + queued' <= length)
              /\ ~Left => written' = written
  <2>1. Left /\ program' = program
    BY <1>10 DEF Release, Running, Left, Over, Actors, fixed
  <2>2. CASE UNCHANGED <<pcm, queued, written>>
    BY <1>2, <1>4, <2>1, <2>2
  <2>3. CASE /\ pcm' \in {"setup", "closed", pcm}
             /\ queued' = 0 \/ (queued' = queued /\ written' = written)
             /\ \/ written' = written
                \/ ~Records /\ queued' = 0 /\ written' = SubSeq(written, 1, Len(written) - queued)
    <3>1. CASE written' = written
      BY <1>2, <1>3, <2>1, <2>3, <3>1 DEF QueueInv
    <3>2. CASE /\ ~Records /\ queued' = 0
               /\ written' = SubSeq(written, 1, Len(written) - queued)
      <4>1. Len(written) - queued \in 0 .. Len(written)
        BY <1>2, <3>2 DEF QueueInv
      <4>2. /\ written' \in Seq(Int) /\ Len(written') = Len(written) - queued
            /\ \A i \in 1 .. Len(written) - queued : written'[i] = written[i]
        BY <1>2, <3>2, <4>1
      <4>3. QED
        BY <1>2, <1>3, <2>1, <3>2, <4>1, <4>2 DEF QueueInv
    <3>3. QED
      BY <2>3, <3>1, <3>2
  <2>4. QED
    BY <1>10, <2>2, <2>3 DEF Release
<1>11. QED
  BY <1>5, <1>6, <1>7, <1>8, <1>9, <1>10 DEF Other

LEMMA FewerQueued ==
  ASSUME NEW p \in Nat, NEW q \in Nat, NEW r \in Nat, NEW n \in Nat,
         r <= q \/ p + r <= n, p + q <= n
  PROVE  p + r <= n
OBVIOUS

LEMMA OtherData == ASSUME ControlInv, ControlInv', DataInv, Other PROVE DataInv'
<1>1. /\ DataType /\ BufInv /\ QueueInv /\ OrderInv /\ PlayedInv /\ RecordedInv
      /\ program \in Programs
  BY DEF DataInv, ControlInv, ControlType
<1>2. /\ UNCHANGED <<program, length, pos, buf, wrote, spoilt>>
      /\ \A a \in Actors : at'[a] \in Busy => at'[a] = at[a]
      /\ program # "async" => /\ Left => Left'
                              /\ \A a \in Actors : at[a] \in Busy => at'[a] = at[a]
  BY OtherIdle DEF Idle
<1>3. /\ queued' \in Nat /\ QueueInv'
      /\ written' \in Seq(Int) /\ Len(written') \in 0 .. Len(written)
      /\ \A i \in 1 .. Len(written') : written'[i] = written[i]
      /\ Records => written' = written /\ (queued' <= queued \/ pos + queued' <= length)
      /\ ~Left => written' = written
  BY <1>1, OtherCard
<1>4. Records' = Records
  BY <1>2, SameProgram
<1>5. DataType' /\ BufInv'
  BY <1>1, <1>2, <1>3 DEF DataType, BufInv
<1>6. OrderInv'
  <2>1. Len(written) \in Nat
    BY <1>1 DEF DataType
  <2>2. \A i : Ideal(i)' = Ideal(i)
    BY <1>2 DEF Ideal
  <2>3. \A i \in 1 .. Len(written') : i \in 1 .. Len(written)
    BY <1>3, <2>1
  <2>4. QED
    BY <1>1, <1>2, <1>3, <2>2, <2>3 DEF OrderInv
<1>7. PlayedInv'
  <2> SUFFICES ASSUME program # "async", ~Records, ~spoilt, ~Left'
               PROVE  PlayedInv'
    BY <1>2, <1>4 DEF PlayedInv
  <2>1. ~Left /\ written' = written
    BY <1>2, <1>3
  <2>2. \A a \in Actors : \A l \in Busy : at'[a] = l <=> at[a] = l
    BY <1>2
  <2>3. "write" \in Busy /\ "seek" \in Busy
    BY DEF Busy
  <2>4. \A i : Ideal(i)' = Ideal(i)
    BY <1>2 DEF Ideal
  <2>5. QED
    BY <1>1, <1>2, <1>4, <2>1, <2>2, <2>3, <2>4 DEF PlayedInv
<1>8. RecordedInv'
  <2> SUFFICES ASSUME Records PROVE RecordedInv'
    BY <1>4 DEF RecordedInv
  <2>1. program # "async"
    BY DEF Records
  <2>2. pos \in Nat /\ pos + queued <= length
    BY <1>1 DEF RecordedInv
  <2>3. pos' \in Nat /\ pos' + queued' <= length'
    <3>1. pos' = pos /\ length' = length
      BY <1>2
    <3>2. pos \in Nat /\ length \in Nat /\ queued \in Nat /\ queued' \in Nat
      BY <1>1, <1>3, <2>2 DEF DataType
    <3>3. pos + queued' <= length
      BY <1>3, <2>2, <3>2, FewerQueued
    <3>4. QED
      BY <3>1, <3>2, <3>3
  <2>4. \A a \in Actors : at'[a] = "store" <=> at[a] = "store"
    BY <1>2, <2>1 DEF Busy
  <2>5. Left => Left'
    BY <1>2, <2>1
  <2>6. QED
    BY <1>1, <1>2, <1>3, <1>4, <2>3, <2>4, <2>5 DEF RecordedInv
<1>9. QED
  BY <1>3, <1>5, <1>6, <1>7, <1>8 DEF DataInv

\* An actor that moves to a label that is not Busy disturbs no buffer.
LEMMA DataMoves ==
  ASSUME ControlType, NEW a \in Actors, NEW from \in Fills, NEW to \in Stops,
         Running(a, from), Goto(a, to)
  PROVE  /\ at[a] = from /\ at'[a] = to
         /\ \A b \in Actors : b # a => at'[b] = at[b]
         /\ to = "leave" => Left'
<1>1. at[a] = from /\ at'[a] = to /\ \A b \in Actors : b # a => at'[b] = at[b]
  BY Moved DEF Running
<1>2. to = "leave" => Left'
  BY <1>1 DEF Left, Over, Actors
<1>3. QED
  BY <1>1, <1>2

LEMMA ReadData ==
  ASSUME ControlInv, DataInv, NEW a \in Actors, Read(a)
  PROVE  DataInv'
<1>1. /\ DataType /\ BufInv /\ QueueInv /\ OrderInv /\ PlayedInv /\ RecordedInv
      /\ ControlType /\ Kept /\ program \in Programs
  BY DEF DataInv, ControlInv, ControlType
<1>2. /\ Running(a, "read") /\ at[a] = "read"
      /\ UNCHANGED <<program, length, pcm, queued, written, wrote, spoilt>>
  BY DEF Read, Running, fixed, card
<1>3. ~Records /\ Records' = Records
  BY <1>1, <1>2, SameProgram DEF Kept, Actors
<1>4. PICK to \in {"write", "leave"} :
        /\ Goto(a, to)
        /\ to = "write" => /\ pos < length /\ pos' = Advanced
                           /\ buf' = [i \in 1 .. Period |-> IF pos + i <= length THEN pos + i ELSE 0]
        /\ to = "leave" => pos' = pos /\ buf' = [i \in 1 .. Period |-> 0]
  BY DEF Read, Leave
<1>5. /\ at'[a] = to /\ \A b \in Actors : b # a => at'[b] = at[b]
      /\ to = "leave" => Left'
  <2>1. "read" \in Fills /\ to \in Stops
    BY DEF Fills, Stops, Over
  <2>2. QED
    BY <1>1, <1>2, <1>4, <2>1, DataMoves
<1>6. /\ pos \in Int /\ length \in Nat /\ Len(written) \in Nat /\ Period \in Nat \ {0}
  BY <1>1, PcmNat DEF DataType
<1>7. buf' \in Seq(Int) /\ Len(buf') = Period /\ pos' \in Int
  <2>1. buf' \in [1 .. Period -> Int]
    BY <1>4, <1>6
  <2>2. pos' \in Int
    BY <1>4, <1>6 DEF Advanced
  <2>3. QED
    BY <1>6, <2>1, <2>2
<1>8. DataType' /\ BufInv'
  BY <1>1, <1>2, <1>7 DEF DataType, BufInv
<1>9. QueueInv' /\ OrderInv' /\ RecordedInv'
  BY <1>1, <1>2, <1>3 DEF QueueInv, OrderInv, RecordedInv, Ideal
<1>10. PlayedInv'
  <2> SUFFICES ASSUME program # "async", ~spoilt, ~Left'
               PROVE  PlayedInv'
    BY <1>2 DEF PlayedInv
  <2>1. to = "write"
    BY <1>4, <1>5
  <2>2. ~Left /\ \A b \in Actors : b # a => at[b] \notin Fills
    BY <1>2, OneFills DEF Fills
  <2>3. \A b \in Actors : at[b] \notin {"write", "seek"}
    BY <1>2, <2>2 DEF Fills
  <2>4. pos < length /\ Len(written) = pos
    BY <1>1, <1>3, <1>4, <2>1, <2>2, <2>3 DEF PlayedInv
  <2>5. \A i \in 1 .. Period : buf'[i] = Ideal(Len(written) + i)
    BY <1>4, <1>6, <2>1, <2>4 DEF Ideal
  <2>6. \A i : Ideal(i)' = Ideal(i)
    BY <1>2 DEF Ideal
  <2>7. pos' = IF Len(written) + Period <= length THEN Len(written) + Period ELSE length
    BY <1>4, <2>1, <2>4 DEF Advanced
  <2>8. \A b \in Actors : at'[b] = "write" <=> b = a
    BY <1>5, <2>1, <2>3
  <2>9. \A b \in Actors : at'[b] # "seek"
    BY <1>5, <2>1, <2>3
  <2>10. QED
    BY <1>2, <2>4, <2>5, <2>6, <2>7, <2>8, <2>9 DEF PlayedInv
<1>11. QED
  BY <1>8, <1>9, <1>10 DEF DataInv

\* What a write to the card or to the file adds.
Adds(v, w, b, n) ==
  /\ v \in Seq(Int) /\ Len(v) = Len(w) + n /\ Len(w) \in Nat
  /\ \A i \in 1 .. Len(w) : v[i] = w[i]
  /\ \A i \in 1 .. n : v[Len(w) + i] = b[i]
  /\ \A i \in 1 .. Len(v) : i \in 1 .. Len(w) \/ \E j \in 1 .. n : i = Len(w) + j

LEMMA Added ==
  ASSUME NEW w \in Seq(Int), NEW b \in Seq(Int), NEW n \in 0 .. Len(b), NEW v,
         v = w \o SubSeq(b, 1, n)
  PROVE  Adds(v, w, b, n)
<1>1. Len(w) \in Nat /\ Len(b) \in Nat /\ n \in Nat
  OBVIOUS
<1>2. SubSeq(b, 1, n) \in Seq(Int) /\ Len(SubSeq(b, 1, n)) = n
      /\ \A i \in 1 .. n : SubSeq(b, 1, n)[i] = b[i]
  BY <1>1
<1>3. v \in Seq(Int) /\ Len(v) = Len(w) + n
  BY <1>1, <1>2
<1>4. \A i \in 1 .. Len(w) : v[i] = w[i]
  BY <1>1, <1>2
<1>5. \A i \in 1 .. n : v[Len(w) + i] = b[i]
  BY <1>1, <1>2
<1>6. ASSUME NEW i \in 1 .. Len(v), i \notin 1 .. Len(w) PROVE \E j \in 1 .. n : i = Len(w) + j
  <2>1. i - Len(w) \in 1 .. n /\ i = Len(w) + (i - Len(w))
    BY <1>1, <1>3, <1>6
  <2>2. QED
    BY <2>1
<1>7. QED
  BY <1>1, <1>3, <1>4, <1>5, <1>6 DEF Adds

\* An actor that gives up in the loop.
LEMMA GivesUp ==
  ASSUME ControlInv, DataInv, NEW a \in Actors, NEW from \in Fills, Running(a, from),
         Goto(a, "leave"), UNCHANGED <<program, length, pos, buf, pcm, queued, written, wrote>>,
         spoilt' \in BOOLEAN, spoilt => spoilt'
  PROVE  DataInv'
<1>1. /\ DataType /\ BufInv /\ QueueInv /\ OrderInv /\ PlayedInv /\ RecordedInv /\ ControlType
  BY DEF DataInv, ControlInv
<1>2. "leave" \in Stops /\ "leave" \notin Busy
  BY DEF Stops, Over, Busy
<1>3. /\ at'[a] = "leave" /\ \A b \in Actors : b # a => at'[b] = at[b]
      /\ Left'
  BY <1>1, <1>2, DataMoves
<1>4. Records' = Records
  BY SameProgram
<1>5. DataType' /\ BufInv' /\ QueueInv'
  BY <1>1, <1>2, <1>3, <1>4 DEF DataType, BufInv, QueueInv
<1>6. OrderInv'
  <2>1. \A i : Ideal(i)' = Ideal(i)
    BY DEF Ideal
  <2>2. ~spoilt' => ~spoilt
    OBVIOUS
  <2>3. QED
    BY <1>1, <2>1, <2>2 DEF OrderInv
<1>7. PlayedInv' /\ RecordedInv'
  BY <1>1, <1>3, <1>4 DEF PlayedInv, RecordedInv
<1>8. QED
  BY <1>5, <1>6, <1>7 DEF DataInv

LEMMA WriteData == ASSUME ControlInv, DataInv, NEW a \in Actors, Write(a) PROVE DataInv'
<1>1. /\ DataType /\ BufInv /\ QueueInv /\ OrderInv /\ PlayedInv /\ RecordedInv
      /\ ControlType /\ Kept /\ program \in Programs
  BY DEF DataInv, ControlInv, ControlType
<1>2. /\ Running(a, "write") /\ at[a] = "write" /\ "write" \in Fills
      /\ UNCHANGED <<program, length, pos, buf, spoilt>>
  BY DEF Write, Running, fixed, file, Fills
<1>3. ~Records /\ Records' = Records
  BY <1>1, <1>2, SameProgram DEF Kept, Actors
<1>4. CASE Leave(a, "xrun") /\ UNCHANGED <<card, wrote, shorts>>
  BY <1>1, <1>2, <1>4, GivesUp DEF Leave, card, DataType
<1>5. ASSUME NEW n \in 1 .. Period, queued' = queued + n,
             written' = written \o SubSeq(buf, 1, n), wrote' = [wrote EXCEPT ![a] = n],
             Goto(a, IF n < Period THEN "seek" ELSE Again),
             pcm' \notin {"prepared", "xrun"}
      PROVE  DataInv'
  <2> DEFINE to == IF n < Period THEN "seek" ELSE Again
             w == Len(written)
  <2>1. Again \in {"read", "avail"}
    BY <1>1, <1>3, AgainIn
  <2>2. to \in Stops /\ (to \in Busy => to = "seek")
    BY <2>1 DEF Stops, Fills, Busy
  <2>3. at'[a] = to /\ \A b \in Actors : b # a => at'[b] = at[b]
    BY <1>1, <1>2, <1>5, <2>2, DataMoves
  <2>4. /\ Period \in Nat \ {0} /\ Len(buf) = Period /\ n \in Nat /\ n <= Period /\ n >= 1
    BY <1>1, <1>2, PcmNat DEF BufInv, Busy
  <2>5. /\ written \in Seq(Int) /\ buf \in Seq(Int) /\ n \in 0 .. Len(buf)
    BY <1>1, <2>4 DEF DataType
  <2>6. /\ written' \in Seq(Int) /\ Len(written') = w + n /\ w \in Nat
        /\ \A i \in 1 .. w : written'[i] = written[i]
        /\ \A i \in 1 .. n : written'[w + i] = buf[i]
        /\ \A i \in 1 .. Len(written') : i \in 1 .. w \/ \E j \in 1 .. n : i = w + j
    <3>1. Adds(written', written, buf, n)
      BY <1>5, <2>5, Added
    <3>2. QED
      BY <3>1 DEF Adds
  <2>7. wrote' \in [Actors -> Nat] /\ wrote'[a] = n
    BY <1>1, <1>5, <2>4 DEF DataType
  <2>8. DataType'
    BY <1>1, <1>2, <1>5, <2>4, <2>6, <2>7 DEF DataType
  <2>9. BufInv'
    BY <1>1, <1>2, <2>3, <2>4 DEF BufInv
  <2>10. QueueInv'
    <3>1. queued \in Nat /\ queued <= w
      BY <1>1, <1>3 DEF QueueInv, DataType
    <3>2. queued + n <= w + n
      BY <2>4, <2>6, <3>1
    <3>3. QED
      BY <1>5, <2>6, <3>2 DEF QueueInv
  <2>11. ASSUME program # "async", ~spoilt
         PROVE  /\ ~Left /\ w < length
                /\ \A i \in 1 .. Period : buf[i] = Ideal(w + i)
                /\ pos = IF w + Period <= length THEN w + Period ELSE length
                /\ \A b \in Actors : b # a => at[b] \notin Fills
    <3>1. ~Left /\ \A b \in Actors : b # a => at[b] \notin Fills
      BY <1>2, <2>11, OneFills
    <3>2. QED
      BY <1>1, <1>2, <1>3, <2>11, <3>1 DEF PlayedInv
  <2>12. OrderInv'
    <3> SUFFICES ASSUME program # "async", ~spoilt, NEW i \in 1 .. Len(written')
                 PROVE  written'[i] = Ideal(i)
      BY <1>2 DEF OrderInv, Ideal
    <3>1. CASE i \in 1 .. w
      BY <1>1, <2>6, <3>1 DEF OrderInv
    <3>2. ASSUME NEW j \in 1 .. n, i = w + j PROVE written'[i] = Ideal(i)
      <4>1. j \in 1 .. Period
        BY <2>4
      <4>2. buf[j] = Ideal(w + j)
        BY <2>11, <4>1
      <4>3. QED
        BY <2>6, <3>2, <4>2
    <3>3. QED
      BY <2>6, <3>1, <3>2
  <2>13. PlayedInv'
    <3> SUFFICES ASSUME program # "async", ~spoilt PROVE PlayedInv'
      BY <1>2 DEF PlayedInv
    <3>1. \A b \in Actors : at'[b] # "write"
      BY <2>2, <2>3, <2>11 DEF Busy, Fills
    <3>2. ASSUME NEW b \in Actors, at'[b] = "seek", buf[Period] # 0
          PROVE  /\ wrote'[b] \in 1 .. Period - 1
                 /\ pos = (w + n) - wrote'[b] + Period /\ pos <= length
      <4>1. b = a /\ n < Period
        BY <2>1, <2>3, <2>11, <3>2 DEF Fills
      <4>2. buf[Period] = Ideal(w + Period)
        BY <2>4, <2>11
      <4>3. w + Period <= length
        BY <3>2, <4>2 DEF Ideal
      <4>4. pos = w + Period
        BY <2>11, <4>3
      <4>5. QED
        BY <2>4, <2>6, <2>7, <4>1, <4>3, <4>4
    <3>3. ASSUME \A b \in Actors : at'[b] \notin {"write", "seek"}
          PROVE  /\ pos \in 0 .. length
                 /\ pos < length => w + n = pos
                 /\ pos = length => w + n >= length
      <4>1. n = Period
        BY <2>3, <2>4, <3>3
      <4>2. length \in Nat
        BY <1>1 DEF DataType
      <4>3. QED
        BY <2>4, <2>6, <2>11, <4>1, <4>2
    <3>4. QED
      BY <1>2, <2>6, <3>1, <3>2, <3>3 DEF PlayedInv
  <2>14. RecordedInv'
    BY <1>3 DEF RecordedInv
  <2>15. QED
    BY <2>8, <2>9, <2>10, <2>12, <2>13, <2>14 DEF DataInv
<1>6. QED
  BY <1>4, <1>5 DEF Write

LEMMA SeekData == ASSUME ControlInv, DataInv, NEW a \in Actors, Seek(a) PROVE DataInv'
<1>1. /\ DataType /\ BufInv /\ QueueInv /\ OrderInv /\ PlayedInv /\ RecordedInv
      /\ ControlType /\ Kept /\ program \in Programs
  BY DEF DataInv, ControlInv, ControlType
<1>2. /\ Running(a, "seek") /\ at[a] = "seek" /\ "seek" \in Fills
      /\ UNCHANGED <<program, length, buf, pcm, queued, written, wrote>>
      /\ spoilt' = (spoilt \/ buf[Period] = 0)
  BY DEF Seek, Running, fixed, card, Fills
<1>3. ~Records /\ Records' = Records
  BY <1>1, <1>2, SameProgram DEF Kept, Actors
<1>4. /\ spoilt' \in BOOLEAN /\ (spoilt => spoilt')
      /\ ~spoilt' => ~spoilt /\ buf[Period] # 0
  <2>1. spoilt \in BOOLEAN
    BY <1>1 DEF DataType
  <2>2. QED
    BY <1>2, <2>1
<1>5. CASE Leave(a, "seek") /\ UNCHANGED pos
  BY <1>2, <1>4, <1>5, GivesUp DEF Leave
<1>6. CASE pos' = pos - Rewind(wrote[a]) /\ Goto(a, Again)
  <2>1. Again \in {"read", "avail"}
    BY <1>1, <1>3, AgainIn
  <2>2. Again \in Stops /\ Again \notin Busy
    BY <2>1 DEF Stops, Fills, Busy
  <2>3. at'[a] = Again /\ \A b \in Actors : b # a => at'[b] = at[b]
    BY <1>1, <1>2, <1>6, <2>2, DataMoves
  <2>4. /\ pos \in Int /\ wrote[a] \in Nat /\ Period \in Nat \ {0} /\ Len(written) \in Nat
        /\ length \in Nat
    BY <1>1, PcmNat DEF DataType
  <2>5. pos' = pos - (Period - wrote[a]) /\ pos' \in Int
    BY <1>6, <2>4 DEF Rewind
  <2>6. DataType' /\ BufInv' /\ QueueInv'
    BY <1>1, <1>2, <1>3, <1>4, <2>2, <2>3, <2>5 DEF DataType, BufInv, QueueInv
  <2>7. OrderInv' /\ RecordedInv'
    BY <1>1, <1>2, <1>3, <1>4 DEF OrderInv, RecordedInv, Ideal
  <2>8. PlayedInv'
    <3> SUFFICES ASSUME program # "async", ~spoilt' PROVE PlayedInv'
      BY <1>2 DEF PlayedInv
    <3>1. ~Left /\ \A b \in Actors : b # a => at[b] \notin Fills
      BY <1>2, OneFills
    <3>2. ~spoilt /\ buf[Period] # 0
      BY <1>4
    <3>3. /\ wrote[a] \in 1 .. Period - 1
          /\ pos = Len(written) - wrote[a] + Period /\ pos <= length
      BY <1>1, <1>2, <1>3, <3>1, <3>2 DEF PlayedInv
    <3>4. pos' = Len(written) /\ Len(written) < length
      BY <2>4, <2>5, <3>3
    <3>5. \A b \in Actors : at'[b] \notin {"write", "seek"}
      BY <2>1, <2>3, <3>1 DEF Fills
    <3>6. QED
      BY <1>2, <2>4, <3>4, <3>5 DEF PlayedInv
  <2>9. QED
    BY <2>6, <2>7, <2>8 DEF DataInv
<1>7. QED
  BY <1>5, <1>6 DEF Seek

LEMMA ReadCardData == ASSUME ControlInv, DataInv, NEW a \in Actors, ReadCard(a) PROVE DataInv'
<1>1. /\ DataType /\ BufInv /\ QueueInv /\ OrderInv /\ PlayedInv /\ RecordedInv
      /\ ControlType /\ Kept /\ program \in Programs
  BY DEF DataInv, ControlInv, ControlType
<1>2. /\ Running(a, "readi") /\ at[a] = "readi" /\ "readi" \in Fills
      /\ UNCHANGED <<program, length, written, wrote, spoilt>>
  BY DEF ReadCard, Running, fixed, Fills
<1>3. Records /\ Records' = Records /\ program # "async"
  BY <1>1, <1>2, SameProgram DEF Kept, Actors, Records
<1>4. ~Left /\ \A b \in Actors : b # a => at[b] \notin Fills
  BY <1>2, <1>3, OneFills
<1>5. \A b \in Actors : at[b] # "store"
  BY <1>2, <1>4 DEF Fills
<1>6. /\ pos \in Nat /\ length \in Nat /\ queued \in Nat /\ Period \in Nat \ {0}
      /\ Len(written) \in Nat
  BY <1>1, <1>3, PcmNat DEF DataType, RecordedInv
<1>7. pos + queued <= length
  BY <1>1, <1>3 DEF RecordedInv
<1>8. QueueInv' /\ PlayedInv'
  BY <1>3 DEF QueueInv, PlayedInv
<1>9. OrderInv'
  <2>1. \A i : Ideal(i)' = Ideal(i)
    BY <1>2 DEF Ideal
  <2>2. QED
    BY <1>1, <1>2, <2>1 DEF OrderInv
<1>10. CASE UNCHANGED <<pos, buf, queued, at>>
  <2>1. DataType' /\ BufInv'
    BY <1>1, <1>2, <1>10 DEF DataType, BufInv
  <2>2. RecordedInv'
    BY <1>1, <1>2, <1>3, <1>10 DEF RecordedInv, Left
  <2>3. QED
    BY <1>8, <1>9, <2>1, <2>2 DEF DataInv
<1>11. CASE Leave(a, "xrun") /\ UNCHANGED <<pos, buf, pcm, queued>>
  BY <1>1, <1>2, <1>11, GivesUp DEF Leave, DataType
<1>12. CASE /\ queued >= Period
            /\ buf' = [i \in 1 .. Period |-> pos + i]
            /\ pos' = pos + Period
            /\ queued' = queued - Period
            /\ Goto(a, "store")
  <2>1. "store" \in Stops
    BY DEF Stops, Fills
  <2>2. at'[a] = "store" /\ \A b \in Actors : b # a => at'[b] = at[b]
    BY <1>1, <1>2, <1>12, <2>1, DataMoves
  <2>3. buf' \in [1 .. Period -> Int]
    BY <1>6, <1>12
  <2>4. buf' \in Seq(Int) /\ Len(buf') = Period
    BY <1>6, <2>3
  <2>5. queued' \in Nat /\ pos' \in Nat /\ pos' + queued' <= length
    BY <1>6, <1>7, <1>12
  <2>6. DataType' /\ BufInv'
    BY <1>1, <1>2, <2>4, <2>5 DEF DataType, BufInv
  <2>7. ASSUME ~spoilt
        PROVE  /\ pos' = Len(written) + Period
               /\ \A i \in 1 .. Period : buf'[i] = Len(written) + i
    <3>1. Len(written) = pos
      BY <1>1, <1>3, <1>4, <1>5, <2>7 DEF RecordedInv
    <3>2. QED
      BY <1>6, <1>12, <3>1
  <2>8. RecordedInv'
    BY <1>2, <2>2, <2>5, <2>7 DEF RecordedInv
  <2>9. QED
    BY <1>8, <1>9, <2>6, <2>8 DEF DataInv
<1>13. QED
  BY <1>10, <1>11, <1>12 DEF ReadCard

LEMMA StoreData == ASSUME ControlInv, DataInv, NEW a \in Actors, Store(a) PROVE DataInv'
<1>1. /\ DataType /\ BufInv /\ QueueInv /\ OrderInv /\ PlayedInv /\ RecordedInv
      /\ ControlType /\ Kept /\ program \in Programs
  BY DEF DataInv, ControlInv, ControlType
<1>2. /\ Running(a, "store") /\ at[a] = "store" /\ "store" \in Fills
      /\ UNCHANGED <<program, length, pos, buf, queued, wrote>>
  BY DEF Store, Running, fixed, file, Fills
<1>3. Records /\ Records' = Records /\ program # "async"
  BY <1>1, <1>2, SameProgram DEF Kept, Actors, Records
<1>4. ~Left /\ \A b \in Actors : b # a => at[b] \notin Fills
  BY <1>2, <1>3, OneFills
<1>5. /\ Period \in Nat \ {0} /\ Len(buf) = Period /\ length \in Nat
      /\ buf \in Seq(Int) /\ written \in Seq(Int)
      /\ pos \in Nat /\ queued \in Nat /\ pos + queued <= length
  BY <1>1, <1>2, <1>3, PcmNat DEF DataType, BufInv, Busy, RecordedInv
<1>6. PICK n \in 0 .. Period :
        /\ written' = written \o SubSeq(buf, 1, n)
        /\ spoilt' = (spoilt \/ n \in 1 .. Period - 1)
        /\ IF n = 0 THEN Leave(a, "disk full") ELSE Goto(a, Again)
  BY DEF Store
<1>7. \E to \in {"leave", "readi", "avail"} :
        Goto(a, to) /\ (n = 0 => to = "leave")
  BY <1>1, <1>3, <1>6, AgainIn DEF Leave
<1>8. PICK to \in {"leave", "readi", "avail"} : Goto(a, to) /\ (n = 0 => to = "leave")
  BY <1>7
<1>9. to \in Stops /\ to \notin Busy
  BY DEF Stops, Fills, Over, Busy
<1>10. /\ at'[a] = to /\ \A b \in Actors : b # a => at'[b] = at[b]
       /\ to = "leave" => Left'
  BY <1>1, <1>2, <1>8, <1>9, DataMoves
<1>11. \A b \in Actors : at'[b] # "store"
  BY <1>4, <1>9, <1>10 DEF Fills, Busy
<1>12. Adds(written', written, buf, n)
  BY <1>5, <1>6, Added
<1>13. written' \in Seq(Int) /\ Len(written') = Len(written) + n /\ Len(written) \in Nat
  BY <1>12 DEF Adds
<1>14. /\ spoilt' \in BOOLEAN
       /\ ~spoilt' => ~spoilt /\ n \notin 1 .. Period - 1
  <2>1. spoilt \in BOOLEAN
    BY <1>1 DEF DataType
  <2>2. QED
    BY <1>6, <2>1
<1>15. DataType'
  BY <1>1, <1>2, <1>13, <1>14 DEF DataType
<1>16. BufInv' /\ QueueInv' /\ PlayedInv'
  BY <1>1, <1>2, <1>3 DEF BufInv, QueueInv, PlayedInv, Busy
<1>17. ASSUME ~spoilt'
       PROVE  /\ pos = Len(written) + Period
              /\ \A i \in 1 .. Period : buf[i] = Len(written) + i
  BY <1>1, <1>2, <1>3, <1>4, <1>14, <1>17 DEF RecordedInv
<1>18. OrderInv'
  <2> SUFFICES ASSUME ~spoilt', NEW i \in 1 .. Len(written')
               PROVE  written'[i] = Ideal(i)
    BY <1>2 DEF OrderInv, Ideal
  <2>1. CASE i \in 1 .. Len(written)
    <3>1. written'[i] = written[i]
      BY <1>12, <2>1 DEF Adds
    <3>2. QED
      BY <1>1, <1>3, <1>14, <2>1, <3>1 DEF OrderInv
  <2>2. ASSUME NEW j \in 1 .. n, i = Len(written) + j PROVE written'[i] = Ideal(i)
    <3>1. written'[i] = buf[j]
      BY <1>12, <2>2 DEF Adds
    <3>2. j \in 1 .. Period /\ n \in Nat
      <4>1. Period \in Nat
        BY <1>5
      <4>2. QED
        BY <4>1
    <3>3. buf[j] = i
      BY <1>17, <2>2, <3>2
    <3>4. i <= length
      BY <1>5, <1>13, <1>17, <2>2, <3>2
    <3>5. QED
      BY <3>1, <3>3, <3>4 DEF Ideal
  <2>3. QED
    BY <1>12, <2>1, <2>2 DEF Adds
<1>19. RecordedInv'
  <2>1. ASSUME ~spoilt', ~Left' PROVE Len(written') = pos
    <3>1. n = Period
      BY <1>5, <1>8, <1>10, <1>14, <2>1
    <3>2. QED
      BY <1>5, <1>13, <1>17, <2>1, <3>1
  <2>2. QED
    BY <1>2, <1>5, <1>11, <2>1 DEF RecordedInv
<1>20. QED
  BY <1>15, <1>16, <1>18, <1>19 DEF DataInv

LEMMA DataStep == ASSUME ControlInv, DataInv, [Next]_vars PROVE DataInv'
<1>1. ControlInv'
  BY ControlStep
<1>2. CASE Other
  BY <1>1, <1>2, OtherData
<1>3. ASSUME NEW a \in Actors, Read(a) \/ Write(a) \/ Seek(a) \/ ReadCard(a) \/ Store(a)
      PROVE  DataInv'
  BY <1>3, ReadData, WriteData, SeekData, ReadCardData, StoreData
<1>4. QED
  BY <1>2, <1>3, OtherOrData

(* The card is given the whole file, once and in order, and the recorded   *)
(* file holds what the card has recorded (main and the handlers of all     *)
(* programs but _async).                                                   *)
THEOREM FramesInOrder == Spec => []OnceInOrder
<1>1. DataInv => OnceInOrder
  <2> SUFFICES ASSUME DataInv, program # "async", ~spoilt, NEW i \in DOMAIN written
               PROVE  written[i] = IF i <= length THEN i ELSE 0
    BY DEF OnceInOrder
  <2>1. written \in Seq(Int) /\ OrderInv
    BY DEF DataInv, DataType
  <2>2. i \in 1 .. Len(written)
    BY <2>1
  <2>3. QED
    BY <2>1, <2>2 DEF OrderInv, Ideal
<1>2. QED
  BY ControlInit, DataInit, ControlStep, DataStep, <1>1, PTL DEF Spec

\* The handler of _ctrl and _mixer drains before it gives anything up.
LEMMA DrainsFirst ==
  ASSUME program \in Programs, Masks
  PROVE  The.callback # <<>> /\ Head(The.callback) = "drain"
<1>1. The = Ctrl \/ The = Mixer
  BY Kinds, ThePrograms
<1>2. Ctrl.callback = <<"drain", "pcm", "tty", "buf", "file">>
  BY DEF Ctrl
<1>3. Mixer.callback = <<"drain", "mixer", "pcm", "tty", "buf", "file">>
  BY DEF Mixer, Handling
<1>4. QED
  BY <1>1, <1>2, <1>3

\* After the end of the file only the handler, the card and exit() go on.
LEMMA PlayedSteps ==
  ASSUME ControlInv, Masks, why = "played", [Next]_vars,
         at.callback = "leave" \/ at.main = "exited"
  PROVE  \/ Release("callback") /\ at.callback = "leave"
         \/ Play \/ DrainStarts \/ UNCHANGED vars
<1>1. /\ ControlType /\ Kept /\ HeldInv /\ AloneInv /\ program \in Programs
  BY DEF ControlInv, ControlType
<1>2. ~Records
  <2>1. program \in {"ctrl", "mixer"}
    BY <1>1, Kinds
  <2>2. QED
    BY <2>1 DEF Records
<1>3. at.callback = "leave" => at.callback # "idle" /\ at.main \in {"keys", "mask"}
  <2>1. program # "async"
    BY <1>1, Kinds
  <2>2. QED
    BY <2>1, HandlerAlone
<1>4. at.main = "exited" => at.callback = "idle" /\ held = {}
  BY <1>1 DEF AloneInv, HeldInv
<1>5. ASSUME NEW from, Running("main", from) PROVE at.main = "exited" /\ from = "exited"
  BY <1>3, <1>5 DEF Running
<1>6. ASSUME NEW from, Running("callback", from)
      PROVE  (from = "leave" /\ at.callback = "leave") \/ from = "idle"
  BY <1>4, <1>6 DEF Running
<1>7. ~(Setup \/ Poll \/ Unmask \/ Mask \/ Space \/ Quit \/ Record \/ Deliver)
  <2>1. ~Setup
    <3>1. ASSUME Setup PROVE FALSE
      <4>1. at.main \in SettingUp /\ at.callback = "idle"
        BY <1>1, <3>1, SetupSteps
      <4>2. QED
        BY <1>3, <4>1 DEF SettingUp, Resources
    <3>2. QED
      BY <3>1
  <2>2. ~(Poll \/ Unmask \/ Mask \/ Space \/ Quit)
    BY <1>5 DEF Poll, Unmask, Mask, Space, Quit
  <2>3. ~(Record \/ Deliver)
    BY <1>2, <1>3, <1>4 DEF Record, Deliver
  <2>4. QED
    BY <2>1, <2>2, <2>3
<1>8. ~Step("main")
  <2>1. /\ ~Running("main", "avail") /\ ~Running("main", "read") /\ ~Running("main", "write")
        /\ ~Running("main", "seek") /\ ~Running("main", "readi") /\ ~Running("main", "store")
        /\ ~Running("main", "leave")
    BY <1>5
  <2>2. ~(Avail("main") \/ Read("main") \/ Write("main") \/ Seek("main"))
    BY <2>1 DEF Avail, Read, Write, Seek
  <2>3. ~(ReadCard("main") \/ Store("main") \/ Release("main"))
    BY <2>1 DEF ReadCard, Store, Release
  <2>4. QED
    BY <2>2, <2>3 DEF Step
<1>9. Step("callback") => Release("callback") /\ at.callback = "leave"
  <2>1. ~(Avail("callback") \/ Read("callback") \/ Write("callback") \/ Seek("callback")
          \/ ReadCard("callback") \/ Store("callback"))
    BY <1>6 DEF Avail, Read, Write, Seek, ReadCard, Store
  <2>2. Release("callback") => at.callback = "leave"
    BY DEF Release, Running
  <2>3. QED
    BY <2>1, <2>2 DEF Step
<1>10. QED
  BY <1>7, <1>8, <1>9 DEF Next, MainStep, CallbackStep

\* Only the handler finds that everything has been played.
LEMMA PlayedWhere ==
  ASSUME ControlInv, [Next]_vars, why # "played", why' = "played"
  PROVE  /\ Read("callback") /\ pos >= length
         /\ at' = [at EXCEPT !["callback"] = "leave"]
         /\ todo' = [todo EXCEPT !["callback"] = The.callback]
<1>1. ControlType /\ Kept
  BY DEF ControlInv
<1>2. ~Setup
  <2>1. Setup => why' \in {why, "setup", "no data chunk"}
    BY <1>1, SetupSteps
  <2>2. QED
    BY <2>1
<1>3. ~(Poll \/ Unmask \/ Mask \/ Space \/ Quit \/ DrainStarts \/ Play \/ Record \/ Deliver
        \/ UNCHANGED vars)
  BY DEF Poll, Leave, Unmask, Mask, Space, Quit, DrainStarts, Play, Record, Deliver, vars, control
<1>4. ASSUME NEW a \in Actors
      PROVE  ~(Avail(a) \/ Write(a) \/ Seek(a) \/ ReadCard(a) \/ Store(a) \/ Release(a))
  BY DEF Avail, Write, Leave, Seek, ReadCard, Store, Release
<1>5. ASSUME NEW a \in Actors, Read(a)
      PROVE  /\ a = "callback" /\ pos >= length
             /\ at' = [at EXCEPT !["callback"] = "leave"]
             /\ todo' = [todo EXCEPT !["callback"] = The.callback]
  BY <1>5 DEF Read, Leave, Goto, Actors
<1>6. \E a \in Actors : Step(a)
  BY <1>2, <1>3 DEF Next, MainStep, CallbackStep, Actors
<1>7. PICK a \in Actors : Read(a)
  BY <1>4, <1>6 DEF Step
<1>8. QED
  BY <1>5, <1>7

LEMMA HeardStep == ASSUME ControlInv, DataInv, HeardInv, [Next]_vars PROVE HeardInv'
<1>1. /\ ControlType /\ program \in Programs /\ Kept /\ AloneInv
      /\ DataType /\ QueueInv /\ PlayedInv
  BY DEF ControlInv, ControlType, DataInv
<1>2. program' = program
  <2>1. ASSUME Other PROVE program' = program
    <3>1. ControlInv'
      BY ControlStep
    <3>2. QED
      BY <2>1, <3>1, OtherIdle DEF Idle
  <2>2. ASSUME NEW a \in Actors, Read(a) \/ Write(a) \/ Seek(a) \/ ReadCard(a) \/ Store(a)
        PROVE  program' = program
    BY <2>2 DEF Read, Write, Seek, ReadCard, Store, fixed
  <2>3. QED
    BY <2>1, <2>2, OtherOrData
<1> SUFFICES ASSUME Masks, why' = "played" PROVE HeardInv'
  BY <1>2, SameProgram DEF HeardInv
<1>3. /\ The' = The /\ Masks' = Masks /\ program # "async"
  BY <1>1, <1>2, SameProgram, Kinds
<1>4. queued \in Nat /\ length \in Nat /\ pos \in Int /\ written \in Seq(Int)
  BY <1>1 DEF DataType
<1>5. Len(written) \in Nat
  BY <1>4
<1>6. CASE why # "played"
  <2>1. /\ Read("callback") /\ pos >= length
        /\ at' = [at EXCEPT !["callback"] = "leave"]
        /\ todo' = [todo EXCEPT !["callback"] = The.callback]
    BY <1>6, PlayedWhere
  <2>2. at'.callback = "leave" /\ todo'.callback = The.callback
    BY <1>1, <2>1 DEF ControlType, Actors
  <2>3. /\ Running("callback", "read") /\ at["callback"] = "read" /\ "read" \in Fills
        /\ UNCHANGED <<length, written, spoilt>>
    BY <2>1 DEF Read, Running, fixed, card, Fills
  <2>4. ~Left /\ \A b \in Actors : b # "callback" => at[b] \notin Fills
    BY <1>3, <2>3, OneFills DEF Actors
  <2>5. ~Records
    BY <1>1, <2>3 DEF Kept
  <2>6. \A b \in Actors : at[b] \notin {"write", "seek"}
    BY <2>3, <2>4 DEF Fills
  <2>7. ASSUME ~spoilt PROVE Len(written) >= length
    BY <1>1, <1>3, <1>4, <2>1, <2>4, <2>5, <2>6, <2>7 DEF PlayedInv
  <2>8. QED
    BY <1>3, <2>2, <2>3, <2>7 DEF HeardInv
<1>7. CASE why = "played"
  <2>1. /\ ~spoilt => Len(written) >= length
        /\ \/ at.callback = "leave" /\ todo.callback = The.callback
           \/ queued = 0 /\ (at.callback = "leave" \/ at.main = "exited")
    BY <1>7 DEF HeardInv
  <2>2. CASE UNCHANGED vars
    BY <2>1, <2>2, <1>3 DEF HeardInv, vars, fixed, card, control
  <2>3. CASE DrainStarts
    BY <2>1, <2>3, <1>3 DEF HeardInv, DrainStarts, fixed, control
  <2>4. CASE Play
    <3>1. /\ queued > 0 /\ UNCHANGED <<length, written, spoilt, at, todo>>
      BY <2>4 DEF Play, fixed, control
    <3>2. queued # 0
      BY <1>4, <3>1
    <3>3. QED
      BY <1>3, <2>1, <3>1, <3>2 DEF HeardInv
  <2>5. CASE Release("callback") /\ at.callback = "leave"
    <3>1. UNCHANGED <<length, spoilt>>
      BY <2>5 DEF Release, fixed
    <3>2. The.callback # <<>> /\ Head(The.callback) = "drain"
      BY <1>1, DrainsFirst
    <3>3. CASE todo["callback"] = <<>>
      <4>1. at' = [main |-> "exited", callback |-> "idle"] /\ UNCHANGED <<queued, written>>
        BY <2>5, <3>3 DEF Release
      <4>2. queued = 0 /\ at'.main = "exited"
        BY <2>1, <3>2, <3>3, <4>1
      <4>3. QED
        BY <1>3, <2>1, <3>1, <4>1, <4>2 DEF HeardInv
    <3>4. CASE todo["callback"] # <<>>
      <4>1. /\ UNCHANGED at
            /\ Head(todo["callback"]) = "drain" =>
                 pcm \in {"prepared", "xrun"} \/ queued = 0
            /\ queued' = queued \/ queued' = 0
            /\ \/ Head(todo["callback"]) # "drain" /\ written' = SubSeq(written, 1, Len(written) - queued)
               \/ written' = written
        BY <2>5, <3>4 DEF Release
      <4>2. queued = 0
        <5>1. ~Records
          BY <1>1, <2>5 , Kinds DEF Records
        <5>2. CASE todo.callback = The.callback
          BY <1>1, <3>2, <4>1, <5>1, <5>2 DEF QueueInv
        <5>3. QED
          BY <2>1, <5>2
      <4>3. queued' = 0
        BY <4>1, <4>2
      <4>4. Len(written') = Len(written)
        BY <1>4, <1>5, <4>1, <4>2
      <4>5. QED
        BY <1>3, <2>1, <2>5, <3>1, <4>1, <4>3, <4>4 DEF HeardInv
    <3>5. QED
      BY <3>3, <3>4
  <2>6. QED
    BY <1>7, <2>1, <2>2, <2>3, <2>4, <2>5, PlayedSteps
<1>8. QED
  BY <1>6, <1>7

(* When a player whose handler met the end of the file has exited, every   *)
(* frame was given to the card and the card has played them all: the drain *)
(* comes before the release of the card (snd_playback_async_callback of    *)
(* _ctrl and _mixer).                                                      *)
THEOREM PlayedToTheEnd == Spec => []WholeFileHeard
<1>1. ControlInv /\ HeardInv => WholeFileHeard
  <2> SUFFICES ASSUME ControlInv, HeardInv, at.main = "exited", why = "played", Masks, ~spoilt
               PROVE  queued = 0 /\ Len(written) >= length
    BY DEF WholeFileHeard, Exited
  <2>1. at.callback = "idle"
    BY DEF ControlInv, AloneInv
  <2>2. QED
    BY <2>1 DEF HeardInv
<1>2. QED
  BY ControlInit, DataInit, ControlStep, DataStep, HeardStep, <1>1, PTL DEF Spec
=============================================================================
