----------------------------- MODULE AsyncInput -----------------------------
(***************************************************************************)
(* Three programs that read a device from a signal handler: uart.c (the read *)
(* mode of its main: SIGRTMIN, eight bytes a signal), 9_优化异步IO.c          *)
(* (SIGRTMIN, a buffer of 100) and 9_signal异步IO.c (SIGIO).  The calls that  *)
(* set the handler up are steps of their own, and input may arrive between   *)
(* any two of them.                                                          *)
(***************************************************************************)
EXTENDS Integers, Sequences, FiniteSets

CONSTANTS ReadSizes,   \* what a handler's read takes at most
          Bursts,      \* how much arrives at a time
          SignalLimit, \* real-time signals the kernel queues for a process
          MaxInput     \* bound: what arrives in all

ASSUME AsyncAssumption == /\ ReadSizes \in [{"uart", "rtsig", "sigio"} -> Nat \ {0}]
                          /\ Bursts \subseteq Nat \ {0} /\ SignalLimit \in Nat \ {0}
                          /\ MaxInput \in Nat

VARIABLES reader,    \* "uart", "rtsig" or "sigio"
          setup,     \* the calls made so far; "killed", "closed"
          unread,    \* input in the device's buffer
          rt, sigio, \* pending: queued SIGRTMINs, their codes; and SIGIO
          loops,     \* signals the mouse programs still handle
          arrived, old   \* history: all input; that which no signal stands for

asyncVars == <<reader, setup, unread, rt, sigio, loops, arrived, old>>

HandlerReads == ReadSizes[reader]
SmallerOf(a, b) == IF a < b THEN a ELSE b

AsyncInit == /\ reader \in {"uart", "rtsig", "sigio"}
             /\ setup = "opened" /\ unread = 0 /\ rt = <<>> /\ sigio = FALSE
             /\ loops = 5 /\ arrived = 0 /\ old = 0

\* O_ASYNC, F_SETOWN, F_SETSIG and the handler, in this order; sigio has no
\* F_SETSIG.
SetUp ==
  /\ \/ setup = "opened" /\ setup' = "async"
     \/ setup = "async" /\ setup' = "owned"
     \/ setup = "owned" /\ setup' = IF reader = "sigio" THEN "ready" ELSE "setsig"
     \/ setup = "setsig" /\ setup' = "ready"
  /\ UNCHANGED <<reader, unread, rt, sigio, loops, arrived, old>>

Alive == setup \notin {"killed", "closed"}

\* What the kernel sends: nothing before there is an owner; SIGIO until
\* F_SETSIG, and when too many SIGRTMINs are queued; SIGIO merges with one
\* that is pending, and ends a process that does not handle it.
Sends == IF setup \in {"opened", "async"} THEN "nothing"
         ELSE IF setup = "owned" \/ reader = "sigio" \/ Len(rt) = SignalLimit THEN "SIGIO"
         ELSE "SIGRTMIN"
Fatal(signal) == signal # "nothing" /\ (setup # "ready" \/ (signal = "SIGIO" /\ reader # "sigio"))

Signalled(code) ==
  /\ setup' = IF Fatal(Sends) THEN "killed" ELSE setup
  /\ rt' = IF Sends = "SIGRTMIN" THEN Append(rt, code) ELSE rt
  /\ sigio' = (sigio \/ Sends = "SIGIO")

\* Input arrives: what a signal of its own will not read is not stood for.
Arrive(n) ==
  /\ Alive /\ arrived + n <= MaxInput
  /\ arrived' = arrived + n /\ unread' = unread + n
  /\ Signalled("POLL_IN")
  /\ old' = IF Sends = "nothing" \/ (Sends = "SIGIO" /\ sigio) THEN old + n
            ELSE IF n > HandlerReads THEN old + n - HandlerReads ELSE old
  /\ UNCHANGED <<reader, loops>>

\* The device has something else to say: room to write, a hangup.
OtherEvent ==
  /\ Alive
  /\ Signalled("other")
  /\ UNCHANGED <<reader, unread, loops, arrived, old>>

\* The mouse programs end with the fifth signal they handle.
CountDown ==
  IF reader = "uart" THEN UNCHANGED <<setup, loops>>
  ELSE /\ loops' = loops - 1
       /\ setup' = IF loops = 1 THEN "closed" ELSE setup

ReadSome == unread' = unread - SmallerOf(unread, HandlerReads)

OtherCodes == {"other"}                                            \* (mutant)
ReadCodes == {"POLL_IN"}

io_handler ==
  /\ setup = "ready" /\ rt # <<>>
  /\ rt' = Tail(rt)
  /\ IF Head(rt) \in ReadCodes THEN ReadSome /\ CountDown
     ELSE UNCHANGED <<unread, setup, loops>>
  /\ UNCHANGED <<reader, sigio, arrived, old>>

sigio_handler ==
  /\ setup = "ready" /\ sigio /\ reader = "sigio"
  /\ sigio' = FALSE
  /\ ReadSome /\ CountDown
  /\ UNCHANGED <<reader, rt, arrived, old>>

AsyncNext == \/ SetUp \/ OtherEvent \/ io_handler \/ sigio_handler
             \/ \E n \in Bursts : Arrive(n)
AsyncSpec == AsyncInit /\ [][AsyncNext]_asyncVars
-----------------------------------------------------------------------------
\* The signals under way that will make the handler read.
Polls(codes) == {i \in DOMAIN codes : codes[i] = "POLL_IN"}
Promises == Cardinality(Polls(rt)) + (IF sigio THEN 1 ELSE 0)

(* A program that stays behind its input stays behind only by what came     *)
(* before its signals were on, came while a SIGIO was already pending, or    *)
(* came in a burst longer than a read: for the rest of the input a signal   *)
(* that will read it is on its way, and no other signal uses it up.         *)
InputIsSignalled == setup = "ready" => unread <= old + HandlerReads * Promises
=============================================================================
