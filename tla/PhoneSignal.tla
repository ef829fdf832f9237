---------------------------- MODULE PhoneSignal ----------------------------
(***************************************************************************)
(* task_phone_sig.c and task_ui_sig.c: the door phone and its keyboard       *)
(* program with signals instead of queues.  Each looks the other's process   *)
(* up by name, twice: once to see whether there is one, once more for the    *)
(* number to signal, which is -1, every process, when there is none by then. *)
(* Each handles the signal it sends itself, not the one it is sent, so that  *)
(* a signal that arrives ends its target.                                    *)
(***************************************************************************)
EXTENDS Integers

CONSTANTS SIG_TIME_NEXT,  \* TIME_NEXT of task_phone_sig.c
          MaxStarts       \* bound: how often the two are started

ASSUME PhoneSignalAssumption == SIG_TIME_NEXT \in Nat \ {0} /\ MaxStarts \in Nat

VARIABLES sig_pc,     \* where a program stands; "off" without a process
          sig_state, sig_time,
          bystanders, \* "alive", or "signalled" with every process
          stale,      \* history: programs whose target ended between the lookups
          starts

signalVars == <<sig_pc, sig_state, sig_time, bystanders, stale, starts>>

Programs == {"phone_sig", "ui_sig"}
Target(p) == IF p = "phone_sig" THEN "ui_sig" ELSE "phone_sig"
Handles(p) == IF p = "phone_sig" THEN 35 ELSE 36
Sends(p) == IF p = "phone_sig" THEN 35 ELSE 36

SignalInit == /\ sig_pc = [p \in Programs |-> "off"]
              /\ sig_state = "NONE" /\ sig_time = 0
              /\ bystanders = "alive" /\ stale = {} /\ starts = 0

SigStart(p) ==
  /\ sig_pc[p] = "off" /\ starts < MaxStarts
  /\ sig_pc' = [sig_pc EXCEPT ![p] = "loop"]
  /\ IF p = "phone_sig" THEN sig_state' = "NONE" /\ sig_time' = 0
     ELSE UNCHANGED <<sig_state, sig_time>>
  /\ starts' = starts + 1
  /\ UNCHANGED <<bystanders, stale>>

NextState(state) == CASE state = "RING" -> "TALK"
                      [] state = "TALK" -> "HANGUP"
                      [] OTHER -> "RING"

\* One pass of the phone's loop: the next state when the time is up.
SigPass ==
  /\ sig_pc.phone_sig = "loop"
  /\ IF sig_time + 1 >= SIG_TIME_NEXT
     THEN sig_time' = 0 /\ sig_state' = NextState(sig_state)
     ELSE sig_time' = sig_time + 1 /\ UNCHANGED sig_state
  /\ sig_pc' = [sig_pc EXCEPT !.phone_sig = IF sig_state' = "HANGUP" THEN "look" ELSE "loop"]
  /\ UNCHANGED <<bystanders, stale, starts>>

\* 'q', 'c' or nothing.
SigKey ==
  /\ sig_pc.ui_sig = "loop"
  /\ \E pc \in {"look", "off"} : sig_pc' = [sig_pc EXCEPT !.ui_sig = pc]
  /\ stale' = stale \cup {p \in {"phone_sig"} : sig_pc'.ui_sig = "off" /\ sig_pc[p] = "aim"}
  /\ UNCHANGED <<sig_state, sig_time, bystanders, starts>>

\* What follows the signal: the phone leaves its loop.
Afterwards(p) == IF p = "phone_sig" THEN "off" ELSE "loop"

NeverLooks(p) == TRUE                                              \* (mutant)
Found(p) == sig_pc[Target(p)] # "off"

\* The first lookup.
Look1(p) ==
  /\ sig_pc[p] = "look"
  /\ sig_pc' = [sig_pc EXCEPT ![p] = IF Found(p) THEN "aim" ELSE Afterwards(p)]
  /\ stale' = stale \cup {q \in {Target(p)} : sig_pc'[p] = "off" /\ sig_pc[q] = "aim"}
  /\ UNCHANGED <<sig_state, sig_time, bystanders, starts>>

(* The second lookup and kill().  A target that handles the signal only     *)
(* changes its state; one that does not ends.                               *)
Signal(p) ==
  /\ sig_pc[p] = "aim"
  /\ LET t == Target(p)
         ends == sig_pc[t] # "off" /\ Sends(p) # Handles(t)
     IN  /\ sig_pc' = [sig_pc EXCEPT ![p] = Afterwards(p), ![t] = IF ends THEN "off" ELSE @]
         /\ bystanders' = IF sig_pc[t] = "off" THEN "signalled" ELSE bystanders
         /\ stale' = stale \cup {q \in {t} : sig_pc'[p] = "off" /\ sig_pc'[q] = "aim"}
  /\ UNCHANGED <<sig_state, sig_time, starts>>

SigPhoneStep == SigPass \/ Look1("phone_sig") \/ Signal("phone_sig")
SignalNext == \/ SigPhoneStep \/ SigKey \/ Look1("ui_sig") \/ Signal("ui_sig")
              \/ \E p \in Programs : SigStart(p)

SignalSpec == SignalInit /\ [][SignalNext]_signalVars
-----------------------------------------------------------------------------

(* No process but the other program is signalled, unless that program ended *)
(* in the moment between the two lookups; and the phone leaves its loop     *)
(* only in the state in which it hangs up, or with the signal's default     *)
(* action, never because its own handler ran.                               *)
OnlyTheOther ==
  /\ bystanders = "signalled" => stale # {}
  /\ sig_pc.phone_sig = "aim" => sig_state = "HANGUP"
=============================================================================
