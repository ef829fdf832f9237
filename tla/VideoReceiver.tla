---------------------------- MODULE VideoReceiver ----------------------------
(***************************************************************************)
(* The receive thread of MainActivity.java and the button that switches it *)
(* on and off.  Every click that switches on starts a thread of its own;   *)
(* the threads share three fields of the activity with the UI thread:      *)
(* BT_OnOffFlag, Thread_RunningFlag and UDPReceiveSocket.  A socket is      *)
(* named after the thread that created it.  What a packet holds is the     *)
(* business of FrameAssembly: the assembly state is local to a thread.     *)
(***************************************************************************)
EXTENDS Integers, FiniteSets

CONSTANTS Thread,      \* the threads the clicks may start (bounds the clicks)
          Null         \* the value of UDPReceiveSocket before any assignment

ASSUME NullAssumption == Null \notin Thread

VARIABLES BT_OnOffFlag,        \* written by the UI thread alone
          Thread_RunningFlag,  \* volatile, written by all
          UDPReceiveSocket,    \* the field
          open,                \* the sockets now bound to port 10000
          foreign,             \* another program holds port 10000
          pc,                  \* where each thread stands
          on                   \* the socket a thread is blocked in receive() on

shared == <<BT_OnOffFlag, Thread_RunningFlag, UDPReceiveSocket>>
vars == <<shared, open, foreign, pc, on>>

Stages == {"unborn", "bind", "assign", "loop", "call", "recv",
           "disconnect", "close", "clear", "dead"}
Ended == {"unborn", "dead"}

(* Port 10000 is bound once: by one thread's socket or by another program.  *)
TypeOK == /\ BT_OnOffFlag \in BOOLEAN
          /\ Thread_RunningFlag \in BOOLEAN
          /\ UDPReceiveSocket \in Thread \cup {Null}
          /\ open \in {{}} \cup {{t} : t \in Thread}
          /\ foreign \in BOOLEAN
          /\ foreign => open = {}
          /\ pc \in [Thread -> Stages]
          /\ on \in [Thread -> Thread \cup {Null}]

Init == /\ BT_OnOffFlag = FALSE
        /\ Thread_RunningFlag = FALSE
        /\ UDPReceiveSocket = Null
        /\ open = {}
        /\ foreign \in BOOLEAN
        /\ pc = [t \in Thread |-> "unborn"]
        /\ on = [t \in Thread |-> Null]

Goto(t, stage) == pc' = [pc EXCEPT ![t] = stage]
-----------------------------------------------------------------------------
(* onClick: the two branches of the button's handler.                       *)
ClickOn(t) ==
  /\ ~BT_OnOffFlag
  /\ pc[t] = "unborn"
  /\ BT_OnOffFlag' = TRUE
  /\ Thread_RunningFlag' = TRUE
  /\ Goto(t, "bind")
  /\ UNCHANGED <<UDPReceiveSocket, open, foreign, on>>

ClickOff ==
  /\ BT_OnOffFlag
  /\ BT_OnOffFlag' = FALSE
  /\ Thread_RunningFlag' = FALSE
  /\ UNCHANGED <<UDPReceiveSocket, open, foreign, pc, on>>

PortFree == open = {} /\ ~foreign

(* new DatagramSocket(10000): the system refuses a port that is in use, and *)
(* the exception leads to the finally block with the field as it was.       *)
Bind(t) ==
  /\ pc[t] = "bind"
  /\ \/ /\ PortFree
        /\ open' = open \cup {t}
        /\ Goto(t, "assign")
     \/ /\ ~PortFree
        /\ Goto(t, "disconnect")
        /\ UNCHANGED open
  /\ UNCHANGED <<shared, foreign, on>>

Assign(t) ==
  /\ pc[t] = "assign"
  /\ UDPReceiveSocket' = t
  /\ Goto(t, "loop")
  /\ UNCHANGED <<BT_OnOffFlag, Thread_RunningFlag, open, foreign, on>>

\* receive() and disconnect() of a socket exclude each other (both are
\* synchronized on it); close() does not wait for either.
MonitorFree(s) == \A u \in Thread : ~(pc[u] = "recv" /\ on[u] = s)

KeepReceivingAlways == TRUE                                     \* (mutant)
KeepReceiving == Thread_RunningFlag

(* The loop test.                                                           *)
LoopTest(t) ==
  /\ pc[t] = "loop"
  /\ Goto(t, IF KeepReceiving THEN "call" ELSE "disconnect")
  /\ UNCHANGED <<shared, open, foreign, on>>

(* The call of receive() on the socket the field holds now, which throws at *)
(* once if that socket is closed.                                           *)
CallReceive(t) ==
  /\ pc[t] = "call"
  /\ \/ /\ UDPReceiveSocket \notin open
        /\ Goto(t, "disconnect")
        /\ UNCHANGED on
     \/ /\ UDPReceiveSocket \in open
        /\ MonitorFree(UDPReceiveSocket)
        /\ Goto(t, "recv")
        /\ on' = [on EXCEPT ![t] = UDPReceiveSocket]
  /\ UNCHANGED <<shared, open, foreign>>

(* A datagram arrives and is handled, or the socket was closed under the    *)
(* blocked call and receive() throws.                                       *)
Receive(t) ==
  /\ pc[t] = "recv"
  /\ \/ on[t] \in open /\ Goto(t, "loop")
     \/ on[t] \notin open /\ Goto(t, "disconnect")
  /\ on' = [on EXCEPT ![t] = Null]
  /\ UNCHANGED <<shared, open, foreign>>

(* finally, line by line.  A field that was never assigned ends the thread  *)
(* with a NullPointerException before it can clear the flag.                *)
Disconnect(t) ==
  /\ pc[t] = "disconnect"
  /\ \/ UDPReceiveSocket = Null /\ Goto(t, "dead")
     \/ /\ UDPReceiveSocket # Null
        /\ MonitorFree(UDPReceiveSocket)
        /\ Goto(t, "close")
  /\ UNCHANGED <<shared, open, foreign, on>>

ClosedByFinallyForgotten == {}                                  \* (mutant)
ClosedByFinally == {UDPReceiveSocket}

Close(t) ==
  /\ pc[t] = "close"
  /\ open' = open \ ClosedByFinally
  /\ Goto(t, "clear")
  /\ UNCHANGED <<shared, foreign, on>>

ClearForgotten(t) ==                                            \* (mutant)
  /\ pc[t] = "clear"
  /\ Goto(t, "dead")
  /\ UNCHANGED <<shared, open, foreign, on>>
Clear(t) ==
  /\ pc[t] = "clear"
  /\ Thread_RunningFlag' = FALSE
  /\ Goto(t, "dead")
  /\ UNCHANGED <<BT_OnOffFlag, UDPReceiveSocket, open, foreign, on>>

(* Another program of the device takes or gives back the port.              *)
ForeignPort == /\ open = {}
               /\ foreign' = ~foreign
               /\ UNCHANGED <<shared, open, pc, on>>
-----------------------------------------------------------------------------
Step(t) == \/ Bind(t) \/ Assign(t) \/ LoopTest(t) \/ CallReceive(t)
           \/ Receive(t) \/ Disconnect(t) \/ Close(t) \/ Clear(t)

Next == \/ ClickOff
        \/ ForeignPort
        \/ \E t \in Thread : ClickOn(t) \/ Step(t)

Spec == Init /\ [][Next]_vars

(* The scheduler runs every thread, and the camera keeps sending datagrams. *)
Fairness == \A t \in Thread : WF_vars(Step(t))
FairSpec == Spec /\ Fairness
-----------------------------------------------------------------------------
Live == {t \in Thread : pc[t] \notin Ended}

(* A bound socket always has its creator alive in front of the close() that *)
(* will release it, and once published it is the one the field names: port  *)
(* 10000 is never left bound with nobody to close it, however the clicks,   *)
(* the failed binds and the finally blocks of several threads interleave.   *)
SocketHasOwner ==
  \A s \in open : \/ pc[s] = "assign"
                  \/ /\ UDPReceiveSocket = s
                     /\ pc[s] \in {"loop", "call", "recv", "disconnect", "close"}

(* Thread_RunningFlag is up only while some thread has yet to run line 564, *)
(* except after a first bind that failed with no socket ever created.       *)
FlagHasThread ==
  Thread_RunningFlag /\ UDPReceiveSocket # Null => Live # {}

(* When the user switches off for good, every thread ends and the port is   *)
(* free again: no thread is left in receive() and none waits for another.   *)
StopsAfterOff == <>[](~BT_OnOffFlag) => <>[](Live = {} /\ open = {})

(* A thread that is switched on when every earlier thread has ended, and    *)
(* whose flag none of them cleared behind the click, comes to receive()     *)
(* unless the user switches off again or another program has the port:      *)
(* nothing an earlier session left behind can make a fresh one fail.        *)
CleanStartReceives ==
  \A t \in Thread :
    (pc[t] = "bind" /\ Live = {t} /\ Thread_RunningFlag)
      ~> (pc[t] = "recv" \/ ~BT_OnOffFlag \/ foreign)
=============================================================================
