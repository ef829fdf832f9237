------------------------------ MODULE PhoneTask ------------------------------
(***************************************************************************)
(* The door phone of 进程/task_phone.c and the keyboard program            *)
(* task_ui.c, two processes that talk through System V message queues.     *)
(* A queue lives in the kernel: it outlives a process that is killed       *)
(* before its IPC_RMID, together with the messages in it.  Every message   *)
(* is a quit; it is modelled by the run of the phone it was meant for.     *)
(***************************************************************************)
EXTENDS Integers, Sequences

CONSTANTS TIME_NEXT,   \* passes of the phone's loop per state (task_phone.c:9)
          Ids,         \* identifiers the kernel may give to queues (bounds the runs)
          None,        \* no identifier
          QueueLimit,  \* messages a queue holds before msgsnd blocks
          MaxKeys,     \* bound: how often 'q' is pressed
          MaxCrashes   \* bound: processes killed

ASSUME PhoneAssumption == /\ TIME_NEXT \in Nat \ {0}
                          /\ Ids \subseteq Nat /\ None \notin Ids
                          /\ {QueueLimit, MaxKeys, MaxCrashes} \subseteq Nat

VARIABLES qid,         \* the kernel's queue for each key, or None
          box,         \* the messages in each queue
          fresh,       \* identifiers not yet given out
          phone_pc, phone_state, time, qid_phone,
          run,         \* history: how often the phone was started
          ui_pc, qid_ui, target, meant,   \* meant: the run that 'q' was pressed for
          keys, crashes

kernel == <<qid, box, fresh>>
phone == <<phone_pc, phone_state, time, qid_phone, run>>
ui == <<ui_pc, qid_ui, target, meant>>
vars == <<kernel, phone, ui, keys, crashes>>

Keys == {"phone", "ui"}       \* 60002 and task_ui.c's 60003
States == {"NONE", "RING", "TALK", "HANGUP"}
Alive(id) == \E k \in Keys : qid[k] = id

Init == /\ qid = [k \in Keys |-> None]
        /\ box = [id \in Ids |-> <<>>]
        /\ fresh = Ids
        /\ phone_pc = "off" /\ phone_state = "NONE" /\ time = 0 /\ qid_phone = None
        /\ run = 0
        /\ ui_pc = "off" /\ qid_ui = None /\ target = None /\ meant = 0
        /\ keys = 0 /\ crashes = 0

-----------------------------------------------------------------------------
(* The kernel.  msgget with IPC_CREAT opens the queue of the key or makes   *)
(* one; identifiers are not given out twice.                                *)
Open(k, id) ==
  \/ /\ qid[k] # None /\ id = qid[k]
     /\ UNCHANGED kernel
  \/ /\ qid[k] = None /\ id \in fresh
     /\ qid' = [qid EXCEPT ![k] = id]
     /\ fresh' = fresh \ {id}
     /\ UNCHANGED box

(* msgctl(IPC_RMID): the queue and what is in it are gone.                  *)
Remove(id) ==
  /\ qid' = [k \in Keys |-> IF qid[k] = id THEN None ELSE qid[k]]
  /\ box' = [box EXCEPT ![id] = <<>>]
  /\ UNCHANGED fresh
-----------------------------------------------------------------------------
(* task_phone.c                                                             *)
PhoneStart ==
  /\ phone_pc = "off"
  /\ \E id \in Ids : Open("phone", id) /\ qid_phone' = id
  /\ phone_pc' = "recv"
  /\ phone_state' = "NONE"
  /\ time' = 0
  /\ run' = run + 1
  /\ UNCHANGED <<ui, keys, crashes>>

PhoneReceive ==
  /\ phone_pc = "recv"
  /\ \/ /\ box[qid_phone] # <<>>
        /\ box' = [box EXCEPT ![qid_phone] = Tail(@)]
        /\ phone_state' = "HANGUP"
     \/ /\ box[qid_phone] = <<>>
        /\ UNCHANGED <<box, phone_state>>
  /\ phone_pc' = "tick"
  /\ UNCHANGED <<qid, fresh, time, qid_phone, run, ui, keys, crashes>>

AfterOverwritten(state) == IF state = "TALK" THEN "RING" ELSE "TALK"  \* (mutant)
\* Lines 84 to 95: what the state becomes when the time is up.
After(state) == CASE state = "RING" -> "TALK"
                  [] state = "TALK" -> "HANGUP"
                  [] OTHER -> "RING"

TimeUp == time + 1 >= TIME_NEXT

PhoneTick ==
  /\ phone_pc = "tick"
  /\ \/ /\ TimeUp
        /\ time' = 0
        /\ phone_state' = After(phone_state)
     \/ /\ ~TimeUp
        /\ time' = time + 1
        /\ UNCHANGED phone_state
  /\ phone_pc' = "check"
  /\ UNCHANGED <<kernel, qid_phone, run, ui, keys, crashes>>

(* Line 101 as C reads it: the comparison is evaluated first, so that       *)
(* qid_ui becomes 1 when the phone's own queue has a positive identifier.   *)
Told == IF qid["phone"] # None /\ qid["phone"] > 0 THEN {1} ELSE {}

PhoneCheck ==
  /\ phone_pc = "check"
  /\ \/ /\ phone_state # "HANGUP"
        /\ phone_pc' = "recv"
        /\ UNCHANGED kernel
     \/ /\ phone_state = "HANGUP"
        /\ phone_pc' = "rmid"
        /\ \/ /\ \E id \in Told : /\ Alive(id) /\ Len(box[id]) < QueueLimit
                                  /\ box' = [box EXCEPT ![id] = Append(@, run)]
              /\ UNCHANGED <<qid, fresh>>
           \/ /\ \A id \in Told : ~Alive(id)
              /\ UNCHANGED kernel
  /\ UNCHANGED <<phone_state, time, qid_phone, run, ui, keys, crashes>>

PhoneRemoveForgotten ==                                         \* (mutant)
  /\ phone_pc = "rmid"
  /\ phone_pc' = "off"
  /\ UNCHANGED <<kernel, phone_state, time, qid_phone, run, ui, keys, crashes>>
PhoneRemove ==
  /\ phone_pc = "rmid"
  /\ phone_pc' = "off"
  /\ Remove(qid_phone)
  /\ UNCHANGED <<phone_state, time, qid_phone, run, ui, keys, crashes>>
-----------------------------------------------------------------------------
(* task_ui.c                                                                *)
UiStart ==
  /\ ui_pc = "off"
  /\ \E id \in Ids : Open("ui", id) /\ qid_ui' = id
  /\ ui_pc' = "recv"
  /\ UNCHANGED <<phone, target, meant, keys, crashes>>

UiReceive ==
  /\ ui_pc = "recv"
  /\ \/ /\ box[qid_ui] # <<>>
        /\ box' = [box EXCEPT ![qid_ui] = Tail(@)]
        /\ ui_pc' = "rmid"
     \/ /\ box[qid_ui] = <<>>
        /\ ui_pc' = "key"
        /\ UNCHANGED box
  /\ UNCHANGED <<qid, fresh, phone, qid_ui, target, meant, keys, crashes>>

(* get_char: no key, 'q' (change_state finds the phone's queue or gives up) *)
(* or 'c'.                                                                  *)
UiKey ==
  /\ ui_pc = "key"
  /\ \/ ui_pc' = "recv" /\ UNCHANGED <<target, meant, keys>>
     \/ /\ keys < MaxKeys
        /\ keys' = keys + 1
        /\ \/ qid["phone"] = None /\ ui_pc' = "recv" /\ UNCHANGED target
           \/ qid["phone"] # None /\ ui_pc' = "send" /\ target' = qid["phone"]
        /\ meant' = run
     \/ ui_pc' = "rmid" /\ UNCHANGED <<target, meant, keys>>
  /\ UNCHANGED <<kernel, phone, qid_ui, crashes>>

SendKeepsWaiting == Alive(target) /\ Len(box[target]) < QueueLimit  \* (mutant)
SendReturns == Alive(target) => Len(box[target]) < QueueLimit

(* msgsnd: appends, waits while the queue is full, and fails when the queue *)
(* has been removed (change_state says "ok" all the same).                  *)
UiSend ==
  /\ ui_pc = "send"
  /\ SendReturns
  /\ box' = IF Alive(target) THEN [box EXCEPT ![target] = Append(@, meant)] ELSE box
  /\ ui_pc' = "recv"
  /\ target' = None
  /\ UNCHANGED <<qid, fresh, phone, qid_ui, meant, keys, crashes>>

UiRemove ==
  /\ ui_pc = "rmid"
  /\ ui_pc' = "off"
  /\ Remove(qid_ui)
  /\ UNCHANGED <<phone, qid_ui, target, meant, keys, crashes>>
-----------------------------------------------------------------------------
(* A process is killed (^C: neither handles a signal).                      *)
Crash ==
  /\ crashes < MaxCrashes
  /\ crashes' = crashes + 1
  /\ \/ phone_pc # "off" /\ phone_pc' = "off" /\ UNCHANGED ui_pc
     \/ ui_pc # "off" /\ ui_pc' = "off" /\ UNCHANGED phone_pc
  /\ UNCHANGED <<kernel, phone_state, time, qid_phone, run, qid_ui, target, meant, keys>>

PhoneStep == PhoneReceive \/ PhoneTick \/ PhoneCheck \/ PhoneRemove
UiStep == UiReceive \/ UiKey \/ UiSend \/ UiRemove
Next == PhoneStart \/ PhoneStep \/ UiStart \/ UiStep \/ Crash

Spec == Init /\ [][Next]_vars
(* A started process keeps running.                                         *)
FairSpec == Spec /\ WF_vars(PhoneStep) /\ WF_vars(UiStep)
-----------------------------------------------------------------------------
(* As long as no process is killed, the kernel holds a queue exactly while  *)
(* its process runs, and a quit waiting for the phone was pressed for the   *)
(* run that will read it: every way out of either loop passes IPC_RMID, and *)
(* a key pressed for one call never hangs up the next one.                  *)
QueueOfRunningOnly ==
  /\ (qid["phone"] # None) = (phone_pc # "off")
  /\ (qid["ui"] # None) = (ui_pc # "off")
NoStaleQuit ==
  crashes = 0 =>
    /\ QueueOfRunningOnly
    /\ phone_pc # "off" => \A i \in DOMAIN box[qid_phone] : box[qid_phone][i] = run

\* The phone waits for room in the queue only it can empty (identifier 1
\* being its own).
WaitsForItself == qid_phone = 1 /\ Len(box[1]) = QueueLimit

(* A started phone ends: three periods after the last quit at the latest    *)
(* it hangs up by itself.                                                   *)
PhoneEnds == phone_pc # "off" ~> phone_pc = "off" \/ WaitsForItself

(* A quit that waits for room in the phone's queue gets it, or fails with   *)
(* the queue, unless the phone was killed.                                  *)
UiSendReturns == ui_pc = "send" ~> ui_pc # "send" \/ crashes > 0 \/ WaitsForItself

(* What line 98 says: a phone that hangs up tells the user interface, so    *)
(* that its queue, if there is one, has a message more.                     *)
UiIsTold ==
  [][phone_pc = "check" /\ phone_pc' = "rmid" /\ qid["ui"] # None
     => Len(box'[qid["ui"]]) = Len(box[qid["ui"]]) + 1]_vars

(* What line 98 says of the state: once hung up, the phone leaves its loop  *)
(* and no other state follows (a new run starts in NONE).                   *)
HangupIsFinal == [][phone_state = "HANGUP" => phone_state' \in {"HANGUP", "NONE"}]_vars
=============================================================================
