----------------------------- MODULE PhoneProofs -----------------------------
(***************************************************************************)
(* The three kinds of door phone, for any number of runs, keys, crashes,     *)
(* starts, words and calls.  PhoneTask: without a crash the kernel holds a   *)
(* queue exactly while its process runs, and no quit waits for a later call  *)
(* than the one it was pressed for.  PhoneSignal: only the other program is  *)
(* signalled.  PhoneFifo: calls and words do not multiply in the pipes.      *)
(***************************************************************************)
EXTENDS PhoneTask, PhoneSignal, PhoneFifo, TLAPS

PhonePlaces == {"recv", "tick", "check", "rmid"}
UiPlaces == {"recv", "key", "send", "rmid"}

KernelTypeOK ==
  /\ qid \in [Keys -> Ids \cup {None}]
  /\ fresh \in SUBSET Ids
  /\ box \in [Ids -> Seq(Nat)]
  /\ qid_phone \in Ids \cup {None} /\ qid_ui \in Ids \cup {None}
  /\ target \in Ids \cup {None}
  /\ run \in Nat /\ meant \in Nat /\ crashes \in Nat
  /\ phone_pc \in {"off"} \cup PhonePlaces /\ ui_pc \in {"off"} \cup UiPlaces

(* An identifier is given to one key, and never again; only queues that     *)
(* exist hold messages, and a running process has its queue.                *)
QueueInv ==
  /\ \A key \in Keys : qid[key] \notin fresh
  /\ qid["phone"] # None => qid["phone"] # qid["ui"]
  /\ \A id \in Ids : box[id] # <<>> => Alive(id)
  /\ phone_pc # "off" => qid["phone"] = qid_phone /\ qid_phone # None
  /\ ui_pc # "off" => qid["ui"] = qid_ui /\ qid_ui # None

(* A key that is on its way goes to the queue of the phone it was pressed   *)
(* for, or, when that is gone, to none that is there or will be.            *)
SendInv ==
  ui_pc = "send" => /\ target # None /\ target \notin fresh /\ target # qid["ui"]
                    /\ crashes = 0 /\ target = qid["phone"] => meant = run

PhoneInv == KernelTypeOK /\ QueueInv /\ SendInv /\ NoStaleQuit

LEMMA PhoneInit == Init => PhoneInv
<1> SUFFICES ASSUME Init PROVE PhoneInv
  OBVIOUS
<1>0. <<>> \in Seq(Nat)
  OBVIOUS
<1>1. KernelTypeOK
  BY <1>0 DEF Init, KernelTypeOK, Keys
<1>2. QueueInv
  BY PhoneAssumption DEF Init, QueueInv, Keys, Alive, PhoneAssumption
<1>3. SendInv /\ NoStaleQuit
  BY DEF Init, SendInv, NoStaleQuit, QueueOfRunningOnly, Keys
<1>4. QED
  BY <1>1, <1>2, <1>3 DEF PhoneInv

(* msgget leaves the other key's queue alone, and the queue it makes is     *)
(* new and empty.                                                           *)
LEMMA OpenLemma ==
  ASSUME KernelTypeOK, QueueInv, NEW key \in Keys, NEW id \in Ids, Open(key, id)
  PROVE  /\ qid' \in [Keys -> Ids \cup {None}] /\ fresh' \in SUBSET Ids
         /\ box' = box /\ qid'[key] = id
         /\ \A other \in Keys : other # key => qid'[other] = qid[other]
         /\ \A other \in Keys : qid'[other] \notin fresh'
         /\ fresh' \subseteq fresh
         /\ qid[key] = None => id \in fresh /\ box[id] = <<>>
         /\ qid[key] # None => UNCHANGED kernel
         /\ \A i \in Ids : Alive(i) => Alive(i)'
<1>0. None \notin Ids
  BY PhoneAssumption DEF PhoneAssumption
<1>1. CASE qid[key] # None /\ id = qid[key] /\ UNCHANGED kernel
  BY <1>1 DEF KernelTypeOK, QueueInv, kernel, Alive
<1>2. CASE /\ qid[key] = None /\ id \in fresh /\ qid' = [qid EXCEPT ![key] = id]
           /\ fresh' = fresh \ {id} /\ UNCHANGED box
  <2>1. qid'[key] = id /\ \A other \in Keys : other # key => qid'[other] = qid[other]
    BY <1>2 DEF KernelTypeOK
  <2>2. ~Alive(id)
    BY <1>2 DEF QueueInv, Alive
  <2>3. box[id] = <<>>
    BY <2>2 DEF QueueInv
  <2>4. \A i \in Ids : Alive(i) => Alive(i)'
    BY <1>0, <1>2, <2>1 DEF Alive
  <2>5. qid' \in [Keys -> Ids \cup {None}] /\ fresh' \in SUBSET Ids
    BY <1>2 DEF KernelTypeOK
  <2>6. \A other \in Keys : qid'[other] \notin fresh'
    BY <1>2, <2>1 DEF QueueInv
  <2>7. QED
    BY <1>2, <2>1, <2>3, <2>4, <2>5, <2>6
<1>3. QED
  BY <1>1, <1>2 DEF Open

LEMMA RemoveLemma ==
  ASSUME KernelTypeOK, QueueInv, NEW key \in Keys, qid[key] # None, Remove(qid[key])
  PROVE  /\ qid' \in [Keys -> Ids \cup {None}] /\ fresh' = fresh
         /\ box' \in [Ids -> Seq(Nat)]
         /\ qid'[key] = None
         /\ \A other \in Keys : other # key => qid'[other] = qid[other]
         /\ \A other \in Keys : qid'[other] \notin fresh'
         /\ \A i \in Ids : i # qid[key] => box'[i] = box[i]
         /\ \A i \in Ids : box'[i] # <<>> => Alive(i)'
<1>0. None \notin Ids /\ <<>> \in Seq(Nat) /\ qid[key] \in Ids
  BY PhoneAssumption DEF PhoneAssumption, KernelTypeOK
<1>1. /\ qid' = [other \in Keys |-> IF qid[other] = qid[key] THEN None ELSE qid[other]]
      /\ box' = [box EXCEPT ![qid[key]] = <<>>] /\ fresh' = fresh
  BY DEF Remove
<1>2. \A other \in Keys : other # key => qid[other] # qid[key]
  BY DEF QueueInv, Keys
<1>3. qid'[key] = None /\ \A other \in Keys : other # key => qid'[other] = qid[other]
  BY <1>1, <1>2
<1>4. qid' \in [Keys -> Ids \cup {None}] /\ box' \in [Ids -> Seq(Nat)]
  BY <1>0, <1>1 DEF KernelTypeOK
<1>5. /\ box'[qid[key]] = <<>>
      /\ \A i \in Ids : i # qid[key] => box'[i] = box[i]
  BY <1>0, <1>1 DEF KernelTypeOK
<1>6. \A other \in Keys : qid'[other] \notin fresh'
  BY <1>0, <1>1, <1>3 DEF QueueInv, KernelTypeOK
<1>7. ASSUME NEW i \in Ids, box'[i] # <<>> PROVE Alive(i)'
  <2>1. i # qid[key] /\ box[i] # <<>>
    BY <1>5, <1>7
  <2>2. PICK other \in Keys : qid[other] = i
    BY <2>1 DEF QueueInv, Alive
  <2>3. qid'[other] = i
    BY <1>3, <2>1, <2>2
  <2>4. QED
    BY <2>3 DEF Alive
<1>8. QED
  BY <1>1, <1>3, <1>4, <1>5, <1>6, <1>7
-----------------------------------------------------------------------------
(* The quits that wait for a running phone.                                 *)
Waiting == \A i \in DOMAIN box[qid_phone] : box[qid_phone][i] = run

LEMMA TailOf ==
  ASSUME NEW b \in Seq(Nat), b # <<>>
  PROVE  /\ Tail(b) \in Seq(Nat)
         /\ \A r : (\A i \in DOMAIN b : b[i] = r) => \A i \in DOMAIN Tail(b) : Tail(b)[i] = r
<1>1. /\ Tail(b) \in Seq(Nat) /\ Len(Tail(b)) = Len(b) - 1 /\ Len(b) \in Nat \ {0}
      /\ \A i \in 1 .. Len(b) - 1 : Tail(b)[i] = b[i + 1]
  OBVIOUS
<1>2. DOMAIN Tail(b) = 1 .. Len(b) - 1 /\ DOMAIN b = 1 .. Len(b)
  BY <1>1
<1>3. ASSUME NEW n \in Nat \ {0}, NEW i \in 1 .. n - 1 PROVE i + 1 \in 1 .. n
  OBVIOUS
<1>4. ASSUME NEW i \in DOMAIN Tail(b)
      PROVE  Tail(b)[i] = b[i + 1] /\ i + 1 \in DOMAIN b
  BY <1>1, <1>2, <1>3
<1>5. QED
  BY <1>1, <1>4

LEMMA AppendOf ==
  ASSUME NEW b \in Seq(Nat), NEW m \in Nat
  PROVE  /\ Append(b, m) \in Seq(Nat)
         /\ (\A i \in DOMAIN b : b[i] = m) =>
              \A i \in DOMAIN Append(b, m) : Append(b, m)[i] = m
<1>1. /\ Append(b, m) \in Seq(Nat) /\ DOMAIN Append(b, m) = 1 .. Len(b) + 1
      /\ DOMAIN b = 1 .. Len(b) /\ Len(b) \in Nat
      /\ Append(b, m)[Len(b) + 1] = m /\ \A i \in 1 .. Len(b) : Append(b, m)[i] = b[i]
  OBVIOUS
<1>2. ASSUME NEW n \in Nat, NEW i \in 1 .. n + 1 PROVE i \in 1 .. n \/ i = n + 1
  OBVIOUS
<1>3. QED
  BY <1>1, <1>2

LEMMA KeysAre == Keys = {"phone", "ui"} /\ "phone" \in Keys /\ "ui" \in Keys /\ None \notin Ids
BY PhoneAssumption DEF Keys, PhoneAssumption

LEMMA PhoneStartStep == PhoneInv /\ PhoneStart => PhoneInv'
<1> SUFFICES ASSUME PhoneInv, PhoneStart PROVE PhoneInv'
  OBVIOUS
<1>0. KernelTypeOK /\ QueueInv /\ SendInv /\ NoStaleQuit
  BY DEF PhoneInv
<1>1. PICK id \in Ids : Open("phone", id) /\ qid_phone' = id
  BY DEF PhoneStart
<1>2. /\ phone_pc = "off" /\ phone_pc' = "recv" /\ run' = run + 1
      /\ UNCHANGED <<ui_pc, qid_ui, target, meant, crashes>>
  BY DEF PhoneStart, ui
<1>3. /\ qid' \in [Keys -> Ids \cup {None}] /\ fresh' \in SUBSET Ids
      /\ box' = box /\ qid'["phone"] = id /\ qid'["ui"] = qid["ui"]
      /\ \A other \in Keys : qid'[other] \notin fresh'
      /\ fresh' \subseteq fresh
      /\ qid["phone"] = None => id \in fresh /\ box[id] = <<>>
      /\ qid["phone"] # None => UNCHANGED kernel
      /\ \A i \in Ids : Alive(i) => Alive(i)'
  BY <1>0, <1>1, KeysAre, OpenLemma
<1>4. KernelTypeOK'
  BY <1>0, <1>1, <1>2, <1>3 DEF KernelTypeOK, PhonePlaces
<1>5. QueueInv'
  <2>1. qid'["phone"] # qid'["ui"]
    <3>1. CASE qid["phone"] = None
      BY <1>0, <1>3, <3>1, KeysAre DEF QueueInv
    <3>2. CASE qid["phone"] # None
      BY <1>0, <1>3, <3>2 DEF QueueInv, kernel
    <3>3. QED
      BY <3>1, <3>2
  <2>2. qid'["phone"] = qid_phone' /\ qid_phone' # None
    BY <1>1, <1>3, KeysAre
  <2>3. \A i \in Ids : box'[i] # <<>> => Alive(i)'
    BY <1>0, <1>3 DEF QueueInv
  <2>4. ui_pc' # "off" => qid'["ui"] = qid_ui' /\ qid_ui' # None
    BY <1>0, <1>2, <1>3 DEF QueueInv
  <2>5. QED
    BY <1>3, <2>1, <2>2, <2>3, <2>4 DEF QueueInv
<1>6. crashes = 0 => qid["phone"] = None
  BY <1>0, <1>2 DEF NoStaleQuit, QueueOfRunningOnly
<1>7. SendInv'
  BY <1>0, <1>2, <1>3, <1>6 DEF SendInv
<1>8. NoStaleQuit'
  <2>1. ASSUME crashes' = 0 PROVE box'[qid_phone'] = <<>> /\ qid'["phone"] # None
    BY <1>1, <1>2, <1>3, <1>6, <2>1, KeysAre
  <2>2. DOMAIN <<>> = {}
    OBVIOUS
  <2>3. QED
    BY <1>0, <1>2, <1>3, <2>1, <2>2 DEF NoStaleQuit, QueueOfRunningOnly
<1>9. QED
  BY <1>4, <1>5, <1>7, <1>8 DEF PhoneInv

(* A message more or less in a queue that exists.                           *)
LEMMA BoxStep ==
  ASSUME PhoneInv, NEW id \in Ids, Alive(id), NEW b \in Seq(Nat),
         box' = [box EXCEPT ![id] = b],
         UNCHANGED <<qid, fresh, qid_phone, qid_ui, run, crashes>>,
         phone_pc = "off" <=> phone_pc' = "off", phone_pc' \in {"off"} \cup PhonePlaces,
         ui_pc = "off" <=> ui_pc' = "off", ui_pc' \in {"off"} \cup UiPlaces,
         target' \in Ids \cup {None}, meant' \in Nat, SendInv',
         crashes = 0 /\ phone_pc # "off" /\ Waiting /\ id = qid_phone =>
           \A i \in DOMAIN b : b[i] = run
  PROVE  PhoneInv'
<1>0. KernelTypeOK /\ QueueInv /\ NoStaleQuit
  BY DEF PhoneInv
<1>1. box' \in [Ids -> Seq(Nat)] /\ box'[id] = b /\ \A i \in Ids : i # id => box'[i] = box[i]
  BY <1>0 DEF KernelTypeOK
<1>2. KernelTypeOK'
  BY <1>0, <1>1 DEF KernelTypeOK
<1>3. \A i \in Ids : Alive(i)' = Alive(i)
  BY DEF Alive
<1>4. QueueInv'
  BY <1>0, <1>1, <1>3 DEF QueueInv
<1>5. NoStaleQuit'
  <2>1. ASSUME crashes = 0 PROVE QueueOfRunningOnly'
    BY <1>0, <2>1 DEF NoStaleQuit, QueueOfRunningOnly
  <2>2. ASSUME crashes = 0, phone_pc # "off" PROVE Waiting'
    <3>1. Waiting /\ qid_phone \in Ids
      BY <1>0, <2>2 DEF NoStaleQuit, Waiting, QueueInv, KernelTypeOK
    <3>2. CASE qid_phone = id
      BY <1>1, <2>2, <3>1, <3>2 DEF Waiting
    <3>3. CASE qid_phone # id
      BY <1>1, <3>1, <3>3 DEF Waiting
    <3>4. QED
      BY <3>2, <3>3
  <2>3. QED
    BY <2>1, <2>2 DEF NoStaleQuit, Waiting
<1>6. QED
  BY <1>2, <1>4, <1>5 DEF PhoneInv

\* The queues stay as they are.
LEMMA SameBoxStep ==
  ASSUME PhoneInv, UNCHANGED <<kernel, qid_phone, qid_ui, run, crashes>>,
         phone_pc = "off" <=> phone_pc' = "off", phone_pc' \in {"off"} \cup PhonePlaces,
         ui_pc = "off" <=> ui_pc' = "off", ui_pc' \in {"off"} \cup UiPlaces,
         target' \in Ids \cup {None}, meant' \in Nat, SendInv'
  PROVE  PhoneInv'
<1>0. KernelTypeOK /\ QueueInv /\ NoStaleQuit
  BY DEF PhoneInv
<1>1. KernelTypeOK' /\ QueueInv'
  BY <1>0 DEF KernelTypeOK, QueueInv, Alive, kernel
<1>2. NoStaleQuit'
  BY <1>0 DEF NoStaleQuit, QueueOfRunningOnly, kernel
<1>3. QED
  BY <1>1, <1>2 DEF PhoneInv

LEMMA PhoneReceiveStep == PhoneInv /\ PhoneReceive => PhoneInv'
<1> SUFFICES ASSUME PhoneInv, PhoneReceive PROVE PhoneInv'
  OBVIOUS
<1>0. /\ KernelTypeOK /\ QueueInv /\ SendInv
      /\ phone_pc = "recv" /\ phone_pc' = "tick"
      /\ UNCHANGED <<qid, fresh, qid_phone, run, ui_pc, qid_ui, target, meant, crashes>>
  BY DEF PhoneInv, PhoneReceive, ui
<1>1. SendInv'
  BY <1>0 DEF SendInv
<1>2. qid_phone \in Ids /\ Alive(qid_phone) /\ box[qid_phone] \in Seq(Nat)
  BY <1>0, KeysAre DEF KernelTypeOK, QueueInv, Alive
<1>3. CASE box[qid_phone] # <<>> /\ box' = [box EXCEPT ![qid_phone] = Tail(@)]
  <2> DEFINE b == Tail(box[qid_phone])
  <2>1. b \in Seq(Nat) /\ (Waiting => \A i \in DOMAIN b : b[i] = run)
    BY <1>2, <1>3, TailOf DEF Waiting
  <2>2. box' = [box EXCEPT ![qid_phone] = b]
    BY <1>3
  <2> HIDE DEF b
  <2>3. QED
    BY <1>0, <1>1, <1>2, <2>1, <2>2, BoxStep DEF KernelTypeOK, PhonePlaces
<1>4. CASE UNCHANGED box
  BY <1>0, <1>1, <1>4, SameBoxStep DEF kernel, KernelTypeOK, PhonePlaces
<1>5. QED
  BY <1>3, <1>4 DEF PhoneReceive

LEMMA PhoneTickStep == PhoneInv /\ PhoneTick => PhoneInv'
<1> SUFFICES ASSUME PhoneInv, PhoneTick PROVE PhoneInv'
  OBVIOUS
<1>0. /\ KernelTypeOK /\ SendInv /\ phone_pc = "tick" /\ phone_pc' = "check"
      /\ UNCHANGED <<kernel, qid_phone, run, ui_pc, qid_ui, target, meant, crashes>>
  BY DEF PhoneInv, PhoneTick, ui
<1>1. SendInv'
  BY <1>0 DEF SendInv, kernel
<1>2. QED
  BY <1>0, <1>1, SameBoxStep DEF KernelTypeOK, PhonePlaces

LEMMA PhoneCheckStep == PhoneInv /\ PhoneCheck => PhoneInv'
<1> SUFFICES ASSUME PhoneInv, PhoneCheck PROVE PhoneInv'
  OBVIOUS
<1>0. /\ KernelTypeOK /\ QueueInv /\ SendInv
      /\ phone_pc = "check" /\ phone_pc' \in {"recv", "rmid"}
      /\ UNCHANGED <<qid, fresh, qid_phone, run, ui_pc, qid_ui, target, meant, crashes>>
  BY DEF PhoneInv, PhoneCheck, ui, kernel
<1>1. SendInv'
  BY <1>0 DEF SendInv
<1>2. CASE UNCHANGED box
  BY <1>0, <1>1, <1>2, SameBoxStep DEF kernel, KernelTypeOK, PhonePlaces
<1>3. ASSUME NEW id \in Told, Alive(id), box' = [box EXCEPT ![id] = Append(@, run)]
      PROVE  PhoneInv'
  <2>1. CASE id \in Ids
    <3> DEFINE b == Append(box[id], run)
    <3>1. b \in Seq(Nat) /\ (Waiting /\ id = qid_phone => \A i \in DOMAIN b : b[i] = run)
      BY <1>0, <2>1, AppendOf DEF Waiting, KernelTypeOK
    <3>2. box' = [box EXCEPT ![id] = b]
      BY <1>3
    <3> HIDE DEF b
    <3>3. QED
      BY <1>0, <1>1, <1>3, <2>1, <3>1, <3>2, BoxStep DEF KernelTypeOK, PhonePlaces
  <2>2. CASE id \notin Ids
    <3>1. box' = box
      BY <1>0, <1>3, <2>2 DEF KernelTypeOK
    <3>2. QED
      BY <1>2, <3>1
  <2>3. QED
    BY <2>1, <2>2
<1>4. QED
  BY <1>2, <1>3 DEF PhoneCheck, kernel

LEMMA PhoneRemoveStep == PhoneInv /\ PhoneRemove => PhoneInv'
<1> SUFFICES ASSUME PhoneInv, PhoneRemove PROVE PhoneInv'
  OBVIOUS
<1>0. /\ KernelTypeOK /\ QueueInv /\ SendInv /\ NoStaleQuit
      /\ phone_pc = "rmid" /\ phone_pc' = "off" /\ Remove(qid_phone)
      /\ UNCHANGED <<qid_phone, run, ui_pc, qid_ui, target, meant, crashes>>
  BY DEF PhoneInv, PhoneRemove, ui
<1>1. qid["phone"] = qid_phone /\ qid["phone"] # None
  BY <1>0 DEF QueueInv
<1>2. /\ qid' \in [Keys -> Ids \cup {None}] /\ fresh' = fresh
      /\ box' \in [Ids -> Seq(Nat)]
      /\ qid'["phone"] = None /\ qid'["ui"] = qid["ui"]
      /\ \A other \in Keys : qid'[other] \notin fresh'
      /\ \A i \in Ids : box'[i] # <<>> => Alive(i)'
  BY <1>0, <1>1, KeysAre, RemoveLemma
<1>3. KernelTypeOK'
  BY <1>0, <1>2 DEF KernelTypeOK
<1>4. QueueInv' /\ SendInv'
  BY <1>0, <1>2 DEF QueueInv, SendInv
<1>5. NoStaleQuit'
  BY <1>0, <1>2 DEF NoStaleQuit, QueueOfRunningOnly
<1>6. QED
  BY <1>3, <1>4, <1>5 DEF PhoneInv

LEMMA UiStartStep == PhoneInv /\ UiStart => PhoneInv'
<1> SUFFICES ASSUME PhoneInv, UiStart PROVE PhoneInv'
  OBVIOUS
<1>0. /\ KernelTypeOK /\ QueueInv /\ SendInv /\ NoStaleQuit
      /\ ui_pc = "off" /\ ui_pc' = "recv"
      /\ UNCHANGED <<phone_pc, qid_phone, run, target, meant, crashes>>
  BY DEF PhoneInv, UiStart, phone
<1>1. PICK id \in Ids : Open("ui", id) /\ qid_ui' = id
  BY DEF UiStart
<1>2. /\ qid' \in [Keys -> Ids \cup {None}] /\ fresh' \in SUBSET Ids
      /\ box' = box /\ qid'["ui"] = id /\ qid'["phone"] = qid["phone"]
      /\ \A other \in Keys : qid'[other] \notin fresh'
      /\ qid["ui"] = None => id \in fresh
      /\ qid["ui"] # None => UNCHANGED kernel
      /\ \A i \in Ids : Alive(i) => Alive(i)'
  BY <1>0, <1>1, KeysAre, OpenLemma
<1>3. KernelTypeOK'
  BY <1>0, <1>1, <1>2 DEF KernelTypeOK, UiPlaces
<1>4. QueueInv'
  <2>1. qid'["phone"] # None => qid'["phone"] # qid'["ui"]
    <3>1. CASE qid["ui"] = None
      BY <1>0, <1>2, <3>1, KeysAre DEF QueueInv
    <3>2. CASE qid["ui"] # None
      BY <1>0, <1>2, <3>2 DEF QueueInv, kernel
    <3>3. QED
      BY <3>1, <3>2
  <2>2. QED
    BY <1>0, <1>1, <1>2, <2>1, KeysAre DEF QueueInv
<1>5. SendInv' /\ NoStaleQuit'
  BY <1>0, <1>1, <1>2, KeysAre DEF SendInv, NoStaleQuit, QueueOfRunningOnly
<1>6. QED
  BY <1>3, <1>4, <1>5 DEF PhoneInv

LEMMA UiReceiveStep == PhoneInv /\ UiReceive => PhoneInv'
<1> SUFFICES ASSUME PhoneInv, UiReceive PROVE PhoneInv'
  OBVIOUS
<1>0. /\ KernelTypeOK /\ QueueInv /\ ui_pc = "recv" /\ ui_pc' \in {"rmid", "key"}
      /\ UNCHANGED <<qid, fresh, phone_pc, qid_phone, run, qid_ui, target, meant, crashes>>
  BY DEF PhoneInv, UiReceive, phone
<1>1. SendInv'
  BY <1>0 DEF SendInv
<1>2. /\ qid_ui \in Ids /\ Alive(qid_ui) /\ box[qid_ui] \in Seq(Nat)
      /\ phone_pc # "off" => qid_ui # qid_phone
  BY <1>0, KeysAre DEF KernelTypeOK, QueueInv, Alive
<1>3. CASE box[qid_ui] # <<>> /\ box' = [box EXCEPT ![qid_ui] = Tail(@)]
  <2> DEFINE b == Tail(box[qid_ui])
  <2>1. b \in Seq(Nat)
    BY <1>2, <1>3, TailOf
  <2>2. box' = [box EXCEPT ![qid_ui] = b]
    BY <1>3
  <2> HIDE DEF b
  <2>3. QED
    BY <1>0, <1>1, <1>2, <2>1, <2>2, BoxStep DEF KernelTypeOK, UiPlaces
<1>4. CASE UNCHANGED box
  BY <1>0, <1>1, <1>4, SameBoxStep DEF kernel, KernelTypeOK, UiPlaces
<1>5. QED
  BY <1>3, <1>4 DEF UiReceive

LEMMA UiKeyStep == PhoneInv /\ UiKey => PhoneInv'
<1> SUFFICES ASSUME PhoneInv, UiKey PROVE PhoneInv'
  OBVIOUS
<1>0. /\ KernelTypeOK /\ QueueInv /\ ui_pc = "key" /\ ui_pc' \in {"recv", "send", "rmid"}
      /\ UNCHANGED <<kernel, phone_pc, qid_phone, run, qid_ui, crashes>>
  BY DEF PhoneInv, UiKey, phone
<1>1. CASE UNCHANGED target /\ ui_pc' # "send" /\ meant' \in {meant, run}
  BY <1>0, <1>1, SameBoxStep DEF KernelTypeOK, UiPlaces, SendInv
<1>2. CASE qid["phone"] # None /\ target' = qid["phone"] /\ meant' = run
  <2>1. qid["phone"] \in Ids \cup {None} /\ qid["phone"] \notin fresh
        /\ qid["phone"] # qid["ui"]
    BY <1>0, <1>2, KeysAre DEF KernelTypeOK, QueueInv
  <2>2. SendInv'
    BY <1>0, <1>2, <2>1 DEF SendInv, kernel
  <2>3. QED
    BY <1>0, <1>2, <2>1, <2>2, SameBoxStep DEF KernelTypeOK, UiPlaces
<1>3. QED
  BY <1>1, <1>2 DEF UiKey

LEMMA UiSendStep == PhoneInv /\ UiSend => PhoneInv'
<1> SUFFICES ASSUME PhoneInv, UiSend PROVE PhoneInv'
  OBVIOUS
<1>0. /\ KernelTypeOK /\ QueueInv /\ SendInv /\ ui_pc = "send" /\ ui_pc' = "recv"
      /\ target' = None
      /\ UNCHANGED <<qid, fresh, phone_pc, qid_phone, run, qid_ui, meant, crashes>>
  BY DEF PhoneInv, UiSend, phone
<1>1. SendInv'
  BY <1>0 DEF SendInv
<1>2. target \in Ids /\ (crashes = 0 /\ target = qid["phone"] => meant = run)
  BY <1>0 DEF SendInv, KernelTypeOK
<1>3. CASE Alive(target)
  <2> DEFINE b == Append(box[target], meant)
  <2>1. b \in Seq(Nat)
    BY <1>0, <1>2, AppendOf DEF KernelTypeOK
  <2>2. crashes = 0 /\ phone_pc # "off" /\ Waiting /\ target = qid_phone =>
          \A i \in DOMAIN b : b[i] = run
    <3>1. SUFFICES ASSUME crashes = 0, phone_pc # "off", Waiting, target = qid_phone
                   PROVE  \A i \in DOMAIN b : b[i] = run
      OBVIOUS
    <3>2. meant = run
      BY <1>0, <1>2, <3>1 DEF QueueInv
    <3>3. QED
      BY <1>0, <1>2, <3>1, <3>2, AppendOf DEF Waiting, KernelTypeOK
  <2>3. box' = [box EXCEPT ![target] = b]
    BY <1>3 DEF UiSend
  <2> HIDE DEF b
  <2>4. QED
    BY <1>0, <1>1, <1>2, <1>3, <2>1, <2>2, <2>3, BoxStep DEF KernelTypeOK, UiPlaces
<1>4. CASE ~Alive(target)
  <2>1. box' = box
    BY <1>4 DEF UiSend
  <2>2. QED
    BY <1>0, <1>1, <2>1, SameBoxStep DEF kernel, KernelTypeOK, UiPlaces
<1>5. QED
  BY <1>3, <1>4

LEMMA UiRemoveStep == PhoneInv /\ UiRemove => PhoneInv'
<1> SUFFICES ASSUME PhoneInv, UiRemove PROVE PhoneInv'
  OBVIOUS
<1>0. /\ KernelTypeOK /\ QueueInv /\ NoStaleQuit
      /\ ui_pc = "rmid" /\ ui_pc' = "off" /\ Remove(qid_ui)
      /\ UNCHANGED <<phone_pc, qid_phone, run, qid_ui, target, meant, crashes>>
  BY DEF PhoneInv, UiRemove, phone
<1>1. qid["ui"] = qid_ui /\ qid["ui"] # None
  BY <1>0 DEF QueueInv
<1>2. /\ qid' \in [Keys -> Ids \cup {None}] /\ fresh' = fresh
      /\ box' \in [Ids -> Seq(Nat)]
      /\ qid'["ui"] = None /\ qid'["phone"] = qid["phone"]
      /\ \A other \in Keys : qid'[other] \notin fresh'
      /\ \A i \in Ids : i # qid["ui"] => box'[i] = box[i]
      /\ \A i \in Ids : box'[i] # <<>> => Alive(i)'
  BY <1>0, <1>1, KeysAre, RemoveLemma
<1>3. KernelTypeOK'
  BY <1>0, <1>2 DEF KernelTypeOK
<1>4. QueueInv' /\ SendInv'
  BY <1>0, <1>2 DEF QueueInv, SendInv
<1>5. phone_pc # "off" => box'[qid_phone] = box[qid_phone]
  BY <1>0, <1>2, KeysAre DEF QueueInv, KernelTypeOK
<1>6. NoStaleQuit'
  BY <1>0, <1>2, <1>5 DEF NoStaleQuit, QueueOfRunningOnly
<1>7. QED
  BY <1>3, <1>4, <1>6 DEF PhoneInv

LEMMA CrashStep == PhoneInv /\ Crash => PhoneInv'
<1> SUFFICES ASSUME PhoneInv, Crash PROVE PhoneInv'
  OBVIOUS
<1>0. /\ KernelTypeOK /\ QueueInv /\ SendInv /\ crashes' = crashes + 1
      /\ phone_pc' \in {"off", phone_pc} /\ ui_pc' \in {"off", ui_pc}
      /\ UNCHANGED <<kernel, qid_phone, run, qid_ui, target, meant>>
  BY DEF PhoneInv, Crash
<1>1. crashes' \in Nat /\ crashes' # 0
  BY <1>0 DEF KernelTypeOK
<1>2. KernelTypeOK'
  BY <1>0, <1>1 DEF KernelTypeOK, kernel
<1>3. QueueInv' /\ SendInv' /\ NoStaleQuit'
  BY <1>0, <1>1 DEF QueueInv, SendInv, NoStaleQuit, Alive, kernel
<1>4. QED
  BY <1>2, <1>3 DEF PhoneInv

LEMMA PhoneTaskStep == PhoneInv /\ [Next]_vars => PhoneInv'
<1> SUFFICES ASSUME PhoneInv, [Next]_vars PROVE PhoneInv'
  OBVIOUS
<1>1. CASE UNCHANGED vars
  BY <1>1 DEF vars, kernel, phone, ui, PhoneInv, KernelTypeOK, QueueInv, SendInv, NoStaleQuit,
              QueueOfRunningOnly, Alive
<1>2. CASE PhoneStart \/ UiStart \/ Crash
  BY <1>2, PhoneStartStep, UiStartStep, CrashStep
<1>3. CASE PhoneStep
  BY <1>3, PhoneReceiveStep, PhoneTickStep, PhoneCheckStep, PhoneRemoveStep DEF PhoneStep
<1>4. CASE UiStep
  BY <1>4, UiReceiveStep, UiKeyStep, UiSendStep, UiRemoveStep DEF UiStep
<1>5. QED
  BY <1>1, <1>2, <1>3, <1>4 DEF Next

(* For any number of runs and keys: as long as no process is killed, the    *)
(* kernel holds a queue exactly while its process runs, and a quit waiting  *)
(* for the phone was pressed for the run that will read it (task_phone.c,   *)
(* task_ui.c).                                                              *)
THEOREM QuitsAreFresh == Spec => []NoStaleQuit
<1>1. PhoneInv => NoStaleQuit
  BY DEF PhoneInv
<1>2. QED
  BY <1>1, PhoneInit, PhoneTaskStep, PTL DEF Spec
-----------------------------------------------------------------------------
(* PhoneSignal.  A program that is about to signal has seen its target; if   *)
(* the target has ended since, stale knows it.  The phone looks for its      *)
(* target only in the state in which it hangs up.                            *)
SignalInv ==
  /\ sig_pc \in [Programs -> {"off", "loop", "look", "aim"}]
  /\ \A p \in Programs : sig_pc[p] = "aim" /\ sig_pc[Target(p)] = "off" => stale # {}
  /\ sig_pc["phone_sig"] \in {"look", "aim"} => sig_state = "HANGUP"
  /\ bystanders = "signalled" => stale # {}

LEMMA Targets ==
  ASSUME NEW p \in Programs
  PROVE  /\ Target(p) \in Programs /\ Target(p) # p /\ Target(Target(p)) = p
         /\ \A r \in Programs : r = p \/ r = Target(p)
BY DEF Programs, Target

LEMMA SignalInitial == SignalInit => SignalInv
BY DEF SignalInit, SignalInv, Programs

LEMMA SigStartStep ==
  ASSUME SignalInv, NEW p \in Programs, SigStart(p)
  PROVE  SignalInv'
<1>1. /\ sig_pc' \in [Programs -> {"off", "loop", "look", "aim"}]
      /\ sig_pc'[p] = "loop" /\ sig_pc'[Target(p)] = sig_pc[Target(p)]
      /\ UNCHANGED <<bystanders, stale>>
  BY Targets DEF SignalInv, SigStart
<1>2. sig_pc'["phone_sig"] \in {"look", "aim"} => sig_state' = "HANGUP"
  BY <1>1, Targets DEF SignalInv, SigStart, Programs
<1>3. QED
  BY <1>1, <1>2, Targets DEF SignalInv

LEMMA SigPassStep == SignalInv /\ SigPass => SignalInv'
<1> SUFFICES ASSUME SignalInv, SigPass PROVE SignalInv'
  OBVIOUS
<1>1. /\ sig_pc' \in [Programs -> {"off", "loop", "look", "aim"}]
      /\ sig_pc["phone_sig"] = "loop" /\ sig_pc'["ui_sig"] = sig_pc["ui_sig"]
      /\ sig_pc'["phone_sig"] = IF sig_state' = "HANGUP" THEN "look" ELSE "loop"
      /\ UNCHANGED <<bystanders, stale>>
  BY DEF SignalInv, SigPass, Programs
<1>2. QED
  BY <1>1 DEF SignalInv, Programs, Target

LEMMA SigKeyStep == SignalInv /\ SigKey => SignalInv'
<1> SUFFICES ASSUME SignalInv, SigKey PROVE SignalInv'
  OBVIOUS
<1>1. PICK pc \in {"look", "off"} : sig_pc' = [sig_pc EXCEPT !.ui_sig = pc]
  BY DEF SigKey
<1>2. /\ sig_pc' \in [Programs -> {"off", "loop", "look", "aim"}]
      /\ sig_pc'["ui_sig"] = pc /\ sig_pc'["phone_sig"] = sig_pc["phone_sig"]
      /\ UNCHANGED <<bystanders, sig_state>>
  BY <1>1 DEF SignalInv, SigKey, Programs
<1>3. /\ stale' = stale \cup {p \in {"phone_sig"} : sig_pc'["ui_sig"] = "off" /\ sig_pc[p] = "aim"}
      /\ stale # {} => stale' # {}
  BY DEF SigKey
<1>4. sig_pc'["ui_sig"] = "off" /\ sig_pc["phone_sig"] = "aim" => stale' # {}
  BY <1>3
<1>5. QED
  BY <1>2, <1>3, <1>4 DEF SignalInv, Programs, Target

LEMMA Look1Step ==
  ASSUME SignalInv, NEW p \in Programs, Look1(p)
  PROVE  SignalInv'
<1>1. /\ sig_pc' \in [Programs -> {"off", "loop", "look", "aim"}]
      /\ sig_pc[p] = "look" /\ sig_pc'[Target(p)] = sig_pc[Target(p)]
      /\ sig_pc[Target(p)] = "off" => sig_pc'[p] = Afterwards(p)
      /\ sig_pc[Target(p)] # "off" => sig_pc'[p] = "aim"
      /\ UNCHANGED <<bystanders, sig_state>>
      /\ stale # {} => stale' # {}
  BY Targets DEF SignalInv, Look1, Found, Afterwards
<1>2. Afterwards(p) \in {"off", "loop"}
  BY DEF Afterwards
<1>3. sig_pc'["phone_sig"] \in {"look", "aim"} => sig_state' = "HANGUP"
  BY <1>1, <1>2, Targets DEF SignalInv, Programs
<1>4. QED
  BY <1>1, <1>2, <1>3, Targets DEF SignalInv

LEMMA SignalStep ==
  ASSUME SignalInv, NEW p \in Programs, Signal(p)
  PROVE  SignalInv'
<1>1. PICK t \in Programs : t = Target(p) /\ t # p /\ Target(t) = p
  BY Targets
<1>2. /\ sig_pc' \in [Programs -> {"off", "loop", "look", "aim"}]
      /\ sig_pc[p] = "aim" /\ sig_pc'[p] = Afterwards(p)
      /\ sig_pc'[t] = sig_pc[t] \/ sig_pc'[t] = "off"
      /\ bystanders' = IF sig_pc[t] = "off" THEN "signalled" ELSE bystanders
      /\ stale' = stale \cup {q \in {t} : sig_pc'[p] = "off" /\ sig_pc'[q] = "aim"}
      /\ UNCHANGED sig_state
  BY <1>1 DEF SignalInv, Signal, Afterwards
<1>3. stale # {} => stale' # {}
  BY <1>2
<1>4. sig_pc'[p] = "off" /\ sig_pc'[t] = "aim" => stale' # {}
  BY <1>2
<1>5. Afterwards(p) \in {"off", "loop"}
  BY DEF Afterwards
<1>6. bystanders' = "signalled" => stale' # {}
  BY <1>1, <1>2, <1>3 DEF SignalInv
<1>7. sig_pc'["phone_sig"] \in {"look", "aim"} => sig_state' = "HANGUP"
  BY <1>1, <1>2, <1>5 DEF SignalInv, Programs
<1>8. QED
  BY <1>1, <1>2, <1>4, <1>5, <1>6, <1>7, Targets DEF SignalInv

\* OnlyTheOther: however the lookups of the two programs fall in with their
\* ends, only the one they look for is signalled, unless it ended in between.
THEOREM SignalledIsTheOther == SignalSpec => []OnlyTheOther
<1>1. SignalInv /\ [SignalNext]_signalVars => SignalInv'
  <2> SUFFICES ASSUME SignalInv, [SignalNext]_signalVars PROVE SignalInv'
    OBVIOUS
  <2>1. "phone_sig" \in Programs /\ "ui_sig" \in Programs
    BY DEF Programs
  <2>2. CASE UNCHANGED signalVars
    BY <2>2 DEF SignalInv, signalVars
  <2>3. CASE SigPhoneStep
    BY <2>1, <2>3, SigPassStep, Look1Step, SignalStep DEF SigPhoneStep
  <2>4. CASE SigKey \/ Look1("ui_sig") \/ Signal("ui_sig")
    BY <2>1, <2>4, SigKeyStep, Look1Step, SignalStep
  <2>5. CASE \E p \in Programs : SigStart(p)
    BY <2>5, SigStartStep
  <2>6. QED
    BY <2>2, <2>3, <2>4, <2>5 DEF SignalNext
<1>2. SignalInv => OnlyTheOther
  BY DEF SignalInv, OnlyTheOther
<1>3. QED
  BY <1>1, <1>2, SignalInitial, PTL DEF SignalSpec
-----------------------------------------------------------------------------
(* PhoneFifo.  What the two numbers of NoPhantomCall count, and what is in   *)
(* the connection and in the pipe to the board.                              *)
Pieced == {"quit", "word", "call", ""}
CallInv ==
  /\ caller = <<"closed">> \/ caller \in Seq({"call"})
  /\ called \in Nat /\ forwarded \in Nat
  /\ caller # <<"closed">> => forwarded + Len(caller) <= called
AskedInv ==
  /\ down \in Seq(Pieced) /\ typed \in Nat /\ asked \in Nat
  /\ pair = "out_task" => asked + Len(down) <= Pieces * typed

LEMMA FifoInitial == FifoInit => CallInv /\ AskedInv
<1> SUFFICES ASSUME FifoInit PROVE CallInv /\ AskedInv
  OBVIOUS
<1>1. <<>> \in Seq({"call"}) /\ <<>> \in Seq(Pieced) /\ Len(<<>>) = 0
  OBVIOUS
<1>2. Pieces * 0 = 0
  BY PhoneFifoAssumption
<1>3. /\ caller = <<>> /\ called = 0 /\ forwarded = 0
      /\ down = <<>> /\ typed = 0 /\ asked = 0
  BY DEF FifoInit
<1>4. CallInv
  BY <1>1, <1>3 DEF CallInv
<1>5. AskedInv
  BY <1>1, <1>2, <1>3 DEF AskedInv
<1>6. QED
  BY <1>4, <1>5

\* One more word typed, one more buffer.
LEMMA OneMoreBuffer ==
  ASSUME NEW n \in Nat, NEW m \in Nat
  PROVE  n * (m + 1) = n * m + n /\ n * m \in Nat
OBVIOUS

LEMMA CallerStep ==
  ASSUME CallInv, Caller
  PROVE  CallInv'
<1>1. caller \in Seq({"call"}) /\ called \in Nat /\ forwarded \in Nat /\ forwarded' = forwarded
  BY DEF CallInv, Caller
<1>2. CASE caller' = Append(caller, "call") /\ called' = called + 1
  <2>1. caller' \in Seq({"call"}) /\ Len(caller') = Len(caller) + 1 /\ Len(caller) \in Nat
    BY <1>1, <1>2
  <2>2. forwarded + Len(caller) <= called
    BY DEF CallInv, Caller
  <2>3. QED
    BY <1>1, <1>2, <2>1, <2>2 DEF CallInv
<1>3. CASE caller' = <<"closed">> /\ UNCHANGED called
  BY <1>1, <1>3 DEF CallInv
<1>4. QED
  BY <1>2, <1>3 DEF Caller

LEMMA ReceivesStep ==
  ASSUME CallInv, PhoneReceives
  PROVE  CallInv'
<1>1. called \in Nat /\ forwarded \in Nat /\ called' = called /\ caller # <<>>
  BY DEF CallInv, PhoneReceives
<1>2. forwarded' \in {forwarded, forwarded + 1}
  BY DEF PhoneReceives, network
<1>3. forwarded' \in Nat
  BY <1>1, <1>2
<1>4. CASE caller = <<"closed">>
  BY <1>1, <1>3, <1>4 DEF CallInv, PhoneReceives
<1>5. CASE caller # <<"closed">>
  <2>1. caller' = Tail(caller)
    BY <1>5 DEF PhoneReceives, Received
  <2>2. caller \in Seq({"call"})
    BY <1>5 DEF CallInv
  <2>3. caller' \in Seq({"call"}) /\ Len(caller') = Len(caller) - 1 /\ Len(caller) \in Nat
    BY <1>1, <2>1, <2>2
  <2>4. forwarded + Len(caller) <= called
    BY <1>5 DEF CallInv
  <2>5. forwarded' + Len(caller') <= called'
    BY <1>1, <1>2, <2>3, <2>4
  <2>6. QED
    BY <1>1, <1>3, <2>3, <2>5 DEF CallInv
<1>6. QED
  BY <1>4, <1>5

LEMMA TypesStep ==
  ASSUME AskedInv, PhoneTypes
  PROVE  AskedInv'
<1>1. PICK w \in {"quit", "word"} : PhoneWrites(Buffer(w), "loop")
  BY DEF PhoneTypes
<1>2. Pieces \in Nat \ {0}
  BY PhoneFifoAssumption
<1>3. Buffer(w) \in Seq(Pieced) /\ Len(Buffer(w)) = Pieces
  <2>1. Buffer(w) \in [1 .. Pieces -> Pieced]
    BY <1>2 DEF Buffer, Pieced
  <2>2. QED
    BY <1>2, <2>1
<1>4. /\ down \in Seq(Pieced) /\ typed \in Nat /\ asked \in Nat
      /\ typed' = typed + 1 /\ asked' = asked /\ pair' = pair
      /\ pair = "out_task" => asked + Len(down) <= Pieces * typed
  BY DEF AskedInv, PhoneTypes
<1>5. down' = down \o Buffer(w) \/ down' = down
  BY <1>1 DEF PhoneWrites
<1>6. down \o Buffer(w) \in Seq(Pieced) /\ Len(down \o Buffer(w)) = Len(down) + Len(Buffer(w))
  BY <1>3, <1>4
<1>7. down' \in Seq(Pieced) /\ Len(down') \in Nat /\ Len(down') <= Len(down) + Pieces
  <2>1. Len(down) \in Nat
    BY <1>4
  <2>2. CASE down' = down
    BY <1>2, <1>4, <2>1, <2>2
  <2>3. CASE down' = down \o Buffer(w)
    <3>1. down' \in Seq(Pieced) /\ Len(down') = Len(down) + Pieces
      BY <1>3, <1>6, <2>3
    <3>2. QED
      BY <1>2, <2>1, <3>1
  <2>4. QED
    BY <1>5, <2>2, <2>3
<1>8. Pieces * typed' = Pieces * typed + Pieces /\ Pieces * typed \in Nat
  BY <1>2, <1>4, OneMoreBuffer
<1>9. pair' = "out_task" => asked' + Len(down') <= Pieces * typed'
  BY <1>2, <1>4, <1>7, <1>8
<1>10. QED
  BY <1>4, <1>7, <1>9 DEF AskedInv

LEMMA BoardReadsStep ==
  ASSUME AskedInv, BoardReads
  PROVE  AskedInv'
<1>1. /\ down \in Seq(Pieced) /\ down # <<>> /\ typed \in Nat /\ asked \in Nat
      /\ down' = Tail(down) /\ typed' = typed /\ pair' = pair
      /\ asked' = asked \/ asked' = asked + 1
      /\ pair = "out_task" => asked + Len(down) <= Pieces * typed
  BY DEF AskedInv, BoardReads
<1>2. down' \in Seq(Pieced) /\ Len(down') = Len(down) - 1 /\ Len(down) \in Nat
  BY <1>1
<1>3. Pieces * typed \in Nat
  BY <1>1, PhoneFifoAssumption, OneMoreBuffer
<1>4. pair' = "out_task" => asked' + Len(down') <= Pieces * typed'
  BY <1>1, <1>2, <1>3
<1>5. QED
  BY <1>1, <1>2, <1>4 DEF AskedInv

LEMMA CallForwarded ==
  ASSUME AskedInv, PhoneReceives
  PROVE  AskedInv'
<1>1. pair \in {"indoor", "work"}
  BY DEF PhoneReceives, Network
<1>2. /\ down \in Seq(Pieced)
      /\ down' = down \/ down' = down \o Word("call")
      /\ UNCHANGED <<pair, typed, asked>> /\ typed \in Nat /\ asked \in Nat
  BY DEF AskedInv, PhoneReceives, PhoneWrites, pipes
<1>3. down \o Word("call") \in Seq(Pieced)
  <2>1. \A s \in Seq(Pieced) : down \o s \in Seq(Pieced)
    BY <1>2
  <2>2. Word("call") \in Seq(Pieced)
    BY DEF Word, Pieced
  <2>3. QED
    BY <2>1, <2>2, Zenon
<1>4. QED
  BY <1>1, <1>2, <1>3 DEF AskedInv

\* NoPhantomCall: the board is called once for each call of the caller, and
\* asks its user at most once for each piece of a buffer sent to it.
THEOREM CalledOnce == FifoSpec => []NoPhantomCall
<1>1. CallInv /\ AskedInv /\ [FifoNext]_fifoVars => CallInv' /\ AskedInv'
  <2> SUFFICES ASSUME CallInv, AskedInv, [FifoNext]_fifoVars PROVE CallInv' /\ AskedInv'
    OBVIOUS
  <2>1. UNCHANGED <<caller, called, forwarded>> => CallInv'
    BY DEF CallInv
  <2>2. UNCHANGED <<pair, down, typed, asked>> => AskedInv'
    BY DEF AskedInv
  <2>3. CASE UNCHANGED fifoVars
    BY <2>1, <2>2, <2>3 DEF fifoVars, pipes, network
  <2>4. CASE PhoneOpens \/ PhoneReads \/ PhoneAnswers
    BY <2>1, <2>2, <2>4 DEF PhoneOpens, PhoneReads, PhoneAnswers, network
  <2>5. CASE PhoneReceives
    BY <2>5, ReceivesStep, CallForwarded
  <2>6. CASE PhoneTypes
    BY <2>1, <2>6, TypesStep DEF PhoneTypes, network
  <2>7. CASE Caller
    BY <2>2, <2>7, CallerStep DEF Caller, pipes
  <2>8. CASE BoardReads
    BY <2>1, <2>8, BoardReadsStep DEF BoardReads, network
  <2>9. CASE BoardOpens \/ BoardAnswers \/ BoardKey
    BY <2>1, <2>2, <2>9 DEF BoardOpens, BoardAnswers, BoardKey, BoardWrites, network, pipes
  <2>10. QED
    BY <2>3, <2>4, <2>5, <2>6, <2>7, <2>8, <2>9 DEF FifoNext, PhoneLoop, BoardLoop
<1>2. CallInv /\ AskedInv => NoPhantomCall
  BY DEF CallInv, AskedInv, NoPhantomCall
<1>3. QED
  BY <1>1, <1>2, FifoInitial, PTL DEF FifoSpec
=============================================================================
