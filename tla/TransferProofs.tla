--------------------------- MODULE TransferProofs ---------------------------
(***************************************************************************)
(* The programs that transfer files.  Download, for any number of runs, any  *)
(* queues and any server: the two queues of the downloader stay in step      *)
(* unless a run is killed while it adds its task, and "Download successful"  *)
(* means what it says.  Chat, for any file and any number of words and lost  *)
(* datagrams: while nothing happens that the programs do not provide for,    *)
(* neither waits in vain for the other, and what is saved is what was sent.  *)
(***************************************************************************)
EXTENDS Download, Chat, SequenceTheorems, WellFoundedInduction, TLAPS

Fetching == {"resolve", "connect", "header", "open", "body", "path"}

QueueTypeOK ==
  /\ program \in {"queued", "http"}
  /\ run \in Nat /\ (main # "off" => run # 0)
  /\ main \in {"off", "url", "path", "sleep", "join"}
  /\ thread \in {"off", "look", "ended"} \cup Fetching
  /\ urlq \in Seq(1 .. run) /\ pathq \in Seq(1 .. run)
  /\ task \in 0 .. run /\ shown \in 0 .. run
  /\ killed \in BOOLEAN

(* Which places of main and thread go together.                             *)
PlacesInv ==
  /\ main = "off" <=> thread = "off"
  /\ thread \in {"off", "look"} => task = 0
  /\ thread \in {"off", "look"} \cup Fetching => shown = 0
  /\ program = "http" => /\ main \in {"off", "join"} /\ thread \notin {"look", "path"}
                         /\ urlq = <<>>
  /\ program = "queued" => main # "join"

\* A path that is at hand was queued no later than URL u.
PathFor(u) == pathq # <<>> /\ pathq[1] <= u

(* Between two runs at most one URL is left, and a path for it.             *)
LeftInv == main = "off" => /\ Len(urlq) <= 1
                           /\ urlq # <<>> => PathFor(urlq[1])

(* Before the thread has looked, the URL an earlier run has left is first,  *)
(* and this run's behind it.                                                *)
LookInv ==
  thread = "look" =>
    /\ main = "url" => Len(urlq) <= 1
    /\ main # "url" => Len(urlq) \in {1, 2} /\ urlq[Len(urlq)] = run
    /\ Len(urlq) = (IF main = "url" THEN 1 ELSE 2) => urlq[1] < run /\ PathFor(urlq[1])

(* Afterwards there is this run's, if the thread has not taken it; and a    *)
(* path for the one it has taken.                                           *)
TakenInv ==
  thread \in {"ended"} \cup Fetching /\ program = "queued" =>
    /\ main = "url" => urlq = <<>> /\ task # run
    /\ main # "url" => urlq = <<run>> \/ urlq = <<>>
    /\ task = run => urlq = <<>>
    /\ thread \in Fetching => task = run \/ PathFor(task)

(* When main has queued both, the path is there as long as the URL is.      *)
SleepInv ==
  main = "sleep" => \/ pathq # <<>> /\ pathq[Len(pathq)] = run
                    \/ urlq = <<>> /\ thread = "ended"

StepInv == LeftInv /\ LookInv /\ TakenInv /\ SleepInv /\ shown <= task
QueuesInv == QueueTypeOK /\ PlacesInv /\ (~killed => StepInv)
-----------------------------------------------------------------------------
LEMMA WiderSeq ==
  ASSUME NEW r \in Nat, NEW s \in Seq(1 .. r)
  PROVE  s \in Seq(1 .. r + 1)
<1>1. 1 .. r \subseteq 1 .. r + 1
  OBVIOUS
<1>2. QED
  BY <1>1

LEMMA OneLeft ==
  ASSUME NEW n \in Nat \ {0}, n <= 1
  PROVE  n = 1
OBVIOUS

LEMMA AppendRun ==
  ASSUME NEW r \in Nat, NEW s \in Seq(1 .. r), NEW x \in 1 .. r
  PROVE  /\ Append(s, x) \in Seq(1 .. r) /\ Len(s) \in Nat
         /\ Len(Append(s, x)) = Len(s) + 1
         /\ Append(s, x)[Len(s) + 1] = x /\ Append(s, x) # <<>>
         /\ s # <<>> => Append(s, x)[1] = s[1]
         /\ s = <<>> => Append(s, x) = <<x>> /\ Append(s, x)[1] = x
<1>1. /\ Append(s, x) \in Seq(1 .. r) /\ Len(s) \in Nat
      /\ Len(Append(s, x)) = Len(s) + 1
      /\ Append(s, x)[Len(s) + 1] = x
      /\ \A i \in 1 .. Len(s) : Append(s, x)[i] = s[i]
  OBVIOUS
<1>2. Append(s, x) # <<>>
  BY <1>1, EmptySeq
<1>3. ASSUME s # <<>> PROVE Append(s, x)[1] = s[1]
  <2>1. Len(s) \in Nat \ {0}
    BY <1>3, EmptySeq
  <2>2. 1 \in 1 .. Len(s)
    BY <2>1
  <2>3. QED
    BY <1>1, <2>2
<1>4. ASSUME s = <<>> PROVE Append(s, x) = <<x>> /\ Append(s, x)[1] = x
  BY <1>4
<1>5. QED
  BY <1>1, <1>2, <1>3, <1>4

LEMMA TakeFirst ==
  ASSUME NEW S, NEW s \in Seq(S), s # <<>>
  PROVE  /\ Head(s) \in S /\ Head(s) = s[1] /\ Tail(s) \in Seq(S)
         /\ Len(s) \in Nat \ {0} /\ Len(Tail(s)) = Len(s) - 1
         /\ \A i \in 1 .. Len(s) - 1 : Tail(s)[i] = s[i + 1]
         /\ Len(s) = 1 => Tail(s) = <<>>
         /\ Len(s) = 2 => Tail(s) = <<s[2]>>
<1>1. /\ Head(s) \in S /\ Head(s) = s[1] /\ Tail(s) \in Seq(S)
      /\ Len(s) \in Nat \ {0} /\ Len(Tail(s)) = Len(s) - 1
      /\ \A i \in 1 .. Len(s) - 1 : Tail(s)[i] = s[i + 1]
  OBVIOUS
<1>2. ASSUME Len(s) = 2 PROVE Tail(s) = <<s[2]>>
  <2>1. s[2] \in S
    BY <1>2, ElementOfSeq
  <2>2. ASSUME NEW t \in Seq(S), Len(t) = 1, t[1] = s[2] PROVE t = <<s[2]>>
    BY <2>1, <2>2
  <2>3. ASSUME NEW t \in Seq(S), Len(t) = Len(s) - 1,
               \A i \in 1 .. Len(s) - 1 : t[i] = s[i + 1]
        PROVE  Len(t) = 1 /\ t[1] = s[2]
    BY <1>2, <2>3
  <2>4. Len(Tail(s)) = 1 /\ Tail(s)[1] = s[2]
    BY <1>1, <2>3
  <2>5. QED
    BY <1>1, <2>2, <2>4
<1>3. ASSUME Len(s) = 1 PROVE Tail(s) = <<>>
  <2>1. Len(Tail(s)) = 0
    BY <1>1, <1>3
  <2>2. QED
    BY <1>1, <2>1, EmptySeq
<1>4. QED
  BY <1>1, <1>2, <1>3
-----------------------------------------------------------------------------
LEMMA DownloadInitInv == DownloadInit => QueuesInv
<1> SUFFICES ASSUME DownloadInit PROVE QueuesInv
  OBVIOUS
<1>1. urlq = <<>> /\ pathq = <<>> /\ run = 0
  BY DEF DownloadInit
<1>2. Len(urlq) = 0 /\ urlq \in Seq(1 .. run) /\ pathq \in Seq(1 .. run)
  BY <1>1, EmptySeq
<1>3. QueueTypeOK
  <2>0. program \in Programs /\ Programs \subseteq {"queued", "http"}
    BY DownloadAssumption DEF DownloadInit
  <2>1. program \in {"queued", "http"} /\ run \in Nat /\ main = "off" /\ thread = "off"
    BY <1>1, <2>0 DEF DownloadInit
  <2>2. task = 0 /\ shown = 0 /\ killed = FALSE
    BY DEF DownloadInit
  <2>4. killed \in BOOLEAN
    BY <2>2, Zenon
  <2>3. QED
    BY <1>1, <1>2, <2>1, <2>2, <2>4 DEF QueueTypeOK, Fetching
<1>6. PlacesInv
  BY <1>1 DEF DownloadInit, PlacesInv, Fetching
<1>4. LeftInv /\ LookInv /\ TakenInv /\ SleepInv /\ shown <= task
  BY <1>1, <1>2 DEF DownloadInit, LeftInv, LookInv, TakenInv, SleepInv, Fetching
<1>5. QED
  BY <1>3, <1>4, <1>6 DEF QueuesInv, StepInv

\* Steps that change neither the queues nor what is done with them.
LEMMA Unmoved ==
  ASSUME QueuesInv, UNCHANGED <<program, run, main, urlq, pathq, task, shown, killed>>,
         thread \in Fetching, thread' \in Fetching \cup {"ended"},
         thread' = "path" => program = "queued"
  PROVE  QueuesInv'
<1>1. QueueTypeOK' /\ PlacesInv'
  BY DEF QueuesInv, QueueTypeOK, PlacesInv, Fetching
<1>2. ASSUME ~killed' PROVE StepInv'
  BY <1>2 DEF QueuesInv, QueueTypeOK, StepInv, LeftInv, LookInv, TakenInv, SleepInv, PathFor, Fetching
<1>3. QED
  BY <1>1, <1>2 DEF QueuesInv

(* The process ends while the thread fetches a task or has ended: the URL   *)
(* that is left has a path.                                                 *)
LEMMA EndedStep ==
  ASSUME QueuesInv, Ended, UNCHANGED <<program, run, urlq, pathq, killed>>,
         \/ thread \in Fetching
         \/ main = "sleep" /\ thread # "look"
         \/ main = "join"
  PROVE  QueuesInv'
<1> USE DEF QueuesInv
<1>1. QueueTypeOK' /\ PlacesInv'
  BY DEF Ended, QueueTypeOK, PlacesInv, Fetching
<1>2. ASSUME ~killed' PROVE StepInv'
  <2>0. StepInv /\ QueueTypeOK /\ PlacesInv
    BY <1>2
  <2>1. main' = "off" /\ thread' = "off" /\ task' = 0 /\ shown' = 0
    BY DEF Ended
  <2>2. LookInv' /\ TakenInv' /\ SleepInv' /\ (shown <= task)'
    BY <2>1 DEF LookInv, TakenInv, SleepInv, Fetching
  <2>3. urlq # <<>> => urlq = <<run>> /\ pathq # <<>>
    <3>1. SUFFICES ASSUME urlq # <<>> PROVE urlq = <<run>> /\ pathq # <<>>
      OBVIOUS
    <3>2. program = "queued" /\ main # "off" /\ main # "join"
      BY <2>0, <3>1 DEF PlacesInv, QueueTypeOK, Fetching
    <3>3. thread \in {"ended"} \cup Fetching
      BY <2>0, <3>2 DEF PlacesInv, QueueTypeOK, Fetching
    <3>4. urlq = <<run>>
      BY <2>0, <3>1, <3>2, <3>3 DEF StepInv, TakenInv
    <3>5. CASE thread \in Fetching
      BY <2>0, <3>1, <3>2, <3>5 DEF StepInv, TakenInv, PathFor
    <3>6. CASE main = "sleep"
      BY <2>0, <3>1, <3>4, <3>6 DEF StepInv, SleepInv
    <3>7. QED
      BY <3>2, <3>4, <3>5, <3>6
  <2>4. LeftInv'
    <3>1. CASE urlq = <<>>
      BY <3>1 DEF LeftInv
    <3>2. CASE urlq # <<>>
      <4>1. urlq = <<run>> /\ pathq # <<>>
        BY <2>3, <3>2
      <4>2. Len(urlq) = 1 /\ urlq[1] = run
        BY <4>1
      <4>3. pathq[1] \in 1 .. run
        BY <2>0, <4>1 DEF QueueTypeOK
      <4>4. pathq[1] <= urlq[1]
        BY <2>0, <4>2, <4>3 DEF QueueTypeOK
      <4>5. QED
        BY <4>1, <4>2, <4>4 DEF LeftInv, PathFor
    <3>3. QED
      BY <3>1, <3>2
  <2>5. QED
    BY <2>2, <2>4 DEF StepInv
<1>3. QED
  BY <1>1, <1>2

LEMMA StartStep == QueuesInv /\ init_service => QueuesInv'
<1> SUFFICES ASSUME QueuesInv, init_service PROVE QueuesInv'
  OBVIOUS
<1> USE DEF QueuesInv, queues
<1>1. urlq \in Seq(1 .. run + 1) /\ pathq \in Seq(1 .. run + 1)
  BY WiderSeq DEF QueueTypeOK
<1>2. QueueTypeOK' /\ PlacesInv'
  <2>1. QueueTypeOK'
    BY <1>1 DEF init_service, QueueTypeOK, PlacesInv, Fetching
  <2>2. PlacesInv'
    BY DEF init_service, QueueTypeOK, PlacesInv, Fetching
  <2>3. QED
    BY <2>1, <2>2
<1>3. ASSUME ~killed' PROVE StepInv'
  <2>0. StepInv /\ QueueTypeOK /\ PlacesInv /\ main = "off" /\ thread = "off" /\ run' = run + 1
        /\ shown = 0 /\ UNCHANGED <<program, urlq, pathq, shown>>
    BY <1>3 DEF init_service, PlacesInv
  <2>1. LeftInv' /\ SleepInv' /\ (shown <= task)'
    BY <2>0 DEF init_service, LeftInv, SleepInv, QueueTypeOK
  <2>2. LookInv'
    <3>1. Len(urlq) <= 1 /\ (urlq # <<>> => PathFor(urlq[1]))
      BY <2>0 DEF StepInv, LeftInv
    <3>2. Len(urlq) = 1 => urlq # <<>> /\ urlq[1] \in 1 .. run
      BY <2>0 DEF QueueTypeOK
    <3>3. Len(urlq) = 1 => urlq[1] < run + 1
      BY <2>0, <3>2 DEF QueueTypeOK
    <3>4. CASE program = "queued"
      BY <2>0, <3>1, <3>2, <3>3, <3>4 DEF init_service, LookInv, PathFor
    <3>5. CASE program # "queued"
      BY <3>5 DEF init_service, LookInv
    <3>6. QED
      BY <3>4, <3>5
  <2>3. TakenInv'
    BY <2>0 DEF init_service, TakenInv, Fetching
  <2>4. QED
    BY <2>1, <2>2, <2>3 DEF StepInv
<1>4. QED
  BY <1>2, <1>3

LEMMA SendUrlStep == QueuesInv /\ SendUrl => QueuesInv'
<1> SUFFICES ASSUME QueuesInv, SendUrl PROVE QueuesInv'
  OBVIOUS
<1> USE DEF QueuesInv
<1>0. /\ main = "url" /\ main' = "path" /\ urlq' = Append(urlq, run)
      /\ UNCHANGED <<program, run, thread, pathq, task, shown, killed>>
      /\ QueueTypeOK /\ PlacesInv
  BY DEF SendUrl
<1>1. run \in 1 .. run /\ urlq \in Seq(1 .. run)
  BY <1>0 DEF QueueTypeOK
<1>2. /\ urlq' \in Seq(1 .. run) /\ Len(urlq) \in Nat
      /\ Len(urlq') = Len(urlq) + 1 /\ urlq'[Len(urlq) + 1] = run
      /\ urlq # <<>> => urlq'[1] = urlq[1]
      /\ urlq = <<>> => urlq' = <<run>>
  BY <1>0, <1>1, AppendRun DEF QueueTypeOK
<1>3. QueueTypeOK' /\ PlacesInv'
  BY <1>0, <1>2 DEF QueueTypeOK, PlacesInv, Fetching
<1>4. ASSUME ~killed' PROVE StepInv'
  <2>0. StepInv
    BY <1>0, <1>4
  <2>1. LeftInv' /\ SleepInv' /\ (shown <= task)'
    BY <1>0, <2>0 DEF StepInv, LeftInv, SleepInv
  <2>2. LookInv'
    <3>1. SUFFICES ASSUME thread = "look" PROVE LookInv'
      BY <1>0 DEF LookInv
    <3>2. Len(urlq) <= 1 /\ (Len(urlq) = 1 => urlq[1] < run /\ PathFor(urlq[1]))
      BY <1>0, <2>0, <3>1 DEF StepInv, LookInv
    <3>3. Len(urlq) = 1 => urlq # <<>>
      <4>1. Len(<<>>) = 0
        OBVIOUS
      <4>2. QED
        BY <4>1
    <3>4. Len(urlq') \in {1, 2} /\ urlq'[Len(urlq')] = run
      BY <1>2, <3>2
    <3>5. ASSUME Len(urlq') = 2 PROVE urlq'[1] < run /\ pathq # <<>> /\ pathq[1] <= urlq'[1]
      <4>1. Len(urlq) = 1
        <5>1. Len(urlq) \in Nat /\ Len(urlq') = Len(urlq) + 1
          BY <1>2
        <5>2. QED
          BY <3>5, <5>1
      <4>2. urlq'[1] = urlq[1]
        BY <1>2, <3>3, <4>1
      <4>3. urlq[1] < run /\ PathFor(urlq[1])
        BY <3>2, <4>1
      <4>4. QED
        BY <4>2, <4>3 DEF PathFor
    <3>6. QED
      BY <1>0, <3>1, <3>4, <3>5 DEF LookInv, PathFor
  <2>3. TakenInv'
    BY <1>0, <1>2, <2>0 DEF StepInv, TakenInv, PathFor
  <2>4. QED
    BY <2>1, <2>2, <2>3 DEF StepInv
<1>5. QED
  BY <1>3, <1>4

LEMMA SendPathStep == QueuesInv /\ SendPath => QueuesInv'
<1> SUFFICES ASSUME QueuesInv, SendPath PROVE QueuesInv'
  OBVIOUS
<1> USE DEF QueuesInv
<1>0. /\ main = "path" /\ main' = "sleep" /\ pathq' = Append(pathq, run)
      /\ UNCHANGED <<program, run, thread, urlq, task, shown, killed>>
      /\ QueueTypeOK /\ PlacesInv
  BY DEF SendPath
<1>1. run \in 1 .. run /\ pathq \in Seq(1 .. run)
  BY <1>0 DEF QueueTypeOK
<1>2. /\ pathq' \in Seq(1 .. run) /\ Len(pathq') = Len(pathq) + 1
      /\ pathq'[Len(pathq')] = run /\ pathq' # <<>>
      /\ pathq # <<>> => pathq'[1] = pathq[1]
  BY <1>0, <1>1, AppendRun DEF QueueTypeOK
<1>3. QueueTypeOK' /\ PlacesInv'
  BY <1>0, <1>2 DEF QueueTypeOK, PlacesInv, Fetching
<1>4. ASSUME ~killed' PROVE StepInv'
  <2>0. StepInv
    BY <1>0, <1>4
  <2>1. \A u \in Nat : PathFor(u) => PathFor(u)'
    BY <1>2 DEF PathFor
  <2>2. LeftInv' /\ SleepInv' /\ (shown <= task)'
    BY <1>0, <1>2, <2>0 DEF StepInv, LeftInv, SleepInv
  <2>3. LookInv'
    <3>1. Len(urlq) = 2 => urlq[1] \in Nat
      <4>1. urlq \in Seq(1 .. run) /\ run \in Nat
        BY <1>0 DEF QueueTypeOK
      <4>3. Len(urlq) = 2 => 1 \in 1 .. Len(urlq)
        OBVIOUS
      <4>4. Len(urlq) = 2 => urlq[1] \in 1 .. run
        BY <4>1, <4>3, ElementOfSeq
      <4>5. QED
        BY <4>1, <4>4
    <3>2. Len(urlq) = 2 => (PathFor(urlq[1]) => PathFor(urlq[1])')
      BY <1>0, <1>2 DEF PathFor
    <3>3. QED
      BY <1>0, <2>0, <3>2 DEF StepInv, LookInv
  <2>4. TakenInv'
    <3>1. PathFor(task) => PathFor(task)'
      BY <1>0, <1>2 DEF PathFor
    <3>2. QED
      BY <1>0, <2>0, <3>1 DEF StepInv, TakenInv
  <2>5. QED
    BY <2>2, <2>3, <2>4 DEF StepInv
<1>5. QED
  BY <1>3, <1>4

LEMMA LookStep == QueuesInv /\ Look => QueuesInv'
<1> SUFFICES ASSUME QueuesInv, Look PROVE QueuesInv'
  OBVIOUS
<1> USE DEF QueuesInv
<1>0. /\ thread = "look" /\ UNCHANGED <<program, run, main, pathq, shown, killed>>
      /\ QueueTypeOK /\ PlacesInv /\ shown = 0 /\ program = "queued"
      /\ main \in {"url", "path", "sleep"} /\ task \in 0 .. run
  BY DEF Look, PlacesInv, QueueTypeOK
<1>1. CASE urlq = <<>>
  <2>1. thread' = "ended" /\ UNCHANGED <<urlq, task>>
    BY <1>1 DEF Look, WithoutUrl
  <2>2. QueueTypeOK' /\ PlacesInv'
    BY <1>0, <2>1 DEF QueueTypeOK, PlacesInv, Fetching
  <2>3. ASSUME ~killed' PROVE StepInv'
    <3>0. StepInv
      BY <1>0, <2>3
    <3>1. main = "url"
      BY <1>0, <1>1, <3>0 DEF StepInv, LookInv
    <3>2. task # run
      BY <1>0 DEF PlacesInv, QueueTypeOK
    <3>3. QED
      BY <1>0, <1>1, <2>1, <3>0, <3>1, <3>2 DEF StepInv, LeftInv, LookInv, TakenInv, SleepInv, Fetching
  <2>4. QED
    BY <2>2, <2>3
<1>2. CASE urlq # <<>>
  <2>1. thread' = "resolve" /\ task' = Head(urlq) /\ urlq' = Tail(urlq)
    BY <1>2 DEF Look, Taken
  <2>2. /\ task' \in 1 .. run /\ task' = urlq[1] /\ urlq' \in Seq(1 .. run)
        /\ Len(urlq) \in Nat \ {0}
        /\ Len(urlq) = 1 => urlq' = <<>>
        /\ Len(urlq) = 2 => urlq' = <<urlq[2]>>
    BY <1>0, <1>2, <2>1, TakeFirst DEF QueueTypeOK
  <2>3. QueueTypeOK' /\ PlacesInv'
    BY <1>0, <2>1, <2>2 DEF QueueTypeOK, PlacesInv, Fetching
  <2>4. ASSUME ~killed' PROVE StepInv'
    <3>0. StepInv
      BY <1>0, <2>4
    <3>1. LeftInv' /\ LookInv' /\ (shown <= task)'
      BY <1>0, <2>1, <2>2, <3>0 DEF StepInv, LeftInv, LookInv, QueueTypeOK
    <3>2. SleepInv'
      BY <1>0, <3>0 DEF StepInv, SleepInv
    <3>3. TakenInv'
      <4>1. CASE main = "url"
        <5>0. LookInv
          BY <3>0 DEF StepInv
        <5>1. Len(urlq) = 1
          <6>1. Len(urlq) <= 1
            BY <1>0, <4>1, <5>0 DEF LookInv
          <6>2. Len(urlq) \in Nat \ {0}
            BY <2>2
          <6>3. QED
            BY <6>1, <6>2, OneLeft
        <5>2. urlq[1] < run /\ PathFor(urlq[1])
          BY <1>0, <3>0, <4>1, <5>1 DEF StepInv, LookInv
        <5>3. task' < run /\ PathFor(task)' /\ urlq' = <<>>
          BY <1>0, <2>2, <5>1, <5>2 DEF PathFor
        <5>4. QED
          BY <1>0, <2>1, <2>2, <4>1, <5>3 DEF TakenInv, QueueTypeOK
      <4>2. CASE main # "url" /\ Len(urlq) = 1
        <5>1. urlq[1] = run
          BY <1>0, <3>0, <4>2 DEF StepInv, LookInv
        <5>2. task' = run /\ urlq' = <<>>
          BY <2>2, <4>2, <5>1
        <5>3. QED
          BY <1>0, <2>1, <4>2, <5>2 DEF TakenInv
      <4>3. CASE main # "url" /\ Len(urlq) # 1
        <5>1. Len(urlq) = 2
          BY <1>0, <3>0, <4>3 DEF StepInv, LookInv
        <5>2. urlq[2] = run /\ urlq[1] < run /\ PathFor(urlq[1])
          BY <1>0, <3>0, <4>3, <5>1 DEF StepInv, LookInv
        <5>3. task' # run /\ PathFor(task)' /\ urlq' = <<run>>
          BY <1>0, <2>2, <5>1, <5>2 DEF PathFor
        <5>4. QED
          BY <1>0, <2>1, <4>3, <5>3 DEF TakenInv
      <4>4. QED
        BY <4>1, <4>2, <4>3
    <3>4. QED
      BY <3>1, <3>2, <3>3 DEF StepInv
  <2>5. QED
    BY <2>3, <2>4
<1>3. QED
  BY <1>1, <1>2

LEMMA TakePathStep == QueuesInv /\ TakePath => QueuesInv'
<1> SUFFICES ASSUME QueuesInv, TakePath PROVE QueuesInv'
  OBVIOUS
<1> USE DEF QueuesInv
<1>0. /\ thread = "path" /\ thread' = "ended" /\ thread \in Fetching
      /\ UNCHANGED <<program, run, main, urlq, task, killed>>
      /\ QueueTypeOK /\ PlacesInv /\ shown = 0 /\ program = "queued"
      /\ main \in {"url", "path", "sleep"}
  BY DEF TakePath, PlacesInv, QueueTypeOK, Fetching
<1>1. CASE pathq = <<>>
  <2>1. UNCHANGED <<pathq, shown>>
    BY <1>1 DEF TakePath
  <2>2. QED
    BY <1>0, <2>1, Unmoved
<1>2. CASE pathq # <<>>
  <2>1. shown' = Head(pathq) /\ pathq' = Tail(pathq)
    BY <1>2 DEF TakePath
  <2>2. /\ shown' \in 1 .. run /\ shown' = pathq[1] /\ pathq' \in Seq(1 .. run)
        /\ Len(pathq) \in Nat \ {0} /\ Len(pathq') = Len(pathq) - 1
        /\ \A i \in 1 .. Len(pathq) - 1 : pathq'[i] = pathq[i + 1]
    BY <1>0, <1>2, <2>1, TakeFirst DEF QueueTypeOK
  <2>3. QueueTypeOK' /\ PlacesInv'
    BY <1>0, <2>1, <2>2 DEF QueueTypeOK, PlacesInv, Fetching
  <2>4. ASSUME ~killed' PROVE StepInv'
    <3>0. StepInv /\ task \in 0 .. run /\ run \in Nat
      BY <1>0, <2>4 DEF QueueTypeOK
    <3>1. task = run \/ pathq[1] <= task
      BY <1>0, <3>0 DEF StepInv, TakenInv, PathFor
    <3>2. (shown <= task)'
      BY <1>0, <2>2, <3>0, <3>1
    <3>3. LeftInv' /\ LookInv'
      BY <1>0 DEF LeftInv, LookInv
    <3>4. TakenInv'
      BY <1>0, <3>0 DEF StepInv, TakenInv, Fetching
    <3>5. SleepInv'
      <4>1. SUFFICES ASSUME main = "sleep", urlq # <<>>
                     PROVE  pathq' # <<>> /\ pathq'[Len(pathq')] = run
        BY <1>0 DEF SleepInv
      <4>2. pathq[Len(pathq)] = run /\ task # run
        BY <1>0, <3>0, <4>1 DEF StepInv, SleepInv, TakenInv
      <4>3. pathq[1] # run
        BY <3>0, <3>1, <4>2
      <4>4. Len(pathq) # 1
        BY <4>2, <4>3
      <4>5. Len(pathq') \in 1 .. Len(pathq) - 1 /\ Len(pathq') + 1 = Len(pathq)
        BY <2>2, <4>4
      <4>6. pathq'[Len(pathq')] = run
        BY <2>2, <4>2, <4>5
      <4>7. pathq' # <<>>
        BY <2>2, <4>5
      <4>8. QED
        BY <4>6, <4>7
    <3>6. QED
      BY <3>2, <3>3, <3>4, <3>5 DEF StepInv
  <2>5. QED
    BY <2>3, <2>4
<1>3. QED
  BY <1>1, <1>2

LEMMA QueuesStep == QueuesInv /\ [DownloadNext]_downloadVars => QueuesInv'
<1> SUFFICES ASSUME QueuesInv, [DownloadNext]_downloadVars PROVE QueuesInv'
  OBVIOUS
<1>1. CASE UNCHANGED downloadVars
  BY <1>1 DEF downloadVars, queues, QueuesInv, QueueTypeOK, PlacesInv, StepInv, LeftInv, LookInv,
              TakenInv, SleepInv, PathFor
<1>2. CASE init_service
  BY <1>2, StartStep
<1>3. CASE DownloadMain
  <2>1. CASE MainReturns
    BY <2>1, EndedStep DEF MainReturns, queues
  <2>2. QED
    BY <1>3, <2>1, SendUrlStep, SendPathStep DEF DownloadMain
<1>4. CASE Kill
  BY <1>4 DEF Kill, Ended, queues, QueuesInv, QueueTypeOK, PlacesInv, Fetching
<1>5. CASE DownloadThread
  <2>1. CASE Resolve
    BY <2>1, Unmoved DEF Resolve, queues, Fetching
  <2>2. CASE Connect
    BY <2>2, Unmoved, EndedStep DEF Connect, queues, Fetching
  <2>3. CASE Header
    BY <2>3, Unmoved DEF Header, queues, Fetching
  <2>4. CASE OpenFile
    BY <2>4, Unmoved, EndedStep DEF OpenFile, queues, Fetching
  <2>5. CASE ReadBody
    <3>1. /\ thread = "body" /\ thread' \in {"body", "path", "ended"}
          /\ thread' = "path" => program = "queued"
          /\ UNCHANGED <<program, run, main, urlq, pathq, task, shown, killed>>
      BY <2>5 DEF ReadBody, queues
    <3>2. QED
      BY <3>1, Unmoved DEF Fetching
  <2>6. QED
    BY <1>5, <2>1, <2>2, <2>3, <2>4, <2>5, LookStep, TakePathStep DEF DownloadThread
<1>6. QED
  BY <1>1, <1>2, <1>3, <1>4, <1>5 DEF DownloadNext

(* For any number of runs a path that is reported was never queued for a    *)
(* later task than the one downloaded, and a run leaves at most one URL to  *)
(* the next, unless a run was killed while it added its task (task_add,     *)
(* download of dwl.c and downfile.c).                                       *)
THEOREM QueuesAlwaysInStep == DownloadSpec => []QueuesInStep
<1>1. QueuesInv => QueuesInStep
  BY DEF QueuesInv, StepInv, LeftInv, QueuesInStep, PathNotAhead, UrlBacklog
<1>2. QED
  BY <1>1, DownloadInitInv, QueuesStep, PTL DEF DownloadSpec
-----------------------------------------------------------------------------
(* What the transfer amounts to at each place of the thread.  While the     *)
(* body is read, the count is what came, until an error has made it one     *)
(* smaller; nothing comes after an error, and then it is below the          *)
(* declared length, so that success is not reported.                        *)
TransferTypeOK ==
  transfer \in [body : Nat, declared : Int, came : Nat, length : Int, stored : Nat,
                old : Nat, said : BOOLEAN, short : Nat]

WholeBody(t) == t.stored <= t.length /\ (t.short = 0 => t.stored = t.length)

BodyInv(t) == \/ t.length = t.came /\ WholeBody(t)
              \/ t.came = t.body /\ t.length < t.declared

TransferInv ==
  /\ TransferTypeOK
  /\ thread \in {"off", "look", "resolve", "connect", "header", "open", "body"} =>
       ~transfer.said
  /\ thread \in {"off", "look", "resolve", "connect", "header", "open"} =>
       /\ transfer.came = 0 /\ transfer.length = 0
       /\ transfer.stored = 0 /\ transfer.short = 0
  /\ thread = "body" => transfer.came <= transfer.body /\ BodyInv(transfer)
  /\ transfer.said => /\ transfer.length = transfer.declared
                      /\ transfer.length <= transfer.came /\ WholeBody(transfer)

LEMMA NoTransferInv ==
  ASSUME transfer' = NoTransfer, thread' = "off"
  PROVE  TransferInv'
BY DEF NoTransfer, TransferInv, TransferTypeOK, WholeBody

LEMMA SameTransfer ==
  ASSUME TransferInv, transfer' = transfer,
         \/ thread' = thread
         \/ thread' = "ended"
         \/ thread' = "path" /\ thread = "body"
         \/ thread \in {"off", "look", "resolve", "connect"} /\
            thread' \in {"look", "resolve", "connect", "header"}
  PROVE  TransferInv'
BY DEF TransferInv, TransferTypeOK, BodyInv, WholeBody

LEMMA HeaderStep == TransferInv /\ Header => TransferInv'
<1> SUFFICES ASSUME TransferInv, Header PROVE TransferInv'
  OBVIOUS
<1>0. PICK body \in Bodies : \E declared \in {body} \cup Garbage :
        transfer' = [transfer EXCEPT !.body = body, !.declared = declared]
  BY DEF Header
<1>1. PICK declared \in {body} \cup Garbage :
        transfer' = [transfer EXCEPT !.body = body, !.declared = declared]
  BY <1>0
<1>2. body \in Nat /\ declared \in Int
  BY <1>0, <1>1, DownloadAssumption DEF DownloadAssumption
<1>3. thread = "header" /\ thread' = "open"
  BY DEF Header
<1>4. TransferTypeOK'
  BY <1>1, <1>2 DEF TransferInv, TransferTypeOK
<1>5. /\ transfer'.came = 0 /\ transfer'.length = 0 /\ transfer'.stored = 0
      /\ transfer'.short = 0 /\ transfer'.said = FALSE
  BY <1>1, <1>3 DEF TransferInv, TransferTypeOK
<1>6. QED
  BY <1>3, <1>4, <1>5 DEF TransferInv

LEMMA OpenStep == TransferInv /\ OpenFile => TransferInv'
<1> SUFFICES ASSUME TransferInv, OpenFile PROVE TransferInv'
  OBVIOUS
<1>1. CASE Ended
  BY <1>1, NoTransferInv DEF Ended
<1>2. CASE ~Ended
  <2>1. thread = "open" /\ thread' = "body"
    BY <1>2 DEF OpenFile
  <2>2. PICK old \in Nat : transfer' = [transfer EXCEPT !.old = old]
    BY <1>2, DownloadAssumption DEF OpenFile, DownloadAssumption
  <2>3. TransferTypeOK'
    BY <2>2 DEF TransferInv, TransferTypeOK
  <2>4. /\ transfer'.came = 0 /\ transfer'.length = 0 /\ transfer'.stored = 0
        /\ transfer'.short = 0 /\ transfer'.said = FALSE
    BY <2>1, <2>2 DEF TransferInv, TransferTypeOK
  <2>5. transfer'.body \in Nat
    BY <2>3 DEF TransferTypeOK
  <2>6. QED
    BY <2>1, <2>3, <2>4, <2>5 DEF TransferInv, BodyInv, WholeBody
<1>3. QED
  BY <1>1, <1>2

LEMMA ReadStep == TransferInv /\ ReadBody => TransferInv'
<1> SUFFICES ASSUME TransferInv, ReadBody PROVE TransferInv'
  OBVIOUS
<1> BufLen \in Nat
  BY DownloadAssumption DEF DownloadAssumption
<1> DEFINE T(n) == [transfer EXCEPT !.body = IF n > 0 THEN @ ELSE transfer.came,
                                    !.came = IF n > 0 THEN @ + n ELSE @]
<1>0. /\ TransferTypeOK /\ thread = "body" /\ transfer.said = FALSE
      /\ transfer.came <= transfer.body /\ BodyInv(transfer)
  BY DEF TransferInv, TransferTypeOK, ReadBody
<1>1. PICK n \in -1 .. BufLen :
        /\ n < 0 => transfer.came < transfer.body
        /\ T(n).came <= T(n).body
        /\ IF n # 0 /\ T(n).length < T(n).declared
           THEN /\ \E w \in 0 .. (IF n > 0 THEN n ELSE 0) :
                     transfer' = [T(n) EXCEPT !.length = Counted(@, n), !.stored = @ + w,
                                              !.short = IF w < n THEN @ + 1 ELSE @]
                /\ UNCHANGED thread
           ELSE /\ transfer' = [T(n) EXCEPT !.said = (T(n).length = T(n).declared)]
                /\ thread' = IF program = "queued" THEN "path" ELSE "ended"
  BY DEF ReadBody
<1> DEFINE t == transfer
<1>7. n \in Int /\ (n < 0 => n = -1) /\ (n > 0 => t.came + n \in Nat)
  <2>1. n \in Int /\ -1 <= n
    OBVIOUS
  <2>2. t.came \in Nat
    BY <1>0 DEF TransferTypeOK
  <2>3. QED
    BY <2>1, <2>2
<1>2. /\ T(n) \in [body : Nat, declared : Int, came : Nat, length : Int, stored : Nat,
                   old : Nat, said : BOOLEAN, short : Nat]
      /\ T(n).length = t.length /\ T(n).declared = t.declared /\ T(n).stored = t.stored
      /\ T(n).short = t.short /\ T(n).said = FALSE
      /\ T(n).came = IF n > 0 THEN t.came + n ELSE t.came
      /\ T(n).body = IF n > 0 THEN t.body ELSE t.came
  <2>1. CASE n > 0
    BY <1>0, <1>7, <2>1 DEF TransferTypeOK
  <2>2. CASE ~(n > 0)
    BY <1>0, <1>7, <2>2 DEF TransferTypeOK
  <2>3. QED
    BY <2>1, <2>2
<1>3. /\ t.body \in Nat /\ t.declared \in Int /\ t.came \in Nat /\ t.length \in Int
      /\ t.stored \in Nat /\ t.short \in Nat
  BY <1>0 DEF TransferTypeOK
<1>4. CASE n # 0 /\ t.length < t.declared
  <2>1. PICK w \in 0 .. (IF n > 0 THEN n ELSE 0) :
          transfer' = [T(n) EXCEPT !.length = Counted(@, n), !.stored = @ + w,
                                   !.short = IF w < n THEN @ + 1 ELSE @]
    BY <1>1, <1>2, <1>4
  <2>2. thread' = "body"
    BY <1>0, <1>1, <1>2, <1>4
  <2>3. /\ t'.length = t.length + n /\ t'.stored = t.stored + w
        /\ t'.short = IF w < n THEN t.short + 1 ELSE t.short
        /\ t'.declared = t.declared /\ t'.said = FALSE
        /\ t'.came = IF n > 0 THEN t.came + n ELSE t.came
        /\ t'.body = IF n > 0 THEN t.body ELSE t.came
    BY <1>2, <2>1 DEF Counted
  <2>4. w \in Nat /\ n \in Int /\ w <= (IF n > 0 THEN n ELSE 0)
    BY <2>1
  <2>5. TransferTypeOK'
    <3>1. t.length + n \in Int /\ t.stored + w \in Nat /\ t.short + 1 \in Nat
      BY <1>3, <2>4
    <3>2. CASE w < n
      BY <1>2, <2>1, <3>1, <3>2 DEF TransferTypeOK, Counted
    <3>3. CASE ~(w < n)
      BY <1>2, <2>1, <3>1, <3>3 DEF TransferTypeOK, Counted
    <3>4. QED
      BY <3>2, <3>3
  <2>6. t'.came <= t'.body
    BY <1>1, <1>2, <2>3
  <2>7. BodyInv(transfer)'
    <3>1. CASE n < 0
      <4>1. n = -1
        BY <1>7, <3>1
      <4>2. t'.came = t'.body /\ t'.length < t'.declared
        BY <1>3, <1>4, <2>3, <2>4, <3>1, <4>1
      <4>3. QED
        BY <4>2 DEF BodyInv
    <3>2. CASE n > 0
      <4>1. t.came < t.body
        <5>1. t.came + n <= t.body
          BY <1>1, <1>2, <3>2
        <5>2. QED
          BY <1>3, <2>4, <3>2, <5>1
      <4>2. t.length = t.came /\ t.stored <= t.length /\ (t.short = 0 => t.stored = t.length)
        BY <1>0, <1>3, <4>1 DEF BodyInv, WholeBody
      <4>3. t'.length = t'.came /\ t'.stored <= t'.length
        BY <1>3, <2>3, <2>4, <3>2, <4>2
      <4>4. t'.short = 0 => t'.stored = t'.length
        BY <1>3, <2>3, <2>4, <3>2, <4>2
      <4>5. QED
        BY <4>3, <4>4 DEF BodyInv, WholeBody
    <3>3. QED
      BY <1>4, <2>4, <3>1, <3>2
  <2>8. QED
    BY <2>2, <2>3, <2>5, <2>6, <2>7 DEF TransferInv
<1>5. CASE ~(n # 0 /\ t.length < t.declared)
  <2>1. /\ transfer' = [T(n) EXCEPT !.said = (T(n).length = T(n).declared)]
        /\ thread' \in {"path", "ended"}
    BY <1>1, <1>2, <1>5
  <2>2. /\ t'.length = t.length /\ t'.stored = t.stored /\ t'.short = t.short
        /\ t'.declared = t.declared
        /\ t'.came = IF n > 0 THEN t.came + n ELSE t.came
    BY <1>2, <2>1
  <2>3. t'.said = (t.length = t.declared)
    BY <1>2, <2>1
  <2>4. TransferTypeOK'
    BY <1>2, <2>1 DEF TransferTypeOK
  <2>5. ASSUME t.length = t.declared
        PROVE  t'.length = t'.declared /\ t'.length <= t'.came /\ WholeBody(transfer)'
    <3>1. t.length = t.came /\ t.stored <= t.length /\ (t.short = 0 => t.stored = t.length)
      BY <1>0, <1>3, <2>5 DEF BodyInv, WholeBody
    <3>2. QED
      BY <1>3, <2>2, <2>5, <3>1 DEF WholeBody
  <2>6. QED
    BY <2>1, <2>3, <2>4, <2>5 DEF TransferInv
<1>6. QED
  BY <1>4, <1>5

LEMMA TransferStep ==
  TransferInv /\ QueuesInv /\ [DownloadNext]_downloadVars => TransferInv'
<1> SUFFICES ASSUME TransferInv, QueuesInv, [DownloadNext]_downloadVars PROVE TransferInv'
  OBVIOUS
<1>1. CASE UNCHANGED downloadVars
  BY <1>1, SameTransfer DEF downloadVars
<1>2. CASE init_service
  <2>1. thread = "off"
    BY <1>2 DEF init_service, QueuesInv, PlacesInv
  <2>2. thread' \in {"look", "resolve"} /\ transfer' = transfer
    BY <1>2 DEF init_service
  <2>3. QED
    BY <2>1, <2>2, SameTransfer
<1>3. CASE DownloadMain
  BY <1>3, SameTransfer, NoTransferInv
     DEF DownloadMain, SendUrl, SendPath, MainReturns, Ended
<1>4. CASE Kill
  BY <1>4, NoTransferInv DEF Kill, Ended
<1>5. CASE DownloadThread
  <2>1. CASE Look
    BY <2>1, SameTransfer DEF Look, WithoutUrl
  <2>2. CASE Resolve
    BY <2>2, SameTransfer DEF Resolve
  <2>3. CASE Connect
    BY <2>3, SameTransfer, NoTransferInv DEF Connect, Ended
  <2>4. CASE TakePath
    BY <2>4, SameTransfer DEF TakePath
  <2>5. QED
    BY <1>5, <2>1, <2>2, <2>3, <2>4, HeaderStep, OpenStep, ReadStep DEF DownloadThread
<1>6. QED
  BY <1>1, <1>2, <1>3, <1>4, <1>5 DEF DownloadNext

(* For bodies and buffers of any length, any declared length, any sequence  *)
(* of reads, errors and short writes: "Download successful" is printed only *)
(* for a body that came and was counted completely (download).              *)
THEOREM SuccessAlwaysWhole == DownloadSpec => []SuccessIsWhole
<1>1. DownloadInit => TransferInv
  BY DEF DownloadInit, NoTransfer, TransferInv, TransferTypeOK, WholeBody
<1>2. TransferInv => SuccessIsWhole
  BY DEF TransferInv, TransferTypeOK, WholeBody, SuccessIsWhole
<1>3. QED
  BY <1>1, <1>2, DownloadInitInv, QueuesStep, TransferStep, PTL DEF DownloadSpec
-----------------------------------------------------------------------------
(* Chat.  ChatInv says of every state of the two peers whose turn it is      *)
(* (TurnOf), what is in the stream of "serve" (BlockOf), how far the first   *)
(* file of "fina" has come (FirstFile), and, while there is no trouble, what *)
(* the last word was and that who waits for a file will get one (CalmOf).    *)
\* What is in the stream and in the files.
Bytes == STRING \cup {"name", "ready", "zero"}
Words == {"text", "quit", "file", "name", "ready"}
Starts == {"bind", "accept", "connect"}
Places == Starts \cup {"type", "recv", "offer", "name", "content", "over"}
Jobs == {"none", "cut", "open", "ready", "parts"}

ChatType ==
  /\ version \in Versions
  /\ at \in [Peers -> Places] /\ worker \in [Peers -> Jobs] /\ part \in [Peers -> 0 .. Parts]
  /\ udp \in [Peers -> Seq(Words)] /\ tcp \in [Peers -> Seq(Bytes)]
  /\ open \in [Peers -> BOOLEAN] /\ saved \in [Peers -> BOOLEAN]
  /\ content \in [Peers -> Seq(Bytes)]
  /\ lost \in Nat /\ missing \in Nat /\ short \in Nat /\ asked \in Nat

\* The datagram that waits at a peer.
Mail(p) == IF udp[p] = <<>> THEN "nothing" ELSE Head(udp[p])

\* Each version and each peer stays within its own part of the code.
KeptBy(p) ==
  /\ p = "client" => at[p] \notin {"bind", "accept"}
  /\ p = "server" => at[p] # "connect"
  /\ version = "udp" => at[p] \in {"bind", "type", "recv", "over"} /\ asked = 0 /\ saved[p] = FALSE
  /\ version # "fina" => worker[p] = "none"
  /\ version # "serve" => at[p] # "offer"
  /\ worker[p] = "cut" => at[p] = "over"
  /\ at[p] = "over" => worker[p] \in {"none", "cut"} /\ open[p] = FALSE
  /\ at[p] \in Starts => worker[p] = "none" /\ open[p] = FALSE /\ saved[p] = FALSE

\* Before both have started, nothing is under way.
StartOf(p, q) ==
  at[p] \in Starts =>
    /\ Mail(p) = "nothing" /\ Mail(q) = "nothing"
    /\ tcp[p] = <<>> /\ tcp[q] = <<>> /\ asked = 0
    /\ version # "udp" => at[q] \in Starts \cup {"over"}

\* The users take turns: there is at most one datagram, and none while one
\* of them types.
TokenOf(p, q) ==
  /\ Len(udp[p]) <= 1
  /\ at[p] = "type" => Mail(p) = "nothing" /\ Mail(q) = "nothing" /\ at[q] # "type"
  /\ Mail(p) # "nothing" => Mail(q) = "nothing"

TurnOf(p, q) == KeptBy(p) /\ StartOf(p, q) /\ TokenOf(p, q)

\* In "serve" a block is read before the next is offered.
BlockOf(p, q) ==
  version = "serve" /\ short = 0 =>
    /\ at[p] \notin {"content", "over"} => tcp[p] = <<>>
    /\ at[p] = "content" => tcp[p] = <<>> \/ (tcp[p] = Whole /\ at[q] # "offer")
    /\ at[q] = "offer" => at[p] \in {"name", "content", "over"}
    /\ at[q] = "offer" /\ at[p] = "name" => Mail(q) = "nothing"
    /\ Mail(q) = "file" => at[p] = "name"
    /\ saved[p] = TRUE => content[p] = Whole \/ IsPrefix(content[p], Whole)

Begins(s) == \E k \in 0 .. Parts : s = SubSeq(Whole, 1, k)

\* In "fina": the first file, which p has asked q for.
Named(p, q) ==
  /\ at[p] = "name" /\ saved[p] = FALSE /\ open[p] = TRUE
  /\ \/ /\ worker[q] = "none" /\ tcp[p] = <<>> /\ tcp[q] = <<>>
        /\ Mail(q) = "file" => open[q] = TRUE
     \/ /\ worker[q] = "open" /\ tcp[p] = <<>> /\ tcp[q] = <<>>
        /\ open[q] = TRUE /\ Mail(q) # "file"
     \/ /\ worker[q] = "ready" /\ tcp[p] = <<"name">> /\ tcp[q] = <<>>
        /\ open[q] = TRUE /\ Mail(q) # "file"
     \/ /\ worker[q] = "cut" /\ (tcp[p] = <<>> \/ tcp[p] = <<"name">>)
        /\ open[q] = FALSE /\ Mail(q) # "file"
Coming(p, q) ==
  /\ at[p] = "content" /\ saved[p] = FALSE /\ open[p] = TRUE /\ Mail(q) # "file"
  /\ \/ /\ worker[q] = "ready" /\ open[q] = TRUE
        /\ content[p] = <<>> /\ tcp[p] = <<>> /\ tcp[q] = <<"ready">>
     \/ /\ worker[q] = "parts" /\ open[q] = TRUE /\ part[q] \in 0 .. Parts
        /\ content[p] \o tcp[p] = SubSeq(Whole, 1, part[q])
     \/ /\ worker[q] = "none" /\ open[q] = FALSE /\ content[p] \o tcp[p] = Whole
     \/ /\ worker[q] = "cut" /\ open[q] = FALSE /\ Begins(content[p] \o tcp[p])
Complete(p, q) ==
  /\ at[p] \notin {"name", "content"} /\ saved[p] = TRUE /\ Mail(q) # "file"
  /\ \/ worker[q] = "none" /\ content[p] = Whole
     \/ worker[q] = "cut" /\ Begins(content[p])
GivenUp(p) == at[p] = "over" /\ saved[p] = FALSE
Receiving(p, q) ==
  /\ at[q] \notin {"name", "content"} /\ worker[p] = "none" /\ saved[q] = FALSE
  /\ Mail(p) # "file"
  /\ GivenUp(p) \/ Named(p, q) \/ Coming(p, q) \/ Complete(p, q)

NoFile(p) ==
  /\ at[p] \notin {"name", "content"} /\ worker[p] = "none" /\ saved[p] = FALSE
  /\ tcp[p] = <<>> /\ Mail(p) # "file"
  /\ at[p] \notin Starts \cup {"over"} => open[p] = TRUE

FirstFile(p, q) ==
  version = "fina" =>
    /\ asked = 0 => NoFile(p) /\ NoFile(q)
    /\ asked = 1 => Receiving(p, q) \/ Receiving(q, p)

Waits == {"recv", "content", "name"}

\* Who has said the last word, and what it was.
Said(p, q) ==
  \/ version # "udp" /\ at[p] \in Starts /\ at[q] \in Starts \cup {"over"}
  \/ at[p] = "type" /\ at[q] \in Waits \cup {"bind"}
  \/ at[p] = "recv" /\ at[q] \in Waits /\ Mail(q) = "text"
  \/ at[p] = "name" /\ at[q] \in {"recv", "content"} /\ Mail(q) = "file"
  \/ version = "serve" /\ at[p] = "name" /\ at[q] = "offer" /\ Mail(p) = "name"
  \/ version = "serve" /\ at[p] \in {"content", "recv"} /\ at[q] = "offer" /\ Mail(q) = "ready"
  \/ at[p] = "over" /\ at[q] \in Waits /\ Mail(q) = "quit"
  \/ at[p] = "over" /\ at[q] = "over"

\* Who waits for a file will get one.
Provided(p, q) ==
  /\ version = "serve" /\ at[p] = "name" =>
       Mail(q) = "file" \/ (at[q] = "offer" /\ Mail(p) = "name")
  /\ version = "fina" /\ at[p] = "name" /\ worker[q] = "none" => Mail(q) = "file"
  /\ version = "serve" /\ at[p] = "content" => at[q] = "offer" \/ tcp[p] # <<>> \/ at[q] = "over"
  /\ version = "serve" /\ at[p] \notin Starts \cup {"over"} => open[p] = TRUE

Calm(p, q) ==
  /\ lost = 0 /\ missing = 0
  /\ version = "fina" => asked <= 1 /\ worker[p] # "cut" /\ worker[q] # "cut"
CalmOf(p, q) ==
  Calm(p, q) => /\ Said(p, q) \/ Said(q, p)
                /\ Provided(p, q) /\ Provided(q, p)

PairInv(p, q) ==
  /\ TurnOf(p, q) /\ TurnOf(q, p)
  /\ BlockOf(p, q) /\ BlockOf(q, p)
  /\ FirstFile(p, q) /\ CalmOf(p, q)

ChatInv == ChatType /\ PairInv("client", "server")
-----------------------------------------------------------------------------
LEMMA WholeIs ==
  /\ Whole \in Seq(Bytes) /\ Parts \in Nat \ {0} /\ Parts = Len(Whole)
  /\ NameLength \in Nat /\ NameLength \in 1 .. Parts
<1>1. /\ Whole \in Seq(STRING) /\ NameLength \in 1 .. Len(Whole) - 1
  BY ChatAssumption
<1>2. \A i \in 1 .. Len(Whole) : Whole[i] \in Bytes
  BY <1>1 DEF Bytes
<1>3. Whole \in Seq(Bytes)
  BY <1>1, <1>2
<1>4. QED
  BY <1>1, <1>3 DEF Parts

LEMMA Pairs ==
  ASSUME NEW p \in Peers
  PROVE  /\ Other(p) \in Peers /\ Other(p) # p /\ Other(Other(p)) = p
         /\ \A r \in Peers : r = p \/ r = Other(p)
BY DEF Peers, Other

LEMMA PairOf ==
  ASSUME NEW p \in Peers
  PROVE  /\ PairInv("client", "server") <=> PairInv(p, Other(p))
         /\ PairInv("client", "server")' <=> PairInv(p, Other(p))'
<1>1. CASE p = "client"
  BY <1>1 DEF Other
<1>2. CASE p = "server"
  <2>1. Other(p) = "client"
    BY <1>2 DEF Other
  <2>2. /\ Calm("client", "server") <=> Calm("server", "client")
        /\ Calm("client", "server")' <=> Calm("server", "client")'
    BY DEF Calm
  <2>3. QED
    BY <1>2, <2>1, <2>2 DEF PairInv, FirstFile, CalmOf
<1>3. QED
  BY <1>1, <1>2 DEF Peers

LEMMA MailIs ==
  ASSUME NEW p, udp[p] \in Seq(Words)
  PROVE  /\ Mail(p) \in Words \cup {"nothing"}
         /\ Mail(p) = "nothing" <=> udp[p] = <<>>
BY DEF Mail, Words

LEMMA NoMoreMail ==
  ASSUME NEW s \in Seq(Words), s # <<>>, Len(s) <= 1
  PROVE  Tail(s) = <<>>
OBVIOUS

LEMMA OneMore ==
  ASSUME NEW x
  PROVE  Append(<<>>, x) # <<>> /\ Len(Append(<<>>, x)) = 1 /\ Head(Append(<<>>, x)) = x
<1>1. Append(<<>>, x) = <<x>>
  OBVIOUS
<1>2. QED
  BY <1>1

LEMMA ChatInitial == ChatInit => ChatInv
<1> SUFFICES ASSUME ChatInit PROVE ChatInv
  OBVIOUS
<1>1. /\ udp["client"] = <<>> /\ udp["server"] = <<>> /\ tcp["client"] = <<>> /\ tcp["server"] = <<>>
      /\ worker["client"] = "none" /\ worker["server"] = "none"
      /\ open["client"] = FALSE /\ open["server"] = FALSE
      /\ saved["client"] = FALSE /\ saved["server"] = FALSE
      /\ at["server"] = "bind" /\ at["client"] \in {"type", "connect"}
      /\ version = "udp" <=> at["client"] = "type"
      /\ lost = 0 /\ missing = 0 /\ short = 0 /\ asked = 0
      /\ version \in Versions
  BY DEF ChatInit, Peers
<1>2. Mail("client") = "nothing" /\ Mail("server") = "nothing" /\ Len(<<>>) = 0
  BY <1>1 DEF Mail
<1>3. ChatType
  <2>1. /\ at \in [Peers -> Places] /\ worker \in [Peers -> Jobs] /\ part \in [Peers -> 0 .. Parts]
        /\ open \in [Peers -> BOOLEAN] /\ saved \in [Peers -> BOOLEAN]
    <3>1. 0 \in 0 .. Parts
      BY WholeIs
    <3>2. QED
      BY <3>1 DEF ChatInit, Places, Starts, Jobs
  <2>2. udp \in [Peers -> Seq(Words)] /\ tcp \in [Peers -> Seq(Bytes)] /\ content \in [Peers -> Seq(Bytes)]
    <3>1. <<>> \in Seq(Words) /\ <<>> \in Seq(Bytes)
      OBVIOUS
    <3>2. QED
      BY <3>1, Zenon DEF ChatInit
  <2>3. QED
    BY <1>1, <2>1, <2>2 DEF ChatType
<1>4. TurnOf("client", "server") /\ TurnOf("server", "client")
  BY <1>1, <1>2 DEF TurnOf, KeptBy, StartOf, TokenOf, Starts
<1>5. BlockOf("client", "server") /\ BlockOf("server", "client")
  BY <1>1, <1>2 DEF BlockOf
<1>6. FirstFile("client", "server")
  BY <1>1, <1>2 DEF FirstFile, NoFile, Starts
<1>7. CalmOf("client", "server")
  BY <1>1, <1>2 DEF CalmOf, Said, Provided, Starts
<1>8. QED
  BY <1>3, <1>4, <1>5, <1>6, <1>7 DEF ChatInv, PairInv

LEMMA OverType ==
  ASSUME ChatType, NEW p \in Peers, Over(p)
  PROVE  /\ at' \in [Peers -> Places] /\ worker' \in [Peers -> Jobs] /\ open' \in [Peers -> BOOLEAN]
<1>1. "over" \in Places /\ "cut" \in Jobs
  BY DEF Places, Jobs
<1>2. at' \in [Peers -> Places]
  BY <1>1 DEF ChatType, Over
<1>3. worker' \in [Peers -> Jobs]
  BY <1>1 DEF ChatType, Over
<1>4. open' \in [Peers -> BOOLEAN]
  BY DEF ChatType, Over, Closed
<1>5. QED
  BY <1>2, <1>3, <1>4

LEMMA DatagramType ==
  ASSUME ChatType, NEW p \in Peers, NEW d \in Words, Datagram(p, d)
  PROVE  udp' \in [Peers -> Seq(Words)]
<1>1. Append(udp[p], d) \in Seq(Words) /\ udp[p] \in Seq(Words)
  BY DEF ChatType
<1>2. QED
  BY <1>1 DEF ChatType, Datagram

LEMMA VersionIs == ASSUME ChatType PROVE version \in {"udp", "serve", "fina"}
BY ChatAssumption DEF ChatType

LEMMA ComingBegins ==
  ASSUME ChatType, NEW p \in Peers, NEW q \in Peers, Coming(p, q)
  PROVE  Begins(content[p] \o tcp[p])
<1>1. CASE worker[q] = "ready"
  <2>1. content[p] = <<>> /\ tcp[p] = <<>>
    BY <1>1 DEF Coming
  <2>2. <<>> \o <<>> = SubSeq(Whole, 1, 0)
    BY WholeIs
  <2>3. 0 \in 0 .. Parts
    BY WholeIs
  <2>4. QED
    BY <2>1, <2>2, <2>3 DEF Begins
<1>2. CASE worker[q] = "parts"
  BY <1>2 DEF Coming, Begins
<1>3. CASE worker[q] = "none"
  <2>1. Whole = SubSeq(Whole, 1, Parts) /\ Parts \in 0 .. Parts
    BY WholeIs
  <2>2. QED
    BY <1>3, <2>1 DEF Coming, Begins
<1>4. CASE worker[q] = "cut"
  BY <1>4 DEF Coming
<1>5. QED
  BY <1>1, <1>2, <1>3, <1>4 DEF Coming

\* A peer takes the datagram that waits for it.
LEMMA MailTaken ==
  ASSUME ChatType, NEW p \in Peers, NEW q \in Peers, q # p, TokenOf(p, q),
         udp[p] # <<>>, udp' = [udp EXCEPT ![p] = Tail(@)]
  PROVE  /\ udp' \in [Peers -> Seq(Words)]
         /\ Mail(p) # "nothing" /\ Mail(p) = Head(udp[p]) /\ Mail(q) = "nothing"
         /\ Mail(p)' = "nothing" /\ Mail(q)' = "nothing"
         /\ Len(udp'[p]) = 0 /\ Len(udp'[q]) = 0
<1>1. udp[p] \in Seq(Words) /\ udp[q] \in Seq(Words)
  BY DEF ChatType
<1>2. Tail(udp[p]) = <<>>
  BY <1>1, NoMoreMail DEF TokenOf
<1>3. udp'[p] = <<>> /\ udp'[q] = udp[q]
  BY <1>2 DEF ChatType
<1>4. <<>> \in Seq(Words) /\ Len(<<>>) = 0
  OBVIOUS
<1>5. udp' \in [Peers -> Seq(Words)]
  BY <1>2, <1>4 DEF ChatType
<1>6. Mail(p) # "nothing" /\ Mail(p) = Head(udp[p])
  BY <1>1, MailIs DEF Mail
<1>7. udp[q] = <<>> /\ Mail(q) = "nothing"
  BY <1>1, <1>6, MailIs DEF TokenOf
<1>8. QED
  BY <1>3, <1>4, <1>5, <1>6, <1>7 DEF Mail

\* What the users say to each other does not disturb the file.
LEMMA OnlyTalk ==
  ASSUME ChatType, NEW p \in Peers, NEW q \in Peers, version = "fina",
         KeptBy(p), KeptBy(q), FirstFile(p, q),
         UNCHANGED <<version, part, tcp, content, saved, asked>>,
         at'[q] = at[q], worker'[q] = worker[q], open'[q] = open[q],
         at'[p] = at[p] \/ {at[p], at'[p]} \cap {"name", "content", "bind", "accept", "connect"} = {},
         at[p] = "over" => at'[p] = "over",
         \/ worker'[p] = worker[p] /\ open'[p] = open[p] /\ (at'[p] = "over" => at[p] = "over")
         \/ /\ at'[p] = "over" /\ open'[p] = FALSE
            /\ worker[p] = "none" => worker'[p] = "none"
            /\ worker[p] # "none" => worker'[p] = "cut",
         Mail(p)' # "file" \/ Mail(p)' = Mail(p), Mail(q)' # "file" \/ Mail(q)' = Mail(q),
         at'[p] = "over" /\ at[p] # "over" => Mail(p)' # "file"
  PROVE  FirstFile(p, q)'
<1>1. asked = 0 => NoFile(p)' /\ NoFile(q)'
  BY DEF FirstFile, NoFile, Starts
<1>2. Receiving(p, q) => Receiving(p, q)'
  <2>1. Complete(p, q) => Complete(p, q)'
    BY DEF Complete, Begins
  <2>2. Named(p, q) => Named(p, q)'
    BY DEF Named
  <2>3. Coming(p, q) => Coming(p, q)'
    BY DEF Coming, Begins
  <2>4. GivenUp(p) => GivenUp(p)'
    BY DEF GivenUp
  <2>5. QED
    BY <2>1, <2>2, <2>3, <2>4 DEF Receiving
<1>3. Receiving(q, p) => Receiving(q, p)'
  <2>1. Complete(q, p) => Complete(q, p)'
    <3>1. worker[p] \in {"none", "cut"} => worker'[p] = worker[p]
      OBVIOUS
    <3>2. QED
      BY <3>1 DEF Complete, Begins
  <2>2. CASE at'[p] = "over" /\ at[p] # "over"
    <3>1. /\ open'[p] = FALSE /\ Mail(p)' # "file"
          /\ worker[p] = "none" => worker'[p] = "none"
          /\ worker[p] # "none" => worker'[p] = "cut"
      BY <2>2
    <3>2. Named(q, p) => Named(q, p)'
      BY <3>1 DEF Named
    <3>3. ASSUME Coming(q, p) PROVE Coming(q, p)'
      <4>1. Begins(content[q] \o tcp[q])
        BY <3>3, ComingBegins
      <4>2. CASE worker[p] = "none"
        BY <3>1, <3>3, <4>2 DEF Coming
      <4>3. CASE worker[p] # "none"
        <5>1. worker'[p] = "cut" /\ UNCHANGED <<content, tcp, saved>> /\ Begins(content[q] \o tcp[q])'
          BY <3>1, <4>1, <4>3 DEF Begins
        <5>2. QED
          BY <3>1, <3>3, <5>1 DEF Coming
      <4>4. QED
        BY <4>2, <4>3
    <3>4. GivenUp(q) => GivenUp(q)'
      BY DEF GivenUp
    <3>5. QED
      BY <2>1, <2>2, <3>2, <3>3, <3>4 DEF Receiving
  <2>3. CASE worker'[p] = worker[p] /\ open'[p] = open[p]
    <3>1. Named(q, p) => Named(q, p)'
      BY <2>3 DEF Named
    <3>2. Coming(q, p) => Coming(q, p)'
      BY <2>3 DEF Coming, Begins
    <3>3. GivenUp(q) => GivenUp(q)'
      BY DEF GivenUp
    <3>4. QED
      BY <2>1, <2>3, <3>1, <3>2, <3>3 DEF Receiving
  <2>4. QED
    <3>1. at[p] = "over" => open[p] = FALSE /\ worker[p] \in {"none", "cut"}
      BY DEF KeptBy
    <3>2. QED
      BY <2>2, <2>3, <3>1
<1>4. QED
  BY <1>1, <1>2, <1>3 DEF FirstFile

\* ... and sends one back.
LEMMA MailAnswered ==
  ASSUME ChatType, NEW p \in Peers, NEW q \in Peers, q # p, q = Other(p), TokenOf(p, q),
         udp[p] # <<>>, NEW d \in Words, udp' = Reply(p, d)
  PROVE  /\ udp' \in [Peers -> Seq(Words)]
         /\ Mail(p) # "nothing" /\ Mail(p) = Head(udp[p]) /\ Mail(q) = "nothing"
         /\ Mail(p)' = "nothing" /\ Len(udp'[p]) = 0 /\ Len(udp'[q]) <= 1
         /\ at[q] \notin {"bind", "over"} => Mail(q)' = d
         /\ at[q] \in {"bind", "over"} => Mail(q)' = "nothing"
<1>1. udp[p] \in Seq(Words) /\ udp[q] \in Seq(Words)
  BY DEF ChatType
<1>2. Tail(udp[p]) = <<>>
  BY <1>1, NoMoreMail DEF TokenOf
<1>3. Mail(p) # "nothing" /\ Mail(p) = Head(udp[p])
  BY <1>1, MailIs DEF Mail
<1>4. udp[q] = <<>> /\ Mail(q) = "nothing"
  BY <1>1, <1>3, MailIs DEF TokenOf
<1>5. <<>> \in Seq(Words) /\ Len(<<>>) = 0 /\ Append(<<>>, d) \in Seq(Words)
  OBVIOUS
<1>6. CASE at[q] \in {"bind", "over"}
  <2>1. udp' = [udp EXCEPT ![p] = <<>>, ![q] = <<>>]
    BY <1>2, <1>4, <1>6 DEF Reply, Listens
  <2>2. udp'[p] = <<>> /\ udp'[q] = <<>> /\ udp' \in [Peers -> Seq(Words)]
    BY <1>5, <2>1 DEF ChatType
  <2>3. QED
    BY <1>3, <1>4, <1>5, <1>6, <2>2 DEF Mail
<1>7. CASE at[q] \notin {"bind", "over"}
  <2>1. udp' = [udp EXCEPT ![p] = <<>>, ![q] = Append(<<>>, d)]
    BY <1>2, <1>4, <1>7 DEF Reply, Listens
  <2>2. udp'[p] = <<>> /\ udp'[q] = Append(<<>>, d) /\ udp' \in [Peers -> Seq(Words)]
    BY <1>5, <2>1 DEF ChatType
  <2>3. udp'[q] # <<>> /\ Len(udp'[q]) = 1 /\ Head(udp'[q]) = d
    BY <2>2, OneMore, Zenon
  <2>4. Mail(q)' = d /\ Mail(p)' = "nothing"
    BY <2>2, <2>3 DEF Mail
  <2>5. QED
    BY <1>3, <1>4, <1>5, <1>7, <2>2, <2>3, <2>4
<1>8. QED
  BY <1>6, <1>7

LEMMA FirstPart ==
  ASSUME NEW s \in Seq(Bytes), NEW n \in 1 .. Len(s)
  PROVE  IsPrefix([i \in 1 .. n |-> s[i]], s)
<1> DEFINE t == [i \in 1 .. n |-> s[i]]
<1>1. n \in Nat /\ n <= Len(s) /\ Len(s) \in Nat
  OBVIOUS
<1>2. t \in Seq(Bytes) /\ Len(t) = n
  BY <1>1
<1>3. \A i \in 1 .. n : t[i] = s[i]
  OBVIOUS
<1>4. SubSeq(t, 1, n) = SubSeq(s, 1, n)
  BY <1>1, <1>2, <1>3
<1>5. QED
  BY <1>1, <1>2, <1>4 DEF IsPrefix

LEMMA Assoc ==
  ASSUME NEW S, NEW s \in Seq(S), NEW t \in Seq(S), NEW u \in Seq(S)
  PROVE  s \o (t \o u) = (s \o t) \o u
<1>1. s \o (t \o u) \in Seq(S) /\ (s \o t) \o u \in Seq(S)
  OBVIOUS
<1>2. Len(s \o (t \o u)) = Len((s \o t) \o u)
  OBVIOUS
<1>3. \A i \in 1 .. Len(s \o (t \o u)) : (s \o (t \o u))[i] = ((s \o t) \o u)[i]
  OBVIOUS
<1>4. QED
  BY <1>1, <1>2, <1>3

LEMMA ReadSome ==
  ASSUME NEW c \in Seq(Bytes), NEW t \in Seq(Bytes), NEW n \in 1 .. Len(t)
  PROVE  /\ c \o SubSeq(t, 1, n) \in Seq(Bytes) /\ SubSeq(t, n + 1, Len(t)) \in Seq(Bytes)
         /\ (c \o SubSeq(t, 1, n)) \o SubSeq(t, n + 1, Len(t)) = c \o t
<1> DEFINE a == SubSeq(t, 1, n)
           b == SubSeq(t, n + 1, Len(t))
<1>1. a \in Seq(Bytes) /\ b \in Seq(Bytes)
  OBVIOUS
<1>2. /\ Len(a) = n /\ Len(b) = Len(t) - n
      /\ \A i \in 1 .. n : a[i] = t[i]
      /\ \A i \in 1 .. Len(t) - n : b[i] = t[i + n]
  OBVIOUS
<1> HIDE DEF a, b
<1>2a. a \o b = t
  <2>0. a \o b \in Seq(Bytes) /\ Len(a \o b) = Len(a) + Len(b)
    BY <1>1
  <2>1. a \o b \in Seq(Bytes) /\ Len(a \o b) = Len(t)
    BY <1>2, <2>0
  <2>2. ASSUME NEW i \in 1 .. Len(t) PROVE (a \o b)[i] = t[i]
    <3>1. CASE i <= n
      BY <1>1, <1>2, <3>1
    <3>2. CASE ~(i <= n)
      <4>1. i - n \in 1 .. Len(t) - n /\ (i - n) + n = i
        BY <3>2
      <4>2. (a \o b)[i] = b[i - n]
        BY <1>1, <1>2, <3>2
      <4>3. QED
        BY <1>2, <4>1, <4>2
    <3>3. QED
      BY <3>1, <3>2
  <2>3. QED
    BY <2>1, <2>2, SeqEqual
<1>3. (c \o a) \o b = c \o (a \o b)
  BY <1>1, Assoc
<1>4. c \o a \in Seq(Bytes)
  BY <1>1
<1>5. QED
  BY <1>1, <1>2a, <1>3, <1>4 DEF a, b

LEMMA AddOne ==
  ASSUME NEW c \in Seq(Bytes), NEW t \in Seq(Bytes), NEW x
  PROVE  x \in Bytes => c \o (t \o <<x>>) = (c \o t) \o <<x>>
<1> SUFFICES ASSUME x \in Bytes PROVE c \o (t \o <<x>>) = (c \o t) \o <<x>>
  OBVIOUS
<1> DEFINE u == <<x>>
<1>1. u \in Seq(Bytes)
  OBVIOUS
<1> HIDE DEF u
<1>2. c \o (t \o u) = (c \o t) \o u
  BY <1>1, Assoc
<1>3. QED
  BY <1>2 DEF u

LEMMA NextPart ==
  ASSUME NEW c \in Seq(Bytes), NEW t \in Seq(Bytes), NEW k \in 0 .. Parts, k # Parts,
         c \o t = SubSeq(Whole, 1, k)
  PROVE  /\ c \o (t \o <<Whole[k + 1]>>) = SubSeq(Whole, 1, k + 1)
         /\ k + 1 \in 0 .. Parts
<1>1. /\ Whole \in Seq(Bytes) /\ Parts = Len(Whole) /\ Parts \in Nat
      /\ k \in Nat /\ k + 1 \in 1 .. Parts
  BY WholeIs
<1>2. Whole[k + 1] \in Bytes
  BY <1>1
<1>3. c \o (t \o <<Whole[k + 1]>>) = (c \o t) \o <<Whole[k + 1]>>
  BY <1>2, AddOne, Zenon
<1>4. SubSeq(Whole, 1, k) \o <<Whole[k + 1]>> = SubSeq(Whole, 1, k + 1)
  BY <1>1
<1>5. QED
  BY <1>1, <1>3, <1>4

\* A step of the thread of p.
ThreadWorks(p, q) ==
  /\ version = "fina" /\ UNCHANGED <<version, udp, content, saved, lost, short, asked>>
  /\ worker[p] \in {"open", "ready", "parts"}
  /\ at'[q] = at[q] /\ worker'[q] = worker[q] /\ open'[q] = open[q]
  /\ missing' = missing \/ missing' = missing + 1
  /\ \/ at'[p] = at[p] /\ worker'[p] # "cut"
     \/ at'[p] = "over" /\ worker'[p] = "cut" /\ open'[p] = FALSE

LEMMA ThreadTurn ==
  ASSUME ChatType, NEW p \in Peers, NEW q \in Peers, p # q,
         TurnOf(p, q), TurnOf(q, p), ThreadWorks(p, q),
         worker'[p] # "none" => worker'[p] = "cut" \/ at'[p] # "over"
  PROVE  /\ at[p] \notin Starts \cup {"over"} /\ at[q] \notin Starts
         /\ Mail(p)' = Mail(p) /\ Mail(q)' = Mail(q)
         /\ TurnOf(p, q)' /\ TurnOf(q, p)' /\ BlockOf(p, q)' /\ BlockOf(q, p)'
<1>1. at[p] \notin Starts \cup {"over"}
  BY DEF TurnOf, KeptBy, ThreadWorks
<1>2. at[q] \notin Starts
  BY <1>1 DEF TurnOf, StartOf, ThreadWorks
<1>3. Mail(p)' = Mail(p) /\ Mail(q)' = Mail(q)
  BY DEF ThreadWorks, Mail
<1>4. KeptBy(p)' /\ KeptBy(q)'
  BY <1>1, <1>2 DEF TurnOf, KeptBy, ThreadWorks, Starts
<1>5. StartOf(p, q)' /\ StartOf(q, p)'
  BY <1>1, <1>2 DEF StartOf, ThreadWorks, Starts
<1>6. TokenOf(p, q)' /\ TokenOf(q, p)'
  BY <1>3 DEF TurnOf, TokenOf, ThreadWorks
<1>7. BlockOf(p, q)' /\ BlockOf(q, p)'
  BY DEF ThreadWorks, BlockOf
<1>8. QED
  BY <1>1, <1>2, <1>3, <1>4, <1>5, <1>6, <1>7 DEF TurnOf

LEMMA ThreadCalm ==
  ASSUME ChatType, NEW p \in Peers, NEW q \in Peers, p # q,
         CalmOf(p, q), ThreadWorks(p, q), Mail(p)' = Mail(p), Mail(q)' = Mail(q),
         worker'[p] = "none" /\ missing' = missing /\ asked <= 1 => at[q] # "name"
  PROVE  CalmOf(p, q)'
<1> SUFFICES ASSUME Calm(p, q)' PROVE CalmOf(p, q)'
  BY DEF CalmOf
<1>1. /\ lost = 0 /\ missing' = 0 /\ asked <= 1 /\ worker'[p] # "cut" /\ worker'[q] # "cut"
  BY DEF Calm, ThreadWorks
<1>2. missing' = missing
  BY <1>1 DEF ThreadWorks, ChatType
<1>3. Calm(p, q) /\ at'[p] = at[p]
  BY <1>1, <1>2 DEF Calm, ThreadWorks
<1>4. Provided(p, q) /\ Provided(q, p) /\ (Said(p, q) \/ Said(q, p))
  BY <1>3 DEF CalmOf
<1>5. Said(p, q)' \/ Said(q, p)'
  BY <1>3, <1>4 DEF Said, ThreadWorks
<1>6. Provided(p, q)' /\ Provided(q, p)'
  BY <1>1, <1>2, <1>3, <1>4 DEF Provided, ThreadWorks
<1>7. QED
  BY <1>5, <1>6 DEF CalmOf

\* The file its thread sends is on its way.
LEMMA ThreadFile ==
  ASSUME ChatType, NEW p \in Peers, NEW q \in Peers, p # q,
         FirstFile(p, q), ThreadWorks(p, q)
  PROVE  /\ asked # 0
         /\ asked = 1 => /\ Receiving(q, p)
                         /\ GivenUp(q) \/ Named(q, p) \/ Coming(q, p)
<1>1. worker[p] \notin {"none", "cut"} /\ version = "fina"
  BY DEF ThreadWorks
<1>2. asked # 0
  BY <1>1 DEF FirstFile, NoFile
<1>3. asked = 1 => Receiving(q, p)
  BY <1>1 DEF FirstFile, Receiving
<1>4. Receiving(q, p) => GivenUp(q) \/ Named(q, p) \/ Coming(q, p)
  BY <1>1 DEF Receiving, Complete
<1>5. QED
  BY <1>2, <1>3, <1>4

LEMMA ThreadGoesOn ==
  ASSUME ChatType, NEW p \in Peers, NEW q \in Peers, p # q,
         FirstFile(p, q), ThreadWorks(p, q), Mail(q)' = Mail(q), Mail(p)' = Mail(p),
         asked = 1 => GivenUp(q)' \/ Named(q, p)' \/ Coming(q, p)'
  PROVE  FirstFile(p, q)'
<1>1. CASE asked = 1
  <2>1. Receiving(q, p)
    BY <1>1, ThreadFile
  <2>2. Receiving(q, p)'
    BY <1>1, <2>1 DEF Receiving, ThreadWorks
  <2>3. QED
    BY <1>1, <2>2 DEF FirstFile, ThreadWorks
<1>2. CASE asked # 1
  BY <1>2, ThreadFile DEF FirstFile, ThreadWorks
<1>3. QED
  BY <1>1, <1>2
\* A write of the thread of p: it works, fails or ends the process.
Wrote(p, q, x, next) ==
  /\ at'[q] = at[q] /\ worker'[q] = worker[q] /\ open'[q] = open[q] /\ tcp'[p] = tcp[p]
  /\ at' \in [Peers -> Places] /\ worker' \in [Peers -> Jobs]
  /\ open' \in [Peers -> BOOLEAN] /\ tcp' \in [Peers -> Seq(Bytes)]
  /\ \/ /\ open[p] = TRUE /\ worker'[p] = next /\ UNCHANGED <<at, open>>
        /\ open[q] = TRUE => tcp'[q] = tcp[q] \o <<x>>
     \/ open[p] = FALSE /\ worker'[p] = "none" /\ UNCHANGED <<at, tcp, open>>
     \/ /\ open[p] = TRUE /\ open[q] = FALSE /\ UNCHANGED tcp
        /\ at'[p] = "over" /\ worker'[p] = "cut" /\ open'[p] = FALSE

LEMMA Written ==
  ASSUME ChatType, NEW p \in Peers, NEW q \in Peers, q # p, q = Other(p),
         NEW x \in Bytes, NEW next \in Jobs, worker[p] # "none", Write(p, <<x>>, next)
  PROVE  Wrote(p, q, x, next)
<1> USE DEF Wrote
<1>1. /\ open[p] \in BOOLEAN /\ open[q] \in BOOLEAN
      /\ at \in [Peers -> Places] /\ worker \in [Peers -> Jobs]
      /\ open \in [Peers -> BOOLEAN] /\ tcp \in [Peers -> Seq(Bytes)]
      /\ "none" \in Jobs
  BY DEF ChatType, Jobs
<1>2. CASE open[p] /\ Stream(q, <<x>>) /\ worker' = [worker EXCEPT ![p] = next] /\ UNCHANGED <<at, open>>
  <2>1. tcp[q] \o <<x>> \in Seq(Bytes)
    BY <1>1
  <2>2. tcp' = [tcp EXCEPT ![q] = IF open[q] THEN @ \o <<x>> ELSE @]
    BY <1>2 DEF Stream
  <2>3. tcp' \in [Peers -> Seq(Bytes)]
    <3>1. CASE open[q]
      BY <1>1, <2>1, <2>2, <3>1
    <3>2. CASE ~open[q]
      BY <1>1, <2>1, <2>2, <3>2
    <3>3. QED
      BY <3>1, <3>2
  <2>4. tcp'[p] = tcp[p] /\ (open[q] = TRUE => tcp'[q] = tcp[q] \o <<x>>)
    BY <1>1, <2>2
  <2>5. /\ worker' \in [Peers -> Jobs] /\ worker'[p] = next /\ worker'[q] = worker[q]
        /\ UNCHANGED <<at, open>>
    BY <1>1, <1>2
  <2>6. open[p] = TRUE
    BY <1>1, <1>2
  <2>7. QED
    BY <1>1, <2>3, <2>4, <2>5, <2>6
<1>3. CASE ~open[p] /\ worker' = [worker EXCEPT ![p] = "none"] /\ UNCHANGED <<at, tcp, open>>
  BY <1>1, <1>3
<1>4. CASE open[p] /\ ~open[q] /\ Over(p) /\ UNCHANGED tcp
  <2>1. /\ at' = [at EXCEPT ![p] = "over"] /\ worker' = [worker EXCEPT ![p] = "cut"]
        /\ open' = [open EXCEPT ![p] = FALSE]
    BY <1>4 DEF Over, Closed
  <2>2. at' \in [Peers -> Places] /\ worker' \in [Peers -> Jobs] /\ open' \in [Peers -> BOOLEAN]
    BY <1>4, OverType
  <2>3. /\ at'[p] = "over" /\ worker'[p] = "cut" /\ open'[p] = FALSE
        /\ at'[q] = at[q] /\ worker'[q] = worker[q] /\ open'[q] = open[q]
    BY <1>1, <2>1
  <2>4. QED
    BY <1>1, <1>4, <2>2, <2>3
<1>5. QED
  BY <1>2, <1>3, <1>4 DEF Write
-----------------------------------------------------------------------------

LEMMA TypeStep ==
  ASSUME ChatInv, NEW p \in Peers, NEW q \in Peers, q = Other(p), Type(p)
  PROVE  ChatInv'
<1>1. q # p /\ Other(q) = p /\ \A r \in Peers : r = p \/ r = q
  BY Pairs
<1>2. /\ ChatType
      /\ TurnOf(p, q) /\ TurnOf(q, p)
      /\ BlockOf(p, q) /\ BlockOf(q, p)
      /\ FirstFile(p, q) /\ CalmOf(p, q)
  BY PairOf DEF ChatInv, PairInv
<1>3. /\ UNCHANGED <<version, part, tcp, content, saved, missing, short>>
      /\ at[p] = "type" /\ at'[q] = at[q] /\ worker'[q] = worker[q] /\ open'[q] = open[q]
      /\ Mail(p)' = "nothing" /\ Len(udp'[p]) = 0 /\ Len(udp'[q]) <= 1
      /\ at[q] = "bind" => lost' # 0
      /\ at[q] # "bind" => lost' = lost
      /\ at'[p] \in {"over", "name", "recv"}
      /\ at'[p] = "over" =>
           /\ open'[p] = FALSE
           /\ worker[p] = "none" => worker'[p] = "none"
           /\ worker[p] # "none" => worker'[p] = "cut"
           /\ at[q] \notin {"bind", "over"} => Mail(q)' = "quit"
      /\ at'[p] # "over" => open'[p] = open[p] /\ worker'[p] = worker[p]
      /\ at'[p] = "recv" /\ at[q] \notin {"bind", "over"} => Mail(q)' = "text"
      /\ at'[p] = "name" /\ at[q] \notin {"bind", "over"} => Mail(q)' = "file"
      /\ at[q] \in {"bind", "over"} => Mail(q)' = "nothing"
      /\ at'[p] = "name" => asked' = asked + 1 /\ version # "udp"
      /\ at'[p] # "name" => asked' = asked
  <2>1. PICK word \in {"text", "quit", "file"} :
          /\ word = "file" => version # "udp"
          /\ Datagram(q, word)
          /\ \/ word = "quit" /\ Over(p)
             \/ word # "quit" /\ Goto(p, AfterWord(word)) /\ UNCHANGED <<worker, open>>
          /\ asked' = IF word = "file" THEN asked + 1 ELSE asked
    BY DEF Type
  <2>2. /\ at[p] = "type" /\ UNCHANGED <<version, part, tcp, content, saved, missing, short>>
        /\ lost' = IF at[q] = "bind" THEN lost + 1 ELSE lost
    BY DEF Type, received
  <2>3. /\ at \in [Peers -> Places] /\ worker \in [Peers -> Jobs] /\ open \in [Peers -> BOOLEAN]
        /\ udp \in [Peers -> Seq(Words)] /\ lost \in Nat
    BY <1>2 DEF ChatType
  <2>4. udp[p] = <<>> /\ udp[q] = <<>>
    BY <1>1, <1>2, <2>2, <2>3, MailIs DEF TurnOf, TokenOf
  <2>5. /\ IF word = "quit"
           THEN /\ at'[p] = "over" /\ open'[p] = FALSE
                /\ worker'[p] = IF worker[p] = "none" THEN "none" ELSE "cut"
           ELSE /\ at'[p] = AfterWord(word) /\ worker'[p] = worker[p] /\ open'[p] = open[p]
        /\ at'[q] = at[q] /\ worker'[q] = worker[q] /\ open'[q] = open[q]
    BY <1>1, <2>1, <2>3 DEF Over, Closed, Goto
  <2>6. word \in Words
    BY DEF Words
  <2>7. /\ udp'[p] = <<>>
        /\ IF at[q] \in {"bind", "over"} THEN udp'[q] = <<>>
           ELSE udp'[q] # <<>> /\ Len(udp'[q]) = 1 /\ Head(udp'[q]) = word
    <3>1. /\ udp'[p] = <<>>
          /\ udp'[q] = IF at[q] \in {"bind", "over"} THEN <<>> ELSE Append(<<>>, word)
      BY <1>1, <2>1, <2>3, <2>4 DEF Datagram, Listens
    <3>2. CASE at[q] \in {"bind", "over"}
      BY <3>1, <3>2
    <3>3. CASE at[q] \notin {"bind", "over"}
      <4>1. udp'[q] = Append(<<>>, word)
        BY <3>1, <3>3
      <4>2. udp'[q] # <<>> /\ Len(udp'[q]) = 1 /\ Head(udp'[q]) = word
        BY <4>1, OneMore, Zenon
      <4>3. QED
        BY <3>1, <3>3, <4>2
    <3>4. QED
      BY <3>2, <3>3
  <2>8. /\ Mail(p)' = "nothing" /\ Len(udp'[p]) = 0 /\ Len(udp'[q]) <= 1
        /\ IF at[q] \in {"bind", "over"} THEN Mail(q)' = "nothing" ELSE Mail(q)' = word
    <3>1. Len(<<>>) = 0
      OBVIOUS
    <3>2. Mail(p)' = "nothing" /\ Len(udp'[p]) = 0
      BY <2>7, <3>1 DEF Mail
    <3>3. CASE at[q] \in {"bind", "over"}
      BY <2>7, <3>1, <3>2, <3>3 DEF Mail
    <3>4. CASE at[q] \notin {"bind", "over"}
      <4>1. udp'[q] # <<>> /\ Len(udp'[q]) = 1 /\ Head(udp'[q]) = word
        BY <2>7, <3>4
      <4>2. Mail(q)' = word
        BY <4>1 DEF Mail
      <4>3. QED
        BY <3>2, <3>4, <4>1, <4>2
    <3>5. QED
      BY <3>3, <3>4
  <2>9. lost + 1 # 0
    BY <2>3
  <2>10. QED
    <3>1. CASE word = "text"
      <4>1. at'[p] = "recv" /\ open'[p] = open[p] /\ worker'[p] = worker[p] /\ asked' = asked
        BY <2>1, <2>5, <3>1 DEF AfterWord
      <4>2. QED
        BY <2>2, <2>5, <2>8, <2>9, <3>1, <4>1
    <3>2. CASE word = "quit"
      <4>1. at'[p] = "over" /\ asked' = asked
        BY <2>1, <2>5, <3>2
      <4>2. QED
        BY <2>2, <2>5, <2>8, <2>9, <3>2, <4>1
    <3>3. CASE word = "file"
      <4>1. /\ at'[p] = "name" /\ open'[p] = open[p] /\ worker'[p] = worker[p]
            /\ asked' = asked + 1 /\ version # "udp"
        BY <2>1, <2>5, <3>3 DEF AfterWord
      <4>2. QED
        BY <2>2, <2>5, <2>8, <2>9, <3>3, <4>1
    <3>4. QED
      BY <3>1, <3>2, <3>3
<1>4. ChatType'
  <2>1. PICK word \in Words :
          /\ Datagram(q, word)
          /\ Over(p) \/ (Goto(p, AfterWord(word)) /\ UNCHANGED <<worker, open>>)
          /\ asked' = asked \/ asked' = asked + 1
    BY DEF Type, Words
  <2>2. /\ at' \in [Peers -> Places] /\ worker' \in [Peers -> Jobs] /\ open' \in [Peers -> BOOLEAN]
    BY <1>2, <2>1, OverType DEF ChatType, Goto, AfterWord, Places
  <2>3. udp' \in [Peers -> Seq(Words)]
    BY <1>1, <1>2, <2>1, DatagramType
  <2>4. asked' \in Nat /\ lost' \in Nat
    BY <1>2, <2>1 DEF ChatType, Type
  <2>5. QED
    BY <1>2, <1>3, <2>2, <2>3, <2>4 DEF ChatType
<1>5. TurnOf(p, q)' /\ TurnOf(q, p)'
  BY <1>1, <1>2, <1>3 DEF TurnOf, KeptBy, StartOf, TokenOf, Starts
<1>6. BlockOf(p, q)' /\ BlockOf(q, p)'
  BY <1>1, <1>2, <1>3 DEF TurnOf, StartOf, TokenOf, KeptBy, BlockOf, Starts
<1>7. FirstFile(p, q)'
  <2> USE DEF TurnOf, StartOf, TokenOf, KeptBy, NoFile, Starts
  <2> SUFFICES ASSUME version = "fina" PROVE FirstFile(p, q)'
    BY <1>3 DEF FirstFile
  <2>0. asked \in Nat
    BY <1>2 DEF ChatType
  <2>1. CASE at'[p] # "name"
    <3>1. KeptBy(p) /\ KeptBy(q)
      BY <1>2 DEF TurnOf
    <3>2. asked' = asked /\ Mail(p)' # "file" /\ (Mail(q)' # "file" \/ Mail(q)' = Mail(q))
      BY <1>3, <2>1
    <3>3. QED
      BY <1>2, <1>3, <2>1, <3>1, <3>2, OnlyTalk
  <2>3. CASE at'[p] = "name" /\ asked = 0
    <3>1. Receiving(p, q)' /\ asked' = 1
      BY <1>2, <1>3, <2>3 DEF FirstFile, Receiving, Named
    <3>2. QED
      BY <3>1 DEF FirstFile
  <2>4. CASE at'[p] = "name" /\ asked # 0
    BY <1>3, <2>0, <2>4 DEF FirstFile
  <2>5. QED
    BY <2>1, <2>3, <2>4
<1>8. CalmOf(p, q)'
  <2> USE DEF TurnOf, StartOf, TokenOf, KeptBy, Starts
  <2> SUFFICES ASSUME Calm(p, q)' PROVE CalmOf(p, q)'
    BY DEF CalmOf
  <2>1. Calm(p, q) /\ at[q] # "bind"
    BY <1>2, <1>3 DEF Calm, ChatType
  <2>2. Provided(p, q) /\ Provided(q, p) /\ (Said(p, q) \/ Said(q, p))
    BY <1>2, <2>1 DEF CalmOf
  <2>3. at[q] \in Waits
    BY <1>2, <1>3, <2>1, <2>2 DEF Said, Waits
  <2>4. Said(p, q)'
    <3>1. CASE at'[p] = "over"
      BY <1>3, <2>3, <3>1 DEF Said, Waits
    <3>2. CASE at'[p] = "recv"
      BY <1>3, <2>3, <3>2 DEF Said, Waits
    <3>3. CASE at'[p] = "name"
      <4>1. at[q] # "name"
        <5>1. CASE version = "fina"
          <6>1. asked = 0
            BY <1>2, <1>3, <2>1, <3>3, <5>1 DEF Calm, ChatType
          <6>2. QED
            BY <1>2, <5>1, <6>1 DEF FirstFile, NoFile
        <5>2. CASE version = "serve"
          BY <1>2, <1>3, <2>2, <5>2 DEF Provided
        <5>3. QED
          BY <1>2, <1>3, <3>3, <5>1, <5>2, VersionIs
      <4>2. QED
        BY <1>3, <2>3, <3>3, <4>1 DEF Said, Waits
    <3>4. QED
      BY <1>3, <3>1, <3>2, <3>3
  <2>5. Provided(p, q)'
    BY <1>2, <1>3, <2>2, <2>3 DEF Provided, Waits
  <2>5a. Provided(q, p)'
    <3>1. CASE version = "serve"
      BY <1>2, <1>3, <2>2, <2>3, <3>1 DEF Provided, Waits
    <3>2. CASE version = "fina"
      <4>1. worker[p] # "none" => worker'[p] # "none"
        BY <1>3, <2>1
      <4>2. QED
        BY <1>2, <1>3, <2>2, <2>3, <3>2, <4>1 DEF Provided, Waits
    <3>3. CASE version \notin {"serve", "fina"}
      BY <1>3, <3>3 DEF Provided
    <3>4. QED
      BY <3>1, <3>2, <3>3
  <2>6. QED
    BY <2>4, <2>5, <2>5a DEF CalmOf
<1>9. PairInv(p, q)'
  BY <1>5, <1>6, <1>7, <1>8 DEF PairInv
<1>10. QED
  BY <1>4, <1>9, PairOf DEF ChatInv

LEMMA HearTextStep ==
  ASSUME ChatInv, NEW p \in Peers, NEW q \in Peers, q = Other(p), HearText(p)
  PROVE  ChatInv'
<1>1. q # p /\ Other(q) = p /\ \A r \in Peers : r = p \/ r = q
  BY Pairs
<1>2. /\ ChatType
      /\ TurnOf(p, q) /\ TurnOf(q, p)
      /\ BlockOf(p, q) /\ BlockOf(q, p)
      /\ FirstFile(p, q) /\ CalmOf(p, q)
  BY PairOf DEF ChatInv, PairInv
<1>3. /\ UNCHANGED <<version, part, tcp, content, saved, short, asked>>
      /\ Mail(p) # "nothing" /\ Mail(p)' = "nothing" /\ Mail(q) = "nothing" /\ Mail(q)' = "nothing"
      /\ Len(udp'[p]) = 0 /\ Len(udp'[q]) = 0
      /\ at'[q] = at[q] /\ worker'[q] = worker[q] /\ open'[q] = open[q]
      /\ Mail(p) \notin {"quit", "file"} /\ at[p] = "recv" /\ at'[p] = "type"
      /\ UNCHANGED <<worker, open, lost, missing>>
  <2>1. udp[p] # <<>> /\ udp' = [udp EXCEPT ![p] = Tail(@)]
    BY DEF HearText
  <2>2. TokenOf(p, q)
    BY <1>2 DEF TurnOf
  <2>3. /\ Mail(p) # "nothing" /\ Mail(p) = Head(udp[p]) /\ Mail(q) = "nothing"
        /\ Mail(p)' = "nothing" /\ Mail(q)' = "nothing"
        /\ Len(udp'[p]) = 0 /\ Len(udp'[q]) = 0
    BY <1>1, <1>2, <2>1, <2>2, MailTaken
  <2>4. QED
    BY <1>1, <1>2, <2>3 DEF HearText, ChatType, Goto, Over, Closed, received, history
<1>4. ChatType'
  <2>1. udp' \in [Peers -> Seq(Words)]
    BY <1>1, <1>2, MailTaken DEF HearText, TurnOf
  <2>2. at' \in [Peers -> Places] /\ worker' \in [Peers -> Jobs] /\ open' \in [Peers -> BOOLEAN]
    BY <1>2, OverType DEF HearText, ChatType, Goto, Places, Jobs
  <2>3. lost' \in Nat /\ missing' \in Nat
    BY <1>2 DEF HearText, ChatType, history
  <2>4. QED
    BY <1>2, <1>3, <2>1, <2>2, <2>3 DEF ChatType
<1>5. TurnOf(p, q)' /\ TurnOf(q, p)'
  BY <1>1, <1>2, <1>3 DEF TurnOf, KeptBy, StartOf, TokenOf, Starts
<1>6. BlockOf(p, q)' /\ BlockOf(q, p)'
  BY <1>1, <1>2, <1>3 DEF TurnOf, StartOf, TokenOf, KeptBy, BlockOf, Starts
<1>7. FirstFile(p, q)'
  <2>1. KeptBy(p) /\ KeptBy(q) /\ FirstFile(p, q)
    BY <1>2 DEF TurnOf
  <2>2. CASE version = "fina"
    BY <1>2, <1>3, <2>1, <2>2, OnlyTalk
  <2>3. CASE version # "fina"
    BY <1>3, <2>3 DEF FirstFile
  <2>4. QED
    BY <2>2, <2>3
<1>8. CalmOf(p, q)'
  BY <1>1, <1>2, <1>3 DEF TurnOf, StartOf, TokenOf, KeptBy, Calm, CalmOf, Said, Provided, Starts, Waits
<1>9. PairInv(p, q)'
  BY <1>5, <1>6, <1>7, <1>8 DEF PairInv
<1>10. QED
  BY <1>4, <1>9, PairOf DEF ChatInv

LEMMA HearQuitStep ==
  ASSUME ChatInv, NEW p \in Peers, NEW q \in Peers, q = Other(p), HearQuit(p)
  PROVE  ChatInv'
<1>1. q # p /\ Other(q) = p /\ \A r \in Peers : r = p \/ r = q
  BY Pairs
<1>2. /\ ChatType
      /\ TurnOf(p, q) /\ TurnOf(q, p)
      /\ BlockOf(p, q) /\ BlockOf(q, p)
      /\ FirstFile(p, q) /\ CalmOf(p, q)
  BY PairOf DEF ChatInv, PairInv
<1>3. /\ UNCHANGED <<version, part, tcp, content, saved, short, asked>>
      /\ Mail(p) # "nothing" /\ Mail(p)' = "nothing" /\ Mail(q) = "nothing" /\ Mail(q)' = "nothing"
      /\ Len(udp'[p]) = 0 /\ Len(udp'[q]) = 0
      /\ at'[q] = at[q] /\ worker'[q] = worker[q] /\ open'[q] = open[q]
      /\ Mail(p) = "quit" /\ at[p] = "recv" /\ at'[p] = "over" /\ open'[p] = FALSE
      /\ worker[p] = "none" => worker'[p] = "none"
      /\ worker[p] # "none" => worker'[p] = "cut"
      /\ UNCHANGED <<lost, missing>>
  <2>1. udp[p] # <<>> /\ udp' = [udp EXCEPT ![p] = Tail(@)]
    BY DEF HearQuit
  <2>2. TokenOf(p, q)
    BY <1>2 DEF TurnOf
  <2>3. /\ Mail(p) # "nothing" /\ Mail(p) = Head(udp[p]) /\ Mail(q) = "nothing"
        /\ Mail(p)' = "nothing" /\ Mail(q)' = "nothing"
        /\ Len(udp'[p]) = 0 /\ Len(udp'[q]) = 0
    BY <1>1, <1>2, <2>1, <2>2, MailTaken
  <2>4. QED
    BY <1>1, <1>2, <2>3 DEF HearQuit, ChatType, Goto, Over, Closed, received, history
<1>4. ChatType'
  <2>1. udp' \in [Peers -> Seq(Words)]
    BY <1>1, <1>2, MailTaken DEF HearQuit, TurnOf
  <2>2. at' \in [Peers -> Places] /\ worker' \in [Peers -> Jobs] /\ open' \in [Peers -> BOOLEAN]
    BY <1>2, OverType DEF HearQuit, ChatType, Goto, Places, Jobs
  <2>3. lost' \in Nat /\ missing' \in Nat
    BY <1>2 DEF HearQuit, ChatType, history
  <2>4. QED
    BY <1>2, <1>3, <2>1, <2>2, <2>3 DEF ChatType
<1>5. TurnOf(p, q)' /\ TurnOf(q, p)'
  BY <1>1, <1>2, <1>3 DEF TurnOf, KeptBy, StartOf, TokenOf, Starts
<1>6. BlockOf(p, q)' /\ BlockOf(q, p)'
  BY <1>1, <1>2, <1>3 DEF TurnOf, StartOf, TokenOf, KeptBy, BlockOf, Starts
<1>7. FirstFile(p, q)'
  <2>1. KeptBy(p) /\ KeptBy(q) /\ FirstFile(p, q)
    BY <1>2 DEF TurnOf
  <2>2. CASE version = "fina"
    BY <1>2, <1>3, <2>1, <2>2, OnlyTalk
  <2>3. CASE version # "fina"
    BY <1>3, <2>3 DEF FirstFile
  <2>4. QED
    BY <2>2, <2>3
<1>8. CalmOf(p, q)'
  BY <1>1, <1>2, <1>3 DEF TurnOf, StartOf, TokenOf, KeptBy, Calm, CalmOf, Said, Provided, Starts, Waits
<1>9. PairInv(p, q)'
  BY <1>5, <1>6, <1>7, <1>8 DEF PairInv
<1>10. QED
  BY <1>4, <1>9, PairOf DEF ChatInv

LEMMA StartThreadStep ==
  ASSUME ChatInv, NEW p \in Peers, NEW q \in Peers, q = Other(p), StartThread(p)
  PROVE  ChatInv'
<1>1. q # p /\ Other(q) = p /\ \A r \in Peers : r = p \/ r = q
  BY Pairs
<1>2. /\ ChatType
      /\ TurnOf(p, q) /\ TurnOf(q, p)
      /\ BlockOf(p, q) /\ BlockOf(q, p)
      /\ FirstFile(p, q) /\ CalmOf(p, q)
  BY PairOf DEF ChatInv, PairInv
<1>3. /\ UNCHANGED <<version, part, tcp, content, saved, short, asked>>
      /\ Mail(p) # "nothing" /\ Mail(p)' = "nothing" /\ Mail(q) = "nothing" /\ Mail(q)' = "nothing"
      /\ Len(udp'[p]) = 0 /\ Len(udp'[q]) = 0
      /\ at'[q] = at[q] /\ worker'[q] = worker[q] /\ open'[q] = open[q]
      /\ version = "fina" /\ Mail(p) = "file" /\ at[p] = "recv" /\ at'[p] = "type"
      /\ worker'[p] = "open"
      /\ UNCHANGED <<open, lost, missing>>
  <2>1. udp[p] # <<>> /\ udp' = [udp EXCEPT ![p] = Tail(@)]
    BY DEF StartThread
  <2>2. TokenOf(p, q)
    BY <1>2 DEF TurnOf
  <2>3. /\ Mail(p) # "nothing" /\ Mail(p) = Head(udp[p]) /\ Mail(q) = "nothing"
        /\ Mail(p)' = "nothing" /\ Mail(q)' = "nothing"
        /\ Len(udp'[p]) = 0 /\ Len(udp'[q]) = 0
    BY <1>1, <1>2, <2>1, <2>2, MailTaken
  <2>4. QED
    BY <1>1, <1>2, <2>3 DEF StartThread, ChatType, Goto, Over, Closed, received, history
<1>4. ChatType'
  <2>1. udp' \in [Peers -> Seq(Words)]
    BY <1>1, <1>2, MailTaken DEF StartThread, TurnOf
  <2>2. at' \in [Peers -> Places] /\ worker' \in [Peers -> Jobs] /\ open' \in [Peers -> BOOLEAN]
    BY <1>2, OverType DEF StartThread, ChatType, Goto, Places, Jobs
  <2>3. lost' \in Nat /\ missing' \in Nat
    BY <1>2 DEF StartThread, ChatType, history
  <2>4. QED
    BY <1>2, <1>3, <2>1, <2>2, <2>3 DEF ChatType
<1>5. TurnOf(p, q)' /\ TurnOf(q, p)'
  BY <1>1, <1>2, <1>3 DEF TurnOf, KeptBy, StartOf, TokenOf, Starts
<1>6. BlockOf(p, q)' /\ BlockOf(q, p)'
  BY <1>1, <1>2, <1>3 DEF TurnOf, StartOf, TokenOf, KeptBy, BlockOf, Starts
<1>7. FirstFile(p, q)'
  BY <1>1, <1>2, <1>3 DEF TurnOf, StartOf, TokenOf, KeptBy, FirstFile, NoFile, Receiving, GivenUp,
     Named, Coming, Complete, Starts
<1>8. CalmOf(p, q)'
  BY <1>1, <1>2, <1>3 DEF TurnOf, StartOf, TokenOf, KeptBy, Calm, CalmOf, Said, Provided, Starts, Waits
<1>9. PairInv(p, q)'
  BY <1>5, <1>6, <1>7, <1>8 DEF PairInv
<1>10. QED
  BY <1>4, <1>9, PairOf DEF ChatInv

LEMMA LoseStep ==
  ASSUME ChatInv, NEW p \in Peers, NEW q \in Peers, q = Other(p), Lose(p)
  PROVE  ChatInv'
<1>1. q # p /\ Other(q) = p /\ \A r \in Peers : r = p \/ r = q
  BY Pairs
<1>2. /\ ChatType
      /\ TurnOf(p, q) /\ TurnOf(q, p)
      /\ BlockOf(p, q) /\ BlockOf(q, p)
      /\ FirstFile(p, q) /\ CalmOf(p, q)
  BY PairOf DEF ChatInv, PairInv
<1>3. /\ UNCHANGED <<version, part, tcp, content, saved, short, asked>>
      /\ Mail(p) # "nothing" /\ Mail(p)' = "nothing" /\ Mail(q) = "nothing" /\ Mail(q)' = "nothing"
      /\ Len(udp'[p]) = 0 /\ Len(udp'[q]) = 0
      /\ at'[q] = at[q] /\ worker'[q] = worker[q] /\ open'[q] = open[q]
      /\ lost' = lost + 1
      /\ UNCHANGED <<at, worker, open, missing>>
  <2>1. udp[p] # <<>> /\ udp' = [udp EXCEPT ![p] = Tail(@)]
    BY DEF Lose
  <2>2. TokenOf(p, q)
    BY <1>2 DEF TurnOf
  <2>3. /\ Mail(p) # "nothing" /\ Mail(p) = Head(udp[p]) /\ Mail(q) = "nothing"
        /\ Mail(p)' = "nothing" /\ Mail(q)' = "nothing"
        /\ Len(udp'[p]) = 0 /\ Len(udp'[q]) = 0
    BY <1>1, <1>2, <2>1, <2>2, MailTaken
  <2>4. QED
    BY <1>1, <1>2, <2>3 DEF Lose, ChatType, Goto, Over, Closed, received, history
<1>4. ChatType'
  <2>1. udp' \in [Peers -> Seq(Words)]
    BY <1>1, <1>2, MailTaken DEF Lose, TurnOf
  <2>2. at' \in [Peers -> Places] /\ worker' \in [Peers -> Jobs] /\ open' \in [Peers -> BOOLEAN]
    BY <1>2, OverType DEF Lose, ChatType, Goto, Places, Jobs
  <2>3. lost' \in Nat /\ missing' \in Nat
    BY <1>2 DEF Lose, ChatType, history
  <2>4. QED
    BY <1>2, <1>3, <2>1, <2>2, <2>3 DEF ChatType
<1>5. TurnOf(p, q)' /\ TurnOf(q, p)'
  BY <1>1, <1>2, <1>3 DEF TurnOf, KeptBy, StartOf, TokenOf, Starts
<1>6. BlockOf(p, q)' /\ BlockOf(q, p)'
  BY <1>1, <1>2, <1>3 DEF TurnOf, StartOf, TokenOf, KeptBy, BlockOf, Starts
<1>7. FirstFile(p, q)'
  <2>1. KeptBy(p) /\ KeptBy(q) /\ FirstFile(p, q)
    BY <1>2 DEF TurnOf
  <2>2. CASE version = "fina"
    BY <1>2, <1>3, <2>1, <2>2, OnlyTalk
  <2>3. CASE version # "fina"
    BY <1>3, <2>3 DEF FirstFile
  <2>4. QED
    BY <2>2, <2>3
<1>8. CalmOf(p, q)'
  BY <1>2, <1>3 DEF CalmOf, Calm, ChatType
<1>9. PairInv(p, q)'
  BY <1>5, <1>6, <1>7, <1>8 DEF PairInv
<1>10. QED
  BY <1>4, <1>9, PairOf DEF ChatInv

LEMMA OfferNameStep ==
  ASSUME ChatInv, NEW p \in Peers, NEW q \in Peers, q = Other(p), OfferName(p)
  PROVE  ChatInv'
<1>1. q # p /\ Other(q) = p /\ \A r \in Peers : r = p \/ r = q
  BY Pairs
<1>2. /\ ChatType
      /\ TurnOf(p, q) /\ TurnOf(q, p)
      /\ BlockOf(p, q) /\ BlockOf(q, p)
      /\ FirstFile(p, q) /\ CalmOf(p, q)
  BY PairOf DEF ChatInv, PairInv
<1>3. /\ UNCHANGED <<version, part, worker, tcp, open, content, saved, lost, short, asked>>
      /\ version = "serve" /\ Mail(p) = "file" /\ Mail(q) = "nothing" /\ Mail(p)' = "nothing"
      /\ Len(udp'[p]) = 0 /\ Len(udp'[q]) <= 1
      /\ at[p] = "recv" /\ at'[q] = at[q]
      /\ \/ /\ at'[p] = "offer" /\ missing' = missing
            /\ at[q] \notin {"bind", "over"} => Mail(q)' = "name"
            /\ at[q] \in {"bind", "over"} => Mail(q)' = "nothing"
         \/ at'[p] = "type" /\ missing' = missing + 1 /\ Mail(q)' = "nothing"
  <2>1. /\ udp[p] # <<>> /\ Head(udp[p]) = "file" /\ "name" \in Words
        /\ UNCHANGED <<version, part, worker, tcp, open, content, saved, lost, short, asked>>
        /\ version = "serve" /\ at[p] = "recv"
    BY DEF OfferName, received, Words
  <2>2. TokenOf(p, q)
    BY <1>2 DEF TurnOf
  <2>3. CASE udp' = Reply(p, "name") /\ Goto(p, "offer") /\ UNCHANGED missing
    <3>1. at'[p] = "offer" /\ at'[q] = at[q]
      BY <1>1, <1>2, <2>3 DEF Goto, ChatType
    <3>2. QED
      BY <1>1, <1>2, <2>1, <2>2, <2>3, <3>1, MailAnswered
  <2>4. CASE /\ missing' = missing + 1
             /\ udp' = [udp EXCEPT ![p] = Tail(@)]
             /\ Goto(p, "type")
    <3>1. at'[p] = "type" /\ at'[q] = at[q]
      BY <1>1, <1>2, <2>4 DEF Goto, ChatType
    <3>2. /\ Mail(p) # "nothing" /\ Mail(p) = Head(udp[p]) /\ Mail(q) = "nothing"
          /\ Mail(p)' = "nothing" /\ Mail(q)' = "nothing"
          /\ Len(udp'[p]) = 0 /\ Len(udp'[q]) = 0
      BY <1>1, <1>2, <2>1, <2>2, <2>4, MailTaken
    <3>3. QED
      BY <2>1, <2>4, <3>1, <3>2
  <2>5. QED
    BY <2>3, <2>4 DEF OfferName
<1>4. ChatType'
  <2>1. udp' \in [Peers -> Seq(Words)]
    <3>1. "name" \in Words /\ TokenOf(p, q) /\ udp[p] # <<>>
      BY <1>2 DEF OfferName, Words, TurnOf
    <3>2. udp' = Reply(p, "name") \/ udp' = [udp EXCEPT ![p] = Tail(@)]
      BY DEF OfferName
    <3>3. QED
      BY <1>1, <1>2, <3>1, <3>2, MailTaken, MailAnswered
  <2>2. at' \in [Peers -> Places] /\ missing' \in Nat
    <3>1. \E l \in {"offer", "type"} : at' = [at EXCEPT ![p] = l]
      BY DEF OfferName, Goto
    <3>2. at' \in [Peers -> Places]
      BY <1>2, <3>1 DEF ChatType, Places
    <3>3. missing' = missing \/ missing' = missing + 1
      BY <1>3
    <3>4. QED
      BY <1>2, <3>2, <3>3 DEF ChatType
  <2>3. QED
    BY <1>2, <1>3, <2>1, <2>2 DEF ChatType
<1>5. TurnOf(p, q)' /\ TurnOf(q, p)'
  BY <1>1, <1>2, <1>3 DEF TurnOf, KeptBy, StartOf, TokenOf, Starts
<1>6. BlockOf(p, q)' /\ BlockOf(q, p)'
  BY <1>1, <1>2, <1>3 DEF TurnOf, StartOf, TokenOf, KeptBy, BlockOf, Starts
<1>7. FirstFile(p, q)'
  BY <1>3 DEF FirstFile
<1>8. CalmOf(p, q)'
  <2> USE DEF TurnOf, TokenOf, KeptBy, Starts
  <2> SUFFICES ASSUME Calm(p, q)' PROVE CalmOf(p, q)'
    BY DEF CalmOf
  <2>1. missing' = missing /\ at'[p] = "offer" /\ Calm(p, q)
    BY <1>2, <1>3 DEF Calm, ChatType
  <2>2. Provided(p, q) /\ Provided(q, p) /\ (Said(p, q) \/ Said(q, p))
    BY <1>2, <2>1 DEF CalmOf
  <2>3. at[q] = "name"
    BY <1>2, <1>3, <2>2 DEF Said, Waits
  <2>4. Said(q, p)'
    BY <1>3, <2>1, <2>3 DEF Said
  <2>5. Provided(p, q)' /\ Provided(q, p)'
    BY <1>3, <2>1, <2>2, <2>3 DEF Provided
  <2>6. QED
    BY <2>4, <2>5 DEF CalmOf
<1>9. PairInv(p, q)'
  BY <1>5, <1>6, <1>7, <1>8 DEF PairInv
<1>10. QED
  BY <1>4, <1>9, PairOf DEF ChatInv

LEMMA NameByDatagramStep ==
  ASSUME ChatInv, NEW p \in Peers, NEW q \in Peers, q = Other(p), NameByDatagram(p)
  PROVE  ChatInv'
<1>1. q # p /\ Other(q) = p /\ \A r \in Peers : r = p \/ r = q
  BY Pairs
<1>2. /\ ChatType
      /\ TurnOf(p, q) /\ TurnOf(q, p)
      /\ BlockOf(p, q) /\ BlockOf(q, p)
      /\ FirstFile(p, q) /\ CalmOf(p, q)
  BY PairOf DEF ChatInv, PairInv
<1>3. /\ UNCHANGED <<version, part, worker, tcp, lost, short, asked>>
      /\ version = "serve" /\ Mail(p) # "nothing" /\ Mail(q) = "nothing"
      /\ Len(udp'[p]) <= 1 /\ Len(udp'[q]) <= 1
      /\ at[p] = "name" /\ at'[q] = at[q] /\ open'[q] = open[q]
      /\ saved'[p] = FALSE /\ saved'[q] = saved[q] /\ content'[q] = content[q]
      /\ \/ /\ at'[p] = "content" /\ UNCHANGED <<open, missing>> /\ Mail(p)' = "nothing"
            /\ at[q] \notin {"bind", "over"} => Mail(q)' = "ready"
            /\ at[q] \in {"bind", "over"} => Mail(q)' = "nothing"
         \/ /\ at'[p] = "over" /\ open'[p] = FALSE /\ missing' = missing + 1
            /\ Mail(p)' = Mail(p) /\ Mail(q)' = Mail(q)
  <2>1. /\ udp[p] # <<>> /\ "ready" \in Words
        /\ UNCHANGED <<version, part, tcp, lost, short, asked>>
        /\ version = "serve" /\ at[p] = "name"
        /\ saved' = [saved EXCEPT ![p] = FALSE] /\ content' = [content EXCEPT ![p] = <<>>]
    BY DEF NameByDatagram, NewFile, Words
  <2>2. TokenOf(p, q) /\ worker[p] = "none" /\ worker[q] = "none"
    BY <1>2, <2>1 DEF TurnOf, KeptBy
  <2>3. saved'[p] = FALSE /\ saved'[q] = saved[q] /\ content'[q] = content[q]
    BY <1>1, <1>2, <2>1 DEF ChatType
  <2>4. CASE udp' = Reply(p, "ready") /\ Goto(p, "content") /\ UNCHANGED <<worker, open, missing>>
    <3>1. at'[p] = "content" /\ at'[q] = at[q]
      BY <1>1, <1>2, <2>4 DEF Goto, ChatType
    <3>2. /\ Mail(p) # "nothing" /\ Mail(q) = "nothing" /\ Mail(p)' = "nothing"
          /\ Len(udp'[p]) = 0 /\ Len(udp'[q]) <= 1
          /\ at[q] \notin {"bind", "over"} => Mail(q)' = "ready"
          /\ at[q] \in {"bind", "over"} => Mail(q)' = "nothing"
      BY <1>1, <1>2, <2>1, <2>2, <2>4, MailAnswered
    <3>3. Len(udp'[p]) <= 1
      BY <3>2
    <3>4. open'[q] = open[q]
      BY <2>4
    <3>5. QED
      BY <2>1, <2>3, <2>4, <3>1, <3>2, <3>3, <3>4
  <2>5. CASE Over(p) /\ missing' = missing + 1 /\ UNCHANGED udp
    <3>1. /\ at'[p] = "over" /\ at'[q] = at[q] /\ open'[p] = FALSE /\ open'[q] = open[q]
      BY <1>1, <1>2, <2>5 DEF Over, Closed, ChatType
    <3>2. worker' = worker
      <4>1. worker' = [worker EXCEPT ![p] = "none"] /\ worker[p] = "none"
        BY <2>2, <2>5 DEF Over
      <4>2. QED
        BY <1>2, <4>1 DEF ChatType
    <3>3. Mail(p)' = Mail(p) /\ Mail(q)' = Mail(q)
      BY <2>5 DEF Mail
    <3>4. Mail(p) # "nothing" /\ Mail(q) = "nothing" /\ Len(udp[p]) <= 1 /\ Len(udp[q]) <= 1
      BY <1>2, <2>1, MailIs DEF TurnOf, TokenOf, ChatType
    <3>5. QED
      BY <2>1, <2>3, <2>5, <3>1, <3>2, <3>3, <3>4
  <2>6. QED
    BY <2>4, <2>5 DEF NameByDatagram
<1>4. ChatType'
  <2>1. udp' \in [Peers -> Seq(Words)]
    <3>1. "ready" \in Words /\ TokenOf(p, q) /\ udp[p] # <<>>
      BY <1>2 DEF NameByDatagram, Words, TurnOf
    <3>2. udp' = Reply(p, "ready") \/ udp' = udp
      BY DEF NameByDatagram
    <3>3. QED
      BY <1>1, <1>2, <3>1, <3>2, MailAnswered DEF ChatType
  <2>2. at' \in [Peers -> Places] /\ open' \in [Peers -> BOOLEAN]
    BY <1>2, OverType DEF NameByDatagram, ChatType, Goto, Places
  <2>3. <<>> \in Seq(Bytes)
    OBVIOUS
  <2>4. content' \in [Peers -> Seq(Bytes)] /\ saved' \in [Peers -> BOOLEAN] /\ missing' \in Nat
    BY <1>2, <2>3 DEF NameByDatagram, NewFile, ChatType
  <2>5. QED
    BY <1>2, <1>3, <2>1, <2>2, <2>4 DEF ChatType
<1>5. TurnOf(p, q)' /\ TurnOf(q, p)'
  BY <1>1, <1>2, <1>3 DEF TurnOf, KeptBy, StartOf, TokenOf, Starts
<1>6. BlockOf(p, q)' /\ BlockOf(q, p)'
  BY <1>1, <1>2, <1>3 DEF TurnOf, StartOf, TokenOf, KeptBy, BlockOf, Starts
<1>7. FirstFile(p, q)'
  BY <1>3 DEF FirstFile
<1>8. CalmOf(p, q)'
  <2> USE DEF TurnOf, TokenOf, KeptBy, Starts
  <2> SUFFICES ASSUME Calm(p, q)' PROVE CalmOf(p, q)'
    BY DEF CalmOf
  <2>1. missing' = missing /\ at'[p] = "content" /\ Calm(p, q)
    BY <1>2, <1>3 DEF Calm, ChatType
  <2>2. Provided(p, q) /\ Provided(q, p) /\ (Said(p, q) \/ Said(q, p))
    BY <1>2, <2>1 DEF CalmOf
  <2>3. at[q] = "offer"
    BY <1>3, <2>2 DEF Provided
  <2>4. Said(p, q)'
    BY <1>3, <2>1, <2>3 DEF Said
  <2>5. Provided(p, q)' /\ Provided(q, p)'
    BY <1>3, <2>1, <2>2, <2>3 DEF Provided
  <2>6. QED
    BY <2>4, <2>5 DEF CalmOf
<1>9. PairInv(p, q)'
  BY <1>5, <1>6, <1>7, <1>8 DEF PairInv
<1>10. QED
  BY <1>4, <1>9, PairOf DEF ChatInv

LEMMA GetBlockStep ==
  ASSUME ChatInv, NEW p \in Peers, NEW q \in Peers, q = Other(p), GetBlock(p)
  PROVE  ChatInv'
<1>1. q # p /\ Other(q) = p /\ \A r \in Peers : r = p \/ r = q
  BY Pairs
<1>2. /\ ChatType
      /\ TurnOf(p, q) /\ TurnOf(q, p)
      /\ BlockOf(p, q) /\ BlockOf(q, p)
      /\ FirstFile(p, q) /\ CalmOf(p, q)
  BY PairOf DEF ChatInv, PairInv
<1>3. /\ UNCHANGED <<version, part, worker, udp, open, lost, missing, asked>>
      /\ version = "serve" /\ at[p] = "content" /\ at'[p] = "recv" /\ at'[q] = at[q]
      /\ tcp'[q] = tcp[q] /\ content'[q] = content[q] /\ saved'[q] = saved[q]
      /\ Mail(p)' = Mail(p) /\ Mail(q)' = Mail(q)
      /\ short' = 0 => /\ short = 0 /\ at[q] # "offer" /\ tcp'[p] = <<>>
                       /\ content'[p] = Whole \/ IsPrefix(content'[p], Whole)
  <2>1. PICK n \in Reads(p) \cup {0} :
          /\ content' = [content EXCEPT ![p] =
                           IF p = "server" THEN SubSeq(tcp[p], 1, n)
                           ELSE [i \in 1 .. NameLength |-> IF i <= n THEN tcp[p][i] ELSE "zero"]]
          /\ tcp' = [tcp EXCEPT ![p] = SubSeq(@, n + 1, Len(@))]
          /\ short' = IF n < Parts THEN short + 1 ELSE short
    BY DEF GetBlock
  <2>2. /\ UNCHANGED <<version, part, worker, udp, open, lost, missing, asked>>
        /\ version = "serve" /\ at[p] = "content" /\ saved' = [saved EXCEPT ![p] = TRUE]
        /\ Goto(p, "recv")
    BY DEF GetBlock
  <2>3. at'[p] = "recv" /\ at'[q] = at[q] /\ saved'[q] = saved[q]
    BY <1>1, <1>2, <2>2 DEF ChatType, Goto
  <2>4. /\ tcp'[p] = SubSeq(tcp[p], n + 1, Len(tcp[p])) /\ tcp'[q] = tcp[q] /\ content'[q] = content[q]
        /\ content'[p] = IF p = "server" THEN SubSeq(tcp[p], 1, n)
                         ELSE [i \in 1 .. NameLength |-> IF i <= n THEN tcp[p][i] ELSE "zero"]
    BY <1>1, <1>2, <2>1 DEF ChatType
  <2>5. Mail(p)' = Mail(p) /\ Mail(q)' = Mail(q)
    BY <2>2 DEF Mail
  <2>6. ASSUME short' = 0
        PROVE  /\ short = 0 /\ at[q] # "offer" /\ tcp'[p] = <<>>
               /\ content'[p] = Whole \/ IsPrefix(content'[p], Whole)
    <3>1. /\ Whole \in Seq(Bytes) /\ Parts = Len(Whole) /\ Parts \in Nat \ {0}
          /\ NameLength \in 1 .. Parts
      BY WholeIs
    <3>2. short \in Nat /\ tcp[p] \in Seq(Bytes)
      BY <1>2 DEF ChatType
    <3>3. n >= Parts /\ short = 0 /\ n \in 1 .. Len(tcp[p])
      BY <2>1, <2>6, <3>1, <3>2 DEF Reads
    <3>4. tcp[p] # <<>>
      BY <3>2, <3>3
    <3>5. tcp[p] = Whole /\ at[q] # "offer"
      BY <1>2, <2>2, <3>3, <3>4 DEF BlockOf
    <3>6. n = Parts
      BY <3>1, <3>3, <3>5
    <3>7. tcp'[p] = <<>>
      BY <2>4, <3>1, <3>5, <3>6
    <3>8. CASE p = "server"
      <4>1. content'[p] = SubSeq(Whole, 1, Len(Whole))
        BY <2>4, <3>1, <3>5, <3>6, <3>8
      <4>2. QED
        BY <3>1, <3>3, <3>5, <3>7, <4>1
    <3>9. CASE p # "server"
      <4>1. content'[p] = [i \in 1 .. NameLength |-> Whole[i]]
        <5>1. content'[p] = [i \in 1 .. NameLength |-> IF i <= n THEN Whole[i] ELSE "zero"]
          BY <2>4, <3>5, <3>9
        <5>2. \A i \in 1 .. NameLength : i <= n
          BY <3>1, <3>6
        <5>3. QED
          BY <5>1, <5>2
      <4>2. IsPrefix(content'[p], Whole)
        BY <3>1, <4>1, FirstPart
      <4>3. QED
        BY <3>3, <3>5, <3>7, <4>2
    <3>10. QED
      BY <3>8, <3>9
  <2>7. QED
    BY <2>2, <2>3, <2>4, <2>5, <2>6
<1>4. ChatType'
  <2>1. PICK n \in Reads(p) \cup {0} :
          /\ content' = [content EXCEPT ![p] =
                           IF p = "server" THEN SubSeq(tcp[p], 1, n)
                           ELSE [i \in 1 .. NameLength |-> IF i <= n THEN tcp[p][i] ELSE "zero"]]
          /\ tcp' = [tcp EXCEPT ![p] = SubSeq(@, n + 1, Len(@))]
          /\ short' = IF n < Parts THEN short + 1 ELSE short
    BY DEF GetBlock
  <2>2. /\ tcp[p] \in Seq(Bytes) /\ n \in 0 .. Len(tcp[p]) /\ NameLength \in Nat
        /\ n \in Nat
    BY <1>2, WholeIs DEF ChatType, Reads
  <2>3. SubSeq(tcp[p], 1, n) \in Seq(Bytes)
    BY <2>2
  <2>4. [i \in 1 .. NameLength |-> IF i <= n THEN tcp[p][i] ELSE "zero"] \in Seq(Bytes)
    <3>1. ASSUME NEW i \in 1 .. NameLength
          PROVE  (IF i <= n THEN tcp[p][i] ELSE "zero") \in Bytes
      <4>1. CASE i <= n
        <5>1. i \in 1 .. Len(tcp[p])
          BY <2>2, <4>1
        <5>2. tcp[p][i] \in Bytes
          BY <2>2, <5>1
        <5>3. QED
          BY <4>1, <5>2
      <4>2. CASE ~(i <= n)
        <5>1. "zero" \in Bytes
          BY DEF Bytes
        <5>2. QED
          BY <4>2, <5>1, Zenon
      <4>3. QED
        BY <4>1, <4>2
    <3>2. QED
      BY <2>2, <3>1
  <2>5. SubSeq(tcp[p], n + 1, Len(tcp[p])) \in Seq(Bytes)
    BY <2>2
  <2>6. content' \in [Peers -> Seq(Bytes)] /\ tcp' \in [Peers -> Seq(Bytes)]
    BY <1>2, <2>1, <2>3, <2>4, <2>5 DEF ChatType
  <2>7. at' \in [Peers -> Places] /\ saved' \in [Peers -> BOOLEAN]
    BY <1>2 DEF GetBlock, ChatType, Goto, Places
  <2>8. short' \in Nat
    BY <1>2, <2>1 DEF ChatType
  <2>9. QED
    BY <1>2, <1>3, <2>6, <2>7, <2>8 DEF ChatType
<1>5. TurnOf(p, q)' /\ TurnOf(q, p)'
  BY <1>1, <1>2, <1>3 DEF TurnOf, KeptBy, StartOf, TokenOf, Starts
<1>6. BlockOf(p, q)' /\ BlockOf(q, p)'
  BY <1>1, <1>2, <1>3 DEF TurnOf, StartOf, TokenOf, KeptBy, BlockOf, Starts
<1>7. FirstFile(p, q)'
  BY <1>3 DEF FirstFile
<1>8. CalmOf(p, q)'
  BY <1>1, <1>2, <1>3 DEF TurnOf, StartOf, TokenOf, KeptBy, Calm, CalmOf, Said, Provided, Starts, Waits
<1>9. PairInv(p, q)'
  BY <1>5, <1>6, <1>7, <1>8 DEF PairInv
<1>10. QED
  BY <1>4, <1>9, PairOf DEF ChatInv

LEMMA OfferStep ==
  ASSUME ChatInv, NEW p \in Peers, NEW q \in Peers, q = Other(p), Offer(p)
  PROVE  ChatInv'
<1>1. q # p /\ Other(q) = p /\ \A r \in Peers : r = p \/ r = q
  BY Pairs
<1>2. /\ ChatType
      /\ TurnOf(p, q) /\ TurnOf(q, p)
      /\ BlockOf(p, q) /\ BlockOf(q, p)
      /\ FirstFile(p, q) /\ CalmOf(p, q)
  BY PairOf DEF ChatInv, PairInv
<1>3. /\ UNCHANGED <<version, part, worker, content, saved, lost, missing, short, asked>>
      /\ version = "serve" /\ at[p] = "offer" /\ at'[q] = at[q] /\ open'[q] = open[q]
      /\ Mail(p) # "nothing" /\ Mail(p)' = "nothing" /\ Mail(q) = "nothing" /\ Mail(q)' = "nothing"
      /\ Len(udp'[p]) = 0 /\ Len(udp'[q]) = 0
      /\ tcp'[p] = tcp[p]
      /\ open[q] = TRUE => tcp'[q] # <<>> /\ (tcp[q] = <<>> => tcp'[q] = Whole)
      /\ open[q] # TRUE => tcp'[q] = tcp[q]
      /\ \/ at'[p] = "type" /\ open' = open
         \/ at'[p] = "over" /\ open'[p] = FALSE /\ open[q] # TRUE
  <2>1. /\ at[p] = "offer" /\ udp[p] # <<>> /\ udp' = [udp EXCEPT ![p] = Tail(@)]
        /\ UNCHANGED <<version, part, content, saved, lost, missing, short, asked>>
        /\ Stream(q, Whole)
        /\ \/ Goto(p, "type") /\ UNCHANGED <<worker, open>>
           \/ ~open[q] /\ Over(p)
    BY DEF Offer, received, history
  <2>2. TokenOf(p, q) /\ version = "serve" /\ worker[p] = "none"
    BY <1>2, <2>1 DEF TurnOf, KeptBy
  <2>3. /\ Mail(p) # "nothing" /\ Mail(q) = "nothing" /\ Mail(p)' = "nothing" /\ Mail(q)' = "nothing"
        /\ Len(udp'[p]) = 0 /\ Len(udp'[q]) = 0
    BY <1>1, <1>2, <2>1, <2>2, MailTaken
  <2>4. /\ tcp'[p] = tcp[p]
        /\ open[q] = TRUE => tcp'[q] = tcp[q] \o Whole
        /\ open[q] # TRUE => tcp'[q] = tcp[q]
    BY <1>1, <1>2, <2>1 DEF Stream, ChatType
  <2>5. tcp[q] \o Whole # <<>> /\ (tcp[q] = <<>> => tcp[q] \o Whole = Whole)
    <3>1. tcp[q] \in Seq(Bytes) /\ Whole \in Seq(Bytes) /\ Len(Whole) >= 1
      BY <1>2, WholeIs DEF ChatType
    <3>2. Len(tcp[q] \o Whole) # 0
      BY <3>1
    <3>3. QED
      BY <3>1, <3>2
  <2>6. at'[q] = at[q] /\ open'[q] = open[q]
    BY <1>1, <1>2, <2>1 DEF Goto, Over, Closed, ChatType
  <2>7. worker' = worker
    <3>1. Over(p) => worker' = [worker EXCEPT ![p] = "none"]
      BY <2>2 DEF Over
    <3>2. QED
      BY <1>2, <2>1, <2>2, <3>1 DEF ChatType
  <2>8. \/ at'[p] = "type" /\ open' = open
        \/ at'[p] = "over" /\ open'[p] = FALSE /\ open[q] # TRUE
    BY <1>2, <2>1 DEF Goto, Over, Closed, ChatType
  <2>9. QED
    BY <2>1, <2>2, <2>3, <2>4, <2>5, <2>6, <2>7, <2>8
<1>4. ChatType'
  <2>1. udp' \in [Peers -> Seq(Words)]
    BY <1>1, <1>2, MailTaken DEF Offer, TurnOf
  <2>2. at' \in [Peers -> Places] /\ open' \in [Peers -> BOOLEAN]
    BY <1>2, OverType DEF Offer, ChatType, Goto, Places
  <2>3. tcp' \in [Peers -> Seq(Bytes)]
    <3>1. tcp[q] \o Whole \in Seq(Bytes)
      BY <1>2, WholeIs DEF ChatType
    <3>2. QED
      BY <1>2, <3>1 DEF Offer, Stream, ChatType
  <2>4. QED
    BY <1>2, <1>3, <2>1, <2>2, <2>3 DEF ChatType
<1>5. TurnOf(p, q)' /\ TurnOf(q, p)'
  <2> USE DEF TurnOf
  <2>1. KeptBy(p)' /\ KeptBy(q)'
    BY <1>2, <1>3 DEF KeptBy, Starts
  <2>2. at[q] \notin Starts
    BY <1>2, <1>3 DEF StartOf, Starts
  <2>3. StartOf(p, q)' /\ StartOf(q, p)'
    BY <1>3, <2>2 DEF StartOf, Starts
  <2>4. at[q] # "type"
    BY <1>2, <1>3 DEF TokenOf
  <2>5. TokenOf(p, q)' /\ TokenOf(q, p)'
    BY <1>3, <2>4 DEF TokenOf
  <2>6. QED
    BY <2>1, <2>3, <2>5
<1>6. BlockOf(p, q)' /\ BlockOf(q, p)'
  BY <1>1, <1>2, <1>3 DEF TurnOf, StartOf, TokenOf, KeptBy, BlockOf, Starts
<1>7. FirstFile(p, q)'
  BY <1>3 DEF FirstFile
<1>8. CalmOf(p, q)'
  BY <1>1, <1>2, <1>3 DEF TurnOf, StartOf, TokenOf, KeptBy, Calm, CalmOf, Said, Provided, Starts, Waits
<1>9. PairInv(p, q)'
  BY <1>5, <1>6, <1>7, <1>8 DEF PairInv
<1>10. QED
  BY <1>4, <1>9, PairOf DEF ChatInv

LEMMA BindListenStep ==
  ASSUME ChatInv, NEW p \in Peers, NEW q \in Peers, q = Other(p), p = "server", BindListen
  PROVE  ChatInv'
<1>1. q # p /\ Other(q) = p /\ \A r \in Peers : r = p \/ r = q
  BY Pairs
<1>2. /\ ChatType
      /\ TurnOf(p, q) /\ TurnOf(q, p)
      /\ BlockOf(p, q) /\ BlockOf(q, p)
      /\ FirstFile(p, q) /\ CalmOf(p, q)
  BY PairOf DEF ChatInv, PairInv
<1>3. /\ UNCHANGED <<version, part, worker, udp, tcp, open, content, saved, lost, missing, short, asked>>
      /\ at[p] = "bind" /\ at'[q] = at[q] /\ p = "server" /\ q = "client"
      /\ Mail(p)' = Mail(p) /\ Mail(q)' = Mail(q)
      /\ version = "udp" => at'[p] = "recv"
      /\ version # "udp" => at'[p] \in {"accept", "over"}
  <2>1. p = "server" /\ q = "client" /\ at[p] = "bind"
    BY <1>1 DEF BindListen, Other
  <2>2. worker[p] = "none" /\ open[p] = FALSE
    BY <1>2, <2>1 DEF TurnOf, KeptBy, Starts
  <2>3. UNCHANGED <<version, part, udp, tcp, content, saved, lost, missing, short, asked>>
    BY DEF BindListen, received, history
  <2>4. CASE Goto("server", IF version = "udp" THEN "recv" ELSE "accept") /\ UNCHANGED <<worker, open>>
    <3>1. /\ at'[q] = at[q]
          /\ version = "udp" => at'[p] = "recv"
          /\ version # "udp" => at'[p] = "accept"
      BY <1>1, <1>2, <2>1, <2>4 DEF Goto, ChatType
    <3>2. QED
      BY <2>1, <2>3, <2>4, <3>1 DEF Mail
  <2>5. CASE version # "udp" /\ Over("server")
    <3>1. at'[q] = at[q] /\ at'[p] = "over"
      BY <1>1, <1>2, <2>1, <2>5 DEF Over, ChatType
    <3>2. worker' = [worker EXCEPT ![p] = "none"] /\ open' = [open EXCEPT ![p] = FALSE]
      BY <2>1, <2>2, <2>5 DEF Over, Closed
    <3>3. worker' = worker /\ open' = open
      BY <1>2, <2>2, <3>2 DEF ChatType
    <3>4. QED
      BY <2>1, <2>3, <2>5, <3>1, <3>3 DEF Mail
  <2>6. QED
    BY <2>4, <2>5 DEF BindListen
<1>4. ChatType'
  <2>1. at' \in [Peers -> Places]
    <3>1. \E l \in {"recv", "accept", "over"} : at' = [at EXCEPT ![p] = l]
      BY DEF BindListen, Goto, Over
    <3>2. QED
      BY <1>2, <3>1 DEF ChatType, Places, Starts
  <2>2. QED
    BY <1>2, <1>3, <2>1 DEF ChatType
<1>5. TurnOf(p, q)' /\ TurnOf(q, p)'
  BY <1>1, <1>2, <1>3 DEF TurnOf, KeptBy, StartOf, TokenOf, Starts
<1>6. BlockOf(p, q)' /\ BlockOf(q, p)'
  BY <1>1, <1>2, <1>3 DEF TurnOf, StartOf, TokenOf, KeptBy, BlockOf, Starts
<1>7. FirstFile(p, q)'
  <2>1. asked = 0
    BY <1>2, <1>3 DEF TurnOf, StartOf, Starts
  <2>2. QED
    BY <1>2, <1>3, <2>1 DEF FirstFile, NoFile, TurnOf, KeptBy, Starts
<1>8. CalmOf(p, q)'
  <2> USE DEF TurnOf, StartOf, TokenOf, KeptBy, Starts
  <2> SUFFICES ASSUME Calm(p, q)' PROVE CalmOf(p, q)'
    BY DEF CalmOf
  <2>1. Calm(p, q)
    BY <1>3 DEF Calm
  <2>2. Provided(p, q) /\ Provided(q, p) /\ (Said(p, q) \/ Said(q, p))
    BY <1>2, <2>1 DEF CalmOf
  <2>3. CASE version = "udp"
    <3>1. at[q] = "type"
      BY <1>2, <1>3, <2>2, <2>3 DEF Said, Waits
    <3>2. Said(q, p)'
      BY <1>3, <2>3, <3>1 DEF Said, Waits
    <3>3. QED
      BY <1>3, <2>3, <3>2 DEF CalmOf, Provided
  <2>4. CASE version # "udp"
    <3>1. at[q] \in Starts \cup {"over"}
      BY <1>2, <1>3, <2>4
    <3>2. Said(p, q)' \/ Said(q, p)'
      BY <1>3, <2>4, <3>1 DEF Said
    <3>3. QED
      BY <1>2, <1>3, <2>4, <3>1, <3>2 DEF CalmOf, Provided
  <2>5. QED
    BY <2>3, <2>4
<1>9. PairInv(p, q)'
  BY <1>5, <1>6, <1>7, <1>8 DEF PairInv
<1>10. QED
  BY <1>4, <1>9, PairOf DEF ChatInv

LEMMA ConnectAcceptStep ==
  ASSUME ChatInv, NEW p \in Peers, NEW q \in Peers, q = Other(p), p = "client", ConnectAccept
  PROVE  ChatInv'
<1>1. q # p /\ Other(q) = p /\ \A r \in Peers : r = p \/ r = q
  BY Pairs
<1>2. /\ ChatType
      /\ TurnOf(p, q) /\ TurnOf(q, p)
      /\ BlockOf(p, q) /\ BlockOf(q, p)
      /\ FirstFile(p, q) /\ CalmOf(p, q)
  BY PairOf DEF ChatInv, PairInv
<1>3. /\ UNCHANGED <<version, part, worker, udp, tcp, content, saved, lost, missing, short, asked>>
      /\ at[p] = "connect" /\ p = "client" /\ q = "server"
      /\ Mail(p)' = Mail(p) /\ Mail(q)' = Mail(q)
      /\ \/ /\ at[q] = "accept" /\ at'[p] = "type" /\ at'[q] = "recv"
            /\ open'[p] = TRUE /\ open'[q] = TRUE
         \/ at'[p] = "over" /\ at'[q] = at[q] /\ open' = open
  <2>1. p = "client" /\ q = "server" /\ at[p] = "connect"
    BY <1>1 DEF ConnectAccept, Other
  <2>2. worker[p] = "none" /\ open[p] = FALSE
    BY <1>2, <2>1 DEF TurnOf, KeptBy, Starts
  <2>3. UNCHANGED <<version, part, udp, tcp, content, saved, lost, missing, short, asked>>
    BY DEF ConnectAccept, received, history
  <2>4. CASE at.server = "accept"
    <3>1. /\ at' = [client |-> "type", server |-> "recv"]
          /\ open' = [r \in Peers |-> TRUE] /\ UNCHANGED worker
      BY <2>4 DEF ConnectAccept
    <3>2. at'[p] = "type" /\ at'[q] = "recv" /\ at[q] = "accept" /\ open'[p] = TRUE /\ open'[q] = TRUE
      BY <2>1, <2>4, <3>1
    <3>3. QED
      BY <2>1, <2>3, <3>1, <3>2 DEF Mail
  <2>5. CASE at.server # "accept"
    <3>1. Over("client")
      BY <2>5 DEF ConnectAccept
    <3>2. at'[q] = at[q] /\ at'[p] = "over"
      BY <1>1, <1>2, <2>1, <3>1 DEF Over, ChatType
    <3>3. worker' = [worker EXCEPT ![p] = "none"] /\ open' = [open EXCEPT ![p] = FALSE]
      BY <2>1, <2>2, <3>1 DEF Over, Closed
    <3>4. worker' = worker /\ open' = open
      BY <1>2, <2>2, <3>3 DEF ChatType
    <3>5. QED
      BY <2>1, <2>3, <3>2, <3>4 DEF Mail
  <2>6. QED
    BY <2>4, <2>5
<1>4. ChatType'
  <2>1. at' \in [Peers -> Places] /\ open' \in [Peers -> BOOLEAN]
    <3>1. CASE at.server = "accept"
      <4>1. /\ at' = [client |-> "type", server |-> "recv"]
            /\ open' = [r \in Peers |-> TRUE]
        BY <3>1 DEF ConnectAccept
      <4>2. at' \in [Peers -> Places]
        BY <4>1 DEF Peers, Places
      <4>3. open' \in [Peers -> BOOLEAN]
        BY <4>1
      <4>4. QED
        BY <4>2, <4>3
    <3>2. CASE at.server # "accept"
      BY <1>2, <3>2, OverType DEF ConnectAccept
    <3>3. QED
      BY <3>1, <3>2
  <2>2. QED
    BY <1>2, <1>3, <2>1 DEF ChatType
<1>5. TurnOf(p, q)' /\ TurnOf(q, p)'
  BY <1>1, <1>2, <1>3 DEF TurnOf, KeptBy, StartOf, TokenOf, Starts
<1>6. BlockOf(p, q)' /\ BlockOf(q, p)'
  BY <1>1, <1>2, <1>3 DEF TurnOf, StartOf, TokenOf, KeptBy, BlockOf, Starts
<1>7. FirstFile(p, q)'
  <2>1. asked = 0
    BY <1>2, <1>3 DEF TurnOf, StartOf, Starts
  <2>2. QED
    BY <1>2, <1>3, <2>1 DEF FirstFile, NoFile, TurnOf, KeptBy, StartOf, Starts
<1>8. CalmOf(p, q)'
  <2> USE DEF TurnOf, StartOf, TokenOf, KeptBy, Starts
  <2>1. version # "udp" /\ at[q] \in Starts \cup {"over"}
    BY <1>2, <1>3
  <2>2. Said(p, q)' \/ Said(q, p)'
    BY <1>3, <2>1 DEF Said, Waits
  <2>3. Provided(p, q)' /\ Provided(q, p)'
    BY <1>2, <1>3, <2>1 DEF Provided
  <2>4. QED
    BY <2>2, <2>3 DEF CalmOf
<1>9. PairInv(p, q)'
  BY <1>5, <1>6, <1>7, <1>8 DEF PairInv
<1>10. QED
  BY <1>4, <1>9, PairOf DEF ChatInv

LEMMA NameByStreamStep ==
  ASSUME ChatInv, NEW p \in Peers, NEW q \in Peers, q = Other(p), NameByStream(p)
  PROVE  ChatInv'
<1>1. q # p /\ Other(q) = p /\ \A r \in Peers : r = p \/ r = q
  BY Pairs
<1>2. /\ ChatType
      /\ TurnOf(p, q) /\ TurnOf(q, p)
      /\ BlockOf(p, q) /\ BlockOf(q, p)
      /\ FirstFile(p, q) /\ CalmOf(p, q)
  BY PairOf DEF ChatInv, PairInv
<1>3. /\ UNCHANGED <<version, part, udp, lost, short, asked>>
      /\ version = "fina" /\ at[p] = "name" /\ at'[q] = at[q] /\ open'[q] = open[q]
      /\ worker'[q] = worker[q]
      /\ content'[p] = <<>> /\ saved'[p] = FALSE /\ saved'[q] = saved[q] /\ content'[q] = content[q]
      /\ Mail(p)' = Mail(p) /\ Mail(q)' = Mail(q) /\ tcp[p] # <<>>
      /\ \/ /\ at'[p] = "content" /\ UNCHANGED <<worker, open, missing>>
            /\ Len(tcp[p]) = 1 => tcp'[p] = <<>>
            /\ open[q] = TRUE => tcp'[q] = Append(tcp[q], "ready")
         \/ /\ at'[p] = "over" /\ open'[p] = FALSE /\ missing' = missing + 1
            /\ worker'[p] = IF worker[p] = "none" THEN "none" ELSE "cut"
  <2>1. PICK n \in Reads(p) :
          /\ NewFile(p, SubSeq(tcp[p], 1, n))
          /\ \/ /\ Goto(p, "content")
                /\ tcp' = [tcp EXCEPT ![p] = SubSeq(@, n + 1, Len(@)),
                           ![q] = IF open[q] THEN Append(@, "ready") ELSE @]
                /\ UNCHANGED <<worker, open, missing>>
             \/ Over(p) /\ missing' = missing + 1 /\ UNCHANGED tcp
    BY DEF NameByStream
  <2>2. /\ UNCHANGED <<version, part, udp, lost, short, asked>>
        /\ version = "fina" /\ at[p] = "name"
    BY DEF NameByStream
  <2>3. content'[p] = <<>> /\ saved'[p] = FALSE /\ saved'[q] = saved[q] /\ content'[q] = content[q]
    BY <1>1, <1>2, <2>1 DEF NewFile, ChatType
  <2>4. tcp[p] \in Seq(Bytes) /\ n \in 1 .. Len(tcp[p])
    BY <1>2, <2>1 DEF ChatType, Reads
  <2>5. tcp[p] # <<>>
    BY <2>4
  <2>6. Mail(p)' = Mail(p) /\ Mail(q)' = Mail(q)
    BY <2>2 DEF Mail
  <2>7. CASE /\ Goto(p, "content")
             /\ tcp' = [tcp EXCEPT ![p] = SubSeq(@, n + 1, Len(@)),
                        ![q] = IF open[q] THEN Append(@, "ready") ELSE @]
             /\ UNCHANGED <<worker, open, missing>>
    <3>1. /\ tcp'[p] = SubSeq(tcp[p], n + 1, Len(tcp[p]))
          /\ open[q] = TRUE => tcp'[q] = Append(tcp[q], "ready")
      BY <1>1, <1>2, <2>7 DEF ChatType
    <3>2. Len(tcp[p]) = 1 => tcp'[p] = <<>>
      BY <2>4, <3>1
    <3>3. at'[p] = "content" /\ at'[q] = at[q]
      BY <1>1, <1>2, <2>7 DEF Goto, ChatType
    <3>4. worker'[q] = worker[q] /\ open'[q] = open[q]
      BY <2>7
    <3>5. QED
      BY <2>2, <2>3, <2>5, <2>6, <2>7, <3>1, <3>2, <3>3, <3>4
  <2>8. CASE Over(p) /\ missing' = missing + 1 /\ UNCHANGED tcp
    <3>1. /\ at'[p] = "over" /\ at'[q] = at[q] /\ open'[p] = FALSE /\ open'[q] = open[q]
          /\ worker'[q] = worker[q] /\ worker'[p] = IF worker[p] = "none" THEN "none" ELSE "cut"
      BY <1>1, <1>2, <2>8 DEF Over, Closed, ChatType
    <3>2. QED
      BY <2>2, <2>3, <2>5, <2>6, <2>8, <3>1
  <2>9. QED
    BY <2>1, <2>7, <2>8
<1>4. ChatType'
  <2>1. PICK n \in Reads(p) :
          /\ NewFile(p, SubSeq(tcp[p], 1, n))
          /\ \/ /\ Goto(p, "content")
                /\ tcp' = [tcp EXCEPT ![p] = SubSeq(@, n + 1, Len(@)),
                           ![q] = IF open[q] THEN Append(@, "ready") ELSE @]
                /\ UNCHANGED <<worker, open, missing>>
             \/ Over(p) /\ missing' = missing + 1 /\ UNCHANGED tcp
    BY DEF NameByStream
  <2>2. /\ tcp[p] \in Seq(Bytes) /\ tcp[q] \in Seq(Bytes) /\ n \in 1 .. Len(tcp[p]) /\ "ready" \in Bytes
        /\ <<>> \in Seq(Bytes)
    BY <1>2, <2>1 DEF ChatType, Reads, Bytes
  <2>3. SubSeq(tcp[p], n + 1, Len(tcp[p])) \in Seq(Bytes) /\ Append(tcp[q], "ready") \in Seq(Bytes)
    BY <2>2
  <2>4. tcp' \in [Peers -> Seq(Bytes)]
    BY <1>2, <2>1, <2>3 DEF ChatType
  <2>5. content' \in [Peers -> Seq(Bytes)] /\ saved' \in [Peers -> BOOLEAN] /\ missing' \in Nat
    BY <1>2, <2>1, <2>2 DEF NewFile, ChatType
  <2>6. at' \in [Peers -> Places] /\ worker' \in [Peers -> Jobs] /\ open' \in [Peers -> BOOLEAN]
    BY <1>2, <2>1, OverType DEF ChatType, Goto, Places
  <2>7. QED
    BY <1>2, <1>3, <2>4, <2>5, <2>6 DEF ChatType
<1>5. TurnOf(p, q)' /\ TurnOf(q, p)'
  BY <1>1, <1>2, <1>3 DEF TurnOf, KeptBy, StartOf, TokenOf, Starts
<1>6. BlockOf(p, q)' /\ BlockOf(q, p)'
  BY <1>3 DEF BlockOf
<1>7. FirstFile(p, q)'
  <2>1. CASE asked = 1
    <3>1. Receiving(p, q) /\ Named(p, q)
      BY <1>2, <1>3, <2>1 DEF FirstFile, Receiving, GivenUp, Coming, Complete
    <3>2. /\ tcp[p] = <<"name">> /\ worker[q] \in {"ready", "cut"} /\ Mail(q) # "file"
          /\ worker[q] = "ready" => tcp[q] = <<>> /\ open[q] = TRUE
          /\ worker[q] = "cut" => open[q] = FALSE
      BY <1>3, <3>1 DEF Named
    <3>3. worker[p] = "none" /\ worker'[p] = "none" /\ open[p] = TRUE
      BY <1>3, <3>1 DEF Receiving, Named
    <3>4. CASE at'[p] = "over"
      BY <1>3, <3>1, <3>3, <3>4, <2>1 DEF FirstFile, Receiving, GivenUp
    <3>5. CASE at'[p] = "content"
      <4>1. Len(<<"name">>) = 1 /\ Append(<<>>, "ready") = <<"ready">> /\ <<>> \o <<>> = <<>>
        OBVIOUS
      <4>2. /\ tcp'[p] = <<>> /\ open'[p] = TRUE /\ open'[q] = open[q] /\ worker' = worker
            /\ worker[q] = "ready" => tcp'[q] = <<"ready">>
        BY <1>3, <3>2, <3>3, <3>5, <4>1
      <4>3. Begins(<<>>)
        <5>1. <<>> = SubSeq(Whole, 1, 0) /\ 0 \in 0 .. Parts
          BY WholeIs
        <5>2. QED
          BY <5>1 DEF Begins
      <4>4. Begins(content[p] \o tcp[p])'
        BY <1>3, <4>1, <4>2, <4>3 DEF Begins
      <4>5. Coming(p, q)'
        BY <1>3, <3>2, <3>5, <4>2, <4>4 DEF Coming
      <4>6. Receiving(p, q)'
        BY <1>3, <3>1, <3>3, <4>5 DEF Receiving
      <4>7. QED
        BY <1>3, <2>1, <4>6 DEF FirstFile
    <3>6. QED
      BY <1>3, <3>4, <3>5
  <2>2. CASE asked # 1
    BY <1>2, <1>3, <2>2 DEF FirstFile, NoFile
  <2>3. QED
    BY <2>1, <2>2
<1>8. CalmOf(p, q)'
  <2> USE DEF TurnOf, TokenOf, KeptBy, Starts
  <2> SUFFICES ASSUME Calm(p, q)' PROVE CalmOf(p, q)'
    BY DEF CalmOf
  <2>1. missing' = missing /\ at'[p] = "content" /\ Calm(p, q) /\ asked <= 1
    BY <1>2, <1>3 DEF Calm, ChatType
  <2>2. Provided(p, q) /\ Provided(q, p) /\ (Said(p, q) \/ Said(q, p))
    BY <1>2, <2>1 DEF CalmOf
  <2>3. Receiving(p, q) /\ Named(p, q)
    <3>1. asked = 1
      BY <1>2, <1>3, <2>1 DEF FirstFile, NoFile, ChatType
    <3>2. QED
      BY <1>2, <1>3, <3>1 DEF FirstFile, Receiving, GivenUp, Coming, Complete
  <2>4. Mail(q) # "file" /\ at[q] \notin {"name", "content"}
    BY <1>3, <2>3 DEF Named, Receiving
  <2>5. Said(q, p)'
    BY <1>3, <2>1, <2>2, <2>4 DEF Said, Waits
  <2>6. Provided(p, q)' /\ Provided(q, p)'
    BY <1>3, <2>1, <2>4 DEF Provided
  <2>7. QED
    BY <2>5, <2>6 DEF CalmOf
<1>9. PairInv(p, q)'
  BY <1>5, <1>6, <1>7, <1>8 DEF PairInv
<1>10. QED
  BY <1>4, <1>9, PairOf DEF ChatInv

LEMMA GetContentStep ==
  ASSUME ChatInv, NEW p \in Peers, NEW q \in Peers, q = Other(p), GetContent(p)
  PROVE  ChatInv'
<1>1. q # p /\ Other(q) = p /\ \A r \in Peers : r = p \/ r = q
  BY Pairs
<1>2. /\ ChatType
      /\ TurnOf(p, q) /\ TurnOf(q, p)
      /\ BlockOf(p, q) /\ BlockOf(q, p)
      /\ FirstFile(p, q) /\ CalmOf(p, q)
  BY PairOf DEF ChatInv, PairInv
<1>3. /\ UNCHANGED <<version, part, at, worker, udp, open, saved, lost, missing, short, asked>>
      /\ version = "fina" /\ at[p] = "content" /\ tcp[p] # <<>>
      /\ Mail(p)' = Mail(p) /\ Mail(q)' = Mail(q)
      /\ content'[p] \o tcp'[p] = content[p] \o tcp[p] /\ tcp'[q] = tcp[q] /\ content'[q] = content[q]
      /\ content' \in [Peers -> Seq(Bytes)] /\ tcp' \in [Peers -> Seq(Bytes)]
  <2>1. PICK n \in Reads(p) :
          /\ content' = [content EXCEPT ![p] = @ \o SubSeq(tcp[p], 1, n)]
          /\ tcp' = [tcp EXCEPT ![p] = SubSeq(@, n + 1, Len(@))]
    BY DEF GetContent
  <2>2. /\ UNCHANGED <<version, part, at, worker, udp, open, saved, lost, missing, short, asked>>
        /\ version = "fina" /\ at[p] = "content"
    BY DEF GetContent, history
  <2>3. content[p] \in Seq(Bytes) /\ tcp[p] \in Seq(Bytes) /\ n \in 1 .. Len(tcp[p])
    BY <1>2, <2>1 DEF ChatType, Reads
  <2>4. tcp[p] # <<>>
    BY <2>3
  <2>5. /\ content[p] \o SubSeq(tcp[p], 1, n) \in Seq(Bytes) /\ SubSeq(tcp[p], n + 1, Len(tcp[p])) \in Seq(Bytes)
        /\ (content[p] \o SubSeq(tcp[p], 1, n)) \o SubSeq(tcp[p], n + 1, Len(tcp[p])) = content[p] \o tcp[p]
    BY <2>3, ReadSome, Zenon
  <2>6. /\ content'[p] = content[p] \o SubSeq(tcp[p], 1, n) /\ content'[q] = content[q]
        /\ tcp'[p] = SubSeq(tcp[p], n + 1, Len(tcp[p])) /\ tcp'[q] = tcp[q]
    BY <1>1, <1>2, <2>1 DEF ChatType
  <2>7. content' \in [Peers -> Seq(Bytes)] /\ tcp' \in [Peers -> Seq(Bytes)]
    BY <1>2, <2>1, <2>5 DEF ChatType
  <2>8. content'[p] \o tcp'[p] = content[p] \o tcp[p]
    BY <2>5, <2>6, Zenon
  <2>9. QED
    BY <2>2, <2>4, <2>6, <2>7, <2>8 DEF Mail
<1>4. ChatType'
  BY <1>2, <1>3 DEF ChatType
<1>5. TurnOf(p, q)' /\ TurnOf(q, p)'
  BY <1>1, <1>2, <1>3 DEF TurnOf, KeptBy, StartOf, TokenOf, Starts
<1>6. BlockOf(p, q)' /\ BlockOf(q, p)'
  BY <1>3 DEF BlockOf
<1>7. FirstFile(p, q)'
  <2>1. CASE asked = 1
    <3>1. Receiving(p, q) /\ Coming(p, q)
      BY <1>2, <1>3, <2>1 DEF FirstFile, Receiving, GivenUp, Named, Complete
    <3>2. Begins(content[p] \o tcp[p]) => Begins(content[p] \o tcp[p])'
      BY <1>3 DEF Begins
    <3>3. Coming(p, q)'
      BY <1>3, <3>1, <3>2 DEF Coming
    <3>4. Receiving(p, q)'
      BY <1>3, <3>1, <3>3 DEF Receiving
    <3>5. QED
      BY <1>3, <2>1, <3>4 DEF FirstFile
  <2>2. CASE asked # 1
    BY <1>2, <1>3, <2>2 DEF FirstFile, NoFile
  <2>3. QED
    BY <2>1, <2>2
<1>8. CalmOf(p, q)'
  BY <1>2, <1>3 DEF Calm, CalmOf, Said, Provided
<1>9. PairInv(p, q)'
  BY <1>5, <1>6, <1>7, <1>8 DEF PairInv
<1>10. QED
  BY <1>4, <1>9, PairOf DEF ChatInv

LEMMA ContentEndsStep ==
  ASSUME ChatInv, NEW p \in Peers, NEW q \in Peers, q = Other(p), ContentEnds(p)
  PROVE  ChatInv'
<1>1. q # p /\ Other(q) = p /\ \A r \in Peers : r = p \/ r = q
  BY Pairs
<1>2. /\ ChatType
      /\ TurnOf(p, q) /\ TurnOf(q, p)
      /\ BlockOf(p, q) /\ BlockOf(q, p)
      /\ FirstFile(p, q) /\ CalmOf(p, q)
  BY PairOf DEF ChatInv, PairInv
<1>3. /\ UNCHANGED <<version, part, worker, udp, tcp, content, lost, missing, short, asked>>
      /\ version = "fina" /\ at[p] = "content" /\ at'[p] = "recv" /\ at'[q] = at[q]
      /\ Mail(p)' = Mail(p) /\ Mail(q)' = Mail(q)
      /\ saved'[p] = TRUE /\ saved'[q] = saved[q] /\ open'[p] = FALSE /\ open'[q] = open[q]
      /\ open[p] = FALSE \/ (tcp[p] = <<>> /\ open[q] = FALSE)
  <2>1. /\ UNCHANGED <<version, part, worker, udp, tcp, content, lost, missing, short, asked>>
        /\ version = "fina" /\ at[p] = "content" /\ EndOfFile(p)
        /\ saved' = [saved EXCEPT ![p] = TRUE] /\ open' = [open EXCEPT ![p] = FALSE]
        /\ at' = [at EXCEPT ![p] = "recv"]
    BY DEF ContentEnds, history, Closed, Goto
  <2>2. open[p] = FALSE \/ (tcp[p] = <<>> /\ open[q] = FALSE)
    BY <1>2, <2>1 DEF EndOfFile, ChatType
  <2>3. /\ at'[p] = "recv" /\ at'[q] = at[q]
        /\ saved'[p] = TRUE /\ saved'[q] = saved[q] /\ open'[p] = FALSE /\ open'[q] = open[q]
    BY <1>1, <1>2, <2>1 DEF ChatType
  <2>4. QED
    BY <2>1, <2>2, <2>3 DEF Mail
<1>4. ChatType'
  <2>1. at' \in [Peers -> Places] /\ saved' \in [Peers -> BOOLEAN] /\ open' \in [Peers -> BOOLEAN]
    BY <1>2 DEF ChatType, ContentEnds, Closed, Goto, Places
  <2>2. QED
    BY <1>2, <1>3, <2>1 DEF ChatType
<1>5. TurnOf(p, q)' /\ TurnOf(q, p)'
  BY <1>1, <1>2, <1>3 DEF TurnOf, KeptBy, StartOf, TokenOf, Starts
<1>6. BlockOf(p, q)' /\ BlockOf(q, p)'
  BY <1>3 DEF BlockOf
<1>7. FirstFile(p, q)'
  <2>1. CASE asked = 1
    <3>1. Receiving(p, q) /\ Coming(p, q)
      BY <1>2, <1>3, <2>1 DEF FirstFile, Receiving, GivenUp, Named, Complete
    <3>2. tcp[p] = <<>> /\ open[q] = FALSE
      BY <1>3, <3>1 DEF Coming
    <3>3. content[p] \o tcp[p] = content[p]
      BY <1>2, <3>2 DEF ChatType
    <3>4. \/ worker[q] = "none" /\ content[p] = Whole
          \/ worker[q] = "cut" /\ Begins(content[p])
      BY <3>1, <3>2, <3>3 DEF Coming
    <3>5. Begins(content[p]) => Begins(content[p])'
      BY <1>3 DEF Begins
    <3>6. Complete(p, q)'
      BY <1>3, <3>1, <3>4, <3>5 DEF Complete, Coming
    <3>7. Receiving(p, q)'
      BY <1>3, <3>1, <3>6 DEF Receiving
    <3>8. QED
      BY <1>3, <2>1, <3>7 DEF FirstFile
  <2>2. CASE asked # 1
    BY <1>2, <1>3, <2>2 DEF FirstFile, NoFile
  <2>3. QED
    BY <2>1, <2>2
<1>8. CalmOf(p, q)'
  <2> SUFFICES ASSUME Calm(p, q)' PROVE CalmOf(p, q)'
    BY DEF CalmOf
  <2>1. Calm(p, q)
    BY <1>3 DEF Calm
  <2>2. Provided(p, q) /\ Provided(q, p) /\ (Said(p, q) \/ Said(q, p))
    BY <1>2, <2>1 DEF CalmOf
  <2>3. Said(p, q)' \/ Said(q, p)'
    BY <1>3, <2>2 DEF Said, Waits, Starts
  <2>4. Provided(p, q)' /\ Provided(q, p)'
    BY <1>3, <2>2 DEF Provided
  <2>5. QED
    BY <2>3, <2>4 DEF CalmOf
<1>9. PairInv(p, q)'
  BY <1>5, <1>6, <1>7, <1>8 DEF PairInv
<1>10. QED
  BY <1>4, <1>9, PairOf DEF ChatInv

LEMMA OpenSourceStep ==
  ASSUME ChatInv, NEW p \in Peers, NEW q \in Peers, q = Other(p), OpenSource(p)
  PROVE  ChatInv'
<1>1. q # p /\ Other(q) = p /\ \A r \in Peers : r = p \/ r = q
  BY Pairs
<1>2. /\ ChatType
      /\ TurnOf(p, q) /\ TurnOf(q, p)
      /\ BlockOf(p, q) /\ BlockOf(q, p)
      /\ FirstFile(p, q) /\ CalmOf(p, q)
  BY PairOf DEF ChatInv, PairInv
<1>3. /\ ThreadWorks(p, q) /\ worker[p] = "open" /\ tcp'[p] = tcp[p]
      /\ \/ /\ open[p] = TRUE /\ worker'[p] = "ready" /\ UNCHANGED <<at, open>>
            /\ open[q] = TRUE => tcp'[q] = tcp[q] \o <<"name">>
         \/ open[p] = FALSE /\ worker'[p] = "none" /\ UNCHANGED <<at, tcp, open>>
         \/ open[q] = FALSE /\ worker'[p] = "cut"
         \/ worker'[p] = "none" /\ missing' # missing /\ UNCHANGED <<at, tcp>>
  <2>1. /\ worker[p] = "open" /\ UNCHANGED <<version, part, udp, content, saved, lost, short, asked>>
    BY DEF OpenSource, received
  <2>2. version = "fina" /\ at[p] # "over"
    BY <1>2, <2>1 DEF TurnOf, KeptBy
  <2>3. CASE Write(p, <<"name">>, "ready") /\ UNCHANGED missing
    <3>1. \E x \in Bytes : x = "name"
      BY DEF Bytes
    <3>1a. "ready" \in Jobs /\ worker[p] # "none"
      BY <2>1 DEF Jobs
    <3>2. /\ at'[q] = at[q] /\ worker'[q] = worker[q] /\ open'[q] = open[q] /\ tcp'[p] = tcp[p]
          /\ \/ /\ open[p] = TRUE /\ worker'[p] = "ready" /\ UNCHANGED <<at, open>>
                /\ open[q] = TRUE => tcp'[q] = tcp[q] \o <<"name">>
             \/ open[p] = FALSE /\ worker'[p] = "none" /\ UNCHANGED <<at, tcp, open>>
             \/ /\ open[p] = TRUE /\ open[q] = FALSE /\ UNCHANGED tcp
                /\ at'[p] = "over" /\ worker'[p] = "cut" /\ open'[p] = FALSE
      <4>1. PICK x \in Bytes : x = "name"
        BY <3>1
      <4>2. Write(p, <<x>>, "ready")
        BY <2>3, <4>1
      <4>3. Wrote(p, q, x, "ready")
        BY <1>1, <1>2, <3>1a, <4>2, Written
      <4>4. QED
        BY <4>1, <4>3 DEF Wrote
    <3>3. ThreadWorks(p, q)
      BY <2>1, <2>2, <2>3, <3>2 DEF ThreadWorks
    <3>4. QED
      BY <2>1, <3>2, <3>3
  <2>4. CASE /\ open' = Closed(p)
             /\ worker' = [worker EXCEPT ![p] = "none"]
             /\ missing' = missing + 1
             /\ UNCHANGED <<at, tcp>>
    <3>1. worker'[p] = "none" /\ worker'[q] = worker[q] /\ open'[q] = open[q]
      BY <1>1, <1>2, <2>4 DEF Closed, ChatType
    <3>2. missing' # missing
      BY <1>2, <2>4 DEF ChatType
    <3>3. QED
      BY <2>1, <2>2, <2>4, <3>1, <3>2 DEF ThreadWorks
  <2>5. QED
    BY <2>3, <2>4 DEF OpenSource
<1>4. ChatType'
  <2>1. /\ at' \in [Peers -> Places] /\ worker' \in [Peers -> Jobs]
        /\ open' \in [Peers -> BOOLEAN] /\ tcp' \in [Peers -> Seq(Bytes)]
    <3>1. CASE Write(p, <<"name">>, "ready")
      <4>1. "ready" \in Jobs /\ worker[p] # "none"
        BY <1>3 DEF Jobs
      <4>2. PICK x \in Bytes : x = "name"
        BY DEF Bytes
      <4>3. Write(p, <<x>>, "ready")
        BY <3>1, <4>2
      <4>4. Wrote(p, q, x, "ready")
        BY <1>1, <1>2, <4>1, <4>3, Written
      <4>5. QED
        BY <4>4 DEF Wrote
    <3>2. CASE open' = Closed(p) /\ worker' = [worker EXCEPT ![p] = "none"] /\ UNCHANGED <<at, tcp>>
      BY <1>2, <3>2 DEF Closed, ChatType, Jobs
    <3>3. QED
      BY <3>1, <3>2 DEF OpenSource
  <2>2. UNCHANGED part /\ missing' \in Nat
    BY <1>2, <1>3 DEF OpenSource, ThreadWorks, ChatType
  <2>3. QED
    BY <1>2, <1>3, <2>1, <2>2 DEF ChatType, ThreadWorks
<1>5. /\ at[p] \notin Starts \cup {"over"} /\ at[q] \notin Starts
      /\ Mail(p)' = Mail(p) /\ Mail(q)' = Mail(q)
      /\ TurnOf(p, q)' /\ TurnOf(q, p)' /\ BlockOf(p, q)' /\ BlockOf(q, p)'
  <2>1. at[p] # "over"
    BY <1>2, <1>3 DEF TurnOf, KeptBy, ThreadWorks
  <2>2. worker'[p] # "none" => worker'[p] = "cut" \/ at'[p] # "over"
    BY <1>3, <2>1 DEF ThreadWorks
  <2>3. QED
    BY <1>1, <1>2, <1>3, <2>2, ThreadTurn
<1>6. asked = 1 => /\ Receiving(q, p)
                   /\ GivenUp(q) \/ Named(q, p) \/ Coming(q, p)
  BY <1>1, <1>2, <1>3, ThreadFile
<1>7. FirstFile(p, q)'
  <2>1. ASSUME asked = 1 PROVE GivenUp(q)' \/ Named(q, p)' \/ Coming(q, p)'
    <3>1. CASE GivenUp(q)
      BY <1>3, <3>1 DEF GivenUp, ThreadWorks
    <3>2. CASE Named(q, p)
      <4>1. /\ tcp[q] = <<>> /\ tcp[p] = <<>> /\ open[q] = TRUE /\ open[p] = TRUE /\ Mail(p) # "file"
            /\ at[q] = "name" /\ saved[q] = FALSE
        BY <1>3, <3>2 DEF Named
      <4>2. <<>> \o <<"name">> = <<"name">>
        OBVIOUS
      <4>3. /\ at'[q] = "name" /\ saved'[q] = FALSE /\ open'[q] = TRUE /\ Mail(p)' # "file"
            /\ tcp'[p] = <<>>
        BY <1>3, <1>5, <4>1 DEF ThreadWorks
      <4>4. CASE worker'[p] = "ready"
        <5>1. open'[p] = TRUE /\ tcp'[q] = tcp[q] \o <<"name">>
          BY <1>3, <4>1, <4>4
        <5>2. tcp'[q] = <<"name">>
          BY <4>1, <4>2, <5>1
        <5>3. QED
          BY <4>3, <4>4, <5>1, <5>2 DEF Named
      <4>5. CASE worker'[p] # "ready"
        BY <1>3, <4>1, <4>3, <4>5 DEF Named
      <4>6. QED
        BY <4>4, <4>5
    <3>3. CASE Coming(q, p)
      BY <1>3, <3>3 DEF Coming
    <3>4. QED
      BY <1>6, <2>1, <3>1, <3>2, <3>3
  <2>2. QED
    BY <1>1, <1>2, <1>3, <1>5, <2>1, ThreadGoesOn
<1>8. CalmOf(p, q)'
  <2>1. worker'[p] = "none" /\ missing' = missing /\ asked <= 1 => at[q] # "name"
    <3>1. SUFFICES ASSUME worker'[p] = "none", missing' = missing, asked <= 1
                   PROVE  at[q] # "name"
      OBVIOUS
    <3>2. asked = 1
      BY <1>1, <1>2, <1>3, <3>1, ThreadFile DEF ChatType
    <3>3. QED
      BY <1>3, <1>6, <3>1, <3>2 DEF GivenUp, Named, Coming
  <2>2. QED
    BY <1>1, <1>2, <1>3, <1>5, <2>1, ThreadCalm
<1>9. PairInv(p, q)'
  BY <1>5, <1>7, <1>8 DEF PairInv
<1>10. QED
  BY <1>4, <1>9, PairOf DEF ChatInv

LEMMA WaitReadyStep ==
  ASSUME ChatInv, NEW p \in Peers, NEW q \in Peers, q = Other(p), WaitReady(p)
  PROVE  ChatInv'
<1>1. q # p /\ Other(q) = p /\ \A r \in Peers : r = p \/ r = q
  BY Pairs
<1>2. /\ ChatType
      /\ TurnOf(p, q) /\ TurnOf(q, p)
      /\ BlockOf(p, q) /\ BlockOf(q, p)
      /\ FirstFile(p, q) /\ CalmOf(p, q)
  BY PairOf DEF ChatInv, PairInv
<1>3. /\ ThreadWorks(p, q) /\ worker[p] = "ready" /\ worker'[p] = "parts" /\ part'[p] = 0
      /\ UNCHANGED <<at, open, missing>> /\ tcp'[q] = tcp[q]
      /\ open[p] = FALSE \/ tcp[p] # <<>> \/ open[q] = FALSE
      /\ tcp' \in [Peers -> Seq(Bytes)] /\ worker' \in [Peers -> Jobs] /\ part' \in [Peers -> 0 .. Parts]
  <2>1. /\ worker[p] = "ready" /\ UNCHANGED <<version, at, udp, open, content, saved, lost, missing, short, asked>>
        /\ worker' = [worker EXCEPT ![p] = "parts"] /\ part' = [part EXCEPT ![p] = 0]
        /\ \/ \E n \in Reads(p) : tcp' = [tcp EXCEPT ![p] = SubSeq(@, n + 1, Len(@))]
           \/ EndOfFile(p) /\ UNCHANGED tcp
    BY DEF WaitReady, received, history
  <2>2. version = "fina"
    BY <1>2, <2>1 DEF TurnOf, KeptBy
  <2>3. /\ worker'[p] = "parts" /\ part'[p] = 0 /\ worker'[q] = worker[q]
        /\ worker' \in [Peers -> Jobs] /\ part' \in [Peers -> 0 .. Parts]
    <3>1. 0 \in 0 .. Parts
      BY WholeIs
    <3>2. QED
      BY <1>1, <1>2, <2>1, <3>1 DEF ChatType, Jobs
  <2>4. tcp[p] \in Seq(Bytes)
    BY <1>2 DEF ChatType
  <2>5. tcp'[q] = tcp[q] /\ tcp' \in [Peers -> Seq(Bytes)]
    <3>1. ASSUME NEW n \in Reads(p), tcp' = [tcp EXCEPT ![p] = SubSeq(@, n + 1, Len(@))]
          PROVE  tcp'[q] = tcp[q] /\ tcp' \in [Peers -> Seq(Bytes)]
      <4>1. n \in 1 .. Len(tcp[p])
        BY DEF Reads
      <4>2. SubSeq(tcp[p], n + 1, Len(tcp[p])) \in Seq(Bytes)
        BY <2>4, <4>1
      <4>3. QED
        BY <1>1, <1>2, <3>1, <4>2 DEF ChatType
    <3>2. QED
      BY <1>2, <2>1, <3>1 DEF ChatType
  <2>6. open[p] = FALSE \/ tcp[p] # <<>> \/ open[q] = FALSE
    <3>1. ASSUME NEW n \in Reads(p) PROVE tcp[p] # <<>>
      BY <2>4 DEF Reads
    <3>2. EndOfFile(p) => open[p] = FALSE \/ open[q] = FALSE
      BY <1>2 DEF EndOfFile, ChatType
    <3>3. QED
      BY <2>1, <3>1, <3>2
  <2>7. QED
    BY <2>1, <2>2, <2>3, <2>5, <2>6 DEF ThreadWorks
<1>4. ChatType'
  BY <1>2, <1>3 DEF ChatType, ThreadWorks
<1>5. /\ at[p] \notin Starts \cup {"over"} /\ at[q] \notin Starts
      /\ Mail(p)' = Mail(p) /\ Mail(q)' = Mail(q)
      /\ TurnOf(p, q)' /\ TurnOf(q, p)' /\ BlockOf(p, q)' /\ BlockOf(q, p)'
  <2>1. at[p] # "over"
    BY <1>2, <1>3 DEF TurnOf, KeptBy, ThreadWorks
  <2>2. worker'[p] # "none" => worker'[p] = "cut" \/ at'[p] # "over"
    BY <1>3, <2>1 DEF ThreadWorks
  <2>3. QED
    BY <1>1, <1>2, <1>3, <2>2, ThreadTurn
<1>6. asked = 1 => /\ Receiving(q, p)
                   /\ GivenUp(q) \/ Named(q, p) \/ Coming(q, p)
  BY <1>1, <1>2, <1>3, ThreadFile
<1>7. FirstFile(p, q)'
  <2>1. ASSUME asked = 1 PROVE GivenUp(q)' \/ Named(q, p)' \/ Coming(q, p)'
    <3>1. CASE GivenUp(q)
      BY <1>3, <3>1 DEF GivenUp, ThreadWorks
    <3>2. CASE Named(q, p)
      BY <1>3, <3>2 DEF Named
    <3>3. CASE Coming(q, p)
      <4>1. /\ content[q] = <<>> /\ tcp[q] = <<>> /\ open[q] = TRUE /\ open[p] = TRUE
            /\ at[q] = "content" /\ saved[q] = FALSE /\ Mail(p) # "file"
        BY <1>3, <3>3 DEF Coming
      <4>2. <<>> \o <<>> = SubSeq(Whole, 1, 0) /\ 0 \in 0 .. Parts
        BY WholeIs
      <4>3. content'[q] \o tcp'[q] = SubSeq(Whole, 1, part'[p]) /\ part'[p] \in 0 .. Parts
        BY <1>3, <4>1, <4>2 DEF ThreadWorks
      <4>4. QED
        BY <1>3, <1>5, <4>1, <4>3 DEF Coming, ThreadWorks
    <3>4. QED
      BY <1>6, <2>1, <3>1, <3>2, <3>3
  <2>2. QED
    BY <1>1, <1>2, <1>3, <1>5, <2>1, ThreadGoesOn
<1>8. CalmOf(p, q)'
  <2>1. worker'[p] = "none" /\ missing' = missing /\ asked <= 1 => at[q] # "name"
    BY <1>3
  <2>2. QED
    BY <1>1, <1>2, <1>3, <1>5, <2>1, ThreadCalm
<1>9. PairInv(p, q)'
  BY <1>5, <1>7, <1>8 DEF PairInv
<1>10. QED
  BY <1>4, <1>9, PairOf DEF ChatInv

LEMMA SendPartStep ==
  ASSUME ChatInv, NEW p \in Peers, NEW q \in Peers, q = Other(p), SendPart(p)
  PROVE  ChatInv'
<1>1. q # p /\ Other(q) = p /\ \A r \in Peers : r = p \/ r = q
  BY Pairs
<1>2. /\ ChatType
      /\ TurnOf(p, q) /\ TurnOf(q, p)
      /\ BlockOf(p, q) /\ BlockOf(q, p)
      /\ FirstFile(p, q) /\ CalmOf(p, q)
  BY PairOf DEF ChatInv, PairInv
<1>3. /\ ThreadWorks(p, q) /\ worker[p] = "parts" /\ tcp'[p] = tcp[p] /\ UNCHANGED missing
      /\ part[p] # Parts /\ part[p] \in 0 .. Parts /\ part'[p] = part[p] + 1
      /\ \/ /\ open[p] = TRUE /\ worker'[p] = "parts" /\ UNCHANGED <<at, open>>
            /\ open[q] = TRUE => tcp'[q] = tcp[q] \o <<Whole[part[p] + 1]>>
         \/ open[p] = FALSE /\ worker'[p] = "none" /\ UNCHANGED <<at, tcp, open>>
         \/ open[q] = FALSE /\ worker'[p] = "cut"
      /\ at' \in [Peers -> Places] /\ worker' \in [Peers -> Jobs]
      /\ open' \in [Peers -> BOOLEAN] /\ tcp' \in [Peers -> Seq(Bytes)]
      /\ part' \in [Peers -> 0 .. Parts]
  <2>1. /\ worker[p] = "parts" /\ part[p] # Parts /\ part' = [part EXCEPT ![p] = @ + 1]
        /\ UNCHANGED <<version, udp, content, saved, lost, missing, short, asked>>
        /\ Write(p, <<Whole[part[p] + 1]>>, "parts")
    BY DEF SendPart, AllSent, received, history
  <2>2. version = "fina" /\ at[p] # "over"
    BY <1>2, <2>1 DEF TurnOf, KeptBy
  <2>3. part[p] \in 0 .. Parts /\ Whole[part[p] + 1] \in Bytes /\ part[p] + 1 \in 0 .. Parts
    BY <1>2, <2>1, WholeIs DEF ChatType
  <2>4. part'[p] = part[p] + 1 /\ part' \in [Peers -> 0 .. Parts]
    BY <1>2, <2>1, <2>3 DEF ChatType
  <2>5. "parts" \in Jobs /\ worker[p] # "none"
    BY <2>1 DEF Jobs
  <2>6. /\ at'[q] = at[q] /\ worker'[q] = worker[q] /\ open'[q] = open[q] /\ tcp'[p] = tcp[p]
        /\ at' \in [Peers -> Places] /\ worker' \in [Peers -> Jobs]
        /\ open' \in [Peers -> BOOLEAN] /\ tcp' \in [Peers -> Seq(Bytes)]
        /\ \/ /\ open[p] = TRUE /\ worker'[p] = "parts" /\ UNCHANGED <<at, open>>
              /\ open[q] = TRUE => tcp'[q] = tcp[q] \o <<Whole[part[p] + 1]>>
           \/ open[p] = FALSE /\ worker'[p] = "none" /\ UNCHANGED <<at, tcp, open>>
           \/ /\ open[p] = TRUE /\ open[q] = FALSE /\ UNCHANGED tcp
              /\ at'[p] = "over" /\ worker'[p] = "cut" /\ open'[p] = FALSE
    <3>1. PICK x \in Bytes : x = Whole[part[p] + 1]
      BY <2>3
    <3>2. Write(p, <<x>>, "parts")
      BY <2>1, <3>1
    <3>3. Wrote(p, q, x, "parts")
      BY <1>1, <1>2, <2>5, <3>2, Written
    <3>4. QED
      BY <3>1, <3>3 DEF Wrote
  <2>7. ThreadWorks(p, q)
    BY <2>1, <2>2, <2>6 DEF ThreadWorks
  <2>8. QED
    BY <2>1, <2>3, <2>4, <2>6, <2>7
<1>4. ChatType'
  BY <1>2, <1>3 DEF ChatType, ThreadWorks
<1>5. /\ at[p] \notin Starts \cup {"over"} /\ at[q] \notin Starts
      /\ Mail(p)' = Mail(p) /\ Mail(q)' = Mail(q)
      /\ TurnOf(p, q)' /\ TurnOf(q, p)' /\ BlockOf(p, q)' /\ BlockOf(q, p)'
  <2>1. at[p] # "over"
    BY <1>2, <1>3 DEF TurnOf, KeptBy, ThreadWorks
  <2>2. worker'[p] # "none" => worker'[p] = "cut" \/ at'[p] # "over"
    BY <1>3, <2>1 DEF ThreadWorks
  <2>3. QED
    BY <1>1, <1>2, <1>3, <2>2, ThreadTurn
<1>6. asked = 1 => /\ Receiving(q, p)
                   /\ GivenUp(q) \/ Named(q, p) \/ Coming(q, p)
  BY <1>1, <1>2, <1>3, ThreadFile
<1>7. FirstFile(p, q)'
  <2>1. ASSUME asked = 1 PROVE GivenUp(q)' \/ Named(q, p)' \/ Coming(q, p)'
    <3>1. CASE GivenUp(q)
      BY <1>3, <3>1 DEF GivenUp, ThreadWorks
    <3>2. CASE Named(q, p)
      BY <1>3, <3>2 DEF Named
    <3>3. CASE Coming(q, p)
      <4>1. /\ content[q] \o tcp[q] = SubSeq(Whole, 1, part[p]) /\ open[q] = TRUE /\ open[p] = TRUE
            /\ at[q] = "content" /\ saved[q] = FALSE /\ Mail(p) # "file"
        BY <1>3, <3>3 DEF Coming
      <4>2. worker'[p] = "parts" /\ open' = open /\ tcp'[q] = tcp[q] \o <<Whole[part[p] + 1]>>
        BY <1>3, <4>1
      <4>3. content[q] \in Seq(Bytes) /\ tcp[q] \in Seq(Bytes)
        BY <1>2 DEF ChatType
      <4>4. /\ content[q] \o (tcp[q] \o <<Whole[part[p] + 1]>>) = SubSeq(Whole, 1, part[p] + 1)
            /\ part[p] + 1 \in 0 .. Parts
        BY <1>3, <4>1, <4>3, NextPart
      <4>5. content'[q] \o tcp'[q] = SubSeq(Whole, 1, part'[p]) /\ part'[p] \in 0 .. Parts
        BY <1>3, <4>2, <4>4 DEF ThreadWorks
      <4>6. QED
        BY <1>3, <1>5, <4>1, <4>2, <4>5 DEF Coming, ThreadWorks
    <3>4. QED
      BY <1>6, <2>1, <3>1, <3>2, <3>3
  <2>2. QED
    BY <1>1, <1>2, <1>3, <1>5, <2>1, ThreadGoesOn
<1>8. CalmOf(p, q)'
  <2>1. worker'[p] = "none" /\ missing' = missing /\ asked <= 1 => at[q] # "name"
    <3>1. SUFFICES ASSUME worker'[p] = "none", missing' = missing, asked <= 1
                   PROVE  at[q] # "name"
      OBVIOUS
    <3>2. asked = 1
      BY <1>1, <1>2, <1>3, <3>1, ThreadFile DEF ChatType
    <3>3. QED
      BY <1>3, <1>6, <3>1, <3>2 DEF GivenUp, Named, Coming
  <2>2. QED
    BY <1>1, <1>2, <1>3, <1>5, <2>1, ThreadCalm
<1>9. PairInv(p, q)'
  BY <1>5, <1>7, <1>8 DEF PairInv
<1>10. QED
  BY <1>4, <1>9, PairOf DEF ChatInv

LEMMA CloseSourceStep ==
  ASSUME ChatInv, NEW p \in Peers, NEW q \in Peers, q = Other(p), CloseSource(p)
  PROVE  ChatInv'
<1>1. q # p /\ Other(q) = p /\ \A r \in Peers : r = p \/ r = q
  BY Pairs
<1>2. /\ ChatType
      /\ TurnOf(p, q) /\ TurnOf(q, p)
      /\ BlockOf(p, q) /\ BlockOf(q, p)
      /\ FirstFile(p, q) /\ CalmOf(p, q)
  BY PairOf DEF ChatInv, PairInv
<1>3. /\ ThreadWorks(p, q) /\ worker[p] = "parts" /\ worker'[p] = "none"
      /\ part[p] = Parts /\ open'[p] = FALSE /\ UNCHANGED <<part, at, tcp, missing>>
      /\ worker' \in [Peers -> Jobs] /\ open' \in [Peers -> BOOLEAN]
  <2>1. /\ worker[p] = "parts" /\ part[p] = Parts
        /\ UNCHANGED <<version, part, at, udp, tcp, content, saved, lost, missing, short, asked>>
        /\ worker' = [worker EXCEPT ![p] = "none"] /\ open' = [open EXCEPT ![p] = FALSE]
    BY DEF CloseSource, AllSent, Closed, received, history
  <2>2. version = "fina"
    BY <1>2, <2>1 DEF TurnOf, KeptBy
  <2>3. /\ worker'[p] = "none" /\ worker'[q] = worker[q] /\ open'[p] = FALSE /\ open'[q] = open[q]
        /\ worker' \in [Peers -> Jobs] /\ open' \in [Peers -> BOOLEAN]
    BY <1>1, <1>2, <2>1 DEF ChatType, Jobs
  <2>4. QED
    BY <2>1, <2>2, <2>3 DEF ThreadWorks
<1>4. ChatType'
  BY <1>2, <1>3 DEF ChatType, ThreadWorks
<1>5. /\ at[p] \notin Starts \cup {"over"} /\ at[q] \notin Starts
      /\ Mail(p)' = Mail(p) /\ Mail(q)' = Mail(q)
      /\ TurnOf(p, q)' /\ TurnOf(q, p)' /\ BlockOf(p, q)' /\ BlockOf(q, p)'
  <2>1. at[p] # "over"
    BY <1>2, <1>3 DEF TurnOf, KeptBy, ThreadWorks
  <2>2. worker'[p] # "none" => worker'[p] = "cut" \/ at'[p] # "over"
    BY <1>3, <2>1 DEF ThreadWorks
  <2>3. QED
    BY <1>1, <1>2, <1>3, <2>2, ThreadTurn
<1>6. asked = 1 => /\ Receiving(q, p)
                   /\ GivenUp(q) \/ Named(q, p) \/ Coming(q, p)
  BY <1>1, <1>2, <1>3, ThreadFile
<1>7. FirstFile(p, q)'
  <2>1. ASSUME asked = 1 PROVE GivenUp(q)' \/ Named(q, p)' \/ Coming(q, p)'
    <3>1. CASE GivenUp(q)
      BY <1>3, <3>1 DEF GivenUp, ThreadWorks
    <3>2. CASE Named(q, p)
      BY <1>3, <3>2 DEF Named
    <3>3. CASE Coming(q, p)
      <4>1. /\ content[q] \o tcp[q] = SubSeq(Whole, 1, part[p]) /\ open[q] = TRUE
            /\ at[q] = "content" /\ saved[q] = FALSE /\ Mail(p) # "file"
        BY <1>3, <3>3 DEF Coming
      <4>2. SubSeq(Whole, 1, Parts) = Whole
        BY WholeIs
      <4>3. content'[q] \o tcp'[q] = Whole
        BY <1>3, <4>1, <4>2 DEF ThreadWorks
      <4>4. QED
        BY <1>3, <1>5, <4>1, <4>3 DEF Coming, ThreadWorks
    <3>4. QED
      BY <1>6, <2>1, <3>1, <3>2, <3>3
  <2>2. QED
    BY <1>1, <1>2, <1>3, <1>5, <2>1, ThreadGoesOn
<1>8. CalmOf(p, q)'
  <2>1. worker'[p] = "none" /\ missing' = missing /\ asked <= 1 => at[q] # "name"
    <3>1. SUFFICES ASSUME worker'[p] = "none", missing' = missing, asked <= 1
                   PROVE  at[q] # "name"
      OBVIOUS
    <3>2. asked = 1
      BY <1>1, <1>2, <1>3, <3>1, ThreadFile DEF ChatType
    <3>3. QED
      BY <1>3, <1>6, <3>1, <3>2 DEF GivenUp, Named, Coming
  <2>2. QED
    BY <1>1, <1>2, <1>3, <1>5, <2>1, ThreadCalm
<1>9. PairInv(p, q)'
  BY <1>5, <1>7, <1>8 DEF PairInv
<1>10. QED
  BY <1>4, <1>9, PairOf DEF ChatInv
-----------------------------------------------------------------------------
LEMMA ChatStep == ChatInv /\ [ChatNext]_chatVars => ChatInv'
<1> SUFFICES ASSUME ChatInv, [ChatNext]_chatVars PROVE ChatInv'
  OBVIOUS
<1>1. CASE BindListen
  <2>1. PICK p \in Peers : p = "server"
    BY DEF Peers
  <2>2. Other(p) \in Peers
    BY Pairs
  <2>3. QED
    BY <1>1, <2>1, <2>2, BindListenStep
<1>2. CASE ConnectAccept
  <2>1. PICK p \in Peers : p = "client"
    BY DEF Peers
  <2>2. Other(p) \in Peers
    BY Pairs
  <2>3. QED
    BY <1>2, <2>1, <2>2, ConnectAcceptStep
<1>3. ASSUME NEW p \in Peers, Type(p) \/ ChatMain(p) \/ ChatThread(p) \/ Lose(p)
      PROVE  ChatInv'
  <2>1. PICK q \in Peers : q = Other(p)
    BY Pairs
  <2>2. CASE Type(p) \/ Lose(p)
    BY <2>1, <2>2, TypeStep, LoseStep
  <2>3. CASE Hear(p)
    BY <2>1, <2>3, HearTextStep, HearQuitStep, StartThreadStep, OfferNameStep DEF Hear
  <2>4. CASE Receive(p)
    BY <2>1, <2>4, NameByDatagramStep, NameByStreamStep, GetBlockStep, GetContentStep,
       ContentEndsStep DEF Receive
  <2>5. CASE Offer(p)
    BY <2>1, <2>5, OfferStep
  <2>6. CASE ChatThread(p)
    BY <2>1, <2>6, OpenSourceStep, WaitReadyStep, SendPartStep, CloseSourceStep DEF ChatThread
  <2>7. QED
    BY <1>3, <2>2, <2>3, <2>4, <2>5, <2>6 DEF ChatMain
<1>4. CASE UNCHANGED chatVars
  <2>1. PICK p \in Peers : p = "client"
    BY DEF Peers
  <2>2. PICK q \in Peers : q = Other(p)
    BY Pairs
  <2> USE <1>4 DEF chatVars, net, received, history
  <2>3. ChatType'
    BY DEF ChatInv, ChatType
  <2>4. PairInv(p, q)
    BY <2>1, <2>2, PairOf DEF ChatInv
  <2>5. /\ TurnOf(p, q)' /\ TurnOf(q, p)' /\ BlockOf(p, q)' /\ BlockOf(q, p)'
    BY <2>4 DEF PairInv, TurnOf, KeptBy, StartOf, TokenOf, BlockOf, Mail
  <2>6. FirstFile(p, q)'
    <3>1. Begins(content[p])' = Begins(content[p]) /\ Begins(content[q])' = Begins(content[q])
      BY DEF Begins
    <3>2. /\ Begins(content[p] \o tcp[p])' = Begins(content[p] \o tcp[p])
          /\ Begins(content[q] \o tcp[q])' = Begins(content[q] \o tcp[q])
      BY DEF Begins
    <3>3. Mail(p)' = Mail(p) /\ Mail(q)' = Mail(q)
      BY DEF Mail
    <3>4. /\ NoFile(p)' = NoFile(p) /\ NoFile(q)' = NoFile(q)
      BY <3>3 DEF NoFile
    <3>5. /\ Receiving(p, q) => Receiving(p, q)'
          /\ Receiving(q, p) => Receiving(q, p)'
      BY <3>1, <3>2, <3>3 DEF Receiving, GivenUp, Named, Coming, Complete
    <3>6. QED
      BY <2>4, <3>4, <3>5 DEF PairInv, FirstFile
  <2>7. CalmOf(p, q)'
    <3>1. Mail(p)' = Mail(p) /\ Mail(q)' = Mail(q)
      BY DEF Mail
    <3>2. QED
      BY <2>4, <3>1 DEF PairInv, CalmOf, Calm, Said, Provided
  <2>8. QED
    BY <2>1, <2>2, <2>3, <2>5, <2>6, <2>7, PairOf DEF PairInv, ChatInv
<1>5. QED
  BY <1>1, <1>2, <1>3, <1>4 DEF ChatNext

LEMMA ChatInvariant == ChatSpec => []ChatInv
BY ChatInitial, ChatStep, PTL DEF ChatSpec

\* Whoever has said the last word, one of them can go on.
LEMMA OneGoesOn ==
  ASSUME ChatInv, NEW p \in Peers, NEW q \in Peers, q = Other(p),
         Calm(p, q), Said(p, q), worker[p] = "none", worker[q] = "none"
  PROVE  \/ ~Stuck(p) /\ at[p] # "over"
         \/ ~Stuck(q) /\ at[q] # "over"
         \/ at[p] = "over" /\ at[q] = "over"
<1>1. /\ ChatType /\ TurnOf(p, q) /\ TurnOf(q, p) /\ FirstFile(p, q) /\ CalmOf(p, q)
      /\ Other(q) = p /\ p # q
  BY Pairs, PairOf DEF ChatInv, PairInv
<1>2. Provided(p, q) /\ Provided(q, p)
  BY <1>1 DEF CalmOf
<1>3. /\ udp[q] \in Seq(Words) /\ udp[p] \in Seq(Words)
      /\ Mail(q) = "nothing" <=> udp[q] = <<>>
      /\ Mail(p) = "nothing" <=> udp[p] = <<>>
  BY <1>1, MailIs DEF ChatType
<1>4. version \in {"udp", "serve", "fina"}
  BY <1>1, VersionIs
<1>5. at[q] = "content" /\ version = "fina" => open[p] = FALSE
  <2>1. SUFFICES ASSUME at[q] = "content", version = "fina" PROVE open[p] = FALSE
    OBVIOUS
  <2>2. asked = 1
    BY <1>1, <2>1 DEF Calm, FirstFile, NoFile, ChatType
  <2>3. Coming(q, p)
    BY <1>1, <2>1, <2>2 DEF FirstFile, Receiving, GivenUp, Named, Complete
  <2>4. QED
    BY <2>3 DEF Coming
<1>6. CASE at[p] \in Starts \cup {"type"}
  BY <1>6 DEF Stuck, Starts
<1>7. ASSUME at[q] \in Waits, Mail(q) \in {"text", "quit"}, at[p] \in {"recv", "over"}
      PROVE  ~Stuck(q) /\ at[q] # "over"
  <2>1. udp[q] # <<>> /\ Mail(p) = "nothing"
    BY <1>1, <1>3, <1>7 DEF TurnOf, TokenOf
  <2>2. CASE at[q] = "recv"
    BY <2>1, <2>2 DEF Stuck
  <2>3. CASE at[q] = "name"
    BY <1>1, <1>2, <1>4, <2>1, <2>3 DEF Stuck, Provided, TurnOf, KeptBy
  <2>4. CASE at[q] = "content"
    <3>1. at[p] = "over" => open[p] = FALSE
      BY <1>1 DEF TurnOf, KeptBy
    <3>2. tcp[q] # <<>> \/ open[p] = FALSE
      BY <1>1, <1>2, <1>4, <1>5, <1>7, <2>4, <3>1 DEF Provided, TurnOf, KeptBy
    <3>3. QED
      BY <1>1, <2>4, <3>2 DEF Stuck, EndOfFile
  <2>5. QED
    BY <1>7, <2>2, <2>3, <2>4 DEF Waits
<1>8. CASE at[p] = "name" /\ at[q] \in {"recv", "content"} /\ Mail(q) = "file"
  <2>1. CASE at[q] = "recv"
    BY <1>3, <1>8, <2>1 DEF Stuck
  <2>2. CASE at[q] = "content"
    <3>1. version # "fina"
      <4>1. SUFFICES ASSUME version = "fina" PROVE FALSE
        OBVIOUS
      <4>2. asked = 1
        BY <1>1, <2>2, <4>1 DEF Calm, FirstFile, NoFile, ChatType
      <4>3. QED
        BY <1>1, <1>8, <2>2, <4>1, <4>2 DEF FirstFile, Receiving
    <3>2. tcp[q] # <<>>
      BY <1>1, <1>2, <1>4, <1>8, <2>2, <3>1 DEF Provided, TurnOf, KeptBy
    <3>3. QED
      BY <2>2, <3>2 DEF Stuck
  <2>3. QED
    BY <1>8, <2>1, <2>2
<1>9. CASE version = "serve" /\ at[p] = "name" /\ at[q] = "offer" /\ Mail(p) = "name"
  BY <1>3, <1>9 DEF Stuck
<1>10. CASE version = "serve" /\ at[q] = "offer" /\ Mail(q) = "ready"
  BY <1>3, <1>10 DEF Stuck
<1>11. QED
  BY <1>6, <1>7, <1>8, <1>9, <1>10 DEF Said

\* NoMutualWait: the two users of chat never wait for each other, nor one for
\* one who has quit, while nothing happens that the programs do not provide for.
THEOREM NoneWaitsInVain == ChatSpec => []NoMutualWait
<1>1. ChatInv => NoMutualWait
  <2>1. SUFFICES ASSUME ChatInv, ~Trouble, \E r \in Peers : Stuck(r),
                        \A r \in Peers : worker[r] = "none"
                 PROVE  \E r \in Peers : ~Stuck(r) /\ at[r] # "over"
    BY DEF NoMutualWait
  <2>2. PICK p \in Peers : p = "client"
    BY DEF Peers
  <2>3. PICK q \in Peers : q = Other(p)
    BY Pairs
  <2>4. /\ ChatType /\ CalmOf(p, q) /\ Other(q) = p
        /\ \A r \in Peers : r = p \/ r = q
    BY <2>1, <2>3, Pairs, PairOf DEF ChatInv, PairInv
  <2>5. Calm(p, q) /\ Calm(q, p)
    BY <2>1, <2>4 DEF Calm, Trouble, ChatType
  <2>6. Said(p, q) \/ Said(q, p)
    BY <2>4, <2>5 DEF CalmOf
  <2>7. \/ ~Stuck(p) /\ at[p] # "over"
        \/ ~Stuck(q) /\ at[q] # "over"
        \/ at[p] = "over" /\ at[q] = "over"
    <3>1. CASE Said(p, q)
      BY <2>1, <2>3, <2>5, <3>1, OneGoesOn
    <3>2. CASE Said(q, p)
      BY <2>1, <2>4, <2>5, <3>2, OneGoesOn
    <3>3. QED
      BY <2>6, <3>1, <3>2
  <2>8. ~(at[p] = "over" /\ at[q] = "over")
    BY <2>1, <2>4 DEF Stuck
  <2>9. QED
    BY <2>7, <2>8
<1>2. QED
  BY <1>1, ChatInvariant, PTL

LEMMA BeginsIsPrefix ==
  ASSUME NEW s, Begins(s)
  PROVE  IsPrefix(s, Whole)
<1>1. PICK k \in 0 .. Parts : s = SubSeq(Whole, 1, k)
  BY DEF Begins
<1>2. Whole \in Seq(Bytes) /\ Parts = Len(Whole) /\ Parts \in Nat /\ k \in Nat /\ k <= Parts
  BY WholeIs
<1>3. Len(s) = k /\ Len(s) <= Len(Whole)
  BY <1>1, <1>2
<1>4. SubSeq(s, 1, Len(s)) = SubSeq(Whole, 1, Len(s))
  BY <1>1, <1>2, <1>3
<1>5. QED
  BY <1>3, <1>4 DEF IsPrefix

\* FileIsSenders: what the receiver of a file says it has saved is the
\* sender's file, or the beginning of it where the programs cut it off.
THEOREM SavedIsSent == ChatSpec => []FileIsSenders
<1>1. ChatInv => FileIsSenders
  <2>1. SUFFICES ASSUME ChatInv, NEW p \in Peers, saved[p] = TRUE
                 PROVE  \/ IF version = "serve" THEN short > 0 ELSE asked > 1
                        \/ content[p] = Whole
                        \/ /\ IsPrefix(content[p], Whole)
                           /\ (version = "serve" \/ worker[Other(p)] = "cut")
    <3>1. ASSUME ChatInv, NEW p \in Peers, saved[p] PROVE saved[p] = TRUE
      BY <3>1 DEF ChatInv, ChatType
    <3>2. QED
      BY <3>1 DEF FileIsSenders
  <2>2. PICK q \in Peers : q = Other(p)
    BY Pairs
  <2>3. ChatType /\ TurnOf(p, q) /\ BlockOf(p, q) /\ FirstFile(p, q)
    BY <2>1, <2>2, PairOf DEF ChatInv, PairInv
  <2>4. short \in Nat /\ asked \in Nat
    BY <2>3 DEF ChatType
  <2>5. CASE version = "serve"
    BY <2>1, <2>3, <2>4, <2>5 DEF BlockOf
  <2>6. CASE version = "fina"
    <3>1. CASE asked > 1
      BY <2>6, <3>1
    <3>2. CASE ~(asked > 1)
      <4>1. asked = 1
        BY <2>1, <2>3, <2>4, <2>6, <3>2 DEF FirstFile, NoFile
      <4>2. Complete(p, q)
        BY <2>1, <2>3, <2>6, <4>1 DEF FirstFile, Receiving, GivenUp, Named, Coming
      <4>3. \/ content[p] = Whole
            \/ worker[q] = "cut" /\ Begins(content[p])
        BY <4>2 DEF Complete
      <4>4. QED
        BY <2>2, <4>3, BeginsIsPrefix
    <3>3. QED
      BY <3>1, <3>2
  <2>7. QED
    BY <2>1, <2>3, <2>5, <2>6, VersionIs DEF TurnOf, KeptBy
<1>2. QED
  BY <1>1, ChatInvariant, PTL
-----------------------------------------------------------------------------
(* Every set of natural numbers has a smallest one, every bounded one a     *)
(* largest.                                                                 *)
LEMMA Smallest ==
  ASSUME NEW T \in SUBSET Nat, T # {}
  PROVE  \E m \in T : \A k \in T : m <= k
<1> DEFINE Less == {p \in Nat \X Nat : p[1] < p[2]}
<1>1. IsWellFoundedOn(Less, Nat)
  BY NatLessThanWellFounded DEF OpToRel
<1>2. \A x, y \in Nat : <<y, x>> \in Less <=> y < x
  OBVIOUS
<1> HIDE DEF Less
<1>3. PICK m \in T : \A k \in T : ~ (<<k, m>> \in Less)
  BY <1>1, WFMin
<1>4. ASSUME NEW k \in T PROVE m <= k
  <2>1. m \in Nat /\ k \in Nat /\ ~ (k < m)
    BY <1>2, <1>3
  <2>2. QED
    BY <2>1
<1>5. QED
  BY <1>4

LEMMA Largest ==
  ASSUME NEW n \in Nat, NEW T \in SUBSET (0 .. n), T # {}
  PROVE  \E m \in T : \A k \in T : k <= m
<1> DEFINE U == {k \in 0 .. n : n - k \in T}
<1>1. U \in SUBSET Nat /\ U # {}
  <2>1. PICK k \in T : k \in 0 .. n
    OBVIOUS
  <2>2. n - k \in 0 .. n /\ n - (n - k) = k
    BY <2>1
  <2>3. n - k \in U
    BY <2>1, <2>2
  <2>4. U \in SUBSET Nat
    OBVIOUS
  <2> HIDE DEF U
  <2>5. QED
    BY <2>3, <2>4
<1>2. PICK m \in U : \A k \in U : m <= k
  <2> HIDE DEF U
  <2>1. QED
    BY <1>1, Smallest
<1>3. n - m \in T
  BY <1>2
<1>4. ASSUME NEW k \in T PROVE k <= n - m
  <2>1. k \in 0 .. n /\ n - k \in 0 .. n /\ n - (n - k) = k
    OBVIOUS
  <2>2. n - k \in U
    BY <2>1
  <2>3. m <= n - k /\ m \in 0 .. n
    BY <1>2, <2>2
  <2>4. QED
    BY <2>1, <2>3
<1>5. QED
  BY <1>3, <1>4
-----------------------------------------------------------------------------
(* The last slash among the first i characters of a URL, and what follows   *)
(* it; the name collected from them, which a slash at the end leaves alone. *)
Slashes(url, i) == {k \in 1 .. i : url[k] = "/"} \cup {0}
LastSlash(url, i) == CHOOSE k \in Slashes(url, i) : \A j \in Slashes(url, i) : j <= k
Segment(url, i) == SubSeq(url, LastSlash(url, i) + 1, i)
Ends(url, i) == i = Len(url) /\ i > 0 /\ url[i] = "/"
Collected(url, i) == IF Ends(url, i) THEN Segment(url, i - 1) ELSE Segment(url, i)

LEMMA LastSlashIs ==
  ASSUME NEW url, NEW i \in Nat
  PROVE  LastSlash(url, i) \in Slashes(url, i) /\ \A j \in Slashes(url, i) : j <= LastSlash(url, i)
<1>1. Slashes(url, i) \in SUBSET (0 .. i) /\ 0 \in Slashes(url, i)
  BY DEF Slashes
<1>2. \E k \in Slashes(url, i) : \A j \in Slashes(url, i) : j <= k
  BY <1>1, Largest
<1>3. QED
  BY <1>2 DEF LastSlash

(* The last slash moves only when the next character is one.                *)
LEMMA LastSlashMoves ==
  ASSUME NEW url, NEW i \in Nat \ {0}
  PROVE  /\ url[i] = "/" => LastSlash(url, i) = i
         /\ url[i] # "/" => LastSlash(url, i) = LastSlash(url, i - 1)
         /\ LastSlash(url, i - 1) \in 0 .. i - 1
<1>1. i - 1 \in Nat
  OBVIOUS
<1>2. /\ LastSlash(url, i) \in Slashes(url, i) /\ \A j \in Slashes(url, i) : j <= LastSlash(url, i)
  BY LastSlashIs
<1>3. /\ LastSlash(url, i - 1) \in Slashes(url, i - 1)
      /\ \A j \in Slashes(url, i - 1) : j <= LastSlash(url, i - 1)
  BY <1>1, LastSlashIs
<1>4. Slashes(url, i) \subseteq 0 .. i /\ Slashes(url, i - 1) \subseteq 0 .. i - 1
  BY DEF Slashes
<1>5. ASSUME url[i] = "/" PROVE LastSlash(url, i) = i
  <2>1. i \in Slashes(url, i)
    BY <1>5 DEF Slashes
  <2>2. QED
    BY <1>2, <1>4, <2>1
<1>6. ASSUME url[i] # "/" PROVE LastSlash(url, i) = LastSlash(url, i - 1)
  <2>1. Slashes(url, i) = Slashes(url, i - 1)
    BY <1>6 DEF Slashes
  <2>2. /\ LastSlash(url, i) \in Slashes(url, i - 1) /\ LastSlash(url, i - 1) \in Slashes(url, i)
    BY <1>2, <1>3, <2>1
  <2>3. /\ LastSlash(url, i) <= LastSlash(url, i - 1) /\ LastSlash(url, i - 1) <= LastSlash(url, i)
    BY <1>2, <1>3, <2>2
  <2>4. QED
    BY <1>4, <2>2, <2>3
<1>7. QED
  BY <1>3, <1>4, <1>5, <1>6

(* One more character does to what is collected what Collect does.          *)
LEMMA CollectsNext ==
  ASSUME NEW url \in Seq(STRING), NEW i \in 1 .. Len(url)
  PROVE  Collect(Collected(url, i - 1), url, i) = Collected(url, i)
<1>1. Len(url) \in Nat /\ i \in Nat \ {0} /\ i - 1 \in Nat /\ i - 1 < Len(url)
  OBVIOUS
<1>2. Collected(url, i - 1) = Segment(url, i - 1)
  BY <1>1 DEF Collected, Ends
<1>3. LastSlash(url, i - 1) \in 0 .. i - 1
  BY <1>1, LastSlashMoves
<1>4. CASE url[i] # "/"
  <2> DEFINE l == LastSlash(url, i - 1)
  <2>1. LastSlash(url, i) = l
    BY <1>1, <1>4, LastSlashMoves
  <2>2. Collected(url, i) = SubSeq(url, l + 1, i)
    BY <1>4, <2>1 DEF Collected, Ends, Segment
  <2>3. SubSeq(url, l + 1, i) = Append(SubSeq(url, l + 1, i - 1), url[i])
    <3>1. l + 1 \in 1 .. Len(url) /\ i \in l + 1 .. Len(url)
      BY <1>1, <1>3
    <3> HIDE DEF l
    <3>2. SubSeq(url, l + 1, i) = SubSeq(url, l + 1, i - 1) \o <<url[i]>>
      <4> DEFINE m == l + 1
      <4>1. m \in 1 .. Len(url) /\ i \in m .. Len(url)
        BY <3>1
      <4> HIDE DEF m
      <4>2. SubSeq(url, m, i) = SubSeq(url, m, i - 1) \o <<url[i]>>
        BY <4>1, SubSeqRecursiveSecond
      <4>3. QED
        BY <4>2 DEF m
    <3>3. SubSeq(url, l + 1, i - 1) \in Seq(STRING) /\ url[i] \in STRING
      BY <1>1, <3>1
    <3>4. QED
      BY <3>2, <3>3, AppendIsConcat
  <2>4. QED
    BY <1>2, <1>4, <2>2, <2>3 DEF Collect, Segment
<1>5. CASE url[i] = "/" /\ i # Len(url)
  <2>1. LastSlash(url, i) = i
    BY <1>1, <1>5, LastSlashMoves
  <2>2. Collected(url, i) = SubSeq(url, i + 1, i)
    BY <1>5, <2>1 DEF Collected, Ends, Segment
  <2>3. SubSeq(url, i + 1, i) = <<>>
    BY <1>1, SubSeqEmpty
  <2>4. QED
    BY <1>5, <2>2, <2>3 DEF Collect, Restarts
<1>6. CASE url[i] = "/" /\ i = Len(url)
  BY <1>1, <1>2, <1>6 DEF Collect, Restarts, Collected, Ends
<1>7. QED
  BY <1>4, <1>5, <1>6

(* The loop of parse_url collects that name.  The recursive function exists *)
(* since Collected satisfies its equation, and the smallest number at which *)
(* the two differed would contradict it.                                    *)
LEMMA FileNameIsCollected ==
  ASSUME NEW url \in Seq(STRING)
  PROVE  FileName(url) = Collected(url, Len(url))
<1> DEFINE Loop(g) == g = [i \in 0 .. Len(url) |-> IF i = 0 THEN <<>> ELSE Collect(g[i - 1], url, i)]
           chosen == CHOOSE g : Loop(g)
           h == [i \in 0 .. Len(url) |-> Collected(url, i)]
<1>1. Len(url) \in Nat
  OBVIOUS
<1>2. Collected(url, 0) = <<>>
  <2>1. LastSlash(url, 0) \in 0 .. 0
    BY LastSlashIs DEF Slashes
  <2>2. SubSeq(url, 0 + 1, 0) = <<>>
    BY SubSeqEmpty
  <2>3. QED
    BY <2>1, <2>2 DEF Collected, Ends, Segment
<1>3. Loop(h)
  <2>1. ASSUME NEW i \in 0 .. Len(url)
        PROVE  h[i] = IF i = 0 THEN <<>> ELSE Collect(h[i - 1], url, i)
    <3>1. CASE i = 0
      BY <1>2, <3>1
    <3>2. CASE i # 0
      <4>1. i \in 1 .. Len(url) /\ i - 1 \in 0 .. Len(url)
        BY <1>1, <3>2
      <4>2. Collect(Collected(url, i - 1), url, i) = Collected(url, i)
        BY <4>1, CollectsNext
      <4>3. QED
        BY <3>2, <4>1, <4>2
    <3>3. QED
      BY <3>1, <3>2
  <2>2. QED
    BY <2>1
<1>4. Loop(chosen)
  <2> HIDE DEF Loop, h
  <2>1. QED
    BY <1>3
<1>5. FileName(url) = chosen[Len(url)]
  BY DEF FileName
<1> HIDE DEF chosen
<1>6. ASSUME NEW i \in 0 .. Len(url)
      PROVE  chosen[i] = IF i = 0 THEN <<>> ELSE Collect(chosen[i - 1], url, i)
  BY <1>4
<1>7. \A i \in 0 .. Len(url) : chosen[i] = Collected(url, i)
  <2> DEFINE Bad == {i \in 0 .. Len(url) : chosen[i] # Collected(url, i)}
  <2>1. SUFFICES ASSUME Bad # {} PROVE FALSE
    OBVIOUS
  <2>2. Bad \in SUBSET Nat
    BY <1>1
  <2>3. PICK m \in Bad : \A k \in Bad : m <= k
    <3> HIDE DEF Bad
    <3>1. QED
      BY <2>1, <2>2, Smallest
  <2>4. m \in 0 .. Len(url) /\ chosen[m] # Collected(url, m)
    BY <2>3
  <2>5. m # 0
    BY <1>2, <1>6, <2>4
  <2>6. m \in 1 .. Len(url) /\ m - 1 \in 0 .. Len(url) /\ ~(m <= m - 1)
    BY <1>1, <2>4, <2>5
  <2>7. chosen[m - 1] = Collected(url, m - 1)
    BY <2>3, <2>6
  <2>8. chosen[m] = Collect(Collected(url, m - 1), url, m)
    BY <1>6, <2>4, <2>5, <2>7
  <2>9. QED
    BY <2>4, <2>6, <2>8, CollectsNext
<1>8. QED
  BY <1>1, <1>5, <1>7

(* The part of the URL in front of its first slash and first colon.         *)
LEMMA DomainIsBare ==
  ASSUME NEW url \in Seq(STRING), NEW i \in DOMAIN Domain(url)
  PROVE  Domain(url)[i] \notin {"/", ":"}
<1> DEFINE stops == {k \in DOMAIN url : url[k] = "/"}
           Fits(n) == (\A k \in 1 .. n : k \notin stops) /\ (n = Len(url) \/ n + 1 \in stops)
           n == CHOOSE k \in 0 .. Len(url) : Fits(k)
           domain == SubSeq(url, 1, n)
           colons == {k \in DOMAIN domain : domain[k] = ":"}
           First(k) == \A j \in colons : k <= j
           c == CHOOSE k \in colons : First(k)
<1>1. Len(url) \in Nat /\ DOMAIN url = 1 .. Len(url)
  OBVIOUS
<1>2. \E k \in 0 .. Len(url) : Fits(k)
  <2>1. CASE stops = {}
    <3>1. Fits(Len(url))
      BY <2>1
    <3> HIDE DEF Fits
    <3>2. QED
      BY <1>1, <3>1
  <2>2. CASE stops # {}
    <3>1. stops \in SUBSET Nat
      BY <1>1
    <3>2. PICK m \in stops : \A k \in stops : m <= k
      <4> HIDE DEF stops
      <4>1. QED
        BY <2>2, <3>1, Smallest
    <3>3. m \in 1 .. Len(url) /\ m - 1 \in 0 .. Len(url) /\ (m - 1) + 1 = m
      BY <1>1, <3>2
    <3>4. \A k \in 1 .. m - 1 : k \notin stops
      BY <3>2, <3>3
    <3>5. Fits(m - 1)
      BY <3>2, <3>3, <3>4
    <3>6. QED
      BY <3>3, <3>5
  <2>3. QED
    BY <2>1, <2>2
<1>3. n \in 0 .. Len(url) /\ Fits(n)
  <2> HIDE DEF Fits
  <2>1. QED
    BY <1>2
<1>4. Domain(url) = IF colons = {} THEN domain ELSE SubSeq(domain, 1, c - 1)
  BY DEF Domain
<1> HIDE DEF n
<1>5. /\ domain \in Seq(STRING) /\ Len(domain) = n /\ DOMAIN domain = 1 .. n
      /\ \A k \in 1 .. n : domain[k] = url[k] /\ url[k] # "/"
  <2>1. n \in 0 .. Len(url) /\ \A k \in 1 .. n : k \notin stops
    BY <1>3
  <2>2. \A k \in 1 .. n : url[k] # "/"
    BY <1>1, <2>1
  <2>0. /\ domain \in Seq(STRING) /\ Len(domain) = n
        /\ \A k \in 1 .. n : domain[k] = url[k]
    <3> HIDE DEF stops
    <3>1. QED
      BY <1>1, <2>1
  <2>3. QED
    BY <2>0, <2>2
<1> HIDE DEF domain
<1>6. CASE colons = {}
  <2>1. i \in 1 .. n /\ Domain(url)[i] = domain[i]
    BY <1>4, <1>5, <1>6
  <2>2. domain[i] # ":"
    BY <1>5, <1>6, <2>1
  <2>3. QED
    BY <1>5, <2>1, <2>2
<1>7. CASE colons # {}
  <2>1. \E k \in colons : First(k)
    <3>1. colons \in SUBSET Nat
      BY <1>3, <1>5
    <3> HIDE DEF colons
    <3>2. QED
      BY <1>7, <3>1, Smallest
  <2>2. c \in colons /\ First(c)
    <3> HIDE DEF First, colons
    <3>1. QED
      BY <2>1
  <2> HIDE DEF c
  <2>3. c \in 1 .. n /\ n \in Nat
    <3>1. c \in DOMAIN domain /\ n \in 0 .. Len(url)
      BY <1>3, <2>2
    <3>2. QED
      BY <1>1, <1>5, <3>1
  <2>4. /\ SubSeq(domain, 1, c - 1) \in Seq(STRING) /\ Len(SubSeq(domain, 1, c - 1)) = c - 1
        /\ \A k \in 1 .. c - 1 : SubSeq(domain, 1, c - 1)[k] = domain[k]
    BY <1>5, <2>3
  <2>5. Domain(url) = SubSeq(domain, 1, c - 1)
    BY <1>4, <1>7
  <2>6. DOMAIN Domain(url) = 1 .. c - 1
    BY <2>4, <2>5
  <2>7. i \in 1 .. c - 1
    BY <2>6
  <2>8. i \in 1 .. n /\ ~(c <= i) /\ Domain(url)[i] = domain[i]
    BY <2>3, <2>4, <2>5, <2>7
  <2>9. i \notin colons
    BY <2>2, <2>8
  <2>10. domain[i] # ":"
    BY <1>5, <2>8, <2>9
  <2>11. QED
    BY <1>5, <2>8, <2>10
<1>8. QED
  BY <1>6, <1>7

(* Whatever URL is asked for, the file is named after its last part.        *)
THEOREM NameIsLastPart == DownloadSpec => []NamedAfterUrl
<1>1. NamedAfterUrl
  <2> SUFFICES ASSUME NEW url \in Urls
               PROVE  LET trimmed == IF url # <<>> /\ url[Len(url)] = "/"
                                     THEN SubSeq(url, 1, Len(url) - 1) ELSE url
                          slashes == {i \in DOMAIN trimmed : trimmed[i] = "/"} \cup {0}
                          last == CHOOSE i \in slashes : \A j \in slashes : j <= i
                      IN  /\ FileName(url) = SubSeq(trimmed, last + 1, Len(trimmed))
                          /\ \A i \in DOMAIN Domain(url) : Domain(url)[i] \notin {"/", ":"}
    BY DEF NamedAfterUrl
  <2> DEFINE trimmed == IF url # <<>> /\ url[Len(url)] = "/"
                        THEN SubSeq(url, 1, Len(url) - 1) ELSE url
             n == Len(trimmed)
  <2>1. url \in Seq(STRING) /\ Len(url) \in Nat
    BY DownloadAssumption
  <2>2. FileName(url) = Collected(url, Len(url))
    BY <2>1, FileNameIsCollected
  <2>3. /\ trimmed \in Seq(STRING) /\ n \in 0 .. Len(url)
        /\ \A k \in 1 .. n : trimmed[k] = url[k]
        /\ Collected(url, Len(url)) = Segment(url, n)
    <3>1. CASE url # <<>> /\ url[Len(url)] = "/"
      <4>1. Len(url) > 0
        BY <2>1, <3>1
      <4>2. n = Len(url) - 1 /\ trimmed \in Seq(STRING) /\ \A k \in 1 .. n : trimmed[k] = url[k]
        <5>1. trimmed = SubSeq(url, 1, Len(url) - 1)
          BY <3>1
        <5> DEFINE l == Len(url) - 1
        <5>2. l \in Nat /\ l <= Len(url)
          BY <2>1, <4>1
        <5> HIDE DEF l
        <5>3. /\ SubSeq(url, 1, l) \in Seq(STRING) /\ Len(SubSeq(url, 1, l)) = l
              /\ \A k \in 1 .. l : SubSeq(url, 1, l)[k] = url[k]
          BY <2>1, <5>2
        <5>4. QED
          BY <5>1, <5>3 DEF l
      <4>3. Collected(url, Len(url)) = Segment(url, Len(url) - 1)
        BY <3>1, <4>1 DEF Collected, Ends
      <4>4. QED
        BY <2>1, <4>1, <4>2, <4>3
    <3>2. CASE ~(url # <<>> /\ url[Len(url)] = "/")
      <4>1. trimmed = url /\ ~Ends(url, Len(url))
        <5>1. url = <<>> => Len(url) = 0
          OBVIOUS
        <5>2. QED
          BY <3>2, <5>1 DEF Ends
      <4>2. QED
        BY <2>1, <4>1 DEF Collected
    <3>3. QED
      BY <3>1, <3>2
  <2> HIDE DEF trimmed
  <2>4. {i \in DOMAIN trimmed : trimmed[i] = "/"} \cup {0} = Slashes(url, n)
    BY <2>3 DEF Slashes
  <2>5. SubSeq(trimmed, LastSlash(url, n) + 1, n) = Segment(url, n)
    <3>1. LastSlash(url, n) \in 0 .. n
      BY <2>3, LastSlashIs DEF Slashes
    <3> DEFINE m == LastSlash(url, n) + 1
    <3>2. m \in Int /\ n \in Int /\ \A k \in m .. n : k \in 1 .. n
      BY <2>3, <3>1
    <3> HIDE DEF m, n
    <3>3. \A k \in m .. n : trimmed[k] = url[k]
      BY <2>3, <3>2 DEF n
    <3>4. SubSeq(trimmed, m, n) = SubSeq(url, m, n)
      BY <3>2, <3>3
    <3>5. QED
      BY <3>4 DEF Segment, m, n
  <2>6. \A i \in DOMAIN Domain(url) : Domain(url)[i] \notin {"/", ":"}
    BY <2>1, DomainIsBare
  <2>7. QED
    BY <2>2, <2>3, <2>4, <2>5, <2>6 DEF trimmed, LastSlash
<1>2. QED
  BY <1>1, PTL
=============================================================================
