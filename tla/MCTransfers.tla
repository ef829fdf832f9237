----------------------------- MODULE MCTransfers -----------------------------
(* The downloaders, the chat programs and the demos of study_test, which do *)
(* not interact, in one run: a behaviour is one of one of them.  Four runs  *)
(* of the downloader with queues of two tasks, reads of up to two bytes of  *)
(* a body of three; seven lines typed, a file of three parts, one datagram  *)
(* lost; three turns of every counting thread; three frame buffers.         *)
EXTENDS Download, Chat, ThreadDemos, Camera, AsyncInput

VARIABLE system

MCUrls == UNION {[1 .. n -> {"/", ":", "a", "b"}] : n \in 0 .. 4}
MCGarbage == {-1, 0, 2}
MCWhole == <<"first", "second", "third">>
MCReadSizes == [uart |-> 2, rtsig |-> 3, sigio |-> 3]

vars == <<system, downloadVars, chatVars, threadVars, cameraVars, asyncVars>>

InDownload(A) == /\ system = "download" /\ A
                 /\ UNCHANGED <<system, chatVars, threadVars, cameraVars, asyncVars>>
InChat(A) == /\ system = "chat" /\ A
             /\ UNCHANGED <<system, downloadVars, threadVars, cameraVars, asyncVars>>
InThreads(A) == /\ system = "threads" /\ A
                /\ UNCHANGED <<system, downloadVars, chatVars, cameraVars, asyncVars>>
InCamera(A) == /\ system = "camera" /\ A
               /\ UNCHANGED <<system, downloadVars, chatVars, threadVars, asyncVars>>
InInput(A) == /\ system = "input" /\ A
              /\ UNCHANGED <<system, downloadVars, chatVars, threadVars, cameraVars>>

\* The variants of one system, none of them of the others.
Init == /\ system \in {"download", "chat", "threads", "camera", "input"}
        /\ DownloadInit /\ ChatInit /\ ThreadInit /\ CameraInit /\ AsyncInit
        /\ system = "download" \/ program = "queued"
        /\ system = "chat" \/ version = "udp"
        /\ system = "threads" \/ demo = "cond"
        /\ system = "input" \/ reader = "uart"

Next == \/ InDownload(DownloadNext) \/ InChat(ChatNext)
        \/ InThreads(ThreadNext) \/ InCamera(CameraNext) \/ InInput(AsyncNext)

\* What the system schedules; users, networks and devices do as they like.
Spec == /\ Init /\ [][Next]_vars
        /\ WF_vars(InDownload(DownloadMain)) /\ WF_vars(InDownload(DownloadThread))
        /\ \A p \in Peers : WF_vars(InChat(ChatMain(p))) /\ WF_vars(InChat(ChatThread(p)))
        /\ \A t \in {"fun", "fun1", "tid1", "tid2"} \cup Readers \cup Writers :
             WF_vars(InThreads(Scheduled(t)))
=============================================================================
