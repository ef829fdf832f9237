------------------------------ MODULE Download ------------------------------
(***************************************************************************)
(* The downloaders of 线程.  dwl.c and downfile.c leave a task in two System *)
(* V queues, the URL in one and the path in the other, and a thread of the   *)
(* same process, started before, looks once for a URL, downloads it and then *)
(* looks once for a path.  main returns after five seconds, whatever the     *)
(* thread is doing; the queues stay for the next run of the program.         *)
(* httpdownload.c takes the URL from its command line, reads the response    *)
(* header in main and waits for the thread that reads the body.              *)
(***************************************************************************)
EXTENDS Integers, Sequences

CONSTANTS Programs,   \* of "queued" and "http"
          MaxRuns,    \* bound: how often the program is started
          QueueMax,   \* tasks a queue has room for
          Bodies,     \* lengths of the body a server sends
          Garbage,    \* values an uninitialised content_length may have
          BufLen,     \* buf_len
          Leftovers,  \* sizes the file may have before
          MaxShort,   \* bound: writes the disk cuts short
          Urls        \* URLs without scheme, sequences over "/", ":" and letters

ASSUME DownloadAssumption ==
  /\ Programs \subseteq {"queued", "http"}
  /\ {MaxRuns, MaxShort} \subseteq Nat
  /\ {QueueMax, BufLen} \subseteq Nat \ {0}
  /\ Bodies \subseteq Nat /\ Leftovers \subseteq Nat /\ Garbage \subseteq Int
  /\ Urls \subseteq Seq(STRING)

VARIABLES program,
          run,            \* number of this run, and of the task it adds
          main, thread,   \* where they stand; "off" without a process
          urlq, pathq,    \* the queues: numbers of tasks
          task, shown,    \* the task downloaded; the one whose path is reported
          transfer,       \* what the thread does, below
          killed          \* history: a run was killed while it added its task

queues == <<urlq, pathq>>
downloadVars == <<program, run, main, thread, queues, task, shown, transfer, killed>>
-----------------------------------------------------------------------------
(* parse_url, after the scheme: the name is collected character by          *)
(* character and starts again at every "/" but one that ends the URL.       *)
Domain(url) ==
  LET stops == {i \in DOMAIN url : url[i] = "/"}
      domain == SubSeq(url, 1, CHOOSE n \in 0 .. Len(url) :
                                 /\ \A i \in 1 .. n : i \notin stops
                                 /\ n = Len(url) \/ n + 1 \in stops)
      colons == {i \in DOMAIN domain : domain[i] = ":"}
  IN  IF colons = {} THEN domain
      ELSE SubSeq(domain, 1, (CHOOSE i \in colons : \A j \in colons : i <= j) - 1)

RestartsAlways(url, i) == TRUE                                     \* (mutant)
Restarts(url, i) == i # Len(url)

Collect(name, url, i) ==
  IF url[i] # "/" THEN Append(name, url[i]) ELSE IF Restarts(url, i) THEN <<>> ELSE name

FileName(url) ==
  LET name[i \in 0 .. Len(url)] == IF i = 0 THEN <<>> ELSE Collect(name[i - 1], url, i)
  IN  name[Len(url)]
-----------------------------------------------------------------------------
(* body, declared: length of the body, content_length; came, length: bytes  *)
(* read and the program's count of them; stored, old: bytes written, size   *)
(* of the file before; said: "Download successful" was printed; short:      *)
(* history, writes that were cut short.                                     *)
NoTransfer == [body |-> 0, declared |-> 0, came |-> 0, length |-> 0, stored |-> 0,
               old |-> 0, said |-> FALSE, short |-> 0]

DownloadInit == /\ program \in Programs
        /\ run = 0 /\ main = "off" /\ thread = "off"
        /\ urlq = <<>> /\ pathq = <<>>
        /\ task = 0 /\ shown = 0 /\ transfer = NoTransfer
        /\ killed = FALSE

\* exit() of any thread, or the return of main, ends the process.
Ended == /\ main' = "off" /\ thread' = "off"
         /\ task' = 0 /\ shown' = 0 /\ transfer' = NoTransfer

(* A new process; init_service opens the queues and creates the thread.     *)
(* httpdownload has its task at once.                                       *)
init_service ==
  /\ main = "off" /\ run < MaxRuns
  /\ run' = run + 1
  /\ IF program = "queued" THEN main' = "url" /\ thread' = "look" /\ task' = 0
     ELSE main' = "join" /\ thread' = "resolve" /\ task' = run'
  /\ UNCHANGED <<program, queues, shown, transfer, killed>>

\* task_add: two calls that wait for room.
SendUrl ==
  /\ main = "url" /\ Len(urlq) < QueueMax
  /\ urlq' = Append(urlq, run)
  /\ main' = "path"
  /\ UNCHANGED <<program, run, thread, pathq, task, shown, transfer, killed>>

SendPath ==
  /\ main = "path" /\ Len(pathq) < QueueMax
  /\ pathq' = Append(pathq, run)
  /\ main' = "sleep"
  /\ UNCHANGED <<program, run, thread, urlq, task, shown, transfer, killed>>

(* main returns: after sleep(5), in which the thread has come to its first  *)
(* msgrcv, or when the thread it has joined ends.                           *)
MainReturns ==
  /\ \/ main = "sleep" /\ thread # "look"
     \/ main = "join" /\ thread = "ended"
  /\ Ended
  /\ UNCHANGED <<program, run, queues, killed>>

Kill ==
  /\ main \in {"url", "path"}
  /\ Ended
  /\ killed' = TRUE
  /\ UNCHANGED <<program, run, queues>>
-----------------------------------------------------------------------------
(* The download thread.                                                     *)

PeeksOnly(q) == q                                                  \* (mutant)
Taken(q) == Tail(q)

PathAnyway == "path"                                               \* (mutant)
WithoutUrl == "ended"

\* msgrcv with IPC_NOWAIT.  Without a URL there is no address: it returns.
Look ==
  /\ thread = "look"
  /\ IF urlq = <<>> THEN thread' = WithoutUrl /\ UNCHANGED <<urlq, task>>
     ELSE /\ task' = Head(urlq) /\ urlq' = Taken(urlq)
          /\ thread' = "resolve"
  /\ UNCHANGED <<program, run, main, pathq, shown, transfer, killed>>

\* get_ip_addr
Resolve ==
  /\ thread = "resolve"
  /\ thread' \in {"connect", "ended"}
  /\ UNCHANGED <<program, run, main, queues, task, shown, transfer, killed>>

\* socket, connect and the request; exit(-1) when they fail.
Connect ==
  /\ thread = "connect"
  /\ Ended \/ (thread' = "header" /\ UNCHANGED <<main, task, shown, transfer>>)
  /\ UNCHANGED <<program, run, queues, killed>>

(* The header, read to the empty line or to the end of the connection.      *)
(* Without a Content-Length the local variable keeps what it had.           *)
Header ==
  /\ thread = "header"
  /\ \E body \in Bodies : \E declared \in {body} \cup Garbage :
       transfer' = [transfer EXCEPT !.body = body, !.declared = declared]
  /\ thread' = "open"
  /\ UNCHANGED <<program, run, main, queues, task, shown, killed>>

\* open without O_TRUNC; exit(0) when it fails.
OpenFile ==
  /\ thread = "open"
  /\ \/ Ended
     \/ /\ thread' = "body"
        /\ \E old \in Leftovers : transfer' = [transfer EXCEPT !.old = old]
        /\ UNCHANGED <<main, task, shown>>
  /\ UNCHANGED <<program, run, queues, killed>>

CountsBuffer(length, n) == length + BufLen                         \* (mutant)
Counted(length, n) == length + n

(* The body: n bytes, -1 for an error, or 0 when the connection is gone.     *)
(* The count is tested after the read, and what was read is dropped then.   *)
ReadBody ==
  /\ thread = "body"
  /\ \E n \in -1 .. BufLen :
       /\ n < 0 => transfer.came < transfer.body
       /\ LET t == [transfer EXCEPT !.body = IF n > 0 THEN @ ELSE transfer.came,
                                    !.came = IF n > 0 THEN @ + n ELSE @]
          IN  /\ t.came <= t.body
              /\ IF n # 0 /\ t.length < t.declared
                 THEN /\ \E w \in 0 .. (IF n > 0 THEN n ELSE 0) :
                           /\ w < n => t.short < MaxShort
                           /\ transfer' = [t EXCEPT !.length = Counted(@, n), !.stored = @ + w,
                                                    !.short = IF w < n THEN @ + 1 ELSE @]
                      /\ UNCHANGED thread
                 ELSE /\ transfer' = [t EXCEPT !.said = (t.length = t.declared)]
                      /\ thread' = IF program = "queued" THEN "path" ELSE "ended"
  /\ UNCHANGED <<program, run, main, queues, task, shown, killed>>

TakePath ==
  /\ thread = "path"
  /\ IF pathq = <<>> THEN UNCHANGED <<pathq, shown>>
     ELSE shown' = Head(pathq) /\ pathq' = Tail(pathq)
  /\ thread' = "ended"
  /\ UNCHANGED <<program, run, main, urlq, task, transfer, killed>>

DownloadThread == Look \/ Resolve \/ Connect \/ Header \/ OpenFile \/ ReadBody \/ TakePath
DownloadMain == SendUrl \/ SendPath \/ MainReturns
DownloadNext == init_service \/ DownloadMain \/ Kill \/ DownloadThread

DownloadSpec == DownloadInit /\ [][DownloadNext]_downloadVars

\* Both threads are scheduled, and name servers and connections answer or fail.
DownloadFairSpec == DownloadSpec /\ WF_downloadVars(DownloadMain) /\ WF_downloadVars(DownloadThread)
-----------------------------------------------------------------------------
(* The name a file is saved under is the last part of the URL, a slash at   *)
(* its end aside, wherever slashes and colons stand (parse_url).            *)
NamedAfterUrl ==
  thread = "resolve" =>
    \A url \in Urls :
      LET trimmed == IF url # <<>> /\ url[Len(url)] = "/"
                     THEN SubSeq(url, 1, Len(url) - 1) ELSE url
          slashes == {i \in DOMAIN trimmed : trimmed[i] = "/"} \cup {0}
          last == CHOOSE i \in slashes : \A j \in slashes : j <= i
      IN  /\ FileName(url) = SubSeq(trimmed, last + 1, Len(trimmed))
          /\ \A i \in DOMAIN Domain(url) : Domain(url)[i] \notin {"/", ":"}

(* "Download successful" is printed only for a body that came and was       *)
(* counted completely, through reads of any size, errors and a server that  *)
(* sends more or less than it declares; with a disk that takes everything   *)
(* the file then is the body, unless an older, longer file was there.       *)
SuccessIsWhole ==
  LET t == transfer
  IN  t.said => /\ t.declared >= 0 => t.came >= t.declared /\ t.stored <= t.declared
                /\ t.short = 0 /\ t.declared >= t.old => t.stored = t.declared

(* The thread looks before or after the task is queued, one of the two      *)
(* queues may be read without the other, and a failed connection may end    *)
(* the process between the two calls of task_add.  Still a path that is     *)
(* reported was never queued for a later task than the one downloaded, and  *)
(* a run leaves at most one URL for the next, however often the thread has  *)
(* looked too early; unless a run was killed while it added its task.       *)
PathNotAhead == ~killed => shown <= task
UrlBacklog == ~killed /\ main = "off" => Len(urlq) <= 1
QueuesInStep == PathNotAhead /\ UrlBacklog

(* main returns, also when the thread it has started ends at once, unless   *)
(* paths nobody took have filled their queue.                               *)
RunEnds == \/ main # "off" ~> main = "off"
           \/ <>[](Len(pathq) = QueueMax)
=============================================================================
