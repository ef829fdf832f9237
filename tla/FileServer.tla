----------------------------- MODULE FileServer -----------------------------
(***************************************************************************)
(* socket/tcp_recvfile.cpp, which in spite of its name serves a file to    *)
(* every client that connects, and its client socket/tcp_sendfile.cpp.     *)
(* main() accepts in a loop and hands each thread the ADDRESS of the one    *)
(* variable app_sock; the thread reads it when it gets to run.  A thread    *)
(* sends the file's name, waits for "ready", sends the contents and closes *)
(* its descriptor.  Descriptors are reused, lowest first.                  *)
(***************************************************************************)
EXTENDS Integers, Sequences

CONSTANTS Client,      \* the clients that may connect, once each
          Fds,         \* descriptors the server may get for them
          Chunks,      \* reads of 1024 bytes that 1.txt takes
          MaxKills     \* bound: clients that are killed

ASSUME ServerAssumption == /\ Fds \subseteq Nat \ {0}
                           /\ Chunks \in Nat /\ MaxKills \in Nat
                           /\ "none" \notin Client

VARIABLES app_sock,    \* the variable of main the threads are pointed to
          fdTable,     \* the client behind each open descriptor, or None
          backlog,     \* clients connected and not yet accepted
          pc, sock,    \* of the thread started for each client's accept
          k,           \* chunks it has sent
          waitsOn,     \* the client whose connection its read() holds open
          server,      \* "up", or "dead" after a SIGPIPE
          down,        \* bytes on their way to each client, in chunks
          ready,       \* "ready"s on their way back
          cpc, name, got,  \* of each client
          exists,      \* 1.txt can be opened
          mixedUp,     \* history: a thread did not get the descriptor it was started for
          kills

threads == <<pc, sock, k, waitsOn>>
wires == <<down, ready>>
clients == <<cpc, name, got>>
vars == <<app_sock, fdTable, backlog, threads, server, wires, clients, exists, mixedUp, kills>>

None == "none"
Name == -1                     \* the name as it travels; chunk i is i
WholeFile == [i \in 1 .. Chunks |-> i]

Init == /\ app_sock = 0
        /\ fdTable = [f \in Fds |-> None]
        /\ backlog = <<>>
        /\ pc = [c \in Client |-> "unborn"] /\ sock = [c \in Client |-> 0]
        /\ k = [c \in Client |-> 0] /\ waitsOn = [c \in Client |-> None]
        /\ server = "up"
        /\ down = [c \in Client |-> <<>>] /\ ready = [c \in Client |-> 0]
        /\ cpc = [c \in Client |-> "off"] /\ name = [c \in Client |-> <<>>]
        /\ got = [c \in Client |-> <<>>]
        /\ exists \in BOOLEAN
        /\ mixedUp = FALSE
        /\ kills = 0

(* The server's side of a connection is open while a descriptor or a read   *)
(* in progress refers to it.                                                *)
Queued(c) == \E i \in DOMAIN backlog : backlog[i] = c
ServerSide(c) == server = "up" /\ (\/ Queued(c)
                                   \/ \E f \in Fds : fdTable[f] = c
                                   \/ \E t \in Client : waitsOn[t] = c)
ClientSide(c) == cpc[c] \in {"name", "body"}

Free == {f \in Fds : fdTable[f] = None}
Goto(t, label) == pc' = [pc EXCEPT ![t] = label]
-----------------------------------------------------------------------------
(* main(): accept, then pthread_create with the address of app_sock.        *)
Accept ==
  /\ server = "up" /\ backlog # <<>>
  /\ \E f \in Free : /\ \A g \in Free : f <= g
                     /\ app_sock' = f
                     /\ fdTable' = [fdTable EXCEPT ![f] = Head(backlog)]
  /\ backlog' = Tail(backlog)
  /\ Goto(Head(backlog), "begin")
  /\ UNCHANGED <<sock, k, waitsOn, server, wires, clients, exists, mixedUp, kills>>

Closed(t) == [fdTable EXCEPT ![sock[t]] = None]

(* int sock = *(int * )sendSocket; and fopen.  Without the file the thread   *)
(* closes its connection and ends.                                          *)
Begin(t) ==
  /\ pc[t] = "begin"
  /\ sock' = [sock EXCEPT ![t] = app_sock]
  /\ mixedUp' = (mixedUp \/ fdTable[app_sock] # t)
  /\ Goto(t, IF exists THEN "name" ELSE "close")
  /\ UNCHANGED <<app_sock, fdTable, backlog, k, waitsOn, server, wires, clients, exists, kills>>

(* write() to the thread's descriptor: it fails when the descriptor has     *)
(* been closed; to a client that is gone it succeeds in vain until the      *)
(* client's reset arrives, and then the SIGPIPE ends the whole server.      *)
Write(t, data, then) ==
  LET c == fdTable[sock[t]]
  IN  \/ /\ c = None
         /\ Goto(t, "close")
         /\ UNCHANGED <<down, server, k>>
      \/ /\ c # None
         /\ down' = IF ClientSide(c) THEN [down EXCEPT ![c] = Append(@, data)] ELSE down
         /\ k' = [k EXCEPT ![t] = IF data = Name THEN @ ELSE @ + 1]
         /\ Goto(t, then)
         /\ UNCHANGED server
      \/ /\ c # None /\ ~ClientSide(c)
         /\ server' = "dead"
         /\ UNCHANGED <<pc, down, k>>

SendName(t) ==
  /\ pc[t] = "name"
  /\ Write(t, Name, "ready")
  /\ UNCHANGED <<app_sock, fdTable, backlog, sock, waitsOn, ready, clients, exists, mixedUp, kills>>

NeverWaits(c) == TRUE                                              \* (mutant)
ReadReturns(c) == ready[c] > 0 \/ ~ClientSide(c)

(* The read() that waits for "ready".  Its result is not looked at: an      *)
(* error or the end of the connection let the thread go on as well.         *)
AwaitReady(t) ==
  /\ pc[t] = "ready"
  /\ \/ /\ waitsOn[t] = None /\ fdTable[sock[t]] # None
        /\ waitsOn' = [waitsOn EXCEPT ![t] = fdTable[sock[t]]]
        /\ UNCHANGED <<pc, ready>>
     \/ /\ waitsOn[t] = None /\ fdTable[sock[t]] = None
        /\ Goto(t, "body")
        /\ UNCHANGED <<waitsOn, ready>>
     \/ /\ waitsOn[t] # None /\ ReadReturns(waitsOn[t])
        /\ ready' = [ready EXCEPT ![waitsOn[t]] = 0]
        /\ waitsOn' = [waitsOn EXCEPT ![t] = None]
        /\ Goto(t, "body")
  /\ UNCHANGED <<app_sock, fdTable, backlog, sock, k, server, down, clients, exists, mixedUp, kills>>

More(t) == k[t] < Chunks

(* while((k = fread(...)) > 0): the loop over the file.                      *)
SendChunk(t) ==
  /\ pc[t] = "body"
  /\ \/ /\ More(t)
        /\ Write(t, k[t] + 1, "body")
     \/ /\ ~More(t)
        /\ Goto(t, "close")
        /\ UNCHANGED <<down, server, k>>
  /\ UNCHANGED <<app_sock, fdTable, backlog, sock, waitsOn, ready, clients, exists, mixedUp, kills>>

StaysOpen(t) == fdTable                                            \* (mutant)
AfterClose(t) == Closed(t)

ClosesAgain == "close"                                             \* (mutant)
Returns == "ended"

(* close(sock): whatever connection has that descriptor now.                *)
Close(t) ==
  /\ pc[t] = "close"
  /\ fdTable' = AfterClose(t)
  /\ Goto(t, Returns)
  /\ UNCHANGED <<app_sock, backlog, sock, k, waitsOn, server, wires, clients, exists, mixedUp, kills>>

Thread(t) == /\ server = "up"
             /\ Begin(t) \/ SendName(t) \/ AwaitReady(t) \/ SendChunk(t) \/ Close(t)
-----------------------------------------------------------------------------
(* The client.                                                              *)
Connect(c) ==
  /\ cpc[c] = "off" /\ server = "up"
  /\ cpc' = [cpc EXCEPT ![c] = "name"]
  /\ backlog' = Append(backlog, c)
  /\ UNCHANGED <<app_sock, fdTable, threads, server, wires, name, got, exists, mixedUp, kills>>

(* The loop around the first read() ends with the first bytes that come -   *)
(* all that have arrived - and turns for ever when the connection ends      *)
(* before.  They are the name of the file to open; then it sends "ready".   *)
ReadName(c) ==
  /\ cpc[c] = "name"
  /\ down[c] # <<>>
  /\ name' = [name EXCEPT ![c] = down[c]]
  /\ down' = [down EXCEPT ![c] = <<>>]
  /\ ready' = [ready EXCEPT ![c] = 1]
  /\ cpc' = [cpc EXCEPT ![c] = "body"]
  /\ UNCHANGED <<app_sock, fdTable, backlog, threads, server, got, exists, mixedUp, kills>>

(* Then everything until the connection ends, which it calls a success.     *)
ReadBody(c) ==
  /\ cpc[c] = "body"
  /\ \/ /\ down[c] # <<>>
        /\ \E n \in 1 .. Len(down[c]) :
             /\ got' = [got EXCEPT ![c] = @ \o SubSeq(down[c], 1, n)]
             /\ down' = [down EXCEPT ![c] = SubSeq(@, n + 1, Len(@))]
        /\ UNCHANGED cpc
     \/ /\ down[c] = <<>> /\ ~ServerSide(c)
        /\ cpc' = [cpc EXCEPT ![c] = "success"]
        /\ UNCHANGED <<got, down>>
  /\ UNCHANGED <<app_sock, fdTable, backlog, threads, server, ready, name, exists, mixedUp, kills>>

Kill(c) ==
  /\ ClientSide(c) /\ kills < MaxKills
  /\ kills' = kills + 1
  /\ cpc' = [cpc EXCEPT ![c] = "killed"]
  /\ down' = [down EXCEPT ![c] = <<>>]
  /\ UNCHANGED <<app_sock, fdTable, backlog, threads, server, ready, name, got, exists, mixedUp>>
-----------------------------------------------------------------------------
Next == \/ Accept
        \/ \E c \in Client : Thread(c) \/ Connect(c) \/ ReadName(c) \/ ReadBody(c) \/ Kill(c)

Spec == Init /\ [][Next]_vars

(* The scheduler runs main, every thread and every client that is started.  *)
FairSpec == /\ Spec
            /\ WF_vars(Accept)
            /\ \A c \in Client : WF_vars(Thread(c)) /\ WF_vars(ReadName(c) \/ ReadBody(c))
-----------------------------------------------------------------------------

(* As long as every thread reads app_sock before the next accept, each      *)
(* descriptor a thread still has to close is the one of its own client,     *)
(* although the numbers are reused and clients are killed meanwhile.        *)
OwnDescriptor ==
  ~mixedUp =>
    \A t \in Client : pc[t] \in {"name", "ready", "body", "close"} => fdTable[sock[t]] = t

(* ... and a client that comes to its end has the file under its name and   *)
(* nothing else: the handshake keeps the name and the contents apart in the *)
(* byte stream, and a lost server is the only reason for a shorter file.    *)
FileUnderItsName ==
  ~mixedUp =>
    \A c \in Client : cpc[c] = "success" =>
      /\ name[c] = <<Name>>
      /\ got[c] = SubSeq(WholeFile, 1, Len(got[c]))
      /\ server = "up" => got[c] = WholeFile

(* ... and every client that connects is served to the end, whatever the    *)
(* others do, as long as the server lives and has the file.                 *)
EveryClientServed ==
  \A c \in Client :
    cpc[c] = "name" ~> cpc[c] \in {"success", "killed"} \/ mixedUp \/ server = "dead" \/ ~exists
=============================================================================
