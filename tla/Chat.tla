-------------------------------- MODULE Chat --------------------------------
(***************************************************************************)
(* The chat programs of socket.  Two users take turns: the client types and  *)
(* then waits for an answer, the server waits and then types, over UDP.      *)
(* ucp_chatsend and ucp_chatrecv ("udp") only talk.  client and serve        *)
(* ("serve") and fina_send and fina_recv ("fina") also hold one TCP          *)
(* connection: who types the file command receives a file.  In "serve" name  *)
(* and "ready" go over UDP and one block over TCP, in the middle of the chat; *)
(* in "fina" everything goes over TCP, sent by a thread while its user types *)
(* on, and both sides close the connection afterwards.                       *)
(***************************************************************************)
EXTENDS Integers, Sequences, SequencesExt

CONSTANTS Versions,   \* of "udp", "serve" and "fina"
          Whole,      \* the parts of the file; of the block in "serve"
          NameLength, \* parts as long as the file's name
          MaxWords,   \* bound: lines the users type
          MaxLost     \* bound: datagrams the network loses

ASSUME ChatAssumption ==
  /\ Versions \subseteq {"udp", "serve", "fina"}
  /\ Whole \in Seq(STRING) /\ NameLength \in 1 .. Len(Whole) - 1
  /\ {MaxWords, MaxLost} \subseteq Nat

Peers == {"client", "server"}
Other(p) == IF p = "client" THEN "server" ELSE "client"

VARIABLES version,
          at,       \* where main stands
          worker,   \* where the thread tranFile stands; "cut": it ended with main
          part,     \* parts it has sent
          udp, tcp, \* what is on its way to a peer
          open,     \* a peer has its end of the connection open
          name,     \* what the last file received is called
          content,  \* what was written into it
          saved,    \* "receive file success" was printed
          words,
          lost, missing, short, \* history: datagrams lost, files that could not be
                                \* opened, blocks received in part
          asked     \* history: file commands

net == <<udp, tcp, open>>
received == <<name, content, saved>>
history == <<words, lost, missing, short, asked>>
chatVars == <<version, at, worker, part, net, received, history>>

Parts == Len(Whole)

ChatInit == /\ version \in Versions
        /\ at = [p \in Peers |-> IF p = "server" THEN "bind"
                                 ELSE IF version = "udp" THEN "type" ELSE "connect"]
        /\ worker = [p \in Peers |-> "none"] /\ part = [p \in Peers |-> 0]
        /\ udp = [p \in Peers |-> <<>>] /\ tcp = [p \in Peers |-> <<>>]
        /\ open = [p \in Peers |-> FALSE]
        /\ name = [p \in Peers |-> <<>>] /\ content = [p \in Peers |-> <<>>]
        /\ saved = [p \in Peers |-> FALSE]
        /\ words = 0 /\ lost = 0 /\ missing = 0 /\ short = 0 /\ asked = 0

Goto(p, label) == at' = [at EXCEPT ![p] = label]

LeftOpen(p) == open                                                \* (mutant)
Closed(p) == [open EXCEPT ![p] = FALSE]

\* A process that ends closes its sockets and takes its thread along.
Over(p) == /\ at' = [at EXCEPT ![p] = "over"]
           /\ worker' = [worker EXCEPT ![p] = IF @ = "none" THEN @ ELSE "cut"]
           /\ open' = Closed(p)

\* A datagram for a port nobody has bound is gone.
Listens(p) == at[p] \notin {"bind", "over"}
Datagram(to, d) == udp' = [udp EXCEPT ![to] = IF Listens(to) THEN Append(@, d) ELSE @]
Reply(p, d) == [udp EXCEPT ![p] = Tail(@),
                  ![Other(p)] = IF Listens(Other(p)) THEN Append(@, d) ELSE @]

\* Bytes for a peer that has closed its end are gone.
Stream(to, s) == tcp' = [tcp EXCEPT ![to] = IF open[to] THEN @ \o s ELSE @]

\* What one read() may return: something of what has come.
Reads(p) == {n \in 1 .. Len(tcp[p]) : open[p]}
EndOfFile(p) == ~open[p] \/ (tcp[p] = <<>> /\ ~open[Other(p)])
-----------------------------------------------------------------------------
(* The start: bind and listen; connect; accept.                             *)
BindListen ==
  /\ at.server = "bind"
  /\ \/ Goto("server", IF version = "udp" THEN "recv" ELSE "accept") /\ UNCHANGED <<worker, open>>
     \/ version # "udp" /\ Over("server")
  /\ UNCHANGED <<version, part, udp, tcp, received, history>>

ConnectAccept ==
  /\ at.client = "connect"
  /\ IF at.server = "accept"
     THEN /\ at' = [client |-> "type", server |-> "recv"]
          /\ open' = [p \in Peers |-> TRUE]
          /\ UNCHANGED worker
     ELSE Over("client")
  /\ UNCHANGED <<version, part, udp, tcp, received, history>>
-----------------------------------------------------------------------------
(* The chat.                                                                *)
AfterWord(word) == IF word = "file" THEN "name" ELSE "recv"

\* fgets and sendto.
Type(p) ==
  /\ at[p] = "type" /\ words < MaxWords
  /\ \E word \in {"text", "quit"} \cup (IF version = "udp" THEN {} ELSE {"file"}) :
       /\ Datagram(Other(p), word)
       /\ \/ word = "quit" /\ Over(p)
          \/ word # "quit" /\ Goto(p, AfterWord(word)) /\ UNCHANGED <<worker, open>>
       /\ asked' = IF word = "file" THEN asked + 1 ELSE asked
  /\ words' = words + 1
  /\ lost' = IF at[Other(p)] = "bind" THEN lost + 1 ELSE lost
  /\ UNCHANGED <<version, part, tcp, received, missing, short>>

\* recvfrom.  An answer is typed next.
HearText(p) ==
  /\ at[p] = "recv" /\ udp[p] # <<>>
  /\ Head(udp[p]) \notin {"quit", "file"}
  /\ Goto(p, "type")
  /\ udp' = [udp EXCEPT ![p] = Tail(@)]
  /\ UNCHANGED <<version, part, worker, tcp, open, received, history>>

HearQuit(p) ==
  /\ at[p] = "recv" /\ udp[p] # <<>> /\ Head(udp[p]) = "quit"
  /\ Over(p)
  /\ udp' = [udp EXCEPT ![p] = Tail(@)]
  /\ UNCHANGED <<version, part, tcp, received, history>>

\* The file command: "fina" starts the thread and lets its user type ...
StartThread(p) ==
  /\ version = "fina"
  /\ at[p] = "recv" /\ udp[p] # <<>> /\ Head(udp[p]) = "file"
  /\ Goto(p, "type")
  /\ worker' = [worker EXCEPT ![p] = "open"]
  /\ udp' = [udp EXCEPT ![p] = Tail(@)]
  /\ UNCHANGED <<version, part, tcp, open, received, history>>

\* ... "serve" sends the name, if there is the file.
OfferName(p) ==
  /\ version = "serve"
  /\ at[p] = "recv" /\ udp[p] # <<>> /\ Head(udp[p]) = "file"
  /\ \/ udp' = Reply(p, "name") /\ Goto(p, "offer") /\ UNCHANGED missing
     \/ /\ missing' = missing + 1
        /\ udp' = [udp EXCEPT ![p] = Tail(@)]
        /\ Goto(p, "type")
  /\ UNCHANGED <<version, part, worker, tcp, open, received, words, lost, short, asked>>

Lose(p) ==
  /\ udp[p] # <<>> /\ lost < MaxLost
  /\ udp' = [udp EXCEPT ![p] = Tail(@)]
  /\ lost' = lost + 1
  /\ UNCHANGED <<version, part, at, worker, tcp, open, received, words, missing, short, asked>>
-----------------------------------------------------------------------------
(* Receiving a file.                                                        *)

(* The name; the process ends when the file cannot be created.             *)
NewFile(p, n) == /\ name' = [name EXCEPT ![p] = n]
                 /\ content' = [content EXCEPT ![p] = <<>>]
                 /\ saved' = [saved EXCEPT ![p] = FALSE]

NameByDatagram(p) ==
  /\ version = "serve" /\ at[p] = "name" /\ udp[p] # <<>>
  /\ NewFile(p, <<Head(udp[p])>>)
  /\ \/ udp' = Reply(p, "ready") /\ Goto(p, "content") /\ UNCHANGED <<worker, open, missing>>
     \/ Over(p) /\ missing' = missing + 1 /\ UNCHANGED udp
  /\ UNCHANGED <<version, part, tcp, words, lost, short, asked>>

\* One read(); the loop around it spins when the connection is closed.
NameByStream(p) ==
  /\ version = "fina" /\ at[p] = "name"
  /\ \E n \in Reads(p) :
       /\ NewFile(p, SubSeq(tcp[p], 1, n))
       /\ \/ /\ Goto(p, "content")
             /\ tcp' = [tcp EXCEPT ![p] = SubSeq(@, n + 1, Len(@)),
                        ![Other(p)] = IF open[Other(p)] THEN Append(@, "ready") ELSE @]
             /\ UNCHANGED <<worker, open, missing>>
          \/ Over(p) /\ missing' = missing + 1 /\ UNCHANGED tcp
  /\ UNCHANGED <<version, part, udp, words, lost, short, asked>>

(* "serve": one recv().  serve writes what it returned, client as many      *)
(* bytes as the name has.                                                   *)
GetBlock(p) ==
  /\ version = "serve" /\ at[p] = "content"
  /\ \E n \in Reads(p) \cup (IF EndOfFile(p) THEN {0} ELSE {}) :
       /\ content' = [content EXCEPT ![p] =
                        IF p = "server" THEN SubSeq(tcp[p], 1, n)
                        ELSE [i \in 1 .. NameLength |-> IF i <= n THEN tcp[p][i] ELSE "zero"]]
       /\ tcp' = [tcp EXCEPT ![p] = SubSeq(@, n + 1, Len(@))]
       /\ short' = IF n < Parts THEN short + 1 ELSE short
  /\ saved' = [saved EXCEPT ![p] = TRUE]
  /\ Goto(p, "recv")
  /\ UNCHANGED <<version, part, worker, udp, open, name, words, lost, missing, asked>>

(* "fina": read to the end of the stream.                                   *)
GetContent(p) ==
  /\ version = "fina" /\ at[p] = "content"
  /\ \E n \in Reads(p) :
       /\ content' = [content EXCEPT ![p] = @ \o SubSeq(tcp[p], 1, n)]
       /\ tcp' = [tcp EXCEPT ![p] = SubSeq(@, n + 1, Len(@))]
  /\ UNCHANGED <<version, part, at, worker, udp, open, name, saved, history>>

ContentEnds(p) ==
  /\ version = "fina" /\ at[p] = "content" /\ EndOfFile(p)
  /\ saved' = [saved EXCEPT ![p] = TRUE]
  /\ open' = Closed(p)
  /\ Goto(p, "recv")
  /\ UNCHANGED <<version, part, worker, udp, tcp, name, content, history>>
-----------------------------------------------------------------------------
(* Sending a file.                                                          *)

\* "serve": any datagram is taken for "ready".
Offer(p) ==
  /\ at[p] = "offer" /\ udp[p] # <<>>
  /\ udp' = [udp EXCEPT ![p] = Tail(@)]
  /\ Stream(Other(p), Whole)
  /\ \/ Goto(p, "type") /\ UNCHANGED <<worker, open>>
     \/ ~open[Other(p)] /\ Over(p)                 \* SIGPIPE
  /\ UNCHANGED <<version, part, received, history>>

(* The thread of "fina": the name, the answer, the parts, close.  A write   *)
(* fails when the own end is closed; when the other end is, it is lost or   *)
(* ends the process.                                                        *)
Write(p, s, next) ==
  \/ /\ open[p]
     /\ Stream(Other(p), s)
     /\ worker' = [worker EXCEPT ![p] = next]
     /\ UNCHANGED <<at, open>>
  \/ /\ ~open[p]
     /\ worker' = [worker EXCEPT ![p] = "none"]
     /\ UNCHANGED <<at, tcp, open>>
  \/ open[p] /\ ~open[Other(p)] /\ Over(p) /\ UNCHANGED tcp

OpenSource(p) ==
  /\ worker[p] = "open"
  /\ \/ Write(p, <<"name">>, "ready") /\ UNCHANGED missing
     \/ /\ open' = Closed(p)
        /\ worker' = [worker EXCEPT ![p] = "none"]
        /\ missing' = missing + 1
        /\ UNCHANGED <<at, tcp>>
  /\ UNCHANGED <<version, part, udp, received, words, lost, short, asked>>

WaitReady(p) ==
  /\ worker[p] = "ready"
  /\ \/ \E n \in Reads(p) : tcp' = [tcp EXCEPT ![p] = SubSeq(@, n + 1, Len(@))]
     \/ EndOfFile(p) /\ UNCHANGED tcp
  /\ worker' = [worker EXCEPT ![p] = "parts"]
  /\ part' = [part EXCEPT ![p] = 0]
  /\ UNCHANGED <<version, at, udp, open, received, history>>

LastDropped(p) == part[p] + 1 >= Parts                             \* (mutant)
AllSent(p) == part[p] = Parts

SendPart(p) ==
  /\ worker[p] = "parts" /\ ~AllSent(p)
  /\ Write(p, <<Whole[part[p] + 1]>>, "parts")
  /\ part' = [part EXCEPT ![p] = @ + 1]
  /\ UNCHANGED <<version, udp, received, history>>

CloseSource(p) ==
  /\ worker[p] = "parts" /\ AllSent(p)
  /\ open' = Closed(p)
  /\ worker' = [worker EXCEPT ![p] = "none"]
  /\ UNCHANGED <<version, part, at, udp, tcp, received, history>>
-----------------------------------------------------------------------------
Hear(p) == HearText(p) \/ HearQuit(p) \/ StartThread(p) \/ OfferName(p)
Receive(p) == NameByDatagram(p) \/ NameByStream(p) \/ GetBlock(p) \/ GetContent(p) \/ ContentEnds(p)
ChatMain(p) == Hear(p) \/ Receive(p) \/ Offer(p)
ChatThread(p) == OpenSource(p) \/ WaitReady(p) \/ SendPart(p) \/ CloseSource(p)
ChatNext == \/ BindListen \/ ConnectAccept
        \/ \E p \in Peers : Type(p) \/ ChatMain(p) \/ ChatThread(p) \/ Lose(p)

ChatSpec == ChatInit /\ [][ChatNext]_chatVars
ChatFairSpec == ChatSpec /\ \A p \in Peers : WF_chatVars(ChatMain(p)) /\ WF_chatVars(ChatThread(p))
-----------------------------------------------------------------------------

\* Something the protocol does not provide for has happened.
Trouble == \/ lost > 0 \/ missing > 0
           \/ version = "fina" /\ (asked > 1 \/ \E p \in Peers : worker[p] = "cut")

Stuck(p) == \/ at[p] \in {"recv", "offer"} /\ udp[p] = <<>>
            \/ at[p] = "name" /\ (IF version = "serve" THEN udp ELSE tcp)[p] = <<>>
            \/ at[p] = "content" /\ tcp[p] = <<>> /\ ~EndOfFile(p)

(* The two turn-taking programs never wait for each other, and none waits   *)
(* for one that has quit, before the network loses a datagram, a file       *)
(* cannot be opened or, in "fina", the sender quits while its thread sends  *)
(* or a second file is asked for over the connection the first has closed.  *)
NoMutualWait ==
  (\E p \in Peers : Stuck(p)) /\ ~Trouble =>
    \E p \in Peers : (~Stuck(p) /\ at[p] # "over") \/ worker[p] # "none"

(* What "receive file success" is printed for is the beginning of the       *)
(* sender's file, and in "fina" the whole file, unless the sender quit in   *)
(* the middle or a second file was asked for; in "serve" as long as recv    *)
(* has always returned a whole block.                                       *)
FileIsSenders ==
  \A p \in Peers :
    saved[p] => \/ IF version = "serve" THEN short > 0 ELSE asked > 1
                \/ content[p] = Whole
                \/ /\ IsPrefix(content[p], Whole)
                   /\ (version = "serve" \/ worker[Other(p)] = "cut")

(* The first file asked for arrives, or its receiver ends, unless there is  *)
(* trouble or the sender does not answer any more.                          *)
FileArrives ==
  \A p \in Peers :
    at[p] = "name" ~> at[p] \notin {"name", "content"} \/ Trouble \/ at[Other(p)] = "over"
=============================================================================
