----------------------------- MODULE PhoneFifo -----------------------------
(***************************************************************************)
(* The door phones that talk through two named pipes: a phone program and a  *)
(* board program (the _ui programs, or work_phone.c) each open one pipe for  *)
(* reading and one for writing, without blocking.  An end for writing opens  *)
(* only while the other program reads; nobody but work_phone looks at the    *)
(* result, and a program that came too early writes to no descriptor for     *)
(* ever.  A message is sent as the whole buffer it is in and read in pieces  *)
(* of BUF_MAX_LEN bytes, the first of which holds the word.                  *)
(***************************************************************************)
EXTENDS Integers, Sequences

CONSTANTS Pairs,     \* of "outdoor", "out_task", "indoor" and "work"
          Pieces,    \* pieces of a 1000 byte buffer
          MaxTyped,  \* bound: words typed at the phone
          MaxCalls   \* bound: calls from the network

ASSUME PhoneFifoAssumption ==
  /\ Pairs \subseteq {"outdoor", "out_task", "indoor", "work"}
  /\ Pieces \in Nat \ {0} /\ {MaxTyped, MaxCalls} \subseteq Nat

VARIABLES pair,
          phone_at, board_at,  \* where the two programs stand
          ends,      \* the ends of pipes that are open
          down, up,  \* the pieces in the pipes to the board and to the phone
          recvbuf,   \* what the phone has received from the network last
          caller,    \* the connection: calls on their way, or closed
          typed, called, forwarded, asked  \* history: words typed at the phone, calls
                     \* sent by the caller and handed on, questions put at the board

pipes == <<ends, down, up>>
network == <<recvbuf, caller, called, forwarded>>
fifoVars == <<pair, phone_at, board_at, pipes, network, typed, asked>>

Network == pair \in {"indoor", "work"}   \* the phone is indoor_phone

FifoInit == /\ pair \in Pairs
            /\ phone_at = "write end" /\ board_at = "read end"
            /\ ends = {} /\ down = <<>> /\ up = <<>>
            /\ recvbuf = "" /\ caller = <<>>
            /\ typed = 0 /\ called = 0 /\ forwarded = 0 /\ asked = 0

Nothing(w) == <<>>                                                 \* (mutant)
Word(w) == <<w>>
Buffer(w) == [i \in 1 .. Pieces |-> IF i = 1 THEN w ELSE ""]
-----------------------------------------------------------------------------
(* Opening.                                                                 *)
PhoneOpens ==
  /\ \/ /\ phone_at = "write end" /\ phone_at' = "read end"
        /\ ends' = ends \cup (IF "board reads" \in ends THEN {"phone writes"} ELSE {})
     \/ /\ phone_at = "read end" /\ phone_at' = "loop"
        /\ ends' = ends \cup {"phone reads"}
  /\ UNCHANGED <<pair, board_at, down, up, network, typed, asked>>

BoardOpens ==
  /\ \/ /\ board_at = "read end" /\ board_at' = "write end"
        /\ ends' = ends \cup {"board reads"}
     \/ /\ board_at = "write end"
        /\ IF "phone reads" \in ends
           THEN ends' = ends \cup {"board writes"} /\ board_at' = "loop"
           ELSE IF pair = "work" THEN ends' = ends \ {"board reads"} /\ board_at' = "over"
                ELSE UNCHANGED ends /\ board_at' = "loop"
  /\ UNCHANGED <<pair, phone_at, down, up, network, typed, asked>>

(* write(): nothing without a descriptor, SIGPIPE without a reader.         *)
PhoneWrites(s, next) ==
  /\ IF "phone writes" \in ends /\ "board reads" \notin ends
     THEN /\ phone_at' = "over"
          /\ ends' = ends \ {"phone writes", "phone reads"}
          /\ UNCHANGED down
     ELSE /\ phone_at' = next
          /\ down' = IF "phone writes" \in ends THEN down \o s ELSE down
          /\ UNCHANGED ends
  /\ UNCHANGED <<up, board_at>>

BoardWrites(s) ==
  /\ IF "board writes" \in ends /\ "phone reads" \notin ends
     THEN /\ board_at' = "over"
          /\ ends' = ends \ {"board writes", "board reads"}
          /\ UNCHANGED up
     ELSE /\ board_at' = "loop"
          /\ up' = IF "board writes" \in ends THEN up \o s ELSE up
          /\ UNCHANGED ends
  /\ UNCHANGED <<down, phone_at>>
-----------------------------------------------------------------------------
(* The phone programs.  outdoor_phone only listens, its buffer is never     *)
(* filled; out_task_phone waits for a word when there is nothing to read.   *)
PhoneReads ==
  /\ phone_at = "loop" /\ ~Network
  /\ IF up # <<>> THEN up' = Tail(up) /\ UNCHANGED phone_at
     ELSE pair = "out_task" /\ phone_at' = "type" /\ UNCHANGED up
  /\ UNCHANGED <<pair, board_at, ends, down, network, typed, asked>>

PhoneTypes ==
  /\ phone_at = "type" /\ typed < MaxTyped
  /\ \E w \in {"quit", "word"} : PhoneWrites(Buffer(w), "loop")
  /\ typed' = typed + 1
  /\ UNCHANGED <<pair, network, asked>>

\* The caller, at the other end of indoor_phone's connection.
Caller ==
  /\ Network /\ caller \notin {<<"closed">>}
  /\ \/ /\ called < MaxCalls
        /\ caller' = Append(caller, "call") /\ called' = called + 1
     \/ caller = <<>> /\ caller' = <<"closed">> /\ UNCHANGED called
  /\ UNCHANGED <<pair, phone_at, board_at, pipes, recvbuf, forwarded, typed, asked>>

Peeks == UNCHANGED caller /\ recvbuf' = Head(caller)                \* (mutant)
Received == caller' = Tail(caller) /\ recvbuf' = Head(caller)

(* indoor_phone: recv returns what has come, or nothing once the caller has *)
(* closed, and leaves recvbuf as it was.  "call" goes to the board.         *)
PhoneReceives ==
  /\ phone_at = "loop" /\ Network /\ caller # <<>>
  /\ forwarded <= called   \* bound: calls repeated after the caller has gone
  /\ IF caller = <<"closed">> THEN UNCHANGED <<caller, recvbuf>> ELSE Received
  /\ IF recvbuf' = "call"
     THEN /\ PhoneWrites(Word("call"), "answer")
          /\ forwarded' = forwarded + 1
     ELSE UNCHANGED <<phone_at, board_at, pipes, forwarded>>
  /\ UNCHANGED <<pair, called, typed, asked>>

\* ... and it polls the other pipe until there is an answer, which it sends on.
PhoneAnswers ==
  /\ phone_at = "answer" /\ up # <<>>
  /\ up' = <<>>
  /\ \/ phone_at' = "loop" /\ UNCHANGED ends
     \/ /\ caller = <<"closed">> /\ phone_at' = "over"             \* SIGPIPE
        /\ ends' = ends \ {"phone writes", "phone reads"}
  /\ UNCHANGED <<pair, board_at, down, network, typed, asked>>
-----------------------------------------------------------------------------
(* The board programs.  A piece that is not "quit" is answered: at once by  *)
(* outdoor_ui, by the user in the others.                                   *)
BoardReads ==
  /\ board_at = "loop" /\ down # <<>>
  /\ down' = Tail(down)
  /\ IF Head(down) = "quit" /\ ~Network THEN UNCHANGED <<board_at, asked>>
     ELSE board_at' = "question" /\ asked' = asked + 1
  /\ UNCHANGED <<pair, phone_at, ends, up, network, typed>>

(* indoor_ui and work_phone send the word typed, out_task_ui "hello phone"  *)
(* for an 'a' and nothing after twenty other keys.                          *)
BoardAnswers ==
  /\ board_at = "question"
  /\ \/ BoardWrites(Word("hello phone"))
     \/ pair = "out_task" /\ board_at' = "loop" /\ UNCHANGED <<phone_at, pipes>>
  /\ UNCHANGED <<pair, network, typed, asked>>

\* With nothing to read (indoor_ui: in any pass): 'q', 'r' (outdoor_ui only), or
\* 'c', which work_phone lacks.
BoardKey ==
  /\ board_at = "loop" /\ (down = <<>> \/ pair = "indoor")
  /\ \/ /\ pair \in {"outdoor", "out_task"} /\ up = <<>>   \* bound: one word on its way
        /\ \E w \in {"quit"} \cup (IF pair = "outdoor" THEN {"call"} ELSE {}) :
             BoardWrites(Word(w))
     \/ /\ pair # "work"
        /\ board_at' = "over" /\ ends' = ends \ {"board writes", "board reads"}
        /\ UNCHANGED <<phone_at, down, up>>
  /\ UNCHANGED <<pair, network, typed, asked>>

PhoneLoop == PhoneOpens \/ PhoneReads \/ PhoneReceives \/ PhoneAnswers
BoardLoop == BoardOpens \/ BoardReads
FifoNext == PhoneLoop \/ PhoneTypes \/ Caller \/ BoardLoop \/ BoardAnswers \/ BoardKey
FifoSpec == FifoInit /\ [][FifoNext]_fifoVars
-----------------------------------------------------------------------------

(* A call reaches the board once while the caller is connected, although    *)
(* recvbuf is never cleared (after the hang-up it is repeated without end); *)
(* and a word typed at out_task_phone is asked about at most once for each  *)
(* piece of its buffer, never more.                                         *)
NoPhantomCall ==
  /\ caller # <<"closed">> => forwarded + Len(caller) <= called
  /\ pair = "out_task" => asked + Len(down) <= Pieces * typed

(* A phone that polls for the board's answer gets on, unless one of the two *)
(* programs was too early to get its end for writing, the board has ended,  *)
(* or its user does not answer.                                             *)
CallReturns ==
  phone_at = "answer" ~> \/ phone_at # "answer"
                         \/ ~({"phone writes", "board writes"} \subseteq ends)
                         \/ board_at = "question"
=============================================================================
