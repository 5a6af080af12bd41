------------------------------ MODULE TcpChat ------------------------------
(***************************************************************************)
(* The IPK25-CHAT client over TCP (IPK/Project-1): the poll loop of        *)
(* ClientApplication, TcpClient with its receive buffer, the lines that a  *)
(* pipe or std::cin holds, and a server.                                   *)
(*                                                                         *)
(* A message of the server is two pieces of the byte stream, the second of *)
(* which ends in CR LF; TCP keeps the pieces in order and cuts the stream  *)
(* anywhere.  Time is as in UdpChat.                                       *)
(***************************************************************************)
EXTENDS Integers, Sequences, FiniteSets, ChatFsm

CONSTANTS MaxLines,   \* bound: lines the user types
          MaxSaid     \* bound: messages the server sends

ASSUME BoundsAssumption == MaxLines \in Nat /\ MaxSaid \in Nat

VARIABLES
  pc,           \* "poll", "stdin", "sock", "batch" or "ended"
  state,        \* StateMachine::current_state_
  terminating,  \* termination_requested_
  reqTime,      \* last_request_time_: "none", "fresh", "old"
  revents,      \* what poll said: [line, hup, sock]
  pipe,         \* lines in standard input
  cin,          \* lines that std::cin has read of it
  closed,       \* the writer of standard input has closed it
  typed,        \* bound: how many lines there were
  conn,         \* "open"; "fin": the server has closed; "reset"; "gone": so has the client
  wire,         \* pieces that recv has not taken; how many of them are there is open
  buffer,       \* buffer_
  batch,        \* what receive_message returned and is not handled; 0 is its own BYE
  said,         \* the messages of the server
  shown,        \* those that have been handled
  toServer,     \* messages of the client
  got           \* the last one that the server has answered

input == <<pipe, cin, closed, typed>>
stream == <<conn, wire, buffer>>
vars == <<pc, state, terminating, reqTime, revents, input, stream, batch, said, shown, toServer, got>>

NoEvents == [line |-> FALSE, hup |-> FALSE, sock |-> FALSE]

Init ==
  /\ pc = "poll" /\ state = "START" /\ terminating = FALSE /\ reqTime = "none"
  /\ revents = NoEvents
  /\ pipe = <<>> /\ cin = <<>> /\ closed = FALSE /\ typed = 0
  /\ conn = "open" /\ wire = <<>> /\ buffer = <<>> /\ batch = <<>>
  /\ said = <<>> /\ shown = <<>>
  /\ toServer = <<>> /\ got = 0
-----------------------------------------------------------------------------
(* TcpClient *)

Pieces(n) == <<[n |-> n, half |-> 1], [n |-> n, half |-> 2]>>

\* The pieces of a buffer that end a message, the complete messages, and what is left
\* for the next recv.
EndsOf(s) == {k \in DOMAIN s : s[k].half = 2}
EndsUpTo(s, k) == {l \in EndsOf(s) : l <= k}
Count(s) == Cardinality(EndsOf(s))
End(s, j) == CHOOSE k \in EndsOf(s) : Cardinality(EndsUpTo(s, k)) = j
\* Mutant: the newest first.
NewestFirst(s) == [j \in 1..Count(s) |-> s[End(s, Count(s) + 1 - j)].n]
MessagesIn(s) == [j \in 1..Count(s) |-> s[End(s, j)].n]
\* Mutants: what is left is thrown away; one piece too many is kept.
NoRest(s) == <<>>
RestAndEnd(s) == IF EndsOf(s) = {} THEN s ELSE SubSeq(s, End(s, Count(s)), Len(s))
RestOf(s) == IF EndsOf(s) = {} THEN s ELSE SubSeq(s, End(s, Count(s)) + 1, Len(s))

\* TcpMessage::parse accepts the message that ends in piece k.
Parses(s, k) == /\ k > 1 /\ s[k - 1] = [s[k] EXCEPT !.half = 1]
                /\ said[s[k].n].type # "BAD"

\* send: it may fail once the connection is no longer there.
Sent(type) == conn \in {"open", "fin"} /\ toServer' = Append(toServer, type)
NotSent == conn # "open" /\ UNCHANGED toServer

\* A message with which the client ends, from state st: whether it can be sent or
\* not, terminate() throws away what the socket still holds.
Farewell(type, st) ==
  /\ pc' = "ended"
  /\ \/ Sent(type) /\ state' = IF type = "BYE" THEN OnSent(st, "BYE") ELSE st
     \/ NotSent /\ state' = st

\* poll overwrites revents, so that what it said is forgotten when it has been used.
SockTaken == pc = "sock" /\ revents.sock /\ revents' = NoEvents

Receive ==
  /\ SockTaken /\ conn # "reset"
  /\ \E size \in 1..Len(wire) :
       LET all == buffer \o SubSeq(wire, 1, size) IN
       /\ wire' = SubSeq(wire, size + 1, Len(wire))
       /\ buffer' = RestOf(all)
       /\ \/ /\ \A k \in EndsOf(all) : Parses(all, k)
             /\ batch' = MessagesIn(all)
             /\ pc' = "batch" /\ UNCHANGED <<state, toServer>>
          \/ /\ \E k \in EndsOf(all) : ~Parses(all, k)
             /\ Farewell("ERR", state) /\ UNCHANGED batch
  /\ UNCHANGED <<terminating, reqTime, input, conn, said, shown, got>>

\* recv returns 0: the client closes and makes a BYE for itself.
ReceiveEnd ==
  /\ SockTaken /\ conn = "fin" /\ wire = <<>>
  /\ conn' = "gone" /\ batch' = <<0>> /\ pc' = "batch"
  /\ UNCHANGED <<state, terminating, reqTime, input, wire, buffer, said, shown, toServer, got>>

ReceiveFails ==
  /\ SockTaken /\ conn = "reset"
  /\ Farewell("ERR", state)
  /\ UNCHANGED <<terminating, reqTime, input, stream, batch, said, shown, got>>
-----------------------------------------------------------------------------
(* ClientApplication::run, one iteration: poll, check, stdin, sock, batch. *)

TimedOut == reqTime = "old" /\ Awaiting(state)
\* Mutant: the test for a pending request the wrong way round.
QuitsWhileAwaiting(st) == terminating /\ Awaiting(st)
Quits(st) == terminating /\ ~Awaiting(st)

\* The loop's condition, poll, and the checks that come before any input is read.
\* A piece under way may have arrived or not.
LoopEnds ==
  /\ pc = "poll" /\ state = "END" /\ pc' = "ended"
  /\ UNCHANGED <<state, terminating, reqTime, revents, input, stream, batch, said, shown, toServer, got>>

CheckEnds ==
  /\ pc = "poll" /\ state # "END"
  /\ \/ TimedOut /\ Farewell("ERR", state)
     \/ ~TimedOut /\ Quits(state) /\ Farewell("BYE", state)
  /\ UNCHANGED <<terminating, reqTime, revents, input, stream, batch, said, shown, got>>

Poll ==
  /\ pc = "poll" /\ state # "END" /\ ~TimedOut /\ ~Quits(state)
  /\ \E ready \in {FALSE, wire # <<>> \/ conn # "open"} :
       revents' = [line |-> pipe # <<>>, hup |-> closed, sock |-> ready]
  /\ pc' = "stdin"
  /\ UNCHANGED <<state, terminating, reqTime, input, stream, batch, said, shown, toServer, got>>

\* std::getline: std::cin reads all there is when it holds nothing.
Lines == IF cin = <<>> THEN pipe ELSE cin
GetLine == cin' = Tail(Lines) /\ pipe' = IF cin = <<>> THEN <<>> ELSE pipe

\* A line, which is sent when the state allows it.
StdinLine ==
  /\ pc = "stdin" /\ revents.line /\ ~revents.hup
  /\ GetLine
  /\ LET type == Head(Lines) IN
     \/ /\ type \in MaySend(state) /\ Sent(type)
        /\ state' = OnSent(state, type)
        /\ reqTime' = IF type \in {"AUTH", "JOIN"} THEN "fresh" ELSE reqTime
        /\ pc' = "sock"
     \/ /\ type \in MaySend(state) /\ NotSent
        /\ pc' = "ended" /\ UNCHANGED <<state, reqTime>>
     \/ /\ type \notin MaySend(state)
        /\ pc' = "sock" /\ UNCHANGED <<state, reqTime, toServer>>
  /\ UNCHANGED <<terminating, revents, closed, typed, stream, batch, said, shown, got>>

\* The end of standard input, with which a line just read is thrown away.
StdinEnds ==
  /\ pc = "stdin" /\ revents.hup
  /\ IF revents.line THEN GetLine ELSE UNCHANGED <<cin, pipe>>
  /\ terminating' = TRUE /\ pc' = "sock"
  /\ UNCHANGED <<state, reqTime, revents, closed, typed, stream, batch, said, shown, toServer, got>>

StdinNothing ==
  /\ pc = "stdin" /\ ~revents.line /\ ~revents.hup
  /\ pc' = "sock"
  /\ UNCHANGED <<state, terminating, reqTime, revents, input, stream, batch, said, shown, toServer, got>>

SockNotReady ==
  /\ pc = "sock" /\ ~revents.sock /\ pc' = "poll" /\ revents' = NoEvents
  /\ UNCHANGED <<state, terminating, reqTime, input, stream, batch, said, shown, toServer, got>>

\* handle_server_input, one message; the rest of a batch is dropped when one of it
\* ends the client.
HandleMessage ==
  /\ pc = "batch" /\ batch # <<>>
  /\ LET n == Head(batch)
         m == IF n = 0 THEN [type |-> "BYE", ok |-> FALSE] ELSE said[n]
         next == OnReceived(state, m.type, m.ok)
         reaction == Reaction(state, m.type) IN
     /\ shown' = IF n = 0 THEN shown ELSE Append(shown, n)
     /\ batch' = Tail(batch)
     /\ \/ reaction \in {"ERR", "BYE"} /\ Farewell(reaction, next)
        \/ reaction = "end" /\ pc' = "ended" /\ state' = next /\ UNCHANGED toServer
        \/ reaction = "go on" /\ Quits(next) /\ Farewell("BYE", next)
        \/ /\ reaction = "go on" /\ ~Quits(next)
           /\ state' = next /\ UNCHANGED <<pc, toServer>>
  /\ UNCHANGED <<terminating, reqTime, revents, input, stream, said, got>>

BatchDone ==
  /\ pc = "batch" /\ batch = <<>> /\ pc' = "poll"
  /\ UNCHANGED <<state, terminating, reqTime, revents, input, stream, batch, said, shown, toServer, got>>

Client == \/ LoopEnds \/ CheckEnds \/ Poll \/ StdinLine \/ StdinEnds \/ StdinNothing
          \/ SockNotReady \/ Receive \/ ReceiveEnd \/ ReceiveFails
          \/ HandleMessage \/ BatchDone
-----------------------------------------------------------------------------
(* The user, the network and the server. *)

Signal ==
  /\ pc # "ended" /\ terminating' = TRUE
  /\ UNCHANGED <<pc, state, reqTime, revents, input, stream, batch, said, shown, toServer, got>>

Tick ==
  /\ pc # "ended" /\ reqTime = "fresh" /\ reqTime' = "old"
  /\ UNCHANGED <<pc, state, terminating, revents, input, stream, batch, said, shown, toServer, got>>

Type ==
  /\ pc # "ended" /\ ~closed /\ typed < MaxLines
  /\ \E line \in {"AUTH", "JOIN", "MSG", "BYE"} : pipe' = Append(pipe, line)
  /\ typed' = typed + 1
  /\ UNCHANGED <<pc, state, terminating, reqTime, revents, cin, closed, stream, batch, said, shown, toServer, got>>

CloseInput ==
  /\ pc # "ended" /\ closed' = TRUE
  /\ UNCHANGED <<pc, state, terminating, reqTime, revents, pipe, cin, typed, stream, batch, said, shown, toServer, got>>

Say(type, ok) ==
  /\ conn = "open" /\ Len(said) < MaxSaid
  /\ said' = Append(said, [type |-> type, ok |-> ok])
  /\ wire' = wire \o Pieces(Len(said) + 1)
  /\ UNCHANGED <<pc, state, terminating, reqTime, revents, input, conn, buffer, batch, shown, toServer>>

ServerSays ==
  /\ pc # "ended"
  /\ \E type \in {"MSG", "ERR", "BYE", "BAD"} : Say(type, FALSE)
  /\ UNCHANGED got

\* The server answers requests in their order, or not at all.
ServerReplies ==
  /\ pc # "ended"
  /\ \E k \in got + 1..Len(toServer), ok \in BOOLEAN :
       /\ toServer[k] \in {"AUTH", "JOIN"}
       /\ got' = k
       /\ Say("REPLY", ok)

ServerCloses ==
  /\ pc # "ended" /\ conn = "open"
  /\ \/ conn' = "fin" /\ UNCHANGED wire
     \/ conn' = "reset" /\ wire' = <<>>
  /\ UNCHANGED <<pc, state, terminating, reqTime, revents, input, buffer, batch, said, shown, toServer, got>>

Environment == \/ Signal \/ Tick \/ Type \/ CloseInput
               \/ ServerSays \/ ServerReplies \/ ServerCloses

Next == Client \/ Environment

Spec == Init /\ [][Next]_vars
FairSpec == Spec /\ WF_vars(Client) /\ WF_vars(Tick)
-----------------------------------------------------------------------------
(* Properties *)

Piece == [n : 1..MaxSaid, half : 1..2]

\* The types of the variables; between two recv the buffer holds no complete message.
TypeOK ==
  /\ pc \in {"poll", "stdin", "sock", "batch", "ended"}
  /\ state \in States /\ terminating \in BOOLEAN /\ reqTime \in {"none", "fresh", "old"}
  /\ revents \in [line : BOOLEAN, hup : BOOLEAN, sock : BOOLEAN]
  /\ pipe \in Seq({"AUTH", "JOIN", "MSG", "BYE"}) /\ cin \in Seq({"AUTH", "JOIN", "MSG", "BYE"})
  /\ closed \in BOOLEAN /\ typed \in 0..MaxLines
  /\ conn \in {"open", "fin", "reset", "gone"}
  /\ wire \in Seq(Piece) /\ buffer \in Seq(Piece) /\ EndsOf(buffer) = {}
  /\ batch \in Seq(0..MaxSaid) /\ shown \in Seq(1..MaxSaid)
  /\ said \in Seq([type : {"REPLY", "MSG", "ERR", "BYE", "BAD"}, ok : BOOLEAN])
  /\ toServer \in Seq({"AUTH", "JOIN", "MSG", "BYE", "ERR"})
  /\ got \in 0..Len(toServer)

\* The user sees the messages of the server once each and in order, wherever the
\* stream is cut and however recv splits it.
Numbers == [k \in DOMAIN said |-> k]
Channel == INSTANCE OrderedChannel WITH Message <- 1..MaxSaid, sent <- Numbers
InOrder == Channel!Spec

\* A running client has lost nothing: every message of the server has been shown, or
\* is in the batch, or else both its pieces are in the buffer or have not been received.
Unhandled == IF batch = <<0>> THEN <<>> ELSE batch
NothingLost ==
  pc # "ended" /\ conn # "reset" =>
    LET rest == buffer \o wire IN
    /\ shown \o Unhandled \o MessagesIn(rest) = Numbers
    /\ \A k \in EndsOf(rest) : k > 1 /\ rest[k - 1] = [rest[k] EXCEPT !.half = 1]
    /\ Len(rest) = 2 * Count(rest)

\* After a BYE or ERR the client sends no request or text any more, although the
\* iteration in which it was sent goes on to the socket, and a batch to its end.
GoodbyeEnds ==
  \A k, l \in DOMAIN toServer :
    k < l /\ toServer[k] \in {"BYE", "ERR"} => toServer[l] \in {"BYE", "ERR"}

\* "Termination will be handled in the main loop" (client_application.cpp:119).
TerminationHandled == terminating ~> pc = "ended"
=============================================================================
