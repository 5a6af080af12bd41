------------------------------ MODULE UdpChat ------------------------------
(***************************************************************************)
(* The IPK25-CHAT client over UDP (IPK/Project-1): the poll loop of        *)
(* ClientApplication, UdpClient with its confirmations and retries,         *)
(* a network that loses, delays, duplicates and reorders, and a server.    *)
(*                                                                         *)
(* The network is the set of all datagrams ever sent: one may arrive any   *)
(* number of times, at any time, or never.  A retransmission therefore     *)
(* changes nothing but the client's budget.  The server sends from two     *)
(* ports: the one the client was given, and one of the session's own.      *)
(* Malformed datagrams and failures of recvfrom may come at any time.      *)
(* Time is three values: no request yet, one less than 5 seconds old, an   *)
(* older one.                                                              *)
(***************************************************************************)
EXTENDS Integers, Sequences, ChatFsm

CONSTANTS MaxRetries,    \* -r
          MaxSends,      \* bound: messages the client sends
          MaxServerIds,  \* bound: messages the server sends
          InboxSize      \* bound: datagrams waiting in the socket

ASSUME BoundsAssumption ==
  /\ MaxRetries \in Nat
  /\ MaxSends \in Nat /\ MaxServerIds \in Nat /\ InboxSize \in Nat \ {0}

Ids == 0 .. MaxSends + MaxServerIds
NoId == -1     \* the id read out of a text or a malformed datagram
Ports == {"first", "session"}

VARIABLES
  pc,             \* "poll", "check", "stdin", "sock", "wait" or "ended"
  state,          \* StateMachine::current_state_
  terminating,    \* termination_requested_: SIGINT or EOF
  reqTime,        \* last_request_time_: "none", "fresh", "old"
  sockReady,      \* what poll said of the socket
  nextId,         \* next_message_id_
  out,            \* the message that awaits its CONFIRM
  retriesLeft,
  received,       \* received_message_ids_
  serverAddr,     \* the port in server_addr_
  inbox,          \* the socket's receive buffer
  toServer, toClient,   \* the network
  serverGot, serverIds, authorised,       \* the server
  confirmed, delivered, acked   \* history

appVars == <<pc, state, terminating, reqTime, sockReady>>
udpVars == <<nextId, out, retriesLeft, received, serverAddr>>
serverVars == <<serverGot, serverIds, authorised>>
history == <<confirmed, delivered, acked>>
vars == <<appVars, udpVars, inbox, toServer, toClient, serverVars, history>>

Datagram(type, id, ok, from) == [type |-> type, id |-> id, ok |-> ok, from |-> from]
Malformed == Datagram("BAD", NoId, FALSE, "first")
(* Not a datagram: what makes the next recvfrom fail. *)
SocketError == Datagram("ERROR", NoId, FALSE, "first")

NoOut == [id |-> NoId, type |-> "none", text |-> FALSE, why |-> "none"]

Init ==
  /\ pc = "poll" /\ state = "START" /\ terminating = FALSE
  /\ reqTime = "none" /\ sockReady = FALSE
  /\ nextId = 0 /\ out = NoOut /\ retriesLeft = 0 /\ received = {}
  /\ serverAddr = "first"
  /\ inbox = <<>> /\ toServer = {} /\ toClient = {Malformed, SocketError}
  /\ serverGot = {} /\ serverIds = 0 /\ authorised = FALSE
  /\ confirmed = {} /\ delivered = [i \in Ids |-> 0] /\ acked = {}

-----------------------------------------------------------------------------
(* UdpClient *)

(* send_message as far as the first sendto; why is the caller's reason.  A   *)
(* sendto that fails throws, and every caller then ends the program.        *)
Send(type, text, why) ==
  LET msg == [id |-> nextId, type |-> type, text |-> text, why |-> why]
  IN  /\ nextId < MaxSends
      /\ nextId' = nextId + 1
      /\ out' = msg
      /\ retriesLeft' = MaxRetries
      /\ \/ pc' = "wait" /\ toServer' = toServer \cup {msg}
         \/ pc' = "ended" /\ UNCHANGED toServer

(* Mutant: any CONFIRM will do. *)
AnyConfirm(d) == d.type = "CONFIRM"

Confirms(d) == d.type = "CONFIRM" /\ (d.id = out.id \/ out.text)

(* What only makes the wait begin its timeout anew: a recvfrom that fails,  *)
(* and a datagram that parses but is from another port.                     *)
Ignored(d) == d.type = "ERROR" \/ (d.type # "BAD" /\ d.from # serverAddr)

(* The wait is over: a request starts the clock; all other callers than     *)
(* handle_stdin end the program.                                            *)
WaitConfirmed ==
  /\ pc = "wait" /\ retriesLeft > 0
  /\ inbox # <<>> /\ ~Ignored(Head(inbox)) /\ Confirms(Head(inbox))
  /\ inbox' = Tail(inbox)
  /\ acked' = acked \cup {out.id}
  /\ state' = OnSent(state, out.type)
  /\ pc' = IF out.why = "stdin" THEN "sock" ELSE "ended"
  /\ reqTime' = IF out.type \in {"AUTH", "JOIN"} THEN "fresh" ELSE reqTime
  /\ UNCHANGED <<terminating, sockReady, udpVars, toServer, toClient,
                 serverVars, confirmed, delivered>>

(* Mutant: a datagram that is no CONFIRM does not cost a retry. *)
UnexpectedIsFree == UNCHANGED retriesLeft
UnexpectedCosts == retriesLeft' = retriesLeft - 1

(* Anything else is taken out of the socket and dropped, unconfirmed, and   *)
(* the message is sent again as after a timeout.                            *)
WaitUnexpected ==
  /\ pc = "wait" /\ retriesLeft > 0
  /\ inbox # <<>> /\ ~Ignored(Head(inbox)) /\ ~Confirms(Head(inbox))
  /\ inbox' = Tail(inbox)
  /\ UnexpectedCosts
  /\ UNCHANGED <<appVars, nextId, out, received, serverAddr, toServer, toClient,
                 serverVars, history>>

(* It costs no retry, and nothing is sent again. *)
WaitIgnored ==
  /\ pc = "wait" /\ retriesLeft > 0
  /\ inbox # <<>> /\ Ignored(Head(inbox))
  /\ inbox' = Tail(inbox)
  /\ UNCHANGED <<appVars, udpVars, toServer, toClient, serverVars, history>>

WaitTimeout ==
  /\ pc = "wait" /\ retriesLeft > 0 /\ inbox = <<>>
  /\ retriesLeft' = retriesLeft - 1
  /\ UNCHANGED <<appVars, nextId, out, received, serverAddr, inbox, toServer,
                 toClient, serverVars, history>>

WaitFails ==
  /\ pc = "wait" /\ retriesLeft = 0
  /\ pc' = "ended"
  /\ UNCHANGED <<state, terminating, reqTime, sockReady, udpVars, inbox,
                 toServer, toClient, serverVars, history>>

-----------------------------------------------------------------------------
(* ClientApplication::run, one iteration: poll, check, stdin, sock. *)

Poll ==
  /\ pc = "poll"
  /\ pc' = IF state = "END" THEN "ended" ELSE "check"
  /\ sockReady' = (inbox # <<>>)
  /\ UNCHANGED <<state, terminating, reqTime, udpVars, inbox, toServer,
                 toClient, serverVars, history>>

TimedOut == reqTime = "old" /\ Awaiting(state)
(* Mutant: the test for a pending request the wrong way round. *)
QuitsWhileAwaiting(st) == terminating /\ Awaiting(st)
Quits(st) == terminating /\ ~Awaiting(st)

CheckTimeout ==
  /\ pc = "check" /\ TimedOut
  /\ Send("ERR", FALSE, "timeout")
  /\ UNCHANGED <<state, terminating, reqTime, sockReady, received, serverAddr, inbox,
                 toClient, serverVars, history>>

CheckTermination ==
  /\ pc = "check" /\ ~TimedOut /\ Quits(state)
  /\ Send("BYE", FALSE, "signal")
  /\ UNCHANGED <<state, terminating, reqTime, sockReady, received, serverAddr, inbox,
                 toClient, serverVars, history>>

CheckPasses ==
  /\ pc = "check" /\ ~TimedOut /\ ~Quits(state)
  /\ pc' = "stdin"
  /\ UNCHANGED <<state, terminating, reqTime, sockReady, udpVars, inbox,
                 toServer, toClient, serverVars, history>>

(* handle_stdin: nothing to read or a local command; EOF; a message. *)
StdinNothing ==
  /\ pc = "stdin" /\ pc' = "sock"
  /\ UNCHANGED <<state, terminating, reqTime, sockReady, udpVars, inbox,
                 toServer, toClient, serverVars, history>>

StdinEof ==
  /\ pc = "stdin" /\ pc' = "sock"
  /\ terminating' = TRUE
  /\ UNCHANGED <<state, reqTime, sockReady, udpVars, inbox, toServer,
                 toClient, serverVars, history>>

(* The bound keeps one id for the BYE or ERR that ends the program. *)
StdinSend ==
  /\ pc = "stdin" /\ nextId < MaxSends - 1
  /\ \E type \in MaySend(state) : Send(type, type # "AUTH", "stdin")
  /\ UNCHANGED <<state, terminating, reqTime, sockReady, received, serverAddr, inbox,
                 toClient, serverVars, history>>

SockNotReady ==
  /\ pc = "sock" /\ ~sockReady /\ pc' = "poll"
  /\ UNCHANGED <<state, terminating, reqTime, sockReady, udpVars, inbox,
                 toServer, toClient, serverVars, history>>

(* receive_message: recvfrom blocks when the datagram that poll has seen    *)
(* was taken by the wait for a CONFIRM in between.                          *)
Take(d) ==
  /\ pc = "sock" /\ sockReady /\ inbox # <<>>
  /\ d = Head(inbox)
  /\ inbox' = Tail(inbox)
  /\ sockReady' = FALSE

(* Mutant: the ids of received messages are not remembered. *)
RememberNothing(d) == UNCHANGED received
Remember(d) == received' = received \cup {d.id}

ReceiveNothing ==
  \E d \in toClient :
    /\ Take(d)
    /\ d.type # "ERROR"
    /\ pc' = "poll"
    /\ \/ d.type = "BAD" /\ UNCHANGED confirmed
       \/ d.id \in received /\ confirmed' = confirmed \cup {d.id}
    /\ UNCHANGED <<state, terminating, reqTime, udpVars, toServer, toClient,
                   serverVars, delivered, acked>>

(* recvfrom fails: handle_server_input ends the session. *)
ReceiveFails ==
  /\ Take(SocketError)
  /\ Send("ERR", FALSE, "malformed")
  /\ UNCHANGED <<state, terminating, reqTime, received, serverAddr, toClient,
                 serverVars, history>>

(* A new id: remember and confirm it, let the state machine move, react.    *)
(* A BYE has closed the socket by then: its answer cannot be sent.          *)
ReceiveNew ==
  \E d \in toClient :
    /\ Take(d)
    /\ d.type \notin {"BAD", "ERROR"} /\ d.id \notin received
    /\ Remember(d) /\ serverAddr' = d.from
    /\ confirmed' = confirmed \cup {d.id}
    /\ state' = OnReceived(state, d.type, d.ok)
    /\ delivered' = IF d.type = "CONFIRM" THEN delivered
                    ELSE [delivered EXCEPT ![d.id] = @ + 1]
    /\ CASE Reaction(state, d.type) = "ERR" -> Send("ERR", FALSE, "unexpected")
         [] Reaction(state, d.type) \in {"BYE", "end"} ->
              pc' = "ended" /\ UNCHANGED <<nextId, out, retriesLeft, toServer>>
         [] Reaction(state, d.type) = "go on" /\ Quits(state') ->
              Send("BYE", FALSE, "delayed")
         [] OTHER ->
              pc' = "poll" /\ UNCHANGED <<nextId, out, retriesLeft, toServer>>
    /\ UNCHANGED <<terminating, reqTime, toClient, serverVars, acked>>

(* SIGINT, at any time. *)
Signal ==
  /\ pc # "ended" /\ terminating' = TRUE
  /\ UNCHANGED <<pc, state, reqTime, sockReady, udpVars, inbox, toServer,
                 toClient, serverVars, history>>

(* Five seconds pass. *)
Tick ==
  /\ reqTime = "fresh" /\ reqTime' = "old"
  /\ UNCHANGED <<pc, state, terminating, sockReady, udpVars, inbox, toServer,
                 toClient, serverVars, history>>

Client ==
  \/ WaitConfirmed \/ WaitUnexpected \/ WaitIgnored \/ WaitTimeout \/ WaitFails
  \/ Poll \/ CheckTimeout \/ CheckTermination \/ CheckPasses
  \/ StdinNothing \/ StdinEof \/ StdinSend
  \/ SockNotReady \/ ReceiveNothing \/ ReceiveFails \/ ReceiveNew

-----------------------------------------------------------------------------
(* The network and the server. *)

Arrive ==
  /\ Len(inbox) < InboxSize
  /\ \E d \in toClient : inbox' = Append(inbox, d)
  /\ UNCHANGED <<appVars, udpVars, toServer, toClient, serverVars, history>>

(* The server confirms what arrives, and replies to a request.  A text      *)
(* datagram carries no id.                                                  *)
ServerGets ==
  \E m \in toServer, ok \in BOOLEAN, from, replyFrom \in Ports :
    /\ m.id \notin serverGot
    /\ serverGot' = serverGot \cup {m.id}
    /\ authorised' = (authorised \/ (m.type = "AUTH" /\ ok))
    /\ LET confirm == Datagram("CONFIRM", IF m.text THEN NoId ELSE m.id, FALSE, from)
       IN  IF m.type \in {"AUTH", "JOIN"} /\ serverIds < MaxServerIds
           THEN /\ toClient' = toClient \cup {confirm, Datagram("REPLY", serverIds, ok, replyFrom)}
                /\ serverIds' = serverIds + 1
           ELSE toClient' = toClient \cup {confirm} /\ UNCHANGED serverIds
    /\ UNCHANGED <<appVars, udpVars, inbox, toServer, history>>

ServerSends ==
  /\ serverIds < MaxServerIds
  /\ serverIds' = serverIds + 1
  /\ \E type \in {"MSG", "PING", "ERR", "BYE"}, from \in Ports :
       toClient' = toClient \cup {Datagram(type, serverIds, FALSE, from)}
  /\ UNCHANGED <<appVars, udpVars, inbox, toServer, serverGot, authorised, history>>

Environment == Signal \/ Tick \/ Arrive \/ ServerGets \/ ServerSends

Next == Client \/ Environment

Spec == Init /\ [][Next]_vars

(* The client runs on while it can; 5 seconds pass; what the network and    *)
(* the server do is their own affair.                                       *)
Fairness == WF_vars(Client) /\ WF_vars(Tick)

FairSpec == Spec /\ Fairness

-----------------------------------------------------------------------------
(* Properties. *)

(* The types of the client's, the network's and the server's variables.     *)
TypeOK ==
  /\ pc \in {"poll", "check", "stdin", "sock", "wait", "ended"}
  /\ state \in States
  /\ terminating \in BOOLEAN /\ sockReady \in BOOLEAN
  /\ reqTime \in {"none", "fresh", "old"}
  /\ nextId \in 0 .. MaxSends
  /\ retriesLeft \in 0 .. MaxRetries
  /\ serverAddr \in Ports
  /\ received \subseteq Ids \cup {NoId} /\ confirmed \subseteq received
  /\ Len(inbox) <= InboxSize
  /\ \A m \in toServer : m.id \in 0 .. nextId - 1
  /\ serverGot \subseteq Ids /\ serverIds \in 0 .. MaxServerIds
  /\ \A i \in Ids : delivered[i] \in Nat
  /\ acked \subseteq 0 .. nextId - 1
  /\ authorised \in BOOLEAN

(* However often the network repeats it, a message of the server reaches    *)
(* the application once at most.                                            *)
AtMostOnce == \A i \in Ids : delivered[i] <= 1

(* When send_message returns for a binary message, the server has it.       *)
BinaryAckReceived ==
  \A m \in toServer : m.id \in acked /\ ~m.text => m.id \in serverGot

(* The client is in OPEN or JOIN only after the server has accepted it,     *)
(* whatever replies to earlier attempts are still under way.                *)
OpenIsAuthorised == state \in {"OPEN", "JOIN"} => authorised

(* Waiting for a CONFIRM comes to an end, or datagrams that the wait only   *)
(* ignores arrive for ever: no other datagram is free.                      *)
WaitEnds == (pc = "wait" ~> pc # "wait") \/ []<><<WaitIgnored>>_vars

(* poll has seen a datagram, and the wait for a CONFIRM has taken it. *)
Blocked == pc = "sock" /\ sockReady /\ inbox = <<>>

(* "Termination will be handled in the main loop"                           *)
(* (client_application.cpp:119): once asked to, the client ends, unless it  *)
(* stays in a blocking recvfrom or in a wait that goes on ignoring.         *)
TerminationHandled ==
  \/ terminating ~> pc = "ended"
  \/ <>[]Blocked
  \/ []<><<WaitIgnored>>_vars
=============================================================================
