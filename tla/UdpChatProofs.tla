--------------------------- MODULE UdpChatProofs ---------------------------
(***************************************************************************)
(* Proofs about UdpChat, for any number of retries, messages and datagrams *)
(* in the socket.                                                          *)
(***************************************************************************)
EXTENDS UdpChat, TLAPS

(* The messages of the two sides. *)
Kinds == {"AUTH", "JOIN", "MSG", "BYE", "ERR"}
Reasons == {"stdin", "timeout", "signal", "unexpected", "delayed", "malformed"}
OutMsg == [id : Nat, type : Kinds, text : BOOLEAN, why : Reasons]
InKinds == {"CONFIRM", "BAD", "ERROR", "REPLY", "MSG", "PING", "ERR", "BYE"}
InMsg == [type : InKinds, id : Int, ok : BOOLEAN, from : Ports]

OutOK ==
  /\ toServer \subseteq OutMsg /\ (\A m \in toServer : m.id < nextId)
  /\ pc = "wait" => out \in toServer

InboxOK(box) ==
  box \in Seq(InMsg) /\ (\A k \in 1 .. Len(box) : box[k] \in toClient)

(* What the proofs need of the variables' types: ids in use are below       *)
(* next_message_id_, and what has arrived was sent.                         *)
Types ==
  /\ nextId \in Nat
  /\ serverIds \in 0 .. MaxServerIds
  /\ OutOK
  /\ toClient \subseteq InMsg /\ InboxOK(inbox)
  /\ acked \subseteq Nat /\ (\A i \in acked : i < nextId)
  /\ delivered \in [Ids -> Nat]

(* The server's own messages carry its own ids, and a CONFIRM the id of a   *)
(* message it has got.                                                      *)
ServerInv ==
  \A d \in toClient :
    /\ d.type \notin {"CONFIRM", "BAD", "ERROR"} => d.id \in 0 .. serverIds - 1
    /\ d.type = "CONFIRM" => d.id = NoId \/ d.id \in serverGot

(* The client never uses an id twice. *)
IdsInv == \A m, n \in toServer : m.id = n.id => m = n

OnceInv == \A i \in Ids : delivered[i] \in {0, 1} /\ (delivered[i] = 1 => i \in received)

(* Only an authorised client joins, and only it gets a positive REPLY. *)
AuthInv ==
  /\ OpenIsAuthorised
  /\ \A m \in toServer : m.type = "JOIN" => authorised
  /\ \A d \in toClient : d.type = "REPLY" /\ d.ok => authorised

(* The client's own variables, and the room in the socket. *)
ClientTypes ==
  /\ pc \in {"poll", "check", "stdin", "sock", "wait", "ended"}
  /\ state \in States
  /\ terminating \in BOOLEAN /\ sockReady \in BOOLEAN
  /\ reqTime \in {"none", "fresh", "old"}
  /\ nextId \in 0 .. MaxSends
  /\ retriesLeft \in 0 .. MaxRetries
  /\ serverAddr \in Ports
  /\ Len(inbox) <= InboxSize

(* Each side remembers ids that the other has used; what is confirmed is    *)
(* remembered.                                                              *)
SeenOK ==
  /\ received \subseteq Ids \cup {NoId} /\ confirmed \subseteq received
  /\ serverGot \subseteq Ids
  /\ authorised \in BOOLEAN

IInv ==
  /\ Types /\ ClientTypes /\ SeenOK
  /\ ServerInv /\ IdsInv /\ OnceInv /\ BinaryAckReceived /\ AuthInv
-----------------------------------------------------------------------------
(* What a call of send_message does to the client's messages. *)
Sent(type, text) ==
  /\ nextId' = nextId + 1
  /\ toServer' \subseteq OutMsg /\ toServer \subseteq toServer'
  /\ \A m \in toServer' : m \in toServer \/ (m.id = nextId /\ m.type = type /\ m.text = text)
  /\ \A m, n \in toServer' : m.id = nextId /\ n.id = nextId => m = n
  /\ pc' = "wait" => out' \in toServer'

SentNothing == pc' # "wait" /\ UNCHANGED <<nextId, toServer, out>>

LEMMA SendSends ==
  ASSUME Types, NEW type \in Kinds, NEW text \in BOOLEAN, NEW why \in Reasons,
         Send(type, text, why)
  PROVE  Sent(type, text)
<1> DEFINE msg == [id |-> nextId, type |-> type, text |-> text, why |-> why]
<1>1. msg \in OutMsg
  BY DEF Types, OutMsg
<1>2. nextId' = nextId + 1 /\ out' = msg
  BY DEF Send
<1>3. \/ toServer' = toServer \cup {msg}
      \/ pc' = "ended" /\ toServer' = toServer
  BY DEF Send
<1>4. \A m \in toServer : m \in OutMsg /\ m.id \in Nat /\ m.id < nextId
  BY DEF Types, OutOK, OutMsg
<1> HIDE DEF msg
<1>5. msg.id = nextId /\ msg.type = type /\ msg.text = text
  BY DEF msg
<1> QED
  BY <1>1, <1>2, <1>3, <1>4, <1>5 DEF Sent, Types

(* The receive handler sends ERR or BYE, or nothing. *)
LEMMA ReceiveSends ==
  ASSUME Types, ReceiveNew
  PROVE  Sent("ERR", FALSE) \/ Sent("BYE", FALSE) \/ SentNothing
<1>1. \/ Send("ERR", FALSE, "unexpected") \/ Send("BYE", FALSE, "delayed")
      \/ SentNothing
  BY DEF ReceiveNew, SentNothing
<1> QED
  BY <1>1, SendSends DEF Kinds, Reasons

LEMMA StdinSends ==
  ASSUME Types, StdinSend
  PROVE  \E type \in Kinds, text \in BOOLEAN :
           Sent(type, text) /\ (type = "JOIN" => state = "OPEN")
<1>1. PICK type \in MaySend(state) : Send(type, type # "AUTH", "stdin")
  BY DEF StdinSend
<1>2. type \in Kinds /\ (type = "JOIN" => state = "OPEN")
  BY DEF MaySend, Kinds
<1> QED
  BY <1>1, <1>2, SendSends DEF Reasons

-----------------------------------------------------------------------------
(* Each part is preserved by every action. *)

(* What has arrived was sent by the server. *)
LEMMA TailOK ==
  ASSUME InboxOK(inbox), inbox # <<>>
  PROVE  InboxOK(Tail(inbox)) /\ Head(inbox) \in toClient
  BY DEF InboxOK

LEMMA DatagramType ==
  ASSUME NEW type \in InKinds, NEW id \in Int, NEW ok \in BOOLEAN, NEW from \in Ports
  PROVE  Datagram(type, id, ok, from) \in InMsg
  BY DEF Datagram, InMsg

LEMMA SentKeepsOut ==
  ASSUME nextId \in Nat, OutOK,
         SentNothing \/ \E type \in Kinds, text \in BOOLEAN : Sent(type, text)
  PROVE  OutOK'
<1>1. \A m \in toServer : m \in OutMsg /\ m.id \in Nat /\ m.id < nextId
  BY DEF OutOK, OutMsg
<1>2. CASE SentNothing
  BY <1>2 DEF SentNothing, OutOK
<1>3. ASSUME NEW type \in Kinds, NEW text \in BOOLEAN, Sent(type, text)
      PROVE  OutOK'
  <2>1. \A m \in toServer' : m \in OutMsg /\ m.id < nextId'
    BY <1>1, <1>3 DEF Sent
  <2> QED
    BY <1>3, <2>1 DEF Sent, OutOK
<1> QED
  BY <1>2, <1>3

LEMMA SentOK ==
  ASSUME Types, \E type \in Kinds, text \in BOOLEAN : Sent(type, text),
         UNCHANGED <<inbox, toClient, serverVars, acked>>, UNCHANGED delivered
  PROVE  Types'
<1>1. OutOK'
  BY SentKeepsOut DEF Types
<1>2. nextId' = nextId + 1
  BY DEF Sent
<1>3. acked' \subseteq Nat /\ (\A i \in acked' : i < nextId')
  BY <1>2 DEF Types
<1> QED
  BY <1>1, <1>2, <1>3 DEF Types, InboxOK, serverVars

(* The types. *)
LEMMA TypesStep ==
  ASSUME Types, [Next]_vars
  PROVE  Types'
<1> USE BoundsAssumption
<1>1. CASE WaitConfirmed
  <2>1. out \in toServer /\ out.id \in Nat /\ out.id < nextId
    BY <1>1 DEF WaitConfirmed, Types, OutOK, OutMsg
  <2>2. acked' \subseteq Nat /\ (\A i \in acked' : i < nextId)
    BY <1>1, <2>1 DEF WaitConfirmed, Types
  <2>3. InboxOK(inbox')
    BY <1>1, TailOK DEF WaitConfirmed, Types
  <2>4. pc' # "wait"
    BY <1>1 DEF WaitConfirmed
  <2>5. UNCHANGED <<nextId, serverIds, toServer, toClient, delivered>>
    BY <1>1 DEF WaitConfirmed, udpVars, serverVars
  <2> QED
    BY <2>2, <2>3, <2>4, <2>5 DEF Types, OutOK, InboxOK
<1>2. CASE WaitUnexpected
  BY <1>2, TailOK DEF WaitUnexpected, UnexpectedCosts, Types, OutOK, InboxOK, appVars,
       udpVars, serverVars, history
<1>3. CASE WaitIgnored
  BY <1>3, TailOK DEF WaitIgnored, Types, OutOK, InboxOK, appVars,
       udpVars, serverVars, history
<1>4. CASE WaitTimeout
  BY <1>4 DEF WaitTimeout, Types, OutOK, InboxOK, appVars, udpVars, serverVars, history
<1>5. CASE WaitFails
  BY <1>5 DEF WaitFails, Types, OutOK, InboxOK, appVars, udpVars, serverVars, history
<1>6. CASE Poll
  BY <1>6 DEF Poll, Types, OutOK, InboxOK, appVars, udpVars, serverVars, history
<1>7. CASE CheckTimeout
  <2>1. Sent("ERR", FALSE)
    BY <1>7, SendSends DEF CheckTimeout, Kinds, Reasons
  <2>2. UNCHANGED <<inbox, toClient, serverVars, acked>> /\ UNCHANGED <<received, delivered, state>>
    BY <1>7 DEF CheckTimeout, history
  <2> QED
    BY <2>1, <2>2, SentOK DEF Kinds
<1>8. CASE CheckTermination
  <2>1. Sent("BYE", FALSE)
    BY <1>8, SendSends DEF CheckTermination, Kinds, Reasons
  <2>2. UNCHANGED <<inbox, toClient, serverVars, acked>> /\ UNCHANGED <<received, delivered, state>>
    BY <1>8 DEF CheckTermination, history
  <2> QED
    BY <2>1, <2>2, SentOK DEF Kinds
<1>9. CASE CheckPasses
  BY <1>9 DEF CheckPasses, Types, OutOK, InboxOK, appVars, udpVars, serverVars, history
<1>10. CASE StdinNothing
  BY <1>10 DEF StdinNothing, Types, OutOK, InboxOK, appVars, udpVars, serverVars, history
<1>11. CASE StdinEof
  BY <1>11 DEF StdinEof, Types, OutOK, InboxOK, appVars, udpVars, serverVars, history
<1>12. CASE StdinSend
  <2>1. \E type \in Kinds, text \in BOOLEAN :
          Sent(type, text) /\ (type = "JOIN" => state = "OPEN")
    BY <1>12, StdinSends
  <2>2. UNCHANGED <<inbox, toClient, serverVars, acked>> /\ UNCHANGED <<received, delivered, state>>
    BY <1>12 DEF StdinSend, history
  <2> QED
    BY <2>1, <2>2, SentOK DEF Kinds
<1>13. CASE SockNotReady
  BY <1>13 DEF SockNotReady, Types, OutOK, InboxOK, appVars, udpVars, serverVars, history
<1>14. CASE ReceiveNothing
  BY <1>14, TailOK DEF ReceiveNothing, Take, Types, OutOK, InboxOK, appVars, udpVars, serverVars,
       history
<1>15. CASE ReceiveFails
  <2>1. Sent("ERR", FALSE)
    BY <1>15, SendSends DEF ReceiveFails, Kinds, Reasons
  <2>2. UNCHANGED <<toClient, serverVars, acked>> /\ UNCHANGED delivered
    BY <1>15 DEF ReceiveFails, history
  <2>3. InboxOK(inbox')
    BY <1>15, TailOK DEF ReceiveFails, Take, Types
  <2>4. OutOK'
    BY <2>1, SentKeepsOut DEF Types, Kinds
  <2>5. acked' \subseteq Nat /\ (\A i \in acked' : i < nextId')
    BY <2>1, <2>2 DEF Sent, Types
  <2> QED
    BY <2>1, <2>2, <2>3, <2>4, <2>5 DEF Sent, serverVars, Types, InboxOK
<1>16. CASE ReceiveNew
  <2>1. Sent("ERR", FALSE) \/ Sent("BYE", FALSE) \/ SentNothing
    BY <1>16, ReceiveSends
  <2>2. UNCHANGED <<toClient, serverVars, acked>>
    BY <1>16 DEF ReceiveNew, history
  <2>3. InboxOK(inbox')
    BY <1>16, TailOK DEF ReceiveNew, Take, Types
  <2>4. delivered' \in [Ids -> Nat]
    <3>1. PICK d \in toClient :
            delivered' = IF d.type = "CONFIRM" THEN delivered
                         ELSE [delivered EXCEPT ![d.id] = @ + 1]
      BY <1>16 DEF ReceiveNew
    <3>2. delivered \in [Ids -> Nat]
      BY DEF Types
    <3>3. CASE d.id \in Ids
      BY <3>1, <3>2, <3>3
    <3>4. CASE d.id \notin Ids
      BY <3>1, <3>2, <3>4
    <3> QED
      BY <3>3, <3>4
  <2>5. \A i \in acked : i \in Nat /\ i < nextId
    BY DEF Types
  <2>6. nextId' \in Nat /\ nextId <= nextId'
    BY <2>1 DEF Sent, SentNothing, Types
  <2>7. acked' \subseteq Nat /\ (\A i \in acked' : i < nextId')
    BY <2>2, <2>5, <2>6 DEF Types
  <2>8. OutOK'
    BY <2>1, SentKeepsOut DEF Types, Kinds
  <2> QED
    BY <2>2, <2>3, <2>4, <2>6, <2>7, <2>8 DEF serverVars, Types, InboxOK
<1>17. CASE Signal
  BY <1>17 DEF Signal, Types, OutOK, InboxOK, appVars, udpVars, serverVars, history
<1>18. CASE Tick
  BY <1>18 DEF Tick, Types, OutOK, InboxOK, appVars, udpVars, serverVars, history
<1>19. CASE Arrive
  BY <1>19 DEF Arrive, Types, OutOK, InboxOK, appVars, udpVars, serverVars, history
<1>20. CASE ServerGets
  <2>1. \A m \in toServer, ok \in BOOLEAN, from, replyFrom \in Ports :
          /\ Datagram("CONFIRM", IF m.text THEN NoId ELSE m.id, FALSE, from) \in InMsg
          /\ Datagram("REPLY", serverIds, ok, replyFrom) \in InMsg
    <3>1. "CONFIRM" \in InKinds /\ "REPLY" \in InKinds /\ serverIds \in Int
      BY DEF InKinds, Types
    <3>2. \A m \in toServer : (IF m.text THEN NoId ELSE m.id) \in Int
      BY DEF Types, OutOK, OutMsg, NoId
    <3> QED
      BY <3>1, <3>2, DatagramType, Zenon
  <2>2. toClient' \subseteq InMsg /\ toClient \subseteq toClient'
    <3>1. PICK m \in toServer, ok \in BOOLEAN, from, replyFrom \in Ports :
            ServerGets!(m, ok, from, replyFrom)
      BY <1>20 DEF ServerGets
    <3> DEFINE confirm == Datagram("CONFIRM", IF m.text THEN NoId ELSE m.id, FALSE, from)
               reply == Datagram("REPLY", serverIds, ok, replyFrom)
    <3>2. toClient' = toClient \cup {confirm, reply} \/ toClient' = toClient \cup {confirm}
      BY <3>1
    <3>3. confirm \in InMsg /\ reply \in InMsg
      BY <2>1
    <3> QED
      BY <3>2, <3>3 DEF Types
  <2>3. serverIds' \in 0 .. MaxServerIds
    <3>1. \/ serverIds' = serverIds
          \/ serverIds < MaxServerIds /\ serverIds' = serverIds + 1
      BY <1>20 DEF ServerGets
    <3> QED
      BY <3>1 DEF Types
  <2>4. UNCHANGED <<pc, out, nextId, inbox, toServer, acked, delivered>>
    BY <1>20 DEF ServerGets, appVars, udpVars, history
  <2> QED
    BY <2>2, <2>3, <2>4 DEF Types, InboxOK, OutOK
<1>21. CASE ServerSends
  <2>1. \A type \in {"MSG", "PING", "ERR", "BYE"}, from \in Ports :
          Datagram(type, serverIds, FALSE, from) \in InMsg
    <3>1. {"MSG", "PING", "ERR", "BYE"} \subseteq InKinds /\ serverIds \in Int
      BY DEF InKinds, Types
    <3> QED
      BY <3>1, DatagramType, Zenon
  <2>2. toClient' \subseteq InMsg /\ toClient \subseteq toClient'
    BY <1>21, <2>1 DEF ServerSends, Types
  <2>3. serverIds' \in 0 .. MaxServerIds
    BY <1>21 DEF ServerSends, Types, serverVars
  <2>4. UNCHANGED <<pc, out, nextId, inbox, toServer, acked, delivered>>
    BY <1>21 DEF ServerSends, appVars, udpVars, history
  <2> QED
    BY <2>2, <2>3, <2>4 DEF Types, InboxOK, OutOK
<1>22. CASE UNCHANGED vars
  BY <1>22 DEF vars, Types, OutOK, InboxOK, appVars, udpVars, serverVars, history
<1>23. QED
  BY <1>1, <1>2, <1>3, <1>4, <1>5, <1>6, <1>7, <1>8, <1>9, <1>10, <1>11,
       <1>12, <1>13, <1>14, <1>15, <1>16, <1>17, <1>18, <1>19, <1>20, <1>21,
       <1>22
       DEF Next, Client, Environment

(* What a call of send_message does to the types. *)
SentTypes ==
  /\ pc' \in {"wait", "ended"}
  /\ nextId' \in 0 .. MaxSends
  /\ retriesLeft' \in 0 .. MaxRetries

LEMMA SendTypes ==
  ASSUME ClientTypes, NEW type, NEW text, NEW why, Send(type, text, why)
  PROVE  SentTypes
  BY BoundsAssumption DEF Send, ClientTypes, SentTypes

LEMMA ShorterTail ==
  ASSUME InboxOK(inbox), inbox # <<>>
  PROVE  Len(Tail(inbox)) <= Len(inbox)
  BY DEF InboxOK

(* The client's variables. *)
LEMMA ClientTypesStep ==
  ASSUME Types, ClientTypes, [Next]_vars
  PROVE  ClientTypes'
<1> USE BoundsAssumption
<1>1. CASE WaitConfirmed
  <2>1. state' \in States
    BY <1>1 DEF WaitConfirmed, OnSent, States, ClientTypes
  <2>2. Len(inbox') <= InboxSize
    BY <1>1, ShorterTail DEF WaitConfirmed, Types, ClientTypes
  <2> QED
    BY <1>1, <2>1, <2>2 DEF WaitConfirmed, ClientTypes, udpVars
<1>2. CASE WaitUnexpected
  <2>1. Len(inbox') <= InboxSize
    BY <1>2, ShorterTail DEF WaitUnexpected, Types, ClientTypes
  <2> QED
    BY <1>2, <2>1 DEF WaitUnexpected, UnexpectedCosts, ClientTypes, appVars
<1>3. CASE WaitIgnored
  <2>1. Len(inbox') <= InboxSize
    BY <1>3, ShorterTail DEF WaitIgnored, Types, ClientTypes
  <2> QED
    BY <1>3, <2>1 DEF WaitIgnored, ClientTypes, appVars, udpVars
<1>4. CASE WaitTimeout
  BY <1>4 DEF WaitTimeout, ClientTypes, appVars, udpVars
<1>5. CASE WaitFails
  BY <1>5 DEF WaitFails, ClientTypes, appVars, udpVars
<1>6. CASE Poll
  BY <1>6 DEF Poll, ClientTypes, appVars, udpVars
<1>7. CASE CheckTimeout
  <2>1. SentTypes
    BY <1>7, SendTypes DEF CheckTimeout
  <2>2. UNCHANGED <<state, terminating, reqTime, sockReady, serverAddr, inbox>>
    BY <1>7 DEF CheckTimeout
  <2> QED
    BY <2>1, <2>2 DEF SentTypes, ClientTypes
<1>8. CASE CheckTermination
  <2>1. SentTypes
    BY <1>8, SendTypes DEF CheckTermination
  <2>2. UNCHANGED <<state, terminating, reqTime, sockReady, serverAddr, inbox>>
    BY <1>8 DEF CheckTermination
  <2> QED
    BY <2>1, <2>2 DEF SentTypes, ClientTypes
<1>9. CASE CheckPasses
  BY <1>9 DEF CheckPasses, ClientTypes, appVars, udpVars
<1>10. CASE StdinNothing
  BY <1>10 DEF StdinNothing, ClientTypes, appVars, udpVars
<1>11. CASE StdinEof
  BY <1>11 DEF StdinEof, ClientTypes, appVars, udpVars
<1>12. CASE StdinSend
  <2>1. SentTypes
    BY <1>12, SendTypes DEF StdinSend
  <2>2. UNCHANGED <<state, terminating, reqTime, sockReady, serverAddr, inbox>>
    BY <1>12 DEF StdinSend
  <2> QED
    BY <2>1, <2>2 DEF SentTypes, ClientTypes
<1>13. CASE SockNotReady
  BY <1>13 DEF SockNotReady, ClientTypes, appVars, udpVars
<1>14. CASE ReceiveNothing
  <2>1. Len(inbox') <= InboxSize
    BY <1>14, ShorterTail DEF ReceiveNothing, Take, Types, ClientTypes
  <2> QED
    BY <1>14, <2>1 DEF ReceiveNothing, Take, ClientTypes, udpVars
<1>15. CASE ReceiveFails
  <2>1. SentTypes
    BY <1>15, SendTypes DEF ReceiveFails
  <2>2. Len(inbox') <= InboxSize
    BY <1>15, ShorterTail DEF ReceiveFails, Take, Types, InboxOK, ClientTypes
  <2>3. sockReady' = FALSE /\ UNCHANGED <<state, terminating, reqTime, serverAddr>>
    BY <1>15 DEF ReceiveFails, Take
  <2> QED
    BY <2>1, <2>2, <2>3 DEF SentTypes, ClientTypes
<1>16. CASE ReceiveNew
  <2>1. Len(inbox') <= InboxSize
    <3>1. inbox # <<>> /\ inbox' = Tail(inbox)
      BY <1>16 DEF ReceiveNew, Take
    <3> QED
      BY <3>1, ShorterTail DEF Types, InboxOK, ClientTypes
  <2>2. state' \in States
    BY <1>16 DEF ReceiveNew, OnReceived, States, ClientTypes
  <2>3. SentTypes \/ (pc' \in {"ended", "poll"} /\ UNCHANGED <<nextId, retriesLeft>>)
    <3>1. \/ Send("ERR", FALSE, "unexpected") \/ Send("BYE", FALSE, "delayed")
          \/ pc' \in {"ended", "poll"} /\ UNCHANGED <<nextId, retriesLeft>>
      BY <1>16 DEF ReceiveNew
    <3> QED
      BY <3>1, SendTypes
  <2>4. sockReady' = FALSE /\ UNCHANGED <<terminating, reqTime>>
    BY <1>16 DEF ReceiveNew, Take
  <2>5. serverAddr' \in Ports
    BY <1>16 DEF ReceiveNew, Types, InMsg
  <2> QED
    BY <2>1, <2>2, <2>3, <2>4, <2>5 DEF SentTypes, ClientTypes
<1>17. CASE Signal
  BY <1>17 DEF Signal, ClientTypes, appVars, udpVars
<1>18. CASE Tick
  BY <1>18 DEF Tick, ClientTypes, appVars, udpVars
<1>19. CASE Arrive
  BY <1>19 DEF Arrive, ClientTypes, appVars, udpVars
<1>20. CASE ServerGets
  BY <1>20 DEF ServerGets, ClientTypes, appVars, udpVars
<1>21. CASE ServerSends
  BY <1>21 DEF ServerSends, ClientTypes, appVars, udpVars
<1>22. CASE UNCHANGED vars
  BY <1>22 DEF vars, ClientTypes, appVars, udpVars
<1>23. QED
  BY <1>1, <1>2, <1>3, <1>4, <1>5, <1>6, <1>7, <1>8, <1>9, <1>10, <1>11,
       <1>12, <1>13, <1>14, <1>15, <1>16, <1>17, <1>18, <1>19, <1>20, <1>21,
       <1>22
       DEF Next, Client, Environment

(* The server's ids. *)
LEMMA ServerStep ==
  ASSUME Types, ServerInv, [Next]_vars
  PROVE  ServerInv'
<1> USE BoundsAssumption
<1>1. CASE WaitConfirmed
  BY <1>1 DEF WaitConfirmed, Confirms, Types, ServerInv, appVars, udpVars,
       serverVars, history
<1>2. CASE WaitUnexpected
  BY <1>2 DEF WaitUnexpected, Confirms, UnexpectedCosts, Types, ServerInv,
       appVars, udpVars, serverVars, history
<1>3. CASE WaitIgnored
  BY <1>3 DEF WaitIgnored, Types, ServerInv,
       appVars, udpVars, serverVars, history
<1>4. CASE WaitTimeout
  BY <1>4 DEF WaitTimeout, Types, ServerInv, appVars, udpVars, serverVars,
       history
<1>5. CASE WaitFails
  BY <1>5 DEF WaitFails, Types, ServerInv, appVars, udpVars, serverVars,
       history
<1>6. CASE Poll
  BY <1>6 DEF Poll, Types, ServerInv, appVars, udpVars, serverVars, history
<1>7. CASE CheckTimeout
  BY <1>7 DEF CheckTimeout, ServerInv, serverVars
<1>8. CASE CheckTermination
  BY <1>8 DEF CheckTermination, ServerInv, serverVars
<1>9. CASE CheckPasses
  BY <1>9 DEF CheckPasses, Types, ServerInv, appVars, udpVars, serverVars,
       history
<1>10. CASE StdinNothing
  BY <1>10 DEF StdinNothing, Types, ServerInv, appVars, udpVars, serverVars,
       history
<1>11. CASE StdinEof
  BY <1>11 DEF StdinEof, Types, ServerInv, appVars, udpVars, serverVars,
       history
<1>12. CASE StdinSend
  BY <1>12 DEF StdinSend, ServerInv, serverVars
<1>13. CASE SockNotReady
  BY <1>13 DEF SockNotReady, Types, ServerInv, appVars, udpVars, serverVars,
       history
<1>14. CASE ReceiveNothing
  BY <1>14 DEF ReceiveNothing, Take, Types, ServerInv, appVars, udpVars,
       serverVars, history
<1>15. CASE ReceiveFails
  BY <1>15 DEF ReceiveFails, ServerInv, serverVars
<1>16. CASE ReceiveNew
  BY <1>16 DEF ReceiveNew, ServerInv, serverVars
<1>17. CASE Signal
  BY <1>17 DEF Signal, Types, ServerInv, appVars, udpVars, serverVars, history
<1>18. CASE Tick
  BY <1>18 DEF Tick, Types, ServerInv, appVars, udpVars, serverVars, history
<1>19. CASE Arrive
  BY <1>19 DEF Arrive, Types, ServerInv, appVars, udpVars, serverVars, history
<1>20. CASE ServerGets
  BY <1>20 DEF ServerGets, Datagram, Types, ServerInv, appVars, udpVars,
       serverVars, history
<1>21. CASE ServerSends
  BY <1>21 DEF ServerSends, Datagram, Types, ServerInv, appVars, udpVars,
       serverVars, history
<1>22. CASE UNCHANGED vars
  BY <1>22 DEF vars, Types, ServerInv, appVars, udpVars, serverVars, history
<1>23. QED
  BY <1>1, <1>2, <1>3, <1>4, <1>5, <1>6, <1>7, <1>8, <1>9, <1>10, <1>11,
       <1>12, <1>13, <1>14, <1>15, <1>16, <1>17, <1>18, <1>19, <1>20, <1>21,
       <1>22
       DEF Next, Client, Environment

(* next_message_id_ is past every id in use. *)
LEMMA IdsStep ==
  ASSUME Types, IdsInv, [Next]_vars
  PROVE  IdsInv'
<1> USE BoundsAssumption
<1>1. CASE WaitConfirmed
  BY <1>1 DEF WaitConfirmed, Confirms, Types, OutOK, IdsInv, appVars, udpVars,
       serverVars, history
<1>2. CASE WaitUnexpected
  BY <1>2 DEF WaitUnexpected, Confirms, UnexpectedCosts, Types, OutOK, IdsInv,
       appVars, udpVars, serverVars, history
<1>3. CASE WaitIgnored
  BY <1>3 DEF WaitIgnored, Types, OutOK, IdsInv,
       appVars, udpVars, serverVars, history
<1>4. CASE WaitTimeout
  BY <1>4 DEF WaitTimeout, Types, OutOK, IdsInv, appVars, udpVars, serverVars,
       history
<1>5. CASE WaitFails
  BY <1>5 DEF WaitFails, Types, OutOK, IdsInv, appVars, udpVars, serverVars, history
<1>6. CASE Poll
  BY <1>6 DEF Poll, Types, OutOK, IdsInv, appVars, udpVars, serverVars, history
<1>7. CASE CheckTimeout
  <2>1. Sent("ERR", FALSE)
    BY <1>7, SendSends DEF CheckTimeout, Kinds, Reasons
  <2>2. UNCHANGED <<inbox, toClient, serverVars, acked>> /\ UNCHANGED <<received, delivered, state>>
    BY <1>7 DEF CheckTimeout, history
  <2> QED
    BY <2>1, <2>2 DEF Sent, SentNothing, serverVars, Types, OutOK, IdsInv
<1>8. CASE CheckTermination
  <2>1. Sent("BYE", FALSE)
    BY <1>8, SendSends DEF CheckTermination, Kinds, Reasons
  <2>2. UNCHANGED <<inbox, toClient, serverVars, acked>> /\ UNCHANGED <<received, delivered, state>>
    BY <1>8 DEF CheckTermination, history
  <2> QED
    BY <2>1, <2>2 DEF Sent, SentNothing, serverVars, Types, OutOK, IdsInv
<1>9. CASE CheckPasses
  BY <1>9 DEF CheckPasses, Types, OutOK, IdsInv, appVars, udpVars, serverVars,
       history
<1>10. CASE StdinNothing
  BY <1>10 DEF StdinNothing, Types, OutOK, IdsInv, appVars, udpVars, serverVars,
       history
<1>11. CASE StdinEof
  BY <1>11 DEF StdinEof, Types, OutOK, IdsInv, appVars, udpVars, serverVars, history
<1>12. CASE StdinSend
  <2>1. \E type \in Kinds, text \in BOOLEAN :
          Sent(type, text) /\ (type = "JOIN" => state = "OPEN")
    BY <1>12, StdinSends
  <2>2. UNCHANGED <<inbox, toClient, serverVars, acked>> /\ UNCHANGED <<received, delivered, state>>
    BY <1>12 DEF StdinSend, history
  <2> QED
    BY <2>1, <2>2 DEF Sent, SentNothing, serverVars, Types, OutOK, IdsInv
<1>13. CASE SockNotReady
  BY <1>13 DEF SockNotReady, Types, OutOK, IdsInv, appVars, udpVars, serverVars,
       history
<1>14. CASE ReceiveNothing
  BY <1>14 DEF ReceiveNothing, Take, Types, OutOK, IdsInv, appVars, udpVars,
       serverVars, history
<1>15. CASE ReceiveFails
  <2>1. Sent("ERR", FALSE)
    BY <1>15, SendSends DEF ReceiveFails, Kinds, Reasons
  <2>2. UNCHANGED <<toClient, serverVars, acked>> /\ UNCHANGED <<received, delivered, state>>
    BY <1>15 DEF ReceiveFails, history
  <2> QED
    BY <2>1, <2>2 DEF Sent, SentNothing, serverVars, Types, OutOK, IdsInv
<1>16. CASE ReceiveNew
  <2>1. Sent("ERR", FALSE) \/ Sent("BYE", FALSE) \/ SentNothing
    BY <1>16, ReceiveSends
  <2>2. UNCHANGED <<toClient, serverVars, acked>>
    BY <1>16 DEF ReceiveNew, history
  <2> QED
    BY <2>1, <2>2 DEF Sent, SentNothing, serverVars, Types, OutOK, IdsInv
<1>17. CASE Signal
  BY <1>17 DEF Signal, Types, OutOK, IdsInv, appVars, udpVars, serverVars, history
<1>18. CASE Tick
  BY <1>18 DEF Tick, Types, OutOK, IdsInv, appVars, udpVars, serverVars, history
<1>19. CASE Arrive
  BY <1>19 DEF Arrive, Types, OutOK, IdsInv, appVars, udpVars, serverVars, history
<1>20. CASE ServerGets
  BY <1>20 DEF ServerGets, Datagram, Types, OutOK, IdsInv, appVars, udpVars,
       serverVars, history
<1>21. CASE ServerSends
  BY <1>21 DEF ServerSends, Datagram, Types, OutOK, IdsInv, appVars, udpVars,
       serverVars, history
<1>22. CASE UNCHANGED vars
  BY <1>22 DEF vars, Types, OutOK, IdsInv, appVars, udpVars, serverVars, history
<1>23. QED
  BY <1>1, <1>2, <1>3, <1>4, <1>5, <1>6, <1>7, <1>8, <1>9, <1>10, <1>11,
       <1>12, <1>13, <1>14, <1>15, <1>16, <1>17, <1>18, <1>19, <1>20, <1>21,
       <1>22
       DEF Next, Client, Environment

(* An id is remembered before the message is handed over. *)
LEMMA OnceStep ==
  ASSUME Types, ServerInv, OnceInv, [Next]_vars
  PROVE  OnceInv'
<1> USE BoundsAssumption
<1>1. CASE WaitConfirmed
  BY <1>1 DEF WaitConfirmed, Confirms, Types, OutOK, OnceInv, appVars, udpVars,
       serverVars, history
<1>2. CASE WaitUnexpected
  BY <1>2 DEF WaitUnexpected, Confirms, UnexpectedCosts, Types, OutOK, OnceInv,
       appVars, udpVars, serverVars, history
<1>3. CASE WaitIgnored
  BY <1>3 DEF WaitIgnored, Types, OutOK, OnceInv,
       appVars, udpVars, serverVars, history
<1>4. CASE WaitTimeout
  BY <1>4 DEF WaitTimeout, Types, OutOK, OnceInv, appVars, udpVars, serverVars,
       history
<1>5. CASE WaitFails
  BY <1>5 DEF WaitFails, Types, OutOK, OnceInv, appVars, udpVars, serverVars, history
<1>6. CASE Poll
  BY <1>6 DEF Poll, Types, OutOK, OnceInv, appVars, udpVars, serverVars, history
<1>7. CASE CheckTimeout
  BY <1>7 DEF CheckTimeout, OnceInv, history
<1>8. CASE CheckTermination
  BY <1>8 DEF CheckTermination, OnceInv, history
<1>9. CASE CheckPasses
  BY <1>9 DEF CheckPasses, Types, OutOK, OnceInv, appVars, udpVars, serverVars,
       history
<1>10. CASE StdinNothing
  BY <1>10 DEF StdinNothing, Types, OutOK, OnceInv, appVars, udpVars, serverVars,
       history
<1>11. CASE StdinEof
  BY <1>11 DEF StdinEof, Types, OutOK, OnceInv, appVars, udpVars, serverVars, history
<1>12. CASE StdinSend
  BY <1>12 DEF StdinSend, OnceInv, history
<1>13. CASE SockNotReady
  BY <1>13 DEF SockNotReady, Types, OutOK, OnceInv, appVars, udpVars, serverVars,
       history
<1>14. CASE ReceiveNothing
  BY <1>14 DEF ReceiveNothing, Take, Types, OutOK, OnceInv, appVars, udpVars,
       serverVars, history
<1>15. CASE ReceiveFails
  BY <1>15 DEF ReceiveFails, OnceInv, history
<1>16. CASE ReceiveNew
  <2>1. PICK d \in toClient : Take(d) /\ d.type # "BAD" /\ d.id \notin received
          /\ Remember(d) /\ (delivered' = IF d.type = "CONFIRM" THEN delivered
                    ELSE [delivered EXCEPT ![d.id] = @ + 1])
    BY <1>16 DEF ReceiveNew
  <2> QED
    BY <2>1 DEF Remember, OnceInv, Types
<1>17. CASE Signal
  BY <1>17 DEF Signal, Types, OutOK, OnceInv, appVars, udpVars, serverVars, history
<1>18. CASE Tick
  BY <1>18 DEF Tick, Types, OutOK, OnceInv, appVars, udpVars, serverVars, history
<1>19. CASE Arrive
  BY <1>19 DEF Arrive, Types, OutOK, OnceInv, appVars, udpVars, serverVars, history
<1>20. CASE ServerGets
  BY <1>20 DEF ServerGets, Datagram, Types, OutOK, OnceInv, appVars, udpVars,
       serverVars, history
<1>21. CASE ServerSends
  BY <1>21 DEF ServerSends, Datagram, Types, OutOK, OnceInv, appVars, udpVars,
       serverVars, history
<1>22. CASE UNCHANGED vars
  BY <1>22 DEF vars, Types, OutOK, OnceInv, appVars, udpVars, serverVars, history
<1>23. QED
  BY <1>1, <1>2, <1>3, <1>4, <1>5, <1>6, <1>7, <1>8, <1>9, <1>10, <1>11,
       <1>12, <1>13, <1>14, <1>15, <1>16, <1>17, <1>18, <1>19, <1>20, <1>21,
       <1>22
       DEF Next, Client, Environment

(* A matching CONFIRM answers a message that has been got. *)
LEMMA AckStep ==
  ASSUME Types, ServerInv, IdsInv, BinaryAckReceived, [Next]_vars
  PROVE  BinaryAckReceived'
<1> USE BoundsAssumption
<1>1. CASE WaitConfirmed
  <2>1. out \in toServer /\ out.id \in Nat
    BY <1>1 DEF WaitConfirmed, Types, OutOK, OutMsg
  <2>2. Head(inbox) \in toClient
    BY <1>1, TailOK DEF WaitConfirmed, Types
  <2>3. out.text \/ out.id \in serverGot
    BY <1>1, <2>1, <2>2 DEF WaitConfirmed, Confirms, ServerInv, NoId
  <2> QED
    BY <1>1, <2>1, <2>3 DEF WaitConfirmed, BinaryAckReceived, IdsInv, serverVars
<1>2. CASE WaitUnexpected
  BY <1>2 DEF WaitUnexpected, Confirms, UnexpectedCosts, Types,
       BinaryAckReceived, appVars, udpVars, serverVars, history
<1>3. CASE WaitIgnored
  BY <1>3 DEF WaitIgnored, Types,
       BinaryAckReceived, appVars, udpVars, serverVars, history
<1>4. CASE WaitTimeout
  BY <1>4 DEF WaitTimeout, Types, OutOK, BinaryAckReceived, appVars, udpVars,
       serverVars, history
<1>5. CASE WaitFails
  BY <1>5 DEF WaitFails, Types, OutOK, BinaryAckReceived, appVars, udpVars,
       serverVars, history
<1>6. CASE Poll
  BY <1>6 DEF Poll, Types, OutOK, BinaryAckReceived, appVars, udpVars, serverVars,
       history
<1>7. CASE CheckTimeout
  <2>1. Sent("ERR", FALSE)
    BY <1>7, SendSends DEF CheckTimeout, Kinds, Reasons
  <2>2. UNCHANGED <<inbox, toClient, serverVars, acked>> /\ UNCHANGED <<received, delivered, state>>
    BY <1>7 DEF CheckTimeout, history
  <2> QED
    BY <2>1, <2>2 DEF Sent, SentNothing, serverVars, Types, OutOK, OutMsg,
         BinaryAckReceived
<1>8. CASE CheckTermination
  <2>1. Sent("BYE", FALSE)
    BY <1>8, SendSends DEF CheckTermination, Kinds, Reasons
  <2>2. UNCHANGED <<inbox, toClient, serverVars, acked>> /\ UNCHANGED <<received, delivered, state>>
    BY <1>8 DEF CheckTermination, history
  <2> QED
    BY <2>1, <2>2 DEF Sent, SentNothing, serverVars, Types, OutOK, OutMsg,
         BinaryAckReceived
<1>9. CASE CheckPasses
  BY <1>9 DEF CheckPasses, Types, OutOK, BinaryAckReceived, appVars, udpVars,
       serverVars, history
<1>10. CASE StdinNothing
  BY <1>10 DEF StdinNothing, Types, OutOK, BinaryAckReceived, appVars, udpVars,
       serverVars, history
<1>11. CASE StdinEof
  BY <1>11 DEF StdinEof, Types, OutOK, BinaryAckReceived, appVars, udpVars,
       serverVars, history
<1>12. CASE StdinSend
  <2>1. \E type \in Kinds, text \in BOOLEAN :
          Sent(type, text) /\ (type = "JOIN" => state = "OPEN")
    BY <1>12, StdinSends
  <2>2. UNCHANGED <<inbox, toClient, serverVars, acked>> /\ UNCHANGED <<received, delivered, state>>
    BY <1>12 DEF StdinSend, history
  <2> QED
    BY <2>1, <2>2 DEF Sent, SentNothing, serverVars, Types, OutOK, OutMsg,
         BinaryAckReceived
<1>13. CASE SockNotReady
  BY <1>13 DEF SockNotReady, Types, OutOK, BinaryAckReceived, appVars, udpVars,
       serverVars, history
<1>14. CASE ReceiveNothing
  BY <1>14 DEF ReceiveNothing, Take, Types, OutOK, BinaryAckReceived, appVars,
       udpVars, serverVars, history
<1>15. CASE ReceiveFails
  <2>1. Sent("ERR", FALSE)
    BY <1>15, SendSends DEF ReceiveFails, Kinds, Reasons
  <2>2. UNCHANGED <<toClient, serverVars, acked>> /\ UNCHANGED <<received, delivered, state>>
    BY <1>15 DEF ReceiveFails, history
  <2> QED
    BY <2>1, <2>2 DEF Sent, SentNothing, serverVars, Types, OutOK, OutMsg,
         BinaryAckReceived
<1>16. CASE ReceiveNew
  <2>1. Sent("ERR", FALSE) \/ Sent("BYE", FALSE) \/ SentNothing
    BY <1>16, ReceiveSends
  <2>2. UNCHANGED <<toClient, serverVars, acked>>
    BY <1>16 DEF ReceiveNew, history
  <2> QED
    BY <2>1, <2>2 DEF Sent, SentNothing, serverVars, Types, OutOK, OutMsg,
         BinaryAckReceived
<1>17. CASE Signal
  BY <1>17 DEF Signal, Types, OutOK, BinaryAckReceived, appVars, udpVars, serverVars,
       history
<1>18. CASE Tick
  BY <1>18 DEF Tick, Types, OutOK, BinaryAckReceived, appVars, udpVars, serverVars,
       history
<1>19. CASE Arrive
  BY <1>19 DEF Arrive, Types, OutOK, BinaryAckReceived, appVars, udpVars, serverVars,
       history
<1>20. CASE ServerGets
  BY <1>20 DEF ServerGets, Datagram, Types, OutOK, BinaryAckReceived, appVars,
       udpVars, serverVars, history
<1>21. CASE ServerSends
  BY <1>21 DEF ServerSends, Datagram, Types, OutOK, BinaryAckReceived, appVars,
       udpVars, serverVars, history
<1>22. CASE UNCHANGED vars
  BY <1>22 DEF vars, Types, OutOK, BinaryAckReceived, appVars, udpVars, serverVars,
       history
<1>23. QED
  BY <1>1, <1>2, <1>3, <1>4, <1>5, <1>6, <1>7, <1>8, <1>9, <1>10, <1>11,
       <1>12, <1>13, <1>14, <1>15, <1>16, <1>17, <1>18, <1>19, <1>20, <1>21,
       <1>22
       DEF Next, Client, Environment

(* Only an accepted AUTH yields a positive REPLY. *)
LEMMA AuthStep ==
  ASSUME Types, AuthInv, [Next]_vars
  PROVE  AuthInv'
<1> USE BoundsAssumption
<1>1. CASE WaitConfirmed
  <2>1. state' = OnSent(state, out.type) /\ UNCHANGED <<toServer, toClient, serverVars>>
    BY <1>1 DEF WaitConfirmed
  <2>2. state' \in {"OPEN", "JOIN"} => state \in {"OPEN", "JOIN"}
    BY <2>1 DEF OnSent
  <2> QED
    BY <2>1, <2>2 DEF AuthInv, OpenIsAuthorised, serverVars
<1>2. CASE WaitUnexpected
  BY <1>2 DEF WaitUnexpected, Confirms, UnexpectedCosts, Types, AuthInv,
       OpenIsAuthorised, appVars, udpVars, serverVars, history
<1>3. CASE WaitIgnored
  BY <1>3 DEF WaitIgnored, Types, AuthInv,
       OpenIsAuthorised, appVars, udpVars, serverVars, history
<1>4. CASE WaitTimeout
  BY <1>4 DEF WaitTimeout, Types, AuthInv, OpenIsAuthorised, appVars, udpVars,
       serverVars, history
<1>5. CASE WaitFails
  BY <1>5 DEF WaitFails, Types, AuthInv, OpenIsAuthorised, appVars, udpVars,
       serverVars, history
<1>6. CASE Poll
  BY <1>6 DEF Poll, Types, AuthInv, OpenIsAuthorised, appVars, udpVars,
       serverVars, history
<1>7. CASE CheckTimeout
  <2>1. Sent("ERR", FALSE)
    BY <1>7, SendSends DEF CheckTimeout, Kinds, Reasons
  <2>2. UNCHANGED <<inbox, toClient, serverVars, acked>> /\ UNCHANGED <<received, delivered, state>>
    BY <1>7 DEF CheckTimeout, history
  <2> QED
    BY <2>1, <2>2 DEF Sent, SentNothing, serverVars, Types, AuthInv,
         OpenIsAuthorised
<1>8. CASE CheckTermination
  <2>1. Sent("BYE", FALSE)
    BY <1>8, SendSends DEF CheckTermination, Kinds, Reasons
  <2>2. UNCHANGED <<inbox, toClient, serverVars, acked>> /\ UNCHANGED <<received, delivered, state>>
    BY <1>8 DEF CheckTermination, history
  <2> QED
    BY <2>1, <2>2 DEF Sent, SentNothing, serverVars, Types, AuthInv,
         OpenIsAuthorised
<1>9. CASE CheckPasses
  BY <1>9 DEF CheckPasses, Types, AuthInv, OpenIsAuthorised, appVars, udpVars,
       serverVars, history
<1>10. CASE StdinNothing
  BY <1>10 DEF StdinNothing, Types, AuthInv, OpenIsAuthorised, appVars,
       udpVars, serverVars, history
<1>11. CASE StdinEof
  BY <1>11 DEF StdinEof, Types, AuthInv, OpenIsAuthorised, appVars, udpVars,
       serverVars, history
<1>12. CASE StdinSend
  <2>1. \E type \in Kinds, text \in BOOLEAN :
          Sent(type, text) /\ (type = "JOIN" => state = "OPEN")
    BY <1>12, StdinSends
  <2>2. UNCHANGED <<inbox, toClient, serverVars, acked>> /\ UNCHANGED <<received, delivered, state>>
    BY <1>12 DEF StdinSend, history
  <2> QED
    BY <2>1, <2>2 DEF Sent, SentNothing, serverVars, Types, AuthInv,
         OpenIsAuthorised
<1>13. CASE SockNotReady
  BY <1>13 DEF SockNotReady, Types, AuthInv, OpenIsAuthorised, appVars,
       udpVars, serverVars, history
<1>14. CASE ReceiveNothing
  BY <1>14 DEF ReceiveNothing, Take, Types, AuthInv, OpenIsAuthorised,
       appVars, udpVars, serverVars, history
<1>15. CASE ReceiveFails
  <2>1. Sent("ERR", FALSE)
    BY <1>15, SendSends DEF ReceiveFails, Kinds, Reasons
  <2>2. UNCHANGED <<toClient, serverVars, acked>> /\ UNCHANGED <<received, delivered, state>>
    BY <1>15 DEF ReceiveFails, history
  <2> QED
    BY <2>1, <2>2 DEF Sent, SentNothing, serverVars, Types, AuthInv,
         OpenIsAuthorised
<1>16. CASE ReceiveNew
  <2>1. Sent("ERR", FALSE) \/ Sent("BYE", FALSE) \/ SentNothing
    BY <1>16, ReceiveSends
  <2>2. UNCHANGED <<toClient, serverVars, acked>>
    BY <1>16 DEF ReceiveNew, history
  <2>3. PICK d \in toClient : state' = OnReceived(state, d.type, d.ok)
    BY <1>16 DEF ReceiveNew
  <2>4. state' \in {"OPEN", "JOIN"} => authorised
    BY <2>3 DEF OnReceived, AuthInv, OpenIsAuthorised
  <2> QED
    BY <2>1, <2>2, <2>4 DEF Sent, SentNothing, serverVars, Types, AuthInv,
         OpenIsAuthorised
<1>17. CASE Signal
  BY <1>17 DEF Signal, Types, AuthInv, OpenIsAuthorised, appVars, udpVars,
       serverVars, history
<1>18. CASE Tick
  BY <1>18 DEF Tick, Types, AuthInv, OpenIsAuthorised, appVars, udpVars,
       serverVars, history
<1>19. CASE Arrive
  BY <1>19 DEF Arrive, Types, AuthInv, OpenIsAuthorised, appVars, udpVars,
       serverVars, history
<1>20. CASE ServerGets
  <2>1. PICK m \in toServer, ok \in BOOLEAN, from, replyFrom \in Ports :
          ServerGets!(m, ok, from, replyFrom)
    BY <1>20 DEF ServerGets
  <2>2. \A d \in toClient' : d \in toClient \/ d.type = "CONFIRM"
          \/ (d.ok = ok /\ m.type \in {"AUTH", "JOIN"})
    BY <2>1 DEF Datagram
  <2> QED
    BY <2>1, <2>2 DEF AuthInv, OpenIsAuthorised, appVars, udpVars, serverVars, history
<1>21. CASE ServerSends
  BY <1>21 DEF ServerSends, Datagram, Types, AuthInv, OpenIsAuthorised,
       appVars, udpVars, serverVars, history
<1>22. CASE UNCHANGED vars
  BY <1>22 DEF vars, Types, AuthInv, OpenIsAuthorised, appVars, udpVars,
       serverVars, history
<1>23. QED
  BY <1>1, <1>2, <1>3, <1>4, <1>5, <1>6, <1>7, <1>8, <1>9, <1>10, <1>11,
       <1>12, <1>13, <1>14, <1>15, <1>16, <1>17, <1>18, <1>19, <1>20, <1>21,
       <1>22
       DEF Next, Client, Environment

(* The ids remembered on the two sides. *)
LEMMA SeenStep ==
  ASSUME Types, ClientTypes, ServerInv, SeenOK, [Next]_vars
  PROVE  SeenOK'
<1> USE BoundsAssumption
<1>1. CASE WaitConfirmed
  BY <1>1 DEF WaitConfirmed, SeenOK, appVars, udpVars, serverVars, history
<1>2. CASE WaitUnexpected
  BY <1>2 DEF WaitUnexpected, SeenOK, appVars, udpVars, serverVars, history
<1>3. CASE WaitIgnored
  BY <1>3 DEF WaitIgnored, SeenOK, appVars, udpVars, serverVars, history
<1>4. CASE WaitTimeout
  BY <1>4 DEF WaitTimeout, SeenOK, appVars, udpVars, serverVars, history
<1>5. CASE WaitFails
  BY <1>5 DEF WaitFails, SeenOK, appVars, udpVars, serverVars, history
<1>6. CASE Poll
  BY <1>6 DEF Poll, SeenOK, appVars, udpVars, serverVars, history
<1>7. CASE CheckTimeout
  BY <1>7 DEF CheckTimeout, SeenOK, serverVars, history
<1>8. CASE CheckTermination
  BY <1>8 DEF CheckTermination, SeenOK, serverVars, history
<1>9. CASE CheckPasses
  BY <1>9 DEF CheckPasses, SeenOK, appVars, udpVars, serverVars, history
<1>10. CASE StdinNothing
  BY <1>10 DEF StdinNothing, SeenOK, appVars, udpVars, serverVars, history
<1>11. CASE StdinEof
  BY <1>11 DEF StdinEof, SeenOK, appVars, udpVars, serverVars, history
<1>12. CASE StdinSend
  BY <1>12 DEF StdinSend, SeenOK, serverVars, history
<1>13. CASE SockNotReady
  BY <1>13 DEF SockNotReady, SeenOK, appVars, udpVars, serverVars, history
<1>14. CASE ReceiveNothing
  BY <1>14 DEF ReceiveNothing, SeenOK, appVars, udpVars, serverVars, history
<1>15. CASE ReceiveFails
  BY <1>15 DEF ReceiveFails, SeenOK, serverVars, history
<1>16. CASE ReceiveNew
  <2>1. PICK d \in toClient : Remember(d) /\ d.type \notin {"BAD", "ERROR"}
          /\ confirmed' = confirmed \cup {d.id} /\ UNCHANGED serverVars
    BY <1>16 DEF ReceiveNew
  <2>2. d.id \in Ids \cup {NoId}
    <3>1. CASE d.type = "CONFIRM"
      BY <3>1 DEF ServerInv, SeenOK
    <3>2. CASE d.type # "CONFIRM"
      BY <3>2, <2>1 DEF ServerInv, Types, Ids
    <3> QED
      BY <3>1, <3>2
  <2> QED
    BY <2>1, <2>2 DEF Remember, SeenOK, serverVars
<1>17. CASE Signal
  BY <1>17 DEF Signal, SeenOK, appVars, udpVars, serverVars, history
<1>18. CASE Tick
  BY <1>18 DEF Tick, SeenOK, appVars, udpVars, serverVars, history
<1>19. CASE Arrive
  BY <1>19 DEF Arrive, SeenOK, appVars, udpVars, serverVars, history
<1>20. CASE ServerGets
  <2>1. \A m \in toServer : m.id \in Ids
    BY DEF Types, OutOK, OutMsg, ClientTypes, Ids
  <2>2. authorised' \in BOOLEAN /\ (\E m \in toServer : serverGot' = serverGot \cup {m.id})
    BY <1>20 DEF ServerGets
  <2> QED
    BY <1>20, <2>1, <2>2 DEF ServerGets, SeenOK, udpVars, history
<1>21. CASE ServerSends
  BY <1>21 DEF ServerSends, SeenOK, appVars, udpVars, serverVars, history
<1>22. CASE UNCHANGED vars
  BY <1>22 DEF vars, SeenOK, appVars, udpVars, serverVars, history
<1>23. QED
  BY <1>1, <1>2, <1>3, <1>4, <1>5, <1>6, <1>7, <1>8, <1>9, <1>10, <1>11,
       <1>12, <1>13, <1>14, <1>15, <1>16, <1>17, <1>18, <1>19, <1>20, <1>21,
       <1>22
       DEF Next, Client, Environment

-----------------------------------------------------------------------------
(* The results. *)

LEMMA InvInit == Init => IInv
<1> SUFFICES ASSUME Init PROVE IInv
  OBVIOUS
<1>1. Types
  <2>1. Malformed \in InMsg /\ SocketError \in InMsg
    BY DEF Malformed, SocketError, Datagram, InMsg, InKinds, NoId, Ports
  <2> QED
    BY <2>1, BoundsAssumption DEF Init, Types, OutOK, InboxOK
<1>2. ClientTypes
  <2>1. 0 \in 0 .. MaxSends /\ 0 \in 0 .. MaxRetries /\ Len(<<>>) <= InboxSize
    BY BoundsAssumption
  <2> QED
    BY <2>1 DEF Init, ClientTypes, States, Ports
<1>3. ServerInv /\ IdsInv
  BY DEF Init, ServerInv, IdsInv, Malformed, SocketError, Datagram
<1>4. SeenOK
  BY DEF Init, SeenOK
<1>5. OnceInv /\ BinaryAckReceived /\ AuthInv
  BY DEF Init, OnceInv, BinaryAckReceived, AuthInv, OpenIsAuthorised,
         Malformed, SocketError, Datagram
<1> QED
  BY <1>1, <1>2, <1>3, <1>4, <1>5 DEF IInv

LEMMA InvStep == IInv /\ [Next]_vars => IInv'
  BY TypesStep, ClientTypesStep, SeenStep, ServerStep, IdsStep, OnceStep, AckStep, AuthStep DEF IInv

(* The inductive invariant of client, network and server always holds.      *)
THEOREM Invariance == Spec => []IInv
  BY InvInit, InvStep, PTL DEF Spec

(* The types of all variables; in particular the retry budget never goes    *)
(* below zero, and what the client confirms it remembers.                   *)
THEOREM TypeCorrect == Spec => []TypeOK
<1>1. IInv => TypeOK
  <2> SUFFICES ASSUME IInv PROVE TypeOK
    OBVIOUS
  <2>1. \A m \in toServer : m.id \in 0 .. nextId - 1
    BY DEF IInv, Types, OutOK, OutMsg
  <2>2. acked \subseteq 0 .. nextId - 1
    BY DEF IInv, Types
  <2>3. \A i \in Ids : delivered[i] \in Nat
    BY DEF IInv, Types
  <2> QED
    BY <2>1, <2>2, <2>3 DEF IInv, Types, ClientTypes, SeenOK, TypeOK
<1> QED
  BY <1>1, Invariance, PTL

(* received_message_ids_ keeps a repeated datagram from the application, for *)
(* any network and any number of retransmissions.                           *)
THEOREM AtMostOnceAlways == Spec => []AtMostOnce
<1>1. IInv => AtMostOnce
  BY DEF IInv, OnceInv, AtMostOnce
<1> QED
  BY <1>1, Invariance, PTL

(* A binary message whose send has returned has reached the server.         *)
THEOREM BinaryAckAlways == Spec => []BinaryAckReceived
<1>1. IInv => BinaryAckReceived
  BY DEF IInv
<1> QED
  BY <1>1, Invariance, PTL

(* The client believes itself in a session only if the server has let it in. *)
THEOREM AuthorisedAlways == Spec => []OpenIsAuthorised
<1>1. IInv => OpenIsAuthorised
  BY DEF IInv, AuthInv
<1> QED
  BY <1>1, Invariance, PTL
=============================================================================
