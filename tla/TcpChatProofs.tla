--------------------------- MODULE TcpChatProofs ---------------------------
(***************************************************************************)
(* Proofs about TcpChat, for any number of lines and of messages, however  *)
(* the stream is cut.                                                      *)
(***************************************************************************)
EXTENDS TcpChat, SequenceTheorems, FiniteSetTheorems, TLAPS

First(n) == [n |-> n, half |-> 1]
Second(n) == [n |-> n, half |-> 2]

(* A stretch of the stream from the beginning of message c + 1 on. *)
Stretch(s, c) ==
  \A j \in Nat \ {0} :
    /\ 2 * j - 1 <= Len(s) => s[2 * j - 1] = First(c + j)
    /\ 2 * j <= Len(s) => s[2 * j] = Second(c + j)

(* The numbers of m messages after c. *)
Run(c, m) == [j \in 1 .. m |-> c + j]

LEMMA Halves ==
  ASSUME NEW k \in Nat \ {0}
  PROVE  \E j \in Nat \ {0} : k = 2 * j - 1 \/ k = 2 * j
<1>1. k = 2 * ((k + 1) \div 2) - 1 \/ k = 2 * ((k + 1) \div 2)
  OBVIOUS
<1>2. (k + 1) \div 2 \in Nat \ {0}
  OBVIOUS
<1> QED
  BY <1>1, <1>2

(* In such a stretch the messages end in the even places. *)
LEMMA StretchEnds ==
  ASSUME NEW T, NEW s \in Seq(T), NEW c \in Nat, Stretch(s, c),
         NEW m \in Nat, Len(s) = 2 * m \/ Len(s) = 2 * m + 1
  PROVE  EndsOf(s) = {2 * j : j \in 1 .. m}
<1>1. \A k \in DOMAIN s : k \in Nat \ {0} /\ k <= Len(s)
  OBVIOUS
<1>2. ASSUME NEW k \in EndsOf(s) PROVE k \in {2 * j : j \in 1 .. m}
  <2>1. k \in Nat \ {0} /\ k <= Len(s) /\ s[k].half = 2
    BY <1>1, Zenon DEF EndsOf
  <2>2. PICK j \in Nat \ {0} : k = 2 * j - 1 \/ k = 2 * j
    BY <2>1, Halves
  <2>3. ASSUME k = 2 * j - 1 PROVE FALSE
    <3>1. s[k] = First(c + j)
      BY <2>1, <2>3 DEF Stretch
    <3> QED
      BY <2>1, <3>1 DEF First
  <2>4. j \in 1 .. m
    BY <2>1, <2>2, <2>3
  <2> QED
    BY <2>2, <2>3, <2>4
<1>3. ASSUME NEW j \in 1 .. m PROVE 2 * j \in EndsOf(s)
  <2>1. 2 * j \in 1 .. Len(s) /\ j \in Nat \ {0}
    OBVIOUS
  <2>2. s[2 * j] = Second(c + j)
    BY <2>1 DEF Stretch
  <2>3. s[2 * j].half = 2
    BY <2>2 DEF Second
  <2>4. 2 * j \in DOMAIN s
    BY <2>1
  <2> QED
    BY <2>3, <2>4, Zenon DEF EndsOf
<1> QED
  BY <1>2, <1>3

LEMMA EvenNumbers ==
  ASSUME NEW m \in Nat
  PROVE  Cardinality({2 * j : j \in 1 .. m}) = m
<1> DEFINE f == [j \in 1 .. m |-> 2 * j]
           E == {2 * j : j \in 1 .. m}
<1>1. f \in Bijection(1 .. m, E)
  <2>1. f \in [1 .. m -> E]
    OBVIOUS
  <2>2. \A a, b \in 1 .. m : f[a] = f[b] => a = b
    OBVIOUS
  <2>3. \A e \in E : \E a \in 1 .. m : f[a] = e
    OBVIOUS
  <2>4. f \in Injection(1 .. m, E)
    BY <2>1, <2>2 DEF Injection, IsInjective
  <2>5. f \in Surjection(1 .. m, E)
    BY <2>1, <2>3 DEF Surjection
  <2> QED
    BY <2>4, <2>5 DEF Bijection
<1>2. ExistsBijection(1 .. m, E)
  BY <1>1 DEF ExistsBijection
<1>3. IsFiniteSet(1 .. m) /\ Cardinality(1 .. m) = m
  BY FS_Interval
<1> QED
  BY <1>2, <1>3, FS_Bijection

LEMMA StretchCount ==
  ASSUME NEW T, NEW s \in Seq(T), NEW c \in Nat, Stretch(s, c),
         NEW m \in Nat, Len(s) = 2 * m \/ Len(s) = 2 * m + 1
  PROVE  /\ Count(s) = m
         /\ \A j \in 1 .. m : End(s, j) = 2 * j
<1>1. EndsOf(s) = {2 * j : j \in 1 .. m}
  BY StretchEnds
<1>2. Count(s) = m
  BY <1>1, EvenNumbers DEF Count
<1>3. ASSUME NEW j \in 1 .. m
      PROVE  Cardinality(EndsUpTo(s, 2 * j)) = j
  <2>1. EndsUpTo(s, 2 * j) = {2 * l : l \in 1 .. j}
    BY <1>1 DEF EndsUpTo
  <2> QED
    BY <2>1, EvenNumbers
<1>4. ASSUME NEW j \in 1 .. m
      PROVE  End(s, j) = 2 * j
  <2>1. 2 * j \in EndsOf(s) /\ Cardinality(EndsUpTo(s, 2 * j)) = j
    BY <1>1, <1>3
  <2>2. ASSUME NEW k \in EndsOf(s), Cardinality(EndsUpTo(s, k)) = j
        PROVE  k = 2 * j
    <3>1. PICK l \in 1 .. m : k = 2 * l
      BY <1>1
    <3> QED
      BY <1>3, <2>2, <3>1
  <2> QED
    BY <2>1, <2>2 DEF End
<1> QED
  BY <1>2, <1>4

LEMMA StretchMessages ==
  ASSUME NEW T, NEW s \in Seq(T), NEW c \in Nat, Stretch(s, c),
         NEW m \in Nat, Len(s) = 2 * m \/ Len(s) = 2 * m + 1
  PROVE  MessagesIn(s) = Run(c, m)
<1>1. Count(s) = m /\ (\A j \in 1 .. m : End(s, j) = 2 * j)
  BY StretchCount
<1>2. ASSUME NEW j \in 1 .. m
      PROVE  s[End(s, j)].n = c + j
  <2>1. 2 * j <= Len(s) /\ j \in Nat \ {0}
    OBVIOUS
  <2>2. s[2 * j] = Second(c + j)
    BY <2>1 DEF Stretch
  <2> QED
    BY <1>1, <2>2 DEF Second
<1> QED
  BY <1>1, <1>2 DEF MessagesIn, Run

(* What is left when the messages are taken: nothing, or the first half of  *)
(* the next one.                                                            *)
LEMMA StretchRest ==
  ASSUME NEW T, NEW s \in Seq(T), NEW c \in Nat, Stretch(s, c),
         NEW m \in Nat, Len(s) = 2 * m \/ Len(s) = 2 * m + 1
  PROVE  RestOf(s) = SubSeq(s, 2 * m + 1, Len(s))
<1>1. EndsOf(s) = {2 * j : j \in 1 .. m} /\ Count(s) = m
      /\ \A j \in 1 .. m : End(s, j) = 2 * j
  BY StretchEnds, StretchCount
<1>2. CASE m = 0
  <2>1. EndsOf(s) = {}
    BY <1>1, <1>2
  <2> QED
    BY <1>2, <2>1 DEF RestOf
<1>3. CASE m # 0
  <2>1. 2 * m \in EndsOf(s) /\ End(s, m) = 2 * m
    BY <1>1, <1>3
  <2> QED
    BY <1>1, <2>1 DEF RestOf
<1> QED
  BY <1>2, <1>3
-----------------------------------------------------------------------------
(* The invariant. *)

Typed == {"AUTH", "JOIN", "MSG", "BYE"}
Sendable == {"AUTH", "JOIN", "MSG", "BYE", "ERR"}
Said == [type : {"REPLY", "MSG", "ERR", "BYE", "BAD"}, ok : BOOLEAN]

(* The loop's own variables, standard input and what has been sent; a line  *)
(* that poll has reported is there.                                         *)
AppInv ==
  /\ pc \in {"poll", "stdin", "sock", "batch", "ended"}
  /\ state \in States /\ terminating \in BOOLEAN /\ reqTime \in {"none", "fresh", "old"}
  /\ revents \in [line : BOOLEAN, hup : BOOLEAN, sock : BOOLEAN]
  /\ pipe \in Seq(Typed) /\ cin \in Seq(Typed)
  /\ closed \in BOOLEAN /\ typed \in 0..MaxLines
  /\ toServer \in Seq(Sendable) /\ got \in 0..Len(toServer)
  /\ pc = "stdin" /\ revents.line => pipe # <<>>

LEMMA AppendElements ==
  ASSUME NEW S, NEW s \in Seq(S), NEW e \in S
  PROVE  /\ Append(s, e) \in Seq(S) /\ Len(s) \in Nat
         /\ Len(Append(s, e)) = Len(s) + 1
         /\ Append(s, e)[Len(s) + 1] = e
         /\ \A k \in 1 .. Len(s) : Append(s, e)[k] = s[k]
  OBVIOUS

LEMMA TailElements ==
  ASSUME NEW S, NEW s \in Seq(S), s # <<>>
  PROVE  /\ Tail(s) \in Seq(S) /\ Head(s) \in S /\ Head(s) = s[1]
         /\ Len(s) \in Nat \ {0} /\ Len(Tail(s)) = Len(s) - 1
         /\ \A k \in 1 .. Len(Tail(s)) : Tail(s)[k] = s[k + 1]
  OBVIOUS

(* The client sends one message or none. *)
SentAtMost(types) ==
  \/ UNCHANGED toServer
  \/ \E type \in types : toServer' = Append(toServer, type)

LEMMA SentTypes ==
  ASSUME AppInv, SentAtMost(Sendable)
  PROVE  toServer' \in Seq(Sendable) /\ Len(toServer') \in Nat
         /\ 0 .. Len(toServer) \subseteq 0 .. Len(toServer')
  BY AppendElements DEF AppInv, SentAtMost

LEMMA FarewellFacts ==
  ASSUME NEW type \in {"BYE", "ERR"}, NEW st \in States, Farewell(type, st)
  PROVE  pc' = "ended" /\ state' \in States /\ SentAtMost({"BYE", "ERR"})
  BY DEF Farewell, Sent, NotSent, OnSent, States, SentAtMost

LEMMA FarewellTypes ==
  ASSUME SentAtMost({"BYE", "ERR"})
  PROVE  SentAtMost(Sendable)
  BY DEF SentAtMost, Sendable

LEMMA GetLineTypes ==
  ASSUME AppInv, pipe # <<>>, GetLine
  PROVE  pipe' \in Seq(Typed) /\ cin' \in Seq(Typed) /\ Head(Lines) \in Typed
<1>1. Lines \in Seq(Typed) /\ Lines # <<>>
  BY DEF Lines, AppInv
<1>2. cin' = Tail(Lines) /\ (pipe' = <<>> \/ pipe' = pipe)
  BY DEF GetLine
<1>3. Tail(Lines) \in Seq(Typed) /\ Head(Lines) \in Typed
  BY <1>1, TailElements
<1>4. <<>> \in Seq(Typed) /\ pipe \in Seq(Typed)
  BY DEF AppInv
<1> HIDE DEF Lines
<1> QED
  BY <1>2, <1>3, <1>4

(* What handle_server_input does with a message. *)
LEMMA HandleFacts ==
  ASSUME state \in States, HandleMessage
  PROVE  /\ state' \in States /\ (state = "END" => state' = "END")
         /\ \/ pc' = "ended" /\ SentAtMost({"BYE", "ERR"})
            \/ pc' = pc /\ UNCHANGED toServer
<1> DEFINE n == Head(batch)
           m == IF n = 0 THEN [type |-> "BYE", ok |-> FALSE] ELSE said[n]
           next == OnReceived(state, m.type, m.ok)
           reaction == Reaction(state, m.type)
<1>1. \/ reaction \in {"ERR", "BYE"} /\ Farewell(reaction, next)
      \/ pc' = "ended" /\ state' = next /\ UNCHANGED toServer
      \/ Farewell("BYE", next)
      \/ state' = next /\ UNCHANGED <<pc, toServer>>
  BY DEF HandleMessage
<1>2. next \in States /\ (state = "END" => next = "END")
  BY DEF OnReceived, States
<1> HIDE DEF next, reaction
<1>3. \A type \in {"BYE", "ERR"} : Farewell(type, next) =>
        /\ pc' = "ended" /\ SentAtMost({"BYE", "ERR"})
        /\ state' \in States /\ (state = "END" => state' = "END")
  BY <1>2, FarewellFacts DEF Farewell, OnSent
<1> QED
  BY <1>1, <1>2, <1>3 DEF SentAtMost

LEMMA SayFacts ==
  ASSUME said \in Seq(Said), wire \in Seq(Piece), ServerSays \/ ServerReplies
  PROVE  /\ \E m \in Said : said' = Append(said, m)
         /\ Len(said) < MaxSaid /\ conn = "open" /\ pc # "ended"
         /\ wire' = wire \o Pieces(Len(said) + 1)
         /\ UNCHANGED <<pc, state, terminating, reqTime, revents, input, conn,
                        buffer, batch, shown, toServer>>
         /\ got' = got \/ got' \in got + 1 .. Len(toServer)
<1>1. PICK type \in {"REPLY", "MSG", "ERR", "BYE", "BAD"}, ok \in BOOLEAN : Say(type, ok)
  BY DEF ServerSays, ServerReplies
<1>2. [type |-> type, ok |-> ok] \in Said
  BY DEF Said
<1>3. pc # "ended" /\ (got' = got \/ got' \in got + 1 .. Len(toServer))
  BY DEF ServerSays, ServerReplies
<1> QED
  BY <1>1, <1>2, <1>3 DEF Say

(* The loop, standard input and the messages sent. *)
LEMMA AppStep ==
  ASSUME AppInv, [Next]_vars
  PROVE  AppInv'
<1>1. CASE LoopEnds
  BY <1>1 DEF LoopEnds, AppInv, NoEvents, input
<1>2. CASE CheckEnds
  <2>1. pc' = "ended" /\ state' \in States /\ SentAtMost(Sendable)
    BY <1>2, FarewellFacts, FarewellTypes DEF CheckEnds, AppInv
  <2>2. UNCHANGED <<terminating, reqTime, input, got>> /\ (revents' = revents \/ revents' = NoEvents)
    BY <1>2 DEF CheckEnds
  <2>3. revents' \in [line : BOOLEAN, hup : BOOLEAN, sock : BOOLEAN]
    <3>1. NoEvents \in [line : BOOLEAN, hup : BOOLEAN, sock : BOOLEAN]
      BY DEF NoEvents
    <3>2. revents \in [line : BOOLEAN, hup : BOOLEAN, sock : BOOLEAN]
      BY DEF AppInv
    <3> QED
      BY <2>2, <3>1, <3>2, Zenon
  <2>4. got' \in 0 .. Len(toServer')
    BY <2>1, <2>2, SentTypes DEF AppInv
  <2>5. toServer' \in Seq(Sendable)
    BY <2>1, SentTypes
  <2> QED
    BY <2>1, <2>2, <2>3, <2>4, <2>5 DEF AppInv, input
<1>3. CASE Poll
  <2>1. revents' \in [line : BOOLEAN, hup : BOOLEAN, sock : BOOLEAN]
        /\ (revents'.line => pipe # <<>>)
    <3>1. PICK ready \in BOOLEAN :
            revents' = [line |-> pipe # <<>>, hup |-> closed, sock |-> ready]
      BY <1>3 DEF Poll
    <3>2. closed \in BOOLEAN
      BY DEF AppInv
    <3> QED
      BY <3>1, <3>2
  <2> QED
    BY <1>3, <2>1 DEF Poll, AppInv, input
<1>4. CASE StdinLine
  <2>1. pipe' \in Seq(Typed) /\ cin' \in Seq(Typed) /\ Head(Lines) \in Typed
    BY <1>4, GetLineTypes DEF StdinLine, AppInv
  <2>2. SentAtMost(Sendable)
    BY <1>4, <2>1 DEF StdinLine, Sent, NotSent, SentAtMost, Sendable, Typed
  <2>3. pc' \in {"sock", "ended"} /\ reqTime' \in {"none", "fresh", "old"}
    BY <1>4 DEF StdinLine, AppInv
  <2>4. state' \in States
    BY <1>4 DEF StdinLine, OnSent, States, AppInv
  <2>5. UNCHANGED <<terminating, revents, closed, typed, got>>
    BY <1>4 DEF StdinLine
  <2> QED
    BY <2>1, <2>2, <2>3, <2>4, <2>5, SentTypes DEF AppInv
<1>5. CASE StdinEnds
  <2>1. pipe' \in Seq(Typed) /\ cin' \in Seq(Typed)
    <3>1. CASE revents.line
      BY <1>5, <3>1, GetLineTypes DEF StdinEnds, AppInv
    <3>2. CASE ~revents.line
      BY <1>5, <3>2 DEF StdinEnds, AppInv
    <3> QED
      BY <3>1, <3>2
  <2> QED
    BY <1>5, <2>1 DEF StdinEnds, AppInv
<1>6. CASE StdinNothing
  BY <1>6 DEF StdinNothing, AppInv, NoEvents, input
<1>7. CASE SockNotReady
  BY <1>7 DEF SockNotReady, AppInv, NoEvents, input
<1>8. CASE Receive
  <2>1. UNCHANGED <<terminating, reqTime, input, got>> /\ revents' = NoEvents
    BY <1>8 DEF Receive, SockTaken
  <2>2. \/ pc' = "batch" /\ UNCHANGED <<state, toServer>>
        \/ Farewell("ERR", state)
    BY <1>8 DEF Receive
  <2>3. pc' \in {"batch", "ended"} /\ state' \in States /\ SentAtMost(Sendable)
    BY <2>2, FarewellFacts, FarewellTypes DEF AppInv, SentAtMost
  <2> QED
    BY <2>1, <2>3, SentTypes DEF AppInv, input, NoEvents
<1>9. CASE ReceiveEnd
  BY <1>9 DEF ReceiveEnd, SockTaken, AppInv, NoEvents, input
<1>10. CASE ReceiveFails
  <2>1. pc' = "ended" /\ state' \in States /\ SentAtMost(Sendable)
    BY <1>10, FarewellFacts, FarewellTypes DEF ReceiveFails, AppInv
  <2>2. UNCHANGED <<terminating, reqTime, input, got>> /\ (revents' = revents \/ revents' = NoEvents)
    BY <1>10 DEF ReceiveFails, SockTaken
  <2>3. revents' \in [line : BOOLEAN, hup : BOOLEAN, sock : BOOLEAN]
    <3>1. NoEvents \in [line : BOOLEAN, hup : BOOLEAN, sock : BOOLEAN]
      BY DEF NoEvents
    <3>2. revents \in [line : BOOLEAN, hup : BOOLEAN, sock : BOOLEAN]
      BY DEF AppInv
    <3> QED
      BY <2>2, <3>1, <3>2, Zenon
  <2>4. got' \in 0 .. Len(toServer')
    BY <2>1, <2>2, SentTypes DEF AppInv
  <2>5. toServer' \in Seq(Sendable)
    BY <2>1, SentTypes
  <2> QED
    BY <2>1, <2>2, <2>3, <2>4, <2>5 DEF AppInv, input
<1>11. CASE HandleMessage
  <2>1. state' \in States /\ pc' \in {"batch", "ended"} /\ SentAtMost(Sendable)
    BY <1>11, HandleFacts, FarewellTypes DEF AppInv, HandleMessage, SentAtMost
  <2>2. UNCHANGED <<terminating, reqTime, revents, input, got>>
    BY <1>11 DEF HandleMessage
  <2> QED
    BY <2>1, <2>2, SentTypes DEF AppInv, input
<1>12. CASE BatchDone
  BY <1>12 DEF BatchDone, AppInv, NoEvents, input
<1>13. CASE Signal
  BY <1>13 DEF Signal, AppInv, NoEvents, input
<1>14. CASE Tick
  BY <1>14 DEF Tick, AppInv, NoEvents, input
<1>15. CASE Type
  <2>1. PICK line \in Typed : pipe' = Append(pipe, line)
    BY <1>15 DEF Type, Typed
  <2>2. pipe' \in Seq(Typed) /\ pipe' # <<>>
    <3>1. pipe \in Seq(Typed)
      BY DEF AppInv
    <3> QED
      BY <2>1, <3>1
  <2>3. typed' \in 0..MaxLines
    BY <1>15, BoundsAssumption DEF Type, AppInv
  <2> QED
    BY <1>15, <2>2, <2>3 DEF Type, AppInv
<1>16. CASE CloseInput
  BY <1>16 DEF CloseInput, AppInv, NoEvents, input
<1>17. CASE ServerSays
  <2>1. got' \in 0..Len(toServer)
    BY <1>17 DEF ServerSays, AppInv
  <2> QED
    BY <1>17, <2>1 DEF ServerSays, Say, AppInv, input
<1>18. CASE ServerReplies
  <2>1. got' \in 0..Len(toServer)
    BY <1>18 DEF ServerReplies, AppInv
  <2>2. UNCHANGED <<pc, state, terminating, reqTime, revents, input, toServer>>
    BY <1>18 DEF ServerReplies, Say
  <2> QED
    BY <2>1, <2>2 DEF AppInv, input
<1>19. CASE ServerCloses
  BY <1>19 DEF ServerCloses, AppInv, NoEvents, input
<1>20. CASE UNCHANGED vars
  BY <1>20 DEF vars, AppInv, NoEvents, input
<1> QED
  BY <1>1, <1>2, <1>3, <1>4, <1>5, <1>6, <1>7, <1>8, <1>9, <1>10, <1>11,
     <1>12, <1>13, <1>14, <1>15, <1>16, <1>17, <1>18, <1>19, <1>20
     DEF Next, Client, Environment

-----------------------------------------------------------------------------
(* Farewells. *)

GoodbyeInv ==
  /\ GoodbyeEnds
  /\ pc # "ended" =>
       \A k \in DOMAIN toServer : toServer[k] \in {"BYE", "ERR"} => state = "END"

LEMMA GoodbyeSent ==
  ASSUME AppInv, GoodbyeInv, pc # "ended", NEW type \in Sendable,
         toServer' = Append(toServer, type),
         type \in {"BYE", "ERR"} \/ state # "END"
  PROVE  GoodbyeEnds'
<1>1. /\ Len(toServer) \in Nat /\ Len(toServer') = Len(toServer) + 1
      /\ toServer'[Len(toServer) + 1] = type /\ toServer' \in Seq(Sendable)
      /\ \A k \in 1 .. Len(toServer) : toServer'[k] = toServer[k]
  BY AppendElements DEF AppInv
<1>2. DOMAIN toServer' = 1 .. Len(toServer) + 1 /\ DOMAIN toServer = 1 .. Len(toServer)
  BY <1>1 DEF AppInv
<1>3. SUFFICES ASSUME NEW k \in 1 .. Len(toServer) + 1, NEW l \in 1 .. Len(toServer) + 1,
                      k < l, toServer'[k] \in {"BYE", "ERR"}
               PROVE  toServer'[l] \in {"BYE", "ERR"}
  BY <1>2, Zenon DEF GoodbyeEnds
<1>4. k \in 1 .. Len(toServer)
  BY <1>1, <1>3
<1>5. toServer[k] \in {"BYE", "ERR"} /\ k \in DOMAIN toServer
  BY <1>1, <1>2, <1>3, <1>4
<1>6. CASE l \in 1 .. Len(toServer)
  <2>1. toServer[l] \in {"BYE", "ERR"}
    BY <1>2, <1>3, <1>5, <1>6 DEF GoodbyeInv, GoodbyeEnds
  <2> QED
    BY <1>1, <1>6, <2>1
<1>7. CASE l = Len(toServer) + 1
  BY <1>1, <1>5, <1>7 DEF GoodbyeInv
<1> QED
  BY <1>1, <1>6, <1>7

(* A step that sends nothing else than a farewell, and ends the client.     *)
LEMMA GoodbyeLast ==
  ASSUME AppInv, GoodbyeInv, pc # "ended", SentAtMost({"BYE", "ERR"}), pc' = "ended"
  PROVE  GoodbyeInv'
<1>1. CASE UNCHANGED toServer
  BY <1>1 DEF GoodbyeInv, GoodbyeEnds
<1>2. CASE \E type \in {"BYE", "ERR"} : toServer' = Append(toServer, type)
  BY <1>2, GoodbyeSent DEF GoodbyeInv, Sendable
<1> QED
  BY <1>1, <1>2 DEF SentAtMost

(* A step that sends nothing. *)
LEMMA GoodbyeSilent ==
  ASSUME GoodbyeInv, UNCHANGED toServer, pc = "ended" => pc' = "ended",
         state = "END" => state' = "END"
  PROVE  GoodbyeInv'
  BY DEF GoodbyeInv, GoodbyeEnds

LEMMA GoodbyeStep ==
  ASSUME AppInv, GoodbyeInv, [Next]_vars
  PROVE  GoodbyeInv'
<1>1. CASE LoopEnds
  BY <1>1, GoodbyeSilent DEF LoopEnds
<1>2. CASE CheckEnds
  <2>1. pc' = "ended" /\ SentAtMost({"BYE", "ERR"})
    BY <1>2, FarewellFacts DEF CheckEnds, AppInv
  <2> QED
    BY <1>2, <2>1, GoodbyeLast DEF CheckEnds, SockTaken
<1>3. CASE Poll
  BY <1>3, GoodbyeSilent DEF Poll
<1>4. CASE StdinLine
  <2> DEFINE type == Head(Lines)
  <2>1. type \in Typed /\ pc = "stdin"
    BY <1>4, GetLineTypes DEF StdinLine, AppInv
  <2>2. CASE type \in MaySend(state) /\ Sent(type) /\ state' = OnSent(state, type)
    <3>1. type = "BYE" \/ (type \notin {"BYE", "ERR"} /\ state # "END")
      BY <2>1, <2>2 DEF MaySend, Typed
    <3>2. toServer' = Append(toServer, type) /\ type \in Sendable
      BY <2>1, <2>2 DEF Sent, Typed, Sendable
    <3>3. GoodbyeEnds'
      BY <2>1, <3>1, <3>2, GoodbyeSent
    <3>4. ASSUME NEW k \in DOMAIN toServer', toServer'[k] \in {"BYE", "ERR"}
          PROVE  state' = "END"
      <4>1. CASE type = "BYE"
        BY <2>2, <4>1 DEF OnSent
      <4>2. CASE type \notin {"BYE", "ERR"} /\ state # "END"
        <5>1. /\ Len(toServer) \in Nat /\ Len(toServer') = Len(toServer) + 1
              /\ toServer'[Len(toServer) + 1] = type /\ toServer' \in Seq(Sendable)
              /\ \A j \in 1 .. Len(toServer) : toServer'[j] = toServer[j]
          BY <3>2, AppendElements DEF AppInv
        <5>2. k \in 1 .. Len(toServer) \/ k = Len(toServer) + 1
          BY <3>4, <5>1
        <5>3. k \in 1 .. Len(toServer) /\ toServer[k] \in {"BYE", "ERR"}
          BY <3>4, <4>2, <5>1, <5>2
        <5>4. k \in DOMAIN toServer
          BY <5>3 DEF AppInv
        <5> QED
          BY <2>1, <4>2, <5>3, <5>4 DEF GoodbyeInv
      <4> QED
        BY <3>1, <4>1, <4>2
    <3> QED
      BY <3>3, <3>4 DEF GoodbyeInv
  <2>3. CASE UNCHANGED <<state, toServer>>
    BY <2>1, <2>3, GoodbyeSilent
  <2> QED
    BY <1>4, <2>2, <2>3 DEF StdinLine, NotSent
<1>5. CASE StdinEnds
  BY <1>5, GoodbyeSilent DEF StdinEnds
<1>6. CASE StdinNothing
  BY <1>6, GoodbyeSilent DEF StdinNothing
<1>7. CASE SockNotReady
  BY <1>7, GoodbyeSilent DEF SockNotReady
<1>8. CASE Receive
  <2>1. CASE UNCHANGED <<state, toServer>>
    BY <1>8, <2>1, GoodbyeSilent DEF Receive, SockTaken
  <2>2. CASE Farewell("ERR", state)
    BY <1>8, <2>2, FarewellFacts, GoodbyeLast DEF AppInv, Receive, SockTaken
  <2> QED
    BY <1>8, <2>1, <2>2 DEF Receive
<1>9. CASE ReceiveEnd
  BY <1>9, GoodbyeSilent DEF ReceiveEnd, SockTaken
<1>10. CASE ReceiveFails
  <2>1. pc' = "ended" /\ SentAtMost({"BYE", "ERR"})
    BY <1>10, FarewellFacts DEF ReceiveFails, AppInv
  <2> QED
    BY <1>10, <2>1, GoodbyeLast DEF ReceiveFails, SockTaken
<1>11. CASE HandleMessage
  <2>1. (state = "END" => state' = "END")
        /\ \/ pc' = "ended" /\ SentAtMost({"BYE", "ERR"})
           \/ pc' = pc /\ UNCHANGED toServer
    BY <1>11, HandleFacts DEF AppInv
  <2> QED
    BY <1>11, <2>1, GoodbyeLast, GoodbyeSilent DEF HandleMessage
<1>12. CASE BatchDone
  BY <1>12, GoodbyeSilent DEF BatchDone
<1>13. CASE Signal
  BY <1>13, GoodbyeSilent DEF Signal
<1>14. CASE Tick
  BY <1>14, GoodbyeSilent DEF Tick
<1>15. CASE Type
  BY <1>15, GoodbyeSilent DEF Type
<1>16. CASE CloseInput
  BY <1>16, GoodbyeSilent DEF CloseInput
<1>17. CASE ServerSays
  BY <1>17, GoodbyeSilent DEF ServerSays, Say
<1>18. CASE ServerReplies
  BY <1>18, GoodbyeSilent DEF ServerReplies, Say
<1>19. CASE ServerCloses
  BY <1>19, GoodbyeSilent DEF ServerCloses
<1>20. CASE UNCHANGED vars
  BY <1>20, GoodbyeSilent DEF vars
<1> QED
  BY <1>1, <1>2, <1>3, <1>4, <1>5, <1>6, <1>7, <1>8, <1>9, <1>10, <1>11,
     <1>12, <1>13, <1>14, <1>15, <1>16, <1>17, <1>18, <1>19, <1>20
     DEF Next, Client, Environment

-----------------------------------------------------------------------------
(* The stream. *)

Rest == buffer \o wire

(* The messages of the server that have left the stream. *)
Taken == Len(shown) + Len(Unhandled)

StreamTypes ==
  /\ conn \in {"open", "fin", "reset", "gone"}
  /\ wire \in Seq(Piece) /\ buffer \in Seq(Piece) /\ EndsOf(buffer) = {}
  /\ said \in Seq(Said) /\ Len(said) <= MaxSaid

ShownInv ==
  shown \in Seq(1 .. MaxSaid) /\ (\A k \in 1 .. Len(shown) : shown[k] = k)

(* The batch goes on where the user stands, or is the BYE of recv.          *)
BatchInv ==
  /\ batch \in Seq(0 .. MaxSaid)
  /\ pc \notin {"batch", "ended"} => batch = <<>>
  /\ batch = <<0>> \/ \A k \in 1 .. Len(batch) : batch[k] = Len(shown) + k
  /\ Taken <= Len(said)

(* Buffer and wire go on where the batch ends, and are whole to their end.  *)
StreamInv ==
  pc # "ended" /\ conn # "reset" =>
    Stretch(Rest, Taken) /\ Len(Rest) = 2 * (Len(said) - Taken)

ChannelInv == StreamTypes /\ ShownInv /\ BatchInv /\ StreamInv

LEMMA ChannelNumbers ==
  ASSUME ChannelInv
  PROVE  /\ Taken \in Nat /\ Len(said) \in Nat /\ Len(shown) \in Nat
         /\ Rest \in Seq(Piece) /\ Len(Rest) = Len(buffer) + Len(wire)
         /\ Len(buffer) \in Nat /\ Len(wire) \in Nat
         /\ \A k \in 1 .. Len(buffer) : Rest[k] = buffer[k]
         /\ \A k \in 1 .. Len(wire) : Rest[Len(buffer) + k] = wire[k]
<1>1. Len(shown) \in Nat /\ Len(said) \in Nat
  BY DEF ChannelInv, ShownInv, StreamTypes
<1>2. Unhandled \in Seq(0 .. MaxSaid)
  <2>1. <<>> \in Seq(0 .. MaxSaid) /\ batch \in Seq(0 .. MaxSaid)
    BY DEF ChannelInv, BatchInv
  <2> QED
    BY <2>1, Zenon DEF Unhandled
<1>3. buffer \in Seq(Piece) /\ wire \in Seq(Piece)
  BY DEF ChannelInv, StreamTypes
<1>4. Taken \in Nat
  <2>1. Len(Unhandled) \in Nat
    BY <1>2
  <2> QED
    BY <1>1, <2>1 DEF Taken
<1> QED
  BY <1>1, <1>3, <1>4 DEF Rest

(* A step that leaves the stream alone. *)
LEMMA ChannelQuiet ==
  ASSUME ChannelInv, UNCHANGED <<stream, batch, said, shown>>,
         pc = "ended" => pc' = "ended",
         pc' \notin {"batch", "ended"} => batch = <<>>
  PROVE  ChannelInv'
  BY DEF ChannelInv, StreamTypes, ShownInv, BatchInv, StreamInv, Rest, Taken,
         Unhandled, stream

(* A piece of a stretch is one. *)
LEMMA StretchPart ==
  ASSUME NEW T, NEW s \in Seq(T), NEW c \in Nat, Stretch(s, c),
         NEW U, NEW r \in Seq(U), NEW m \in Nat, Len(r) + 2 * m <= Len(s),
         \A k \in 1 .. Len(r) : r[k] = s[2 * m + k]
  PROVE  Stretch(r, c + m)
<1> SUFFICES ASSUME NEW j \in Nat \ {0}
             PROVE  /\ 2 * j - 1 <= Len(r) => r[2 * j - 1] = First(c + m + j)
                    /\ 2 * j <= Len(r) => r[2 * j] = Second(c + m + j)
  BY DEF Stretch
<1>1. Len(r) \in Nat /\ Len(s) \in Nat /\ m + j \in Nat \ {0}
  OBVIOUS
<1>2. /\ 2 * (m + j) - 1 <= Len(s) => s[2 * (m + j) - 1] = First(c + (m + j))
      /\ 2 * (m + j) <= Len(s) => s[2 * (m + j)] = Second(c + (m + j))
  BY <1>1 DEF Stretch
<1>3. c + (m + j) = c + m + j /\ 2 * (m + j) = 2 * m + 2 * j
      /\ 2 * (m + j) - 1 = 2 * m + (2 * j - 1)
  OBVIOUS
<1>4. ASSUME 2 * j - 1 <= Len(r)
      PROVE  r[2 * j - 1] = First(c + m + j)
  <2>1. 2 * j - 1 \in 1 .. Len(r)
    BY <1>1, <1>4
  <2>2. r[2 * j - 1] = s[2 * m + (2 * j - 1)]
    BY <2>1
  <2> QED
    BY <1>1, <1>2, <1>3, <1>4, <2>2
<1>5. ASSUME 2 * j <= Len(r)
      PROVE  r[2 * j] = Second(c + m + j)
  <2>1. 2 * j \in 1 .. Len(r)
    BY <1>1, <1>5
  <2>2. r[2 * j] = s[2 * m + 2 * j]
    BY <2>1
  <2>3. 2 * (m + j) <= Len(s)
    BY <1>1, <1>5
  <2>4. s[2 * m + 2 * j] = Second(c + m + j)
    BY <1>2, <1>3, <2>3
  <2> QED
    BY <2>2, <2>4
<1> QED
  BY <1>4, <1>5

LEMMA HalfOf ==
  ASSUME NEW l \in Nat
  PROVE  \E m \in Nat : l = 2 * m \/ l = 2 * m + 1
<1>1. l \div 2 \in Nat /\ (l = 2 * (l \div 2) \/ l = 2 * (l \div 2) + 1)
  OBVIOUS
<1> QED
  BY <1>1

(* recv and the loop of receive_message. *)
LEMMA ReceiveFacts ==
  ASSUME ChannelInv, Receive
  PROVE  \E m \in Nat :
           /\ buffer' \in Seq(Piece) /\ wire' \in Seq(Piece)
           /\ EndsOf(buffer') = {}
           /\ Stretch(buffer' \o wire', Taken + m)
           /\ Len(buffer' \o wire') = Len(Rest) - 2 * m /\ 2 * m <= Len(Rest)
           /\ \/ pc' = "batch" /\ batch' = Run(Taken, m)
              \/ pc' = "ended" /\ batch' = batch
<1> DEFINE c == Taken
<1>1. PICK size \in 1 .. Len(wire) :
        LET all == buffer \o SubSeq(wire, 1, size) IN
        /\ wire' = SubSeq(wire, size + 1, Len(wire))
        /\ buffer' = RestOf(all)
        /\ \/ pc' = "batch" /\ batch' = MessagesIn(all)
           \/ pc' = "ended" /\ batch' = batch
  BY DEF Receive, Farewell
<1> DEFINE all == buffer \o SubSeq(wire, 1, size)
           L == Len(buffer) + size
<1>2. /\ Rest \in Seq(Piece) /\ Len(Rest) = Len(buffer) + Len(wire) /\ c \in Nat
      /\ Len(buffer) \in Nat /\ Len(wire) \in Nat
      /\ buffer \in Seq(Piece) /\ wire \in Seq(Piece)
      /\ \A k \in 1 .. Len(buffer) : Rest[k] = buffer[k]
      /\ \A k \in 1 .. Len(wire) : Rest[Len(buffer) + k] = wire[k]
  BY ChannelNumbers DEF ChannelInv, StreamTypes
<1>3. Stretch(Rest, c)
  BY DEF Receive, SockTaken, ChannelInv, StreamInv
<1> HIDE DEF c
<1>4. /\ SubSeq(wire, 1, size) \in Seq(Piece) /\ Len(SubSeq(wire, 1, size)) = size
      /\ \A k \in 1 .. size : SubSeq(wire, 1, size)[k] = wire[k]
  BY <1>2
<1>5. all \in Seq(Piece) /\ Len(all) = L /\ (\A k \in 1 .. L : all[k] = Rest[k])
  <2>1. all \in Seq(Piece) /\ Len(all) = L
    BY <1>2, <1>4
  <2>2. ASSUME NEW k \in 1 .. L PROVE all[k] = Rest[k]
    <3>1. CASE k \in 1 .. Len(buffer)
      BY <1>2, <1>4, <3>1
    <3>2. CASE k \in Len(buffer) + 1 .. L
      <4>1. PICK d \in 1 .. size : k = Len(buffer) + d
        <5>1. k - Len(buffer) \in 1 .. size /\ k = Len(buffer) + (k - Len(buffer))
          BY <1>2, <3>2
        <5> QED
          BY <5>1
      <4>2. all[k] = SubSeq(wire, 1, size)[d]
        BY <1>2, <1>4, <4>1
      <4>3. d \in 1 .. Len(wire)
        BY <1>2, <4>1
      <4>4. Rest[k] = wire[d]
        BY <1>2, <4>1, <4>3
      <4> QED
        BY <1>4, <4>1, <4>2, <4>4
    <3> QED
      BY <1>2, <3>1, <3>2
  <2> QED
    BY <2>1, <2>2
<1>6. /\ wire' \in Seq(Piece) /\ Len(wire') = Len(wire) - size
      /\ \A k \in 1 .. Len(wire') : wire'[k] = wire[size + k]
  BY <1>1, <1>2
<1>7. L \in Nat /\ L <= Len(Rest)
  BY <1>2
<1>70. PICK m \in Nat : L = 2 * m \/ L = 2 * m + 1
  <2> HIDE DEF L
  <2> QED
    BY <1>7, HalfOf
<1> HIDE DEF all, L
<1>8. Stretch(all, c)
  <2>1. \A k \in 1 .. Len(all) : all[k] = Rest[2 * 0 + k]
    BY <1>5, <1>7
  <2>2. Len(all) + 2 * 0 <= Len(Rest) /\ 0 \in Nat
    BY <1>2, <1>5, <1>7
  <2>3. Stretch(all, c + 0)
    BY <1>2, <1>3, <1>5, <2>1, <2>2, StretchPart, Zenon
  <2>4. c + 0 = c
    BY <1>2
  <2> QED
    BY <2>3, <2>4, Zenon
<1>9. /\ MessagesIn(all) = Run(c, m)
      /\ RestOf(all) = SubSeq(all, 2 * m + 1, L)
  <2>1. Len(all) = 2 * m \/ Len(all) = 2 * m + 1
    BY <1>5, <1>70
  <2>2. MessagesIn(all) = Run(c, m)
    BY <1>2, <1>5, <1>8, <2>1, StretchMessages, Zenon
  <2>3. RestOf(all) = SubSeq(all, 2 * m + 1, Len(all))
    BY <1>2, <1>5, <1>8, <2>1, StretchRest, Zenon
  <2> QED
    BY <1>5, <2>2, <2>3
<1>10. buffer' = SubSeq(all, 2 * m + 1, L)
  BY <1>1, <1>9 DEF all
<1>11. /\ buffer' \in Seq(Piece) /\ Len(buffer') = L - 2 * m
       /\ \A k \in 1 .. Len(buffer') : buffer'[k] = all[2 * m + k]
  BY <1>5, <1>7, <1>70, <1>10
<1>12. EndsOf(buffer') = {}
  <2>1. Stretch(buffer', c + m)
    <3>1. Len(buffer') + 2 * m <= Len(all)
      BY <1>5, <1>7, <1>11
    <3> QED
      BY <1>2, <1>5, <1>8, <1>11, <3>1, StretchPart, Zenon
  <2>2. EndsOf(buffer') = {2 * j : j \in 1 .. 0}
    <3>1. (Len(buffer') = 2 * 0 \/ Len(buffer') = 2 * 0 + 1) /\ 0 \in Nat /\ c + m \in Nat
      BY <1>2, <1>70, <1>11
    <3> QED
      BY <1>11, <2>1, <3>1, StretchEnds, Zenon
  <2> QED
    BY <2>2
<1> DEFINE rest == buffer' \o wire'
<1>13. rest \in Seq(Piece) /\ Len(rest) = Len(Rest) - 2 * m
  <2>1. rest \in Seq(Piece) /\ Len(rest) = Len(buffer') + Len(wire')
    <3>1. buffer' \in Seq(Piece) /\ wire' \in Seq(Piece)
      BY <1>6, <1>11
    <3> QED
      BY <3>1
  <2>2. Len(buffer') + Len(wire') = Len(Rest) - 2 * m
    BY <1>2, <1>6, <1>11 DEF L
  <2> QED
    BY <2>1, <2>2
<1>14. \A k \in 1 .. Len(rest) : rest[k] = Rest[2 * m + k]
  <2> TAKE k \in 1 .. Len(rest)
  <2>1. CASE k \in 1 .. Len(buffer')
    <3>1. rest[k] = buffer'[k] /\ 2 * m + k \in 1 .. L
      BY <1>6, <1>7, <1>70, <1>11, <2>1
    <3> QED
      BY <1>5, <1>11, <2>1, <3>1
  <2>2. CASE k \in Len(buffer') + 1 .. Len(rest)
    <3>1. PICK d \in 1 .. Len(wire') : k = Len(buffer') + d
      <4>1. k - Len(buffer') \in 1 .. Len(wire') /\ k = Len(buffer') + (k - Len(buffer'))
        BY <1>6, <1>11, <2>2
      <4> QED
        BY <4>1
    <3>2. rest[k] = wire'[d]
      BY <1>6, <1>11, <3>1
    <3>3. wire'[d] = wire[size + d]
      BY <1>6
    <3>4. size + d \in 1 .. Len(wire) /\ 2 * m + k = Len(buffer) + (size + d)
      BY <1>2, <1>6, <1>11, <3>1 DEF L
    <3>5. Rest[Len(buffer) + (size + d)] = wire[size + d]
      BY <1>2, <3>4
    <3> QED
      BY <3>2, <3>3, <3>4, <3>5
  <2> QED
    BY <1>11, <1>13, <2>1, <2>2
<1>15. Stretch(rest, c + m)
  <2>1. Len(rest) + 2 * m <= Len(Rest)
    BY <1>2, <1>7, <1>70, <1>13
  <2> HIDE DEF rest
  <2> QED
    BY <1>2, <1>3, <1>13, <1>14, <2>1, StretchPart, Zenon
<1>16. \/ pc' = "batch" /\ batch' = Run(c, m)
       \/ pc' = "ended" /\ batch' = batch
  BY <1>1, <1>9 DEF all
<1>17. 2 * m <= Len(Rest)
  BY <1>2, <1>7, <1>70
<1> HIDE DEF rest
<1>18. /\ buffer' \in Seq(Piece) /\ wire' \in Seq(Piece)
       /\ EndsOf(buffer') = {}
       /\ Stretch(buffer' \o wire', c + m)
       /\ Len(buffer' \o wire') = Len(Rest) - 2 * m
  BY <1>6, <1>11, <1>12, <1>13, <1>15 DEF rest
<1> QED
  BY <1>16, <1>17, <1>18 DEF c

LEMMA ConcatElements ==
  ASSUME NEW S, NEW s \in Seq(S), NEW q \in Seq(S)
  PROVE  /\ s \o q \in Seq(S) /\ Len(s \o q) = Len(s) + Len(q)
         /\ \A k \in 1 .. Len(s) : (s \o q)[k] = s[k]
         /\ \A k \in 1 .. Len(q) : (s \o q)[Len(s) + k] = q[k]
  OBVIOUS

LEMMA TwoMore ==
  ASSUME NEW T, NEW s \in Seq(T), NEW q \in Seq(T), NEW m \in Nat
  PROVE  Len(s) = 2 * m /\ Len(q) = 2 =>
           /\ s \o q \in Seq(T) /\ Len(s \o q) = 2 * m + 2
           /\ \A k \in 1 .. 2 * m : (s \o q)[k] = s[k]
           /\ (s \o q)[2 * m + 1] = q[1] /\ (s \o q)[2 * m + 2] = q[2]
<1> DEFINE r == s \o q
<1>1. /\ r \in Seq(T) /\ Len(r) = Len(s) + Len(q)
      /\ \A k \in 1 .. Len(s) : r[k] = s[k]
      /\ \A k \in 1 .. Len(q) : r[Len(s) + k] = q[k]
  BY ConcatElements
<1> HIDE DEF r
<1>2. ASSUME Len(s) = 2 * m, Len(q) = 2
      PROVE  /\ r \in Seq(T) /\ Len(r) = 2 * m + 2
             /\ \A k \in 1 .. 2 * m : r[k] = s[k]
             /\ r[2 * m + 1] = q[1] /\ r[2 * m + 2] = q[2]
  BY <1>1, <1>2
<1> QED
  BY <1>2 DEF r

(* A message more. *)
LEMMA StretchAppend ==
  ASSUME NEW s \in Seq(Piece), NEW c \in Nat, Stretch(s, c),
         NEW m \in Nat, Len(s) = 2 * m, NEW n \in 1 .. MaxSaid, n = c + m + 1
  PROVE  /\ Pieces(n) \in Seq(Piece)
         /\ Len(s \o Pieces(n)) = 2 * (m + 1)
         /\ Stretch(s \o Pieces(n), c)
<1> DEFINE r == s \o Pieces(n)
<1>1. First(n) \in Piece /\ Second(n) \in Piece
  BY DEF First, Second, Piece
<1>2. /\ Pieces(n) \in Seq(Piece) /\ Len(Pieces(n)) = 2
      /\ Pieces(n)[1] = First(n) /\ Pieces(n)[2] = Second(n)
  BY <1>1 DEF Pieces, First, Second
<1>3. /\ r \in Seq(Piece) /\ Len(r) = 2 * m + 2
      /\ \A k \in 1 .. 2 * m : r[k] = s[k]
      /\ r[2 * m + 1] = First(n) /\ r[2 * m + 2] = Second(n)
  <2>1. Len(s) = 2 * m /\ Len(Pieces(n)) = 2 =>
           /\ r \in Seq(Piece) /\ Len(r) = 2 * m + 2
           /\ \A k \in 1 .. 2 * m : r[k] = s[k]
           /\ r[2 * m + 1] = Pieces(n)[1] /\ r[2 * m + 2] = Pieces(n)[2]
    <3>1. \A q, v \in Seq(Piece) : Len(q) = 2 * m /\ Len(v) = 2 =>
             /\ q \o v \in Seq(Piece) /\ Len(q \o v) = 2 * m + 2
             /\ \A k \in 1 .. 2 * m : (q \o v)[k] = q[k]
             /\ (q \o v)[2 * m + 1] = v[1] /\ (q \o v)[2 * m + 2] = v[2]
      BY TwoMore
    <3> QED
      BY <1>2, <3>1, Zenon
  <2> HIDE DEF r
  <2> QED
    BY <1>2, <2>1
<1> HIDE DEF r
<1>4. ASSUME NEW j \in Nat \ {0}
      PROVE  /\ 2 * j - 1 <= Len(r) => r[2 * j - 1] = First(c + j)
             /\ 2 * j <= Len(r) => r[2 * j] = Second(c + j)
  <2>1. CASE j <= m
    <3>1. 2 * j - 1 \in 1 .. 2 * m /\ 2 * j \in 1 .. 2 * m
      BY <2>1
    <3>2. s[2 * j - 1] = First(c + j) /\ s[2 * j] = Second(c + j)
      BY <3>1 DEF Stretch
    <3> QED
      BY <1>3, <3>1, <3>2
  <2>2. CASE j = m + 1
    <3>1. 2 * j - 1 = 2 * m + 1 /\ 2 * j = 2 * m + 2 /\ c + j = n
      BY <2>2
    <3> QED
      BY <1>3, <3>1
  <2>3. CASE j > m + 1
    BY <1>3, <2>3
  <2> QED
    BY <2>1, <2>2, <2>3
<1>5. Stretch(r, c)
  BY <1>4 DEF Stretch
<1> QED
  BY <1>2, <1>3, <1>5 DEF r

LEMMA SayKeeps ==
  ASSUME ChannelInv, ServerSays \/ ServerReplies
  PROVE  ChannelInv'
<1>1. PICK m \in Said : said' = Append(said, m)
  BY SayFacts DEF ChannelInv, StreamTypes
<1>2. /\ Len(said) < MaxSaid /\ conn = "open" /\ pc # "ended"
      /\ wire' = wire \o Pieces(Len(said) + 1)
      /\ UNCHANGED <<pc, conn, buffer, batch, shown>>
  BY SayFacts DEF ChannelInv, StreamTypes
<1>3. said' \in Seq(Said) /\ Len(said') = Len(said) + 1 /\ Len(said) \in Nat
  BY <1>1, AppendElements DEF ChannelInv, StreamTypes
<1> DEFINE n == Len(said) + 1
           c == Taken
           m2 == Len(said) - c
<1>4. /\ Rest \in Seq(Piece) /\ c \in Nat
      /\ buffer \in Seq(Piece) /\ wire \in Seq(Piece)
  BY ChannelNumbers DEF ChannelInv, StreamTypes
<1>5. Stretch(Rest, c) /\ Len(Rest) = 2 * m2
  BY <1>2 DEF ChannelInv, StreamInv
<1>6. m2 \in Nat /\ n \in 1 .. MaxSaid /\ n = c + m2 + 1
  BY <1>2, <1>3, <1>4, BoundsAssumption DEF ChannelInv, BatchInv
<1>7. Taken' = c
  BY <1>2 DEF Taken, Unhandled
<1> HIDE DEF n, c, m2
<1>8. /\ Pieces(n) \in Seq(Piece) /\ Len(Rest \o Pieces(n)) = 2 * (m2 + 1)
      /\ Stretch(Rest \o Pieces(n), c)
  BY <1>4, <1>5, <1>6, StretchAppend
<1>9. wire' \in Seq(Piece) /\ Rest' = Rest \o Pieces(n)
  <2>1. wire' = wire \o Pieces(n) /\ buffer' = buffer
    BY <1>2 DEF n
  <2>2. Rest' = buffer' \o wire'
    BY DEF Rest
  <2>3. (buffer \o wire) \o Pieces(n) = buffer \o (wire \o Pieces(n))
    <3>1. Pieces(n) \in Seq(Piece)
      BY <1>8
    <3>2. \A s, q, v \in Seq(Piece) : (s \o q) \o v = s \o (q \o v)
      BY ConcatAssociative
    <3> QED
      BY <1>4, <3>1, <3>2, Zenon
  <2>4. wire \o Pieces(n) \in Seq(Piece)
    BY <1>4, <1>8
  <2> QED
    BY <2>1, <2>2, <2>3, <2>4 DEF Rest
<1>10. StreamInv'
  <2>1. Len(Rest') = 2 * (Len(said') - c)
    BY <1>3, <1>4, <1>8, <1>9 DEF m2
  <2> QED
    BY <1>7, <1>8, <1>9, <2>1 DEF StreamInv
<1>11. StreamTypes' /\ ShownInv' /\ BatchInv'
  <2>1. StreamTypes'
    BY <1>2, <1>3, <1>9, BoundsAssumption DEF ChannelInv, StreamTypes
  <2>2. ShownInv'
    BY <1>2 DEF ChannelInv, ShownInv
  <2>3. c <= Len(said')
    BY <1>3, <1>4 DEF ChannelInv, BatchInv, c
  <2>4. BatchInv'
    BY <1>2, <1>7, <2>3 DEF ChannelInv, BatchInv
  <2> QED
    BY <2>1, <2>2, <2>4
<1> QED
  BY <1>10, <1>11 DEF ChannelInv

(* The user is shown the next message, or nothing for the BYE of recv.      *)
LEMMA HandleShows ==
  ASSUME ChannelInv, HandleMessage
  PROVE  /\ batch # <<>> /\ batch' = Tail(batch)
         /\ \/ batch = <<0>> /\ UNCHANGED shown
            \/ /\ batch # <<0>> /\ Len(shown) < Len(said)
               /\ Len(shown) + 1 \in 1 .. MaxSaid
               /\ shown' = Append(shown, Len(shown) + 1)
<1>1. /\ batch # <<>> /\ batch' = Tail(batch)
      /\ shown' = IF Head(batch) = 0 THEN shown ELSE Append(shown, Head(batch))
  BY DEF HandleMessage
<1>2. batch \in Seq(0 .. MaxSaid) /\ shown \in Seq(1 .. MaxSaid) /\ Len(said) \in Nat
  BY DEF ChannelInv, BatchInv, ShownInv, StreamTypes
<1>3. Head(batch) = batch[1] /\ Len(batch) \in Nat \ {0}
  BY <1>1, <1>2, TailElements
<1>4. CASE batch = <<0>>
  BY <1>1, <1>4
<1>5. CASE batch # <<0>>
  <2>1. batch[1] = Len(shown) + 1
    BY <1>3, <1>5 DEF ChannelInv, BatchInv
  <2>2. Len(shown) \in Nat
    BY <1>2
  <2>3. Len(shown) + Len(batch) <= Len(said) /\ Len(said) <= MaxSaid
    BY <1>5 DEF ChannelInv, BatchInv, StreamTypes, Taken, Unhandled
  <2> QED
    BY <1>1, <1>2, <1>3, <1>5, <2>1, <2>2, <2>3, BoundsAssumption
<1> QED
  BY <1>4, <1>5

LEMMA HandleKeeps ==
  ASSUME ChannelInv, HandleMessage
  PROVE  ChannelInv'
<1>1. /\ batch # <<>> /\ batch' = Tail(batch)
      /\ \/ batch = <<0>> /\ UNCHANGED shown
         \/ /\ batch # <<0>> /\ Len(shown) < Len(said)
            /\ Len(shown) + 1 \in 1 .. MaxSaid
            /\ shown' = Append(shown, Len(shown) + 1)
  BY HandleShows
<1>2. batch \in Seq(0 .. MaxSaid) /\ shown \in Seq(1 .. MaxSaid) /\ Len(shown) \in Nat
  BY DEF ChannelInv, BatchInv, ShownInv
<1>3. /\ batch' \in Seq(0 .. MaxSaid)
      /\ Len(batch) \in Nat \ {0} /\ Len(batch') = Len(batch) - 1
      /\ \A k \in 1 .. Len(batch') : batch'[k] = batch[k + 1]
  BY <1>1, <1>2, TailElements
<1>4. ShownInv' /\ Taken' = Taken /\ (\A k \in 1 .. Len(batch') : batch'[k] = Len(shown') + k)
  <2>1. CASE batch = <<0>> /\ UNCHANGED shown
    <3>1. batch' = <<>>
      BY <1>1, <2>1
    <3>2. Unhandled = <<>> /\ Unhandled' = <<>>
      BY <2>1, <3>1 DEF Unhandled
    <3> QED
      BY <2>1, <3>1, <3>2 DEF Taken, ChannelInv, ShownInv
  <2>2. CASE /\ batch # <<0>> /\ Len(shown) < Len(said)
             /\ Len(shown) + 1 \in 1 .. MaxSaid
             /\ shown' = Append(shown, Len(shown) + 1)
    <3>1. /\ shown' \in Seq(1 .. MaxSaid) /\ Len(shown') = Len(shown) + 1
          /\ shown'[Len(shown) + 1] = Len(shown) + 1
          /\ \A k \in 1 .. Len(shown) : shown'[k] = shown[k]
      BY <1>2, <2>2, AppendElements
    <3>2. \A k \in 1 .. Len(shown') : k \in 1 .. Len(shown) \/ k = Len(shown) + 1
      BY <1>2, <3>1
    <3>3. ShownInv'
      BY <3>1, <3>2 DEF ChannelInv, ShownInv
    <3>4. \A k \in 1 .. Len(batch) : batch[k] = Len(shown) + k
      BY <2>2 DEF ChannelInv, BatchInv
    <3>5. \A k \in 1 .. Len(batch') : batch'[k] = Len(shown') + k
      BY <1>2, <1>3, <3>1, <3>4
    <3>6. batch' # <<0>>
      <4>1. CASE Len(batch') = 0
        BY <4>1
      <4>2. CASE Len(batch') # 0
        <5>1. batch'[1] = Len(shown) + 2
          BY <1>2, <1>3, <3>1, <3>5, <4>2
        <5> QED
          BY <1>2, <5>1
      <4> QED
        BY <4>1, <4>2
    <3>7. Taken' = Taken
      <4>1. Unhandled = batch /\ Unhandled' = batch'
        BY <2>2, <3>6 DEF Unhandled
      <4>2. Taken = Len(shown) + Len(batch) /\ Taken' = Len(shown') + Len(batch')
        BY <4>1 DEF Taken
      <4> QED
        BY <1>2, <1>3, <3>1, <4>2
    <3> QED
      BY <3>3, <3>5, <3>7
  <2> QED
    BY <1>1, <2>1, <2>2
<1>5. UNCHANGED <<stream, said>> /\ pc = "batch" /\ (pc' = pc \/ pc' = "ended")
  BY DEF HandleMessage, Farewell
<1>6. StreamTypes' /\ StreamInv'
  BY <1>4, <1>5 DEF ChannelInv, StreamTypes, StreamInv, Rest, stream
<1>7. BatchInv'
  BY <1>3, <1>4, <1>5 DEF ChannelInv, BatchInv
<1> QED
  BY <1>4, <1>6, <1>7 DEF ChannelInv

LEMMA ReceiveKeeps ==
  ASSUME ChannelInv, Receive
  PROVE  ChannelInv'
<1>1. PICK m \in Nat :
           /\ buffer' \in Seq(Piece) /\ wire' \in Seq(Piece)
           /\ EndsOf(buffer') = {}
           /\ Stretch(buffer' \o wire', Taken + m)
           /\ Len(buffer' \o wire') = Len(Rest) - 2 * m /\ 2 * m <= Len(Rest)
           /\ \/ pc' = "batch" /\ batch' = Run(Taken, m)
              \/ pc' = "ended" /\ batch' = batch
  BY ReceiveFacts
<1>2. /\ pc = "sock" /\ batch = <<>> /\ conn # "reset"
      /\ UNCHANGED <<conn, said, shown>>
  BY DEF Receive, SockTaken, ChannelInv, BatchInv
<1>3. Taken = Len(shown) /\ Taken \in Nat /\ Len(said) \in Nat
  BY <1>2, ChannelNumbers DEF Taken, Unhandled
<1>4. Len(Rest) = 2 * (Len(said) - Taken) /\ Taken <= Len(said)
  BY <1>2 DEF ChannelInv, StreamInv, BatchInv
<1>5. StreamTypes' /\ ShownInv'
  BY <1>1, <1>2 DEF ChannelInv, StreamTypes, ShownInv
<1>6. CASE pc' = "batch" /\ batch' = Run(Taken, m)
  <2>1. Len(said) <= MaxSaid /\ Taken + m <= Len(said)
    BY <1>1, <1>3, <1>4 DEF ChannelInv, StreamTypes
  <2>2. /\ batch' \in Seq(0 .. MaxSaid) /\ Len(batch') = m
        /\ \A k \in 1 .. Len(batch') : batch'[k] = Len(shown') + k
    BY <1>2, <1>3, <1>6, <2>1, BoundsAssumption DEF Run
  <2>3. batch' # <<0>>
    <3>1. CASE m = 0
      BY <2>2, <3>1
    <3>2. CASE m # 0
      <4>1. batch'[1] = Len(shown) + 1
        BY <1>2, <2>2, <3>2
      <4> QED
        BY <1>3, <4>1
    <3> QED
      BY <3>1, <3>2
  <2>4. Taken' = Taken + m
    BY <1>2, <1>3, <2>2, <2>3 DEF Taken, Unhandled
  <2>5. BatchInv'
    BY <1>2, <1>6, <2>1, <2>2, <2>4 DEF BatchInv
  <2>6. Len(Rest') = 2 * (Len(said') - Taken')
    BY <1>1, <1>2, <1>3, <1>4, <2>4 DEF Rest
  <2>7. StreamInv'
    BY <1>1, <2>4, <2>6 DEF StreamInv, Rest
  <2> QED
    BY <1>5, <2>5, <2>7 DEF ChannelInv
<1>7. CASE pc' = "ended" /\ batch' = batch
  <2>1. BatchInv' /\ StreamInv'
    BY <1>2, <1>7 DEF ChannelInv, BatchInv, StreamInv, Taken, Unhandled
  <2> QED
    BY <1>5, <2>1 DEF ChannelInv
<1> QED
  BY <1>1, <1>6, <1>7

(* Closing the connection takes nothing out of the stream but by a reset.   *)
LEMMA EndKeeps ==
  ASSUME ChannelInv, ReceiveEnd
  PROVE  ChannelInv'
<1>1. /\ pc = "sock" /\ batch = <<>> /\ conn = "fin" /\ conn' = "gone"
      /\ batch' = <<0>> /\ pc' = "batch" /\ UNCHANGED <<wire, buffer, said, shown>>
  BY DEF ReceiveEnd, SockTaken, ChannelInv, BatchInv
<1>2. Unhandled = <<>> /\ Unhandled' = <<>>
  BY <1>1 DEF Unhandled
<1>3. <<0>> \in Seq(0 .. MaxSaid)
  BY BoundsAssumption
<1>4. StreamTypes' /\ ShownInv' /\ BatchInv'
  BY <1>1, <1>2, <1>3 DEF ChannelInv, StreamTypes, ShownInv, BatchInv, Taken
<1>5. StreamInv'
  BY <1>1, <1>2 DEF ChannelInv, StreamInv, Rest, Taken
<1> QED
  BY <1>4, <1>5 DEF ChannelInv

LEMMA CloseKeeps ==
  ASSUME ChannelInv, ServerCloses
  PROVE  ChannelInv'
<1>1. /\ UNCHANGED <<pc, buffer, batch, said, shown>> /\ conn = "open"
      /\ \/ conn' = "fin" /\ wire' = wire
         \/ conn' = "reset" /\ wire' = <<>>
  BY DEF ServerCloses
<1>2. wire' \in Seq(Piece)
  <2>1. <<>> \in Seq(Piece) /\ wire \in Seq(Piece)
    BY DEF ChannelInv, StreamTypes
  <2> QED
    BY <1>1, <2>1, Zenon
<1>3. StreamTypes' /\ ShownInv' /\ BatchInv'
  BY <1>1, <1>2 DEF ChannelInv, StreamTypes, ShownInv, BatchInv, Taken, Unhandled
<1>4. StreamInv'
  BY <1>1 DEF ChannelInv, StreamInv, Rest, Taken, Unhandled
<1> QED
  BY <1>3, <1>4 DEF ChannelInv

LEMMA ChannelStep ==
  ASSUME ChannelInv, [Next]_vars
  PROVE  ChannelInv'
<1>1. CASE LoopEnds
  BY <1>1, ChannelQuiet DEF LoopEnds, ChannelInv, BatchInv
<1>2. CASE CheckEnds
  BY <1>2, ChannelQuiet DEF CheckEnds, Farewell, ChannelInv, BatchInv
<1>3. CASE Poll
  BY <1>3, ChannelQuiet DEF Poll, ChannelInv, BatchInv
<1>4. CASE StdinLine
  BY <1>4, ChannelQuiet DEF StdinLine, ChannelInv, BatchInv
<1>5. CASE StdinEnds
  BY <1>5, ChannelQuiet DEF StdinEnds, ChannelInv, BatchInv
<1>6. CASE StdinNothing
  BY <1>6, ChannelQuiet DEF StdinNothing, ChannelInv, BatchInv
<1>7. CASE SockNotReady
  BY <1>7, ChannelQuiet DEF SockNotReady, ChannelInv, BatchInv
<1>8. CASE Receive
  BY <1>8, ReceiveKeeps
<1>9. CASE ReceiveEnd
  BY <1>9, EndKeeps
<1>10. CASE ReceiveFails
  BY <1>10, ChannelQuiet DEF ReceiveFails, SockTaken, Farewell, ChannelInv, BatchInv
<1>11. CASE HandleMessage
  BY <1>11, HandleKeeps
<1>12. CASE BatchDone
  BY <1>12, ChannelQuiet DEF BatchDone, ChannelInv, BatchInv
<1>13. CASE Signal
  BY <1>13, ChannelQuiet DEF Signal, ChannelInv, BatchInv
<1>14. CASE Tick
  BY <1>14, ChannelQuiet DEF Tick, ChannelInv, BatchInv
<1>15. CASE Type
  BY <1>15, ChannelQuiet DEF Type, ChannelInv, BatchInv
<1>16. CASE CloseInput
  BY <1>16, ChannelQuiet DEF CloseInput, ChannelInv, BatchInv
<1>17. CASE ServerSays
  BY <1>17, SayKeeps
<1>18. CASE ServerReplies
  BY <1>18, SayKeeps
<1>19. CASE ServerCloses
  BY <1>19, CloseKeeps
<1>20. CASE UNCHANGED vars
  BY <1>20, ChannelQuiet DEF vars, ChannelInv, BatchInv
<1> QED
  BY <1>1, <1>2, <1>3, <1>4, <1>5, <1>6, <1>7, <1>8, <1>9, <1>10, <1>11,
     <1>12, <1>13, <1>14, <1>15, <1>16, <1>17, <1>18, <1>19, <1>20
     DEF Next, Client, Environment
-----------------------------------------------------------------------------
(* The invariant is inductive, and what follows from it. *)

IInv == AppInv /\ GoodbyeInv /\ ChannelInv

LEMMA InvInit == Init => IInv
<1> SUFFICES ASSUME Init PROVE IInv
  OBVIOUS
<1>1. AppInv
  <2>1. revents \in [line : BOOLEAN, hup : BOOLEAN, sock : BOOLEAN]
    BY DEF Init, NoEvents
  <2>2. pipe \in Seq(Typed) /\ cin \in Seq(Typed) /\ toServer \in Seq(Sendable)
    BY DEF Init
  <2>3. got \in 0 .. Len(toServer) /\ typed \in 0 .. MaxLines
    BY BoundsAssumption DEF Init
  <2>4. /\ pc = "poll" /\ state \in States /\ terminating \in BOOLEAN
        /\ reqTime = "none" /\ closed \in BOOLEAN
    BY DEF Init, States
  <2> QED
    BY <2>1, <2>2, <2>3, <2>4 DEF AppInv
<1>2. GoodbyeInv
  BY DEF Init, GoodbyeInv, GoodbyeEnds
<1>3. ChannelInv
  <2>1. Unhandled = <<>> /\ Taken = 0
    BY DEF Init, Unhandled, Taken
  <2>2. Rest = <<>>
    BY DEF Init, Rest
  <2>3. Stretch(<<>>, 0)
    BY DEF Stretch
  <2>4. StreamInv
    BY <2>1, <2>2, <2>3 DEF Init, StreamInv
  <2>5. StreamTypes
    BY BoundsAssumption DEF Init, StreamTypes, EndsOf
  <2>6. ShownInv /\ BatchInv
    BY <2>1 DEF Init, ShownInv, BatchInv
  <2> QED
    BY <2>4, <2>5, <2>6 DEF ChannelInv
<1> QED
  BY <1>1, <1>2, <1>3 DEF IInv

LEMMA InvStep == IInv /\ [Next]_vars => IInv'
  BY AppStep, GoodbyeStep, ChannelStep DEF IInv

(* The inductive invariant: each part of the client's state, the farewells  *)
(* and the stream.                                                          *)
THEOREM Invariance == Spec => []IInv
  BY InvInit, InvStep, PTL DEF Spec

(* Every variable keeps its type, and recv never leaves a complete message  *)
(* in buffer_.                                                              *)
THEOREM TypeCorrect == Spec => []TypeOK
<1>1. IInv => TypeOK
  <2> SUFFICES ASSUME IInv PROVE TypeOK
    OBVIOUS
  <2>1. shown \in Seq(1 .. MaxSaid) /\ batch \in Seq(0 .. MaxSaid)
    BY DEF IInv, ChannelInv, ShownInv, BatchInv
  <2>2. StreamTypes /\ AppInv
    BY DEF IInv, ChannelInv
  <2> QED
    BY <2>1, <2>2, Zenon DEF TypeOK, AppInv, StreamTypes, Typed, Sendable, Said
<1> QED
  BY <1>1, Invariance, PTL

(* After its BYE or ERR the client never sends a request or a text.         *)
THEOREM GoodbyeEndsAlways == Spec => []GoodbyeEnds
<1>1. IInv => GoodbyeEnds
  BY DEF IInv, GoodbyeInv
<1> QED
  BY <1>1, Invariance, PTL

LEMMA RunsJoin ==
  ASSUME NEW s \in Seq(Nat), NEW u \in Seq(Nat),
         \A k \in 1 .. Len(s) : s[k] = k,
         \A k \in 1 .. Len(u) : u[k] = Len(s) + k
  PROVE  /\ s \o u \in Seq(Nat) /\ Len(s \o u) = Len(s) + Len(u)
         /\ \A k \in 1 .. Len(s \o u) : (s \o u)[k] = k
<1>1. /\ s \o u \in Seq(Nat) /\ Len(s \o u) = Len(s) + Len(u)
      /\ \A k \in 1 .. Len(s) : (s \o u)[k] = s[k]
      /\ \A k \in 1 .. Len(u) : (s \o u)[Len(s) + k] = u[k]
  BY ConcatElements
<1> DEFINE r == s \o u
<1> HIDE DEF r
<1>2. ASSUME NEW k \in 1 .. Len(r) PROVE r[k] = k
  <2>1. CASE k \in 1 .. Len(s)
    BY <1>1, <2>1 DEF r
  <2>2. CASE k \notin 1 .. Len(s)
    <3>1. PICK d \in 1 .. Len(u) : k = Len(s) + d
      <4>1. k - Len(s) \in 1 .. Len(u) /\ k = Len(s) + (k - Len(s))
        BY <1>1, <2>2 DEF r
      <4> QED
        BY <4>1
    <3> QED
      BY <1>1, <3>1 DEF r
  <2> QED
    BY <2>1, <2>2
<1> QED
  BY <1>1, <1>2 DEF r

(* Nothing that the server has said is lost on its way to the user.         *)
THEOREM NothingLostAlways == Spec => []NothingLost
<1>1. IInv => NothingLost
  <2> SUFFICES ASSUME IInv, pc # "ended", conn # "reset"
               PROVE  /\ shown \o Unhandled \o MessagesIn(Rest) = Numbers
                      /\ \A k \in EndsOf(Rest) :
                           k > 1 /\ Rest[k - 1] = [Rest[k] EXCEPT !.half = 1]
                      /\ Len(Rest) = 2 * Count(Rest)
    BY DEF NothingLost, Rest
  <2> DEFINE m == Len(said) - Taken
  <2>1. /\ Taken \in Nat /\ Len(said) \in Nat /\ Len(shown) \in Nat
        /\ Rest \in Seq(Piece)
    BY ChannelNumbers DEF IInv
  <2>2. Stretch(Rest, Taken) /\ Len(Rest) = 2 * m /\ m \in Nat
    BY <2>1 DEF IInv, ChannelInv, StreamInv, BatchInv
  <2> HIDE DEF m
  <2>3. /\ EndsOf(Rest) = {2 * j : j \in 1 .. m} /\ Count(Rest) = m
        /\ MessagesIn(Rest) = Run(Taken, m)
    BY <2>1, <2>2, StretchEnds, StretchCount, StretchMessages
  <2>4. ASSUME NEW k \in EndsOf(Rest)
        PROVE  k > 1 /\ Rest[k - 1] = [Rest[k] EXCEPT !.half = 1]
    <3>1. PICK j \in 1 .. m : k = 2 * j
      BY <2>3
    <3>2. Rest[2 * j - 1] = First(Taken + j) /\ Rest[2 * j] = Second(Taken + j)
      BY <2>2 DEF Stretch
    <3>3. First(Taken + j) = [Second(Taken + j) EXCEPT !.half = 1]
      BY DEF First, Second
    <3> QED
      BY <2>2, <3>1, <3>2, <3>3
  <2>5. /\ Unhandled \in Seq(Nat) /\ shown \in Seq(Nat)
        /\ \A k \in 1 .. Len(shown) : shown[k] = k
        /\ \A k \in 1 .. Len(Unhandled) : Unhandled[k] = Len(shown) + k
    <3>1. /\ batch \in Seq(Nat) /\ shown \in Seq(Nat)
          /\ \A k \in 1 .. Len(shown) : shown[k] = k
      BY BoundsAssumption DEF IInv, ChannelInv, ShownInv, BatchInv
    <3>2. CASE batch = <<0>>
      <4>1. Unhandled = <<>>
        BY <3>2 DEF Unhandled
      <4> QED
        BY <3>1, <4>1
    <3>3. CASE batch # <<0>>
      <4>1. Unhandled = batch
        BY <3>3 DEF Unhandled
      <4> QED
        BY <3>1, <3>3, <4>1 DEF IInv, ChannelInv, BatchInv
    <3> QED
      BY <3>2, <3>3
  <2>6. /\ shown \o Unhandled \in Seq(Nat) /\ Len(shown \o Unhandled) = Taken
        /\ \A k \in 1 .. Len(shown \o Unhandled) : (shown \o Unhandled)[k] = k
    BY <2>5, RunsJoin DEF Taken
  <2>7. /\ Run(Taken, m) \in Seq(Nat) /\ Len(Run(Taken, m)) = m
        /\ \A k \in 1 .. Len(Run(Taken, m)) : Run(Taken, m)[k] = Taken + k
    BY <2>1, <2>2 DEF Run
  <2> DEFINE all == shown \o Unhandled \o Run(Taken, m)
  <2>8. /\ all \in Seq(Nat) /\ Len(all) = Taken + m
        /\ \A k \in 1 .. Len(all) : all[k] = k
    BY <2>6, <2>7, RunsJoin
  <2>9. Numbers \in Seq(Nat) /\ Len(Numbers) = Taken + m
        /\ \A k \in 1 .. Taken + m : Numbers[k] = k
    BY <2>1, <2>2 DEF Numbers, m, IInv, ChannelInv, StreamTypes
  <2> HIDE DEF all
  <2>10. all = Numbers
    BY <2>1, <2>2, <2>8, <2>9
  <2> QED
    BY <2>2, <2>3, <2>4, <2>10 DEF all
<1> QED
  BY <1>1, Invariance, PTL
-----------------------------------------------------------------------------
(* The refinement of OrderedChannel. *)

LEMMA ChannelInit == Init => Channel!Init
<1> SUFFICES ASSUME Init PROVE Numbers = <<>> /\ shown = <<>>
  BY DEF Channel!Init
<1>1. DOMAIN said = {}
  BY DEF Init
<1> QED
  BY <1>1 DEF Init, Numbers

(* A message that the server sends is one that the channel sends, the       *)
(* handling of one is its showing, and no other step is seen.               *)
LEMMA ChannelRefined ==
  ASSUME IInv, [Next]_vars
  PROVE  [Channel!Send \/ Channel!Show]_<<Numbers, shown>>
<1>1. CASE ServerSays \/ ServerReplies
  <2>1. PICK m \in Said : said' = Append(said, m)
    BY <1>1, SayFacts DEF IInv, ChannelInv, StreamTypes
  <2>2. Len(said) < MaxSaid /\ UNCHANGED shown
    BY <1>1, SayFacts DEF IInv, ChannelInv, StreamTypes
  <2>3. Len(said) \in Nat /\ DOMAIN said = 1 .. Len(said)
        /\ DOMAIN said' = 1 .. Len(said) + 1
    BY <2>1, AppendElements DEF IInv, ChannelInv, StreamTypes
  <2>4. Numbers = [k \in 1 .. Len(said) |-> k] /\ Numbers' = [k \in 1 .. Len(said) + 1 |-> k]
    BY <2>3 DEF Numbers
  <2>5. Numbers' = Append(Numbers, Len(said) + 1)
    BY <2>3, <2>4
  <2>6. Len(said) + 1 \in 1 .. MaxSaid
    BY <2>2, <2>3, BoundsAssumption
  <2> QED
    BY <2>2, <2>5, <2>6 DEF Channel!Send
<1>2. CASE HandleMessage
  <2>1. UNCHANGED said
    BY <1>2 DEF HandleMessage
  <2>2. UNCHANGED Numbers
    BY <2>1 DEF Numbers
  <2>3. CASE UNCHANGED shown
    BY <2>2, <2>3
  <2>4. CASE Len(shown) < Len(said) /\ shown' = Append(shown, Len(shown) + 1)
    <3>1. said \in Seq(Said) /\ Len(shown) \in Nat /\ Len(said) \in Nat
      BY DEF IInv, ChannelInv, StreamTypes, ShownInv
    <3>2. Numbers = [k \in 1 .. Len(said) |-> k]
      BY <3>1 DEF Numbers
    <3>3. Len(Numbers) = Len(said) /\ Numbers[Len(shown) + 1] = Len(shown) + 1
      BY <2>4, <3>1, <3>2
    <3> QED
      BY <2>2, <2>4, <3>3 DEF Channel!Show
  <2> QED
    BY <1>2, <2>3, <2>4, HandleShows DEF IInv
<1>3. ASSUME UNCHANGED <<said, shown>>
      PROVE  UNCHANGED <<Numbers, shown>>
  BY <1>3 DEF Numbers
<1>4. \/ ServerSays \/ ServerReplies \/ HandleMessage
      \/ UNCHANGED <<said, shown>>
  BY DEF Next, Client, Environment, LoopEnds, CheckEnds, Poll, StdinLine,
         StdinEnds, StdinNothing, SockNotReady, Receive, ReceiveEnd, ReceiveFails,
         BatchDone, Signal, Tick, Type, CloseInput, ServerCloses, vars
<1> QED
  BY <1>1, <1>2, <1>3, <1>4

(* The user sees the messages of the server once each and in order.         *)
THEOREM InOrderAlways == Spec => InOrder
<1>1. Spec => [][Channel!Send \/ Channel!Show]_<<Numbers, shown>>
  BY ChannelRefined, Invariance, PTL DEF Spec
<1> QED
  BY <1>1, ChannelInit, PTL DEF Spec, InOrder, Channel!Spec
=============================================================================
