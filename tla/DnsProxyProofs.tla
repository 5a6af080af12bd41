--------------------------- MODULE DnsProxyProofs ---------------------------
(***************************************************************************)
(* Proofs about DnsProxy, for any queries, list of names, ids, timeout and *)
(* socket buffers.                                                         *)
(***************************************************************************)
EXTENDS DnsProxy, SequenceTheorems, TLAPS

Answers == [fid : FwdIds, q : Queries, good : {TRUE}, awaited : BOOLEAN]
Entries == [q : Queries, age : 0 .. Timeout + 1]

Good(k) == k \in 1 .. Len(upBuf) /\ upBuf[k].good
Due(k) == Good(k) /\ upBuf[k].awaited

(* The table, the sockets and the network. *)
Types ==
  /\ InUse \subseteq FwdIds /\ active \in [InUse -> Entries]
  /\ listenBuf \in Seq(Queries)
  /\ upBuf \in Seq(Answers \cup {Junk})
  /\ upstream \subseteq FwdIds \X Queries

(* An answer that was awaited when it came has its entry as long as it is   *)
(* in the socket, and no answer before it can take that entry away.         *)
Routed ==
  pc # "ended" =>
    \A k : Due(k) =>
      /\ upBuf[k].fid \in InUse /\ active[upBuf[k].fid].q = upBuf[k].q
      /\ \A j : Good(j) /\ j < k => upBuf[j].fid # upBuf[k].fid

(* What the proofs use of sequences. *)
LEMMA TailElements ==
  ASSUME NEW S, NEW s \in Seq(S), s # <<>>
  PROVE  /\ Tail(s) \in Seq(S) /\ Head(s) \in S /\ Head(s) = s[1]
         /\ Len(s) \in Nat \ {0} /\ Len(Tail(s)) = Len(s) - 1
         /\ \A k \in 1 .. Len(Tail(s)) : Tail(s)[k] = s[k + 1]
  OBVIOUS

LEMMA AppendElements ==
  ASSUME NEW S, NEW s \in Seq(S), NEW e \in S
  PROVE  /\ Append(s, e) \in Seq(S) /\ Len(s) \in Nat
         /\ Len(Append(s, e)) = Len(s) + 1
         /\ Append(s, e)[Len(s) + 1] = e
         /\ \A k \in 1 .. Len(s) : Append(s, e)[k] = s[k]
  OBVIOUS

LEMMA Appended ==
  ASSUME Types, NEW a \in Answers \cup {Junk}, upBuf' = Append(upBuf, a)
  PROVE  /\ upBuf' \in Seq(Answers \cup {Junk}) /\ Len(upBuf) \in Nat
         /\ Len(upBuf') = Len(upBuf) + 1 /\ upBuf'[Len(upBuf) + 1] = a
         /\ \A k \in 1 .. Len(upBuf) : upBuf'[k] = upBuf[k]
<1>1. upBuf \in Seq(Answers \cup {Junk})
  BY DEF Types
<1> QED
  BY <1>1, AppendElements

(* What poll has reported is still there when it is read. *)
Reported ==
  /\ (pc = "query" /\ ready.listen) => listenBuf # <<>>
  /\ (pc \in {"query", "answer"} /\ ready.up) => upBuf # <<>>

LEMMA Listening == ASSUME Reported, NEW q, TakeQuery(q) PROVE listenBuf # <<>>
  BY DEF Reported, TakeQuery

(* Where the loop is, and what poll has reported. *)
LoopTypes ==
  /\ pc \in {"check", "poll", "query", "answer", "ended"}
  /\ running \in BOOLEAN
  /\ ready \in [listen : BOOLEAN, up : BOOLEAN]

LEMMA LoopStep ==
  ASSUME LoopTypes, [Next]_vars
  PROVE  LoopTypes'
<1>1. CASE PollReady
  BY <1>1 DEF PollReady, LoopTypes
<1>2. CASE PollTimeout
  BY <1>2 DEF PollTimeout, LoopTypes
<1>3. CASE Stop
  BY <1>3 DEF Stop, LoopTypes
<1>4. CASE NoQuery
  BY <1>4 DEF NoQuery, LoopTypes
<1>5. CASE Forward
  BY <1>5 DEF Forward, TakeQuery, ToUpstream, LoopTypes
<1>6. CASE ForwardFails
  BY <1>6 DEF ForwardFails, TakeQuery, ToUpstream, LoopTypes
<1>7. CASE ForwardDropped
  BY <1>7 DEF ForwardDropped, TakeQuery, LoopTypes
<1>8. CASE Refuse
  BY <1>8 DEF Refuse, TakeQuery, ToUpstream, LoopTypes
<1>9. CASE NoAnswer
  BY <1>9 DEF NoAnswer, LoopTypes
<1>10. CASE Relay
  BY <1>10 DEF Relay, TakeAnswer, PollAgain, LoopTypes
<1>11. CASE DropAnswer
  BY <1>11 DEF DropAnswer, TakeAnswer, PollAgain, LoopTypes
<1>12. CASE QueryArrives
  BY <1>12 DEF QueryArrives, LoopTypes
<1>13. CASE AnswerArrives
  BY <1>13 DEF AnswerArrives, LoopTypes
<1>14. CASE JunkArrives
  BY <1>14 DEF JunkArrives, LoopTypes
<1>15. CASE Tick
  BY <1>15 DEF Tick, LoopTypes
<1>16. CASE Signal
  BY <1>16 DEF Signal, LoopTypes
<1>17. CASE UNCHANGED vars
  BY <1>17 DEF vars, LoopTypes
<1>18. CASE LoopCheck
  BY <1>18 DEF LoopCheck, LoopTypes
<1>19. CASE PollInterrupted
  BY <1>19 DEF PollInterrupted, LoopTypes
<1>20. QED
  BY <1>1, <1>2, <1>3, <1>4, <1>5, <1>6, <1>7, <1>8, <1>9, <1>10, <1>11,
       <1>12, <1>13, <1>14, <1>15, <1>16, <1>17, <1>18, <1>19 DEF Next, Server, Environment

(* Nobody else reads the sockets. *)
LEMMA ReportedStep ==
  ASSUME Types, Reported, [Next]_vars
  PROVE  Reported'
<1> USE ConstantsAssumption
<1>1. CASE PollReady
  BY <1>1 DEF PollReady, Reported
<1>2. CASE PollTimeout
  BY <1>2 DEF PollTimeout, Cleanup, Kept, InUse, Expired, Reported
<1>3. CASE Stop
  BY <1>3 DEF Stop, Stops, Reported
<1>4. CASE NoQuery
  BY <1>4 DEF NoQuery, Reported
<1>5. CASE Forward
  BY <1>5 DEF Forward, TakeQuery, ToUpstream, Allocate, Added, InUse, Free,
       Reported
<1>6. CASE ForwardFails
  BY <1>6 DEF ForwardFails, TakeQuery, ToUpstream, DropMapping, Reported
<1>7. CASE ForwardDropped
  BY <1>7 DEF ForwardDropped, TakeQuery, Reported
<1>8. CASE Refuse
  BY <1>8 DEF Refuse, TakeQuery, ToUpstream, Reported
<1>9. CASE NoAnswer
  BY <1>9 DEF NoAnswer, Reported
<1>10. CASE Relay
  BY <1>10 DEF Relay, TakeAnswer, PollAgain, Kept, InUse, Reported
<1>11. CASE DropAnswer
  BY <1>11 DEF DropAnswer, TakeAnswer, PollAgain, InUse, Reported
<1>12. CASE QueryArrives
  BY <1>12, AppendElements DEF QueryArrives, Types, Reported
<1>13. CASE AnswerArrives
  <2>1. PICK fid \in FwdIds, q \in Queries :
          upBuf' = Append(upBuf, Answer(fid, q, TRUE, Awaited(fid, q)))
    BY <1>13 DEF AnswerArrives
  <2>2. Answer(fid, q, TRUE, Awaited(fid, q)) \in Answers \cup {Junk}
    BY DEF Answer, Answers, Awaited
  <2>3. upBuf' # <<>>
    <3>1. upBuf' = Append(upBuf, Answer(fid, q, TRUE, Awaited(fid, q)))
      BY <2>1
    <3>2. Len(upBuf') = Len(upBuf) + 1 /\ Len(upBuf) \in Nat
      BY <2>2, <3>1, Appended
    <3> QED
      BY <3>2
  <2> QED
    BY <1>13, <2>3 DEF AnswerArrives, Reported
<1>14. CASE JunkArrives
  BY <1>14, AppendElements DEF JunkArrives, Types, Reported
<1>15. CASE Tick
  BY <1>15 DEF Tick, InUse, Expired, Reported
<1>16. CASE Signal
  BY <1>16 DEF Signal, Reported
<1>17. CASE UNCHANGED vars
  BY <1>17 DEF vars, Reported
<1>18. CASE LoopCheck
  BY <1>18 DEF LoopCheck, Reported
<1>19. CASE PollInterrupted
  BY <1>19 DEF PollInterrupted, Reported
<1>20. QED
  BY <1>1, <1>2, <1>3, <1>4, <1>5, <1>6, <1>7, <1>8, <1>9, <1>10, <1>11,
       <1>12, <1>13, <1>14, <1>15, <1>16, <1>17, <1>18, <1>19 DEF Next, Server, Environment

(* The types. *)
LEMMA TypesStep ==
  ASSUME Types, Reported, [Next]_vars
  PROVE  Types'
<1> USE ConstantsAssumption
<1>1. CASE PollReady
  BY <1>1 DEF PollReady, Types, InUse
<1>2. CASE PollTimeout
  BY <1>2 DEF PollTimeout, Cleanup, Kept, InUse, Expired, Types, InUse
<1>3. CASE Stop
  BY <1>3 DEF Stop, Types, InUse
<1>4. CASE NoQuery
  BY <1>4 DEF NoQuery, Types, InUse
<1>5. CASE Forward
  <2>1. PICK q \in Queries, fid \in FwdIds :
          /\ active' = Added(fid, q)
          /\ upstream' = upstream \cup {<<fid, q>>}
          /\ listenBuf' = Tail(listenBuf) /\ upBuf' = upBuf
    BY <1>5 DEF Forward, TakeQuery, Allocate
  <2>2. listenBuf' \in Seq(Queries)
    BY <1>5, <2>1, Listening, TailElements DEF Forward, TakeQuery, Types
  <2>3. [q |-> q, age |-> 0] \in Entries
    BY DEF Entries
  <2>4. InUse' \subseteq FwdIds /\ active' \in [InUse' -> Entries]
    BY <2>1, <2>3 DEF Added, InUse, Types
  <2> QED
    BY <2>1, <2>2, <2>4 DEF Types
<1>6. CASE ForwardFails
  <2>1. listenBuf # <<>> /\ listenBuf' = Tail(listenBuf) /\ UNCHANGED <<active, upBuf, upstream>>
    BY <1>6, Listening DEF ForwardFails, TakeQuery, DropMapping
  <2> QED
    BY <2>1, TailElements DEF Types, InUse
<1>7. CASE ForwardDropped
  <2>1. listenBuf # <<>> /\ listenBuf' = Tail(listenBuf) /\ UNCHANGED <<active, upBuf, upstream>>
    BY <1>7, Listening DEF ForwardDropped, TakeQuery, DropMapping
  <2> QED
    BY <2>1, TailElements DEF Types, InUse
<1>8. CASE Refuse
  <2>1. listenBuf # <<>> /\ listenBuf' = Tail(listenBuf) /\ UNCHANGED <<active, upBuf, upstream>>
    BY <1>8, Listening DEF Refuse, TakeQuery, DropMapping
  <2> QED
    BY <2>1, TailElements DEF Types, InUse
<1>9. CASE NoAnswer
  BY <1>9 DEF NoAnswer, Types, InUse
<1>10. CASE Relay
  <2>1. upBuf' \in Seq(Answers \cup {Junk})
    BY <1>10, TailElements DEF Relay, TakeAnswer, Types
  <2> QED
    BY <1>10, <2>1 DEF Relay, TakeAnswer, Kept, Types, InUse
<1>11. CASE DropAnswer
  <2>1. upBuf' \in Seq(Answers \cup {Junk})
    BY <1>11, TailElements DEF DropAnswer, TakeAnswer, Types
  <2> QED
    BY <1>11, <2>1 DEF DropAnswer, TakeAnswer, Kept, Types, InUse
<1>12. CASE QueryArrives
  BY <1>12, AppendElements DEF QueryArrives, Types, InUse
<1>13. CASE AnswerArrives
  <2>1. PICK fid \in FwdIds, q \in Queries :
          upBuf' = Append(upBuf, Answer(fid, q, TRUE, Awaited(fid, q)))
    BY <1>13 DEF AnswerArrives
  <2>2. Answer(fid, q, TRUE, Awaited(fid, q)) \in Answers \cup {Junk}
    BY DEF Answer, Answers, Awaited
  <2>3. upBuf' \in Seq(Answers \cup {Junk})
    BY <2>1, <2>2, AppendElements DEF Types
  <2> QED
    BY <1>13, <2>1, <2>3 DEF AnswerArrives, Types, InUse
<1>14. CASE JunkArrives
  BY <1>14, AppendElements DEF JunkArrives, Types, InUse
<1>15. CASE Tick
  <2>1. \A fid \in InUse : active'[fid] \in Entries
    <3> TAKE fid \in InUse
    <3>1. active[fid] \in Entries
      BY DEF Types
    <3>2. CASE Expired(fid)
      BY <1>15, <3>1, <3>2 DEF Tick
    <3>3. CASE ~Expired(fid)
      <4>1. active'[fid] = [active[fid] EXCEPT !.age = @ + 1]
        BY <1>15, <3>3 DEF Tick
      <4>2. active[fid].age \in 0 .. Timeout
        BY <3>1, <3>3 DEF Expired, Entries
      <4> QED
        BY <3>1, <4>1, <4>2 DEF Entries
    <3> QED
      BY <3>2, <3>3
  <2> QED
    BY <1>15, <2>1 DEF Tick, Types, InUse
<1>16. CASE Signal
  BY <1>16 DEF Signal, Types, InUse
<1>17. CASE UNCHANGED vars
  BY <1>17 DEF vars, Types, InUse
<1>18. CASE LoopCheck
  BY <1>18 DEF LoopCheck, Types, InUse
<1>19. CASE PollInterrupted
  BY <1>19 DEF PollInterrupted, Types, InUse
<1>20. QED
  BY <1>1, <1>2, <1>3, <1>4, <1>5, <1>6, <1>7, <1>8, <1>9, <1>10, <1>11,
       <1>12, <1>13, <1>14, <1>15, <1>16, <1>17, <1>18, <1>19 DEF Next, Server, Environment

(* An awaited answer keeps its entry until it is read. *)
LEMMA RoutedStep ==
  ASSUME Types, Routed, [Next]_vars
  PROVE  Routed'
<1> USE ConstantsAssumption
<1>1. CASE PollReady
  BY <1>1 DEF PollReady, Routed, Due, Good, InUse
<1>2. CASE PollTimeout
  BY <1>2 DEF PollTimeout, Routed, Due, Good
<1>3. CASE Stop
  BY <1>3 DEF Stop, Routed
<1>4. CASE NoQuery
  BY <1>4 DEF NoQuery, Routed, Due, Good, InUse
<1>5. CASE Forward
  <2>1. PICK q \in Queries, fid \in FwdIds :
          pc = "query" /\ fid \notin InUse /\ active' = Added(fid, q) /\ upBuf' = upBuf
    BY <1>5 DEF Forward, TakeQuery, Allocate, Free
  <2>2. InUse' = InUse \cup {fid} /\ (\A f \in InUse : active'[f] = active[f])
    BY <2>1 DEF Added, InUse
  <2> QED
    BY <2>1, <2>2 DEF Routed, Due, Good
<1>6. CASE ForwardFails
  BY <1>6 DEF ForwardFails, TakeQuery, ToUpstream, DropMapping, Routed, Due, Good,
       InUse
<1>7. CASE ForwardDropped
  BY <1>7 DEF ForwardDropped, TakeQuery, Routed, Due, Good, InUse
<1>8. CASE Refuse
  BY <1>8 DEF Refuse, TakeQuery, ToUpstream, Routed, Due, Good, InUse
<1>9. CASE NoAnswer
  BY <1>9 DEF NoAnswer, Routed, Due, Good, InUse
<1>10. CASE Relay
  <2>1. upBuf # <<>> /\ upBuf' = Tail(upBuf) /\ pc = "answer"
    BY <1>10 DEF Relay, TakeAnswer
  <2>2. \A k : Good(k)' => Good(k + 1) /\ k \in Nat \ {0} /\ upBuf'[k] = upBuf[k + 1]
    BY <2>1, TailElements DEF Good, Types
  <2>3. Good(1) /\ Head(upBuf) = upBuf[1]
    BY <1>10, <2>1, TailElements DEF Relay, Good, Types
  <2>4. InUse' = InUse \ {upBuf[1].fid} /\ (\A f \in InUse' : active'[f] = active[f])
    BY <1>10, <2>3 DEF Relay, Kept, InUse
  <2>5. SUFFICES ASSUME NEW k, Due(k)'
        PROVE  /\ upBuf'[k].fid \in InUse' /\ active'[upBuf'[k].fid].q = upBuf'[k].q
               /\ \A j : Good(j)' /\ j < k => upBuf'[j].fid # upBuf'[k].fid
    BY DEF Routed
  <2>6. Due(k + 1) /\ k \in Nat \ {0} /\ upBuf'[k] = upBuf[k + 1]
    BY <2>2, <2>5 DEF Due
  <2>7. /\ upBuf[k + 1].fid \in InUse
        /\ active[upBuf[k + 1].fid].q = upBuf[k + 1].q
        /\ \A j : Good(j) /\ j < k + 1 => upBuf[j].fid # upBuf[k + 1].fid
    BY <2>1, <2>6 DEF Routed
  <2>8. upBuf[1].fid # upBuf[k + 1].fid
    BY <2>3, <2>6, <2>7
  <2>9. ASSUME NEW j, Good(j)', j < k
        PROVE  upBuf'[j].fid # upBuf'[k].fid
    <3>1. Good(j + 1) /\ j + 1 < k + 1 /\ upBuf'[j] = upBuf[j + 1]
      BY <2>2, <2>6, <2>9
    <3> QED
      BY <2>6, <2>7, <3>1
  <2> QED
    BY <2>4, <2>6, <2>7, <2>8, <2>9
<1>11. CASE DropAnswer
  <2>1. upBuf # <<>> /\ upBuf' = Tail(upBuf) /\ pc = "answer"
    BY <1>11 DEF DropAnswer, TakeAnswer
  <2>2. \A k : Good(k)' => Good(k + 1) /\ k \in Nat \ {0} /\ upBuf'[k] = upBuf[k + 1]
    BY <2>1, TailElements DEF Good, Types
  <2>4. active' = active /\ InUse' = InUse
    BY <1>11 DEF DropAnswer, TakeAnswer, InUse
  <2>5. SUFFICES ASSUME NEW k, Due(k)'
        PROVE  /\ upBuf'[k].fid \in InUse' /\ active'[upBuf'[k].fid].q = upBuf'[k].q
               /\ \A j : Good(j)' /\ j < k => upBuf'[j].fid # upBuf'[k].fid
    BY DEF Routed
  <2>6. Due(k + 1) /\ k \in Nat \ {0} /\ upBuf'[k] = upBuf[k + 1]
    BY <2>2, <2>5 DEF Due
  <2>7. /\ upBuf[k + 1].fid \in InUse
        /\ active[upBuf[k + 1].fid].q = upBuf[k + 1].q
        /\ \A j : Good(j) /\ j < k + 1 => upBuf[j].fid # upBuf[k + 1].fid
    BY <2>1, <2>6 DEF Routed
  <2>9. ASSUME NEW j, Good(j)', j < k
        PROVE  upBuf'[j].fid # upBuf'[k].fid
    <3>1. Good(j + 1) /\ j + 1 < k + 1 /\ upBuf'[j] = upBuf[j + 1]
      BY <2>2, <2>6, <2>9
    <3> QED
      BY <2>6, <2>7, <3>1
  <2> QED
    BY <2>4, <2>6, <2>7, <2>9
<1>12. CASE QueryArrives
  BY <1>12 DEF QueryArrives, Routed, Due, Good, InUse
<1>13. CASE AnswerArrives
  <2>1. PICK fid \in FwdIds, q \in Queries :
          upBuf' = Append(upBuf, Answer(fid, q, TRUE, Awaited(fid, q)))
    BY <1>13 DEF AnswerArrives
  <2>2. Answer(fid, q, TRUE, Awaited(fid, q)) \in Answers \cup {Junk}
    BY DEF Answer, Answers, Awaited
  <2>3. \A k : Good(k)' <=> Good(k) \/ k = Len(upBuf) + 1
    BY <2>1, <2>2, AppendElements DEF Good, Types, Answer
  <2>4. /\ Len(upBuf) \in Nat
        /\ \A k : Good(k) => upBuf'[k] = upBuf[k] /\ k \in 1 .. Len(upBuf)
        /\ upBuf'[Len(upBuf) + 1] = Answer(fid, q, TRUE, Awaited(fid, q))
    BY <2>1, <2>2, Appended DEF Good
  <2>5. /\ Answer(fid, q, TRUE, Awaited(fid, q)).fid = fid
        /\ Answer(fid, q, TRUE, Awaited(fid, q)).q = q
        /\ Answer(fid, q, TRUE, Awaited(fid, q)).awaited = Awaited(fid, q)
    BY DEF Answer
  <2>6. pc # "ended" /\ active' = active /\ InUse' = InUse
    BY <1>13 DEF AnswerArrives, InUse
  <2>7. SUFFICES ASSUME NEW k, Due(k)'
        PROVE  /\ upBuf'[k].fid \in InUse /\ active[upBuf'[k].fid].q = upBuf'[k].q
               /\ \A j : Good(j)' /\ j < k => upBuf'[j].fid # upBuf'[k].fid
    BY <2>6 DEF Routed
  <2>8. CASE Good(k)
    <3>1. Due(k) /\ upBuf'[k] = upBuf[k]
      BY <2>4, <2>7, <2>8 DEF Due
    <3>2. /\ upBuf[k].fid \in InUse /\ active[upBuf[k].fid].q = upBuf[k].q
          /\ \A j : Good(j) /\ j < k => upBuf[j].fid # upBuf[k].fid
      BY <2>6, <3>1 DEF Routed
    <3>3. ASSUME NEW j, Good(j)', j < k PROVE Good(j)
      BY <2>3, <2>4, <2>8, <3>3
    <3> QED
      BY <2>4, <3>1, <3>2, <3>3
  <2>9. CASE k = Len(upBuf) + 1
    <3>1. upBuf'[k].fid = fid /\ upBuf'[k].q = q /\ Awaited(fid, q)
      BY <2>4, <2>5, <2>7, <2>9 DEF Due
    <3>2. fid \in InUse /\ active[fid].q = q /\ (\A j : Good(j) => upBuf[j].fid # fid)
      BY <3>1 DEF Awaited, Good
    <3>3. ASSUME NEW j, Good(j)', j < k PROVE Good(j)
      BY <2>3, <2>4, <2>9, <3>3
    <3> QED
      BY <2>4, <3>1, <3>2, <3>3
  <2> QED
    BY <2>3, <2>7, <2>8, <2>9 DEF Due
<1>14. CASE JunkArrives
  <2>1. \A k : Good(k)' <=> Good(k)
    BY <1>14, AppendElements DEF JunkArrives, Good, Types, Junk, Answer
  <2>2. \A k : Good(k) => upBuf'[k] = upBuf[k]
    BY <1>14, AppendElements DEF JunkArrives, Good, Types
  <2>3. UNCHANGED <<pc, active>> /\ InUse' = InUse
    BY <1>14 DEF JunkArrives, InUse
  <2>4. \A k : Due(k)' => Due(k) /\ upBuf'[k] = upBuf[k]
    BY <2>1, <2>2 DEF Due
  <2> QED
    BY <2>1, <2>2, <2>3, <2>4 DEF Routed
<1>15. CASE Tick
  <2>1. InUse' = InUse /\ (\A fid \in InUse : active'[fid].q = active[fid].q)
    BY <1>15 DEF Tick, InUse, Types, Entries
  <2>2. UNCHANGED <<pc, upBuf>>
    BY <1>15 DEF Tick
  <2> QED
    BY <2>1, <2>2 DEF Routed, Due, Good
<1>16. CASE Signal
  BY <1>16 DEF Signal, Routed, Due, Good, InUse
<1>17. CASE UNCHANGED vars
  BY <1>17 DEF vars, Routed, Due, Good, InUse
<1>18. CASE LoopCheck
  BY <1>18 DEF LoopCheck, Routed, Due, Good, InUse
<1>19. CASE PollInterrupted
  BY <1>19 DEF PollInterrupted, Routed, Due, Good, InUse
<1>20. QED
  BY <1>1, <1>2, <1>3, <1>4, <1>5, <1>6, <1>7, <1>8, <1>9, <1>10, <1>11,
       <1>12, <1>13, <1>14, <1>15, <1>16, <1>17, <1>18, <1>19 DEF Next, Server, Environment

(* The entry popped is that of the query answered. *)
LEMMA ClientStep ==
  ASSUME Types, Routed, RightClient, [Next]_vars
  PROVE  RightClient'
<1> USE ConstantsAssumption
<1>1. CASE PollReady
  BY <1>1 DEF PollReady, RightClient, Reply
<1>2. CASE PollTimeout
  BY <1>2 DEF PollTimeout, Cleanup, Kept, InUse, Expired, RightClient, Reply
<1>3. CASE Stop
  BY <1>3 DEF Stop, Stops, RightClient, Reply
<1>4. CASE NoQuery
  BY <1>4 DEF NoQuery, RightClient, Reply
<1>5. CASE Forward
  BY <1>5 DEF Forward, TakeQuery, ToUpstream, Allocate, Added, InUse, Free,
       RightClient, Reply
<1>6. CASE ForwardFails
  BY <1>6 DEF ForwardFails, TakeQuery, ToUpstream, DropMapping, RightClient,
       Reply
<1>7. CASE ForwardDropped
  BY <1>7 DEF ForwardDropped, TakeQuery, RightClient, Reply
<1>8. CASE Refuse
  BY <1>8 DEF Refuse, TakeQuery, ToUpstream, RightClient, Reply
<1>9. CASE NoAnswer
  BY <1>9 DEF NoAnswer, RightClient, Reply
<1>10. CASE Relay
  <2>1. Good(1) /\ Head(upBuf) = upBuf[1] /\ pc # "ended"
    BY <1>10, TailElements DEF Relay, TakeAnswer, Good, Types
  <2>2. upBuf[1].awaited => active[upBuf[1].fid].q = upBuf[1].q
    BY <2>1 DEF Routed, Due
  <2>3. lastReply' = {Reply(active[upBuf[1].fid].q.client, active[upBuf[1].fid].q.id,
                            "ANSWER", upBuf[1].q, upBuf[1].awaited)}
    BY <1>10, <2>1 DEF Relay
  <2> QED
    BY <2>2, <2>3 DEF RightClient, Reply
<1>11. CASE DropAnswer
  BY <1>11 DEF DropAnswer, TakeAnswer, PollAgain, InUse, RightClient, Reply
<1>12. CASE QueryArrives
  BY <1>12 DEF QueryArrives, RightClient, Reply
<1>13. CASE AnswerArrives
  BY <1>13 DEF AnswerArrives, RightClient, Reply
<1>14. CASE JunkArrives
  BY <1>14 DEF JunkArrives, RightClient, Reply
<1>15. CASE Tick
  BY <1>15 DEF Tick, InUse, Expired, RightClient, Reply
<1>16. CASE Signal
  BY <1>16 DEF Signal, RightClient, Reply
<1>17. CASE UNCHANGED vars
  BY <1>17 DEF vars, RightClient, Reply
<1>18. CASE LoopCheck
  BY <1>18 DEF LoopCheck, RightClient, Reply
<1>19. CASE PollInterrupted
  BY <1>19 DEF PollInterrupted, RightClient, Reply
<1>20. QED
  BY <1>1, <1>2, <1>3, <1>4, <1>5, <1>6, <1>7, <1>8, <1>9, <1>10, <1>11,
       <1>12, <1>13, <1>14, <1>15, <1>16, <1>17, <1>18, <1>19 DEF Next, Server, Environment

(* What the table holds has been sent. *)
LEMMA MappedStep ==
  ASSUME Types, MappedIsForwarded, [Next]_vars
  PROVE  MappedIsForwarded'
<1> USE ConstantsAssumption
<1>1. CASE PollReady
  BY <1>1 DEF PollReady, MappedIsForwarded, InUse
<1>2. CASE PollTimeout
  BY <1>2 DEF PollTimeout, Cleanup, Kept, InUse, Expired, MappedIsForwarded,
       InUse
<1>3. CASE Stop
  BY <1>3 DEF Stop, MappedIsForwarded, InUse
<1>4. CASE NoQuery
  BY <1>4 DEF NoQuery, MappedIsForwarded, InUse
<1>5. CASE Forward
  <2>1. PICK q \in Queries, fid \in FwdIds :
          active' = Added(fid, q) /\ upstream' = upstream \cup {<<fid, q>>} /\ upBuf' = upBuf
    BY <1>5 DEF Forward, TakeQuery, Allocate
  <2>2. /\ InUse' = InUse \cup {fid} /\ active'[fid].q = q
        /\ \A f \in InUse : f # fid => active'[f] = active[f]
    BY <2>1 DEF Added, InUse
  <2> QED
    BY <2>1, <2>2 DEF MappedIsForwarded
<1>6. CASE ForwardFails
  BY <1>6 DEF ForwardFails, TakeQuery, ToUpstream, DropMapping,
       MappedIsForwarded, InUse
<1>7. CASE ForwardDropped
  BY <1>7 DEF ForwardDropped, TakeQuery, MappedIsForwarded, InUse
<1>8. CASE Refuse
  BY <1>8 DEF Refuse, TakeQuery, ToUpstream, MappedIsForwarded, InUse
<1>9. CASE NoAnswer
  BY <1>9 DEF NoAnswer, MappedIsForwarded, InUse
<1>10. CASE Relay
  BY <1>10 DEF Relay, TakeAnswer, Kept, MappedIsForwarded, InUse
<1>11. CASE DropAnswer
  BY <1>11 DEF DropAnswer, TakeAnswer, MappedIsForwarded, InUse
<1>12. CASE QueryArrives
  BY <1>12 DEF QueryArrives, MappedIsForwarded, InUse
<1>13. CASE AnswerArrives
  BY <1>13 DEF AnswerArrives, MappedIsForwarded, InUse
<1>14. CASE JunkArrives
  BY <1>14 DEF JunkArrives, MappedIsForwarded, InUse
<1>15. CASE Tick
  <2>1. InUse' = InUse /\ (\A fid \in InUse : active'[fid].q = active[fid].q)
    BY <1>15 DEF Tick, InUse, Types, Entries
  <2> QED
    BY <1>15, <2>1 DEF Tick, MappedIsForwarded
<1>16. CASE Signal
  BY <1>16 DEF Signal, MappedIsForwarded, InUse
<1>17. CASE UNCHANGED vars
  BY <1>17 DEF vars, MappedIsForwarded, InUse
<1>18. CASE LoopCheck
  BY <1>18 DEF LoopCheck, MappedIsForwarded, InUse
<1>19. CASE PollInterrupted
  BY <1>19 DEF PollInterrupted, MappedIsForwarded, InUse
<1>20. QED
  BY <1>1, <1>2, <1>3, <1>4, <1>5, <1>6, <1>7, <1>8, <1>9, <1>10, <1>11,
       <1>12, <1>13, <1>14, <1>15, <1>16, <1>17, <1>18, <1>19 DEF Next, Server, Environment

(* One step of KeptUntilTimeout. *)
KeptStep ==
  \A fid \in InUse : ~Expired(fid) =>
    \/ fid \in InUse' /\ active'[fid].q = active[fid].q
    \/ pc' = "ended"
    \/ pc = "answer" /\ Head(upBuf).good /\ Head(upBuf).fid = fid

(* Only a clean-up, an answer and the end take an entry away. *)
LEMMA KeptStepHolds ==
  ASSUME Types, [Next]_vars
  PROVE  KeptStep
<1> USE ConstantsAssumption
<1>1. CASE PollReady
  BY <1>1 DEF PollReady, KeptStep, InUse
<1>2. CASE PollTimeout
  BY <1>2 DEF PollTimeout, Cleanup, Kept, InUse, Expired, KeptStep, InUse
<1>3. CASE Stop
  BY <1>3 DEF Stop, Stops, KeptStep, InUse
<1>4. CASE NoQuery
  BY <1>4 DEF NoQuery, KeptStep, InUse
<1>5. CASE Forward
  <2>1. PICK q \in Queries, fid \in FwdIds : fid \notin InUse /\ active' = Added(fid, q)
    BY <1>5 DEF Forward, Allocate, Free
  <2> QED
    BY <2>1 DEF Added, InUse, KeptStep
<1>6. CASE ForwardFails
  BY <1>6 DEF ForwardFails, TakeQuery, ToUpstream, DropMapping, KeptStep,
       InUse
<1>7. CASE ForwardDropped
  BY <1>7 DEF ForwardDropped, TakeQuery, KeptStep, InUse
<1>8. CASE Refuse
  BY <1>8 DEF Refuse, TakeQuery, ToUpstream, KeptStep, InUse
<1>9. CASE NoAnswer
  BY <1>9 DEF NoAnswer, KeptStep, InUse
<1>10. CASE Relay
  BY <1>10 DEF Relay, TakeAnswer, PollAgain, Kept, InUse, KeptStep, InUse
<1>11. CASE DropAnswer
  BY <1>11 DEF DropAnswer, TakeAnswer, PollAgain, InUse, KeptStep, InUse
<1>12. CASE QueryArrives
  BY <1>12 DEF QueryArrives, KeptStep, InUse
<1>13. CASE AnswerArrives
  BY <1>13 DEF AnswerArrives, KeptStep, InUse
<1>14. CASE JunkArrives
  BY <1>14 DEF JunkArrives, KeptStep, InUse
<1>15. CASE Tick
  <2>1. InUse' = InUse /\ (\A fid \in InUse : active'[fid].q = active[fid].q)
    BY <1>15 DEF Tick, InUse, Types, Entries
  <2> QED
    BY <2>1 DEF KeptStep
<1>16. CASE Signal
  BY <1>16 DEF Signal, KeptStep, InUse
<1>17. CASE UNCHANGED vars
  BY <1>17 DEF vars, KeptStep, InUse
<1>18. CASE LoopCheck
  BY <1>18 DEF LoopCheck, KeptStep, InUse
<1>19. CASE PollInterrupted
  BY <1>19 DEF PollInterrupted, KeptStep, InUse
<1>20. QED
  BY <1>1, <1>2, <1>3, <1>4, <1>5, <1>6, <1>7, <1>8, <1>9, <1>10, <1>11,
       <1>12, <1>13, <1>14, <1>15, <1>16, <1>17, <1>18, <1>19 DEF Next, Server, Environment

(* A suffix of a name that is on the list is found where is_subdomain looks. *)
LEMMA SuffixFound ==
  ASSUME NEW name \in Seq(STRING), NEW b \in Blocked, NEW k \in 1 .. Len(name),
         SubSeq(name, k, Len(name)) = b
  PROVE  IsBlocked(name)
<1>1. /\ k \in Int /\ Len(name) \in Int /\ k <= Len(name)
      /\ \A i \in k .. Len(name) : name[i] \in STRING
  OBVIOUS
<1>3. Len(SubSeq(name, k, Len(name))) = Len(name) - k + 1
  BY <1>1, SubSeqProperties
<1>2. Len(name) >= Len(b) /\ Len(name) - Len(b) + 1 = k
  BY <1>1, <1>3
<1> QED
  BY <1>2 DEF IsBlocked, IsSubdomain

LEMMA ForwardedAllowed ==
  ASSUME NEW q \in Queries, Decide(q) = "FORWARD"
  PROVE  /\ q.form = "A"
         /\ \A b \in Blocked : \A k \in 1 .. Len(q.name) : SubSeq(q.name, k, Len(q.name)) # b
<1>1. q.form = "A" /\ ~IsBlocked(q.name)
  BY ConstantsAssumption DEF Decide
<1>2. q.name \in Seq(STRING)
  BY ConstantsAssumption
<1> QED
  BY <1>1, <1>2, SuffixFound

(* Only handle_query decides to forward. *)
LEMMA AllowedStep ==
  ASSUME OnlyAllowedForwarded, [Next]_vars
  PROVE  OnlyAllowedForwarded'
<1> USE ConstantsAssumption
<1>1. CASE PollReady
  BY <1>1 DEF PollReady, OnlyAllowedForwarded
<1>2. CASE PollTimeout
  BY <1>2 DEF PollTimeout, OnlyAllowedForwarded
<1>3. CASE Stop
  BY <1>3 DEF Stop, OnlyAllowedForwarded
<1>4. CASE NoQuery
  BY <1>4 DEF NoQuery, OnlyAllowedForwarded
<1>5. CASE Forward
  <2>1. PICK q \in Queries, fid \in FwdIds :
          Decide(q) = "FORWARD" /\ upstream' = upstream \cup {<<fid, q>>}
    BY <1>5 DEF Forward
  <2>2. ASSUME NEW m \in upstream'
        PROVE  /\ m[2].form = "A"
               /\ \A b \in Blocked : \A k \in 1 .. Len(m[2].name) :
                    SubSeq(m[2].name, k, Len(m[2].name)) # b
    <3>1. CASE m \in upstream
      BY <3>1 DEF OnlyAllowedForwarded
    <3>2. CASE m = <<fid, q>>
      <4>1. m[2] = q
        BY <3>2
      <4> QED
        BY <2>1, <4>1, ForwardedAllowed
    <3> QED
      BY <2>1, <3>1, <3>2
  <2> QED
    BY <2>2 DEF OnlyAllowedForwarded
<1>6. CASE ForwardFails
  BY <1>6 DEF ForwardFails, OnlyAllowedForwarded, TakeQuery
<1>7. CASE ForwardDropped
  BY <1>7 DEF ForwardDropped, OnlyAllowedForwarded, TakeQuery
<1>8. CASE Refuse
  BY <1>8 DEF Refuse, OnlyAllowedForwarded, TakeQuery
<1>9. CASE NoAnswer
  BY <1>9 DEF NoAnswer, OnlyAllowedForwarded
<1>10. CASE Relay
  BY <1>10 DEF Relay, OnlyAllowedForwarded, TakeAnswer
<1>11. CASE DropAnswer
  BY <1>11 DEF DropAnswer, OnlyAllowedForwarded, TakeAnswer
<1>12. CASE QueryArrives
  BY <1>12 DEF QueryArrives, OnlyAllowedForwarded
<1>13. CASE AnswerArrives
  BY <1>13 DEF AnswerArrives, OnlyAllowedForwarded
<1>14. CASE JunkArrives
  BY <1>14 DEF JunkArrives, OnlyAllowedForwarded
<1>15. CASE Tick
  BY <1>15 DEF Tick, OnlyAllowedForwarded
<1>16. CASE Signal
  BY <1>16 DEF Signal, OnlyAllowedForwarded
<1>17. CASE UNCHANGED vars
  BY <1>17 DEF vars, OnlyAllowedForwarded
<1>18. CASE LoopCheck
  BY <1>18 DEF LoopCheck, OnlyAllowedForwarded
<1>19. CASE PollInterrupted
  BY <1>19 DEF PollInterrupted, OnlyAllowedForwarded
<1>20. QED
  BY <1>1, <1>2, <1>3, <1>4, <1>5, <1>6, <1>7, <1>8, <1>9, <1>10, <1>11,
       <1>12, <1>13, <1>14, <1>15, <1>16, <1>17, <1>18, <1>19 DEF Next, Server, Environment

-----------------------------------------------------------------------------
(* The results. *)

IInv == LoopTypes /\ Types /\ Reported /\ MappedIsForwarded

LEMMA InvInit == Init => IInv
  BY DEF Init, IInv, LoopTypes, Types, Reported, MappedIsForwarded, InUse

LEMMA InvStep == IInv /\ [Next]_vars => IInv'
  BY LoopStep, TypesStep, ReportedStep, MappedStep DEF IInv

(* The inductive invariant holds, in any network.                           *)
THEOREM Invariance == Spec => []IInv
  BY InvInit, InvStep, PTL DEF Spec

(* The types of all variables; in particular what poll has reported is      *)
(* there when the loop reads it, and no entry grows older than one tick     *)
(* past the timeout.                                                        *)
THEOREM TypeCorrect == Spec => []TypeOK
<1>1. IInv => TypeOK
  <2> SUFFICES ASSUME IInv PROVE TypeOK
    OBVIOUS
  <2>1. \A k \in 1 .. Len(listenBuf) : listenBuf[k] \in Queries
    BY DEF IInv, Types
  <2>2. active \in [InUse -> [q : Queries, age : 0 .. Timeout + 1]]
    BY DEF IInv, Types, Entries
  <2> QED
    BY <2>1, <2>2 DEF IInv, LoopTypes, Types, Reported, TypeOK
<1> QED
  BY <1>1, Invariance, PTL

(* Every forwarded id that is taken belongs to a query that has been sent   *)
(* to the resolver: a failed send leaves nothing behind.                    *)
THEOREM MappedAlways == Spec => []MappedIsForwarded
<1>1. IInv => MappedIsForwarded
  BY DEF IInv
<1> QED
  BY <1>1, Invariance, PTL

(* The resolver sees nothing but A queries for names that the list allows.  *)
THEOREM OnlyAllowedAlways == Spec => []OnlyAllowedForwarded
<1>1. Init => OnlyAllowedForwarded
  BY DEF Init, OnlyAllowedForwarded
<1> QED
  BY <1>1, AllowedStep, PTL DEF Spec

(* A client within the timeout keeps its place until an answer comes.       *)
THEOREM KeptAlways == Spec => KeptUntilTimeout
<1>1. IInv /\ [Next]_vars => [KeptStep]_vars
  BY KeptStepHolds DEF IInv
<1>2. Spec => [][KeptStep]_vars
  BY <1>1, Invariance, PTL DEF Spec
<1> QED
  BY <1>2, PTL DEF KeptUntilTimeout, KeptStep

(* Whatever the network repeats or delays, the answer that the proxy waits  *)
(* for goes to the client whose query it answers, under that query's id.    *)
THEOREM RightClientAlways == Spec => []RightClient
<1> DEFINE Inv == Types /\ Reported /\ Routed /\ RightClient
<1>1. Init => Inv
  BY DEF Init, Types, Reported, Routed, Due, Good, RightClient, InUse
<1>2. Inv /\ [Next]_vars => Inv'
  BY TypesStep, ReportedStep, RoutedStep, ClientStep
<1> QED
  BY <1>1, <1>2, PTL DEF Spec
=============================================================================
