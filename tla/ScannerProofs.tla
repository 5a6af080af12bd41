--------------------------- MODULE ScannerProofs ---------------------------
(***************************************************************************)
(* Proofs about Scanner, for any table of ports, behaviour of the target,  *)
(* timeout, batch and size of the capture buffer.                          *)
(***************************************************************************)
EXTENDS Scanner, SequenceTheorems, TLAPS

Packet == [answer : Answer, inTime : BOOLEAN]

(* Only a port that answers is the subject of an answer, and a UDP port     *)
(* answers only when it is closed.                                          *)
Truthful(a) ==
  /\ host[a.of] \in {"open", "closed"}
  /\ ~IsTcp(a.of) => host[a.of] = "closed"

AirInv ==
  /\ host \in Hosts
  /\ air \subseteq Answer /\ (\A a \in air : Truthful(a))

(* What is captured has been sent. *)
BufferInv ==
  /\ buffer \in Seq(Packet) /\ Len(buffer) <= BufferSize
  /\ \A k \in 1 .. Len(buffer) : buffer[k].answer \in air

TableTypes ==
  /\ src_port \in [Entries -> Ports] /\ drawn \in Ports /\ filter \subseteq Ports
  /\ given \in [Entries -> SUBSET Ports]
  /\ status \in [Entries -> {"open", "closed", "filtered"}]
  /\ responded \in [Entries -> BOOLEAN] /\ attempts \in [Entries -> 0..2]

LoopTypes ==
  /\ age \in [Entries -> 0..Timeout] /\ elapsed \in [Entries -> 0..Timeout]
  /\ waited \in [Entries -> 0..(2 * Timeout)]
  /\ slept \in 0..Timeout /\ handled \in 0..Batch
  /\ pending \in BOOLEAN /\ stop \in BOOLEAN /\ i \in Entries
  /\ pc \in {"send", "loop", "poll", "dispatch", "check", "print", "done"}

TypeInv == AirInv /\ BufferInv /\ TableTypes /\ LoopTypes

-----------------------------------------------------------------------------
(* Lemmas about the operators of Scanner. *)

LEMMA EntriesAre ==
  /\ Entries = 1 .. Len(Table) /\ Len(Table) \in Nat \ {0}
  /\ Entries \subseteq Ports /\ Entries \subseteq Nat
  BY TableAssumption, BoundsAssumption DEF Entries, Ports

LEMMA TailElements ==
  ASSUME NEW S, NEW s \in Seq(S), s # <<>>
  PROVE  /\ Tail(s) \in Seq(S) /\ Head(s) \in S /\ Head(s) = s[1]
         /\ Len(s) \in Nat \ {0} /\ Len(Tail(s)) = Len(s) - 1
         /\ \A k \in 1 .. Len(Tail(s)) : Tail(s)[k] = s[k + 1]
  OBVIOUS

LEMMA AppendElements ==
  ASSUME NEW S, NEW s \in Seq(S), NEW e \in S
  PROVE  /\ Append(s, e) \in Seq(S) /\ Len(s) \in Nat
         /\ Len(Append(s, e)) = Len(s) + 1
         /\ Append(s, e)[Len(s) + 1] = e
         /\ \A k \in 1 .. Len(s) : Append(s, e)[k] = s[k]
  OBVIOUS

(* An answer is about the entry probed, tells the truth, and a TCP one goes *)
(* to the port the probe came from.                                         *)
LEMMA AnswersTruthful ==
  ASSUME host \in Hosts, NEW e \in Entries, NEW p \in Ports
  PROVE  /\ Answers(e, p) \subseteq Answer
         /\ \A a \in Answers(e, p) :
              a.of = e /\ Truthful(a) /\ (IsTcp(e) => a.to = p)
<1>1. host[e] \in {"open", "closed", "silent"}
  BY HostsAssumption
<1>2. p \in 0 .. MaxPort /\ 0 \in 0 .. MaxPort
  BY BoundsAssumption DEF Ports
<1>3. CASE IsTcp(e)
  BY <1>1, <1>2, <1>3 DEF Answers, Answer, Truthful
<1>4. CASE ~IsTcp(e)
  BY <1>1, <1>2, <1>4 DEF Answers, Answer, Truthful
<1> QED
  BY <1>3, <1>4

(* What a probe does: at most one new port, and answers from the entry's    *)
(* port before or after it.                                                 *)
LEMMA ProbeFacts ==
  ASSUME TableTypes, NEW e \in Entries, Probe(e)
  PROVE  \E p \in Ports :
           /\ air' = air \/ air' = air \cup Answers(e, p)
           /\ src_port' = [src_port EXCEPT ![e] = p]
           /\ \/ p = src_port[e] /\ UNCHANGED <<drawn, given>>
              \/ /\ p \in FreePorts /\ drawn' = IF Distinct THEN drawn + 1 ELSE drawn
                 /\ given' = [given EXCEPT ![e] = @ \cup {p}]
<1>1. src_port[e] \in Ports /\ src_port = [src_port EXCEPT ![e] = src_port[e]]
  BY DEF TableTypes
<1>2. FreePorts \subseteq Ports
  BY DEF FreePorts
<1> QED
  BY <1>1, <1>2 DEF Probe

LEMMA ProbeTypes ==
  ASSUME AirInv, TableTypes, NEW e \in Entries, Probe(e), UNCHANGED host
  PROVE  /\ AirInv' /\ air \subseteq air'
         /\ src_port' \in [Entries -> Ports] /\ drawn' \in Ports
         /\ given' \in [Entries -> SUBSET Ports]
<1>1. PICK p \in Ports :
           /\ air' = air \/ air' = air \cup Answers(e, p)
           /\ src_port' = [src_port EXCEPT ![e] = p]
           /\ \/ p = src_port[e] /\ UNCHANGED <<drawn, given>>
              \/ /\ p \in FreePorts /\ drawn' = IF Distinct THEN drawn + 1 ELSE drawn
                 /\ given' = [given EXCEPT ![e] = @ \cup {p}]
  BY ProbeFacts
<1>2. air \subseteq air' /\ air' \subseteq Answer /\ (\A a \in air' : Truthful(a))
  BY <1>1, AnswersTruthful DEF AirInv
<1>3. drawn' \in Ports
  BY <1>1 DEF TableTypes, FreePorts, Ports
<1>4. given' \in [Entries -> SUBSET Ports]
  BY <1>1 DEF TableTypes
<1> QED
  BY <1>1, <1>2, <1>3, <1>4 DEF AirInv, TableTypes, Truthful

LEMMA StepMoves ==
  ASSUME i \in Entries, NEW last, Step(last)
  PROVE  /\ i' \in Entries
         /\ (pc' = pc /\ i' = i + 1) \/ (pc' = last /\ i' = 1)
  BY EntriesAre DEF Step

-----------------------------------------------------------------------------
(* The types. *)

LEMMA AirStep ==
  ASSUME TypeInv, [Next]_vars
  PROVE  AirInv' /\ air \subseteq air'
<1> USE DEF TypeInv
<1>1. CASE SendFirst
  BY <1>1, ProbeTypes DEF SendFirst, LoopTypes
<1>2. CASE Resend
  BY <1>2, ProbeTypes DEF Resend, LoopTypes
<1>3. CASE UNCHANGED <<host, air>>
  BY <1>3 DEF AirInv, Truthful
<1>4. CASE LoopCheck
  BY <1>3, <1>4 DEF LoopCheck, network
<1>5. CASE PollReady
  BY <1>3, <1>5 DEF PollReady, network
<1>6. CASE PollTimeout
  BY <1>3, <1>6 DEF PollTimeout, network
<1>7. CASE Handle
  BY <1>3, <1>7 DEF Handle
<1>8. CASE DispatchEnds
  BY <1>3, <1>8 DEF DispatchEnds, network
<1>9. CASE DispatchBroken
  BY <1>3, <1>9 DEF DispatchBroken, network
<1>10. CASE GiveUp
  BY <1>3, <1>10 DEF GiveUp, network
<1>11. CASE PassOver
  BY <1>3, <1>11 DEF PassOver, network
<1>12. CASE Report
  BY <1>3, <1>12 DEF Report, network
<1>13. CASE Signal
  BY <1>3, <1>13 DEF Signal, network
<1>14. CASE Capture
  BY <1>3, <1>14 DEF Capture
<1>15. CASE Tick
  BY <1>3, <1>15 DEF Tick, network
<1>16. CASE UNCHANGED vars
  BY <1>3, <1>16 DEF vars, network
<1> QED
  BY <1>1, <1>2, <1>4, <1>5, <1>6, <1>7, <1>8, <1>9, <1>10, <1>11, <1>12,
     <1>13, <1>14, <1>15, <1>16 DEF Next, ScannerStep

(* packet_handler takes the first packet, the capture appends one. *)
LEMMA HandledPacket ==
  ASSUME BufferInv, Handle
  PROVE  /\ buffer # <<>> /\ buffer' = Tail(buffer)
         /\ Head(buffer) = buffer[1] /\ Head(buffer) \in Packet
         /\ Head(buffer).answer \in air
         /\ Len(buffer) \in Nat \ {0} /\ Len(buffer') = Len(buffer) - 1
         /\ buffer' \in Seq(Packet)
         /\ \A k \in 1 .. Len(buffer') : buffer'[k] = buffer[k + 1]
<1>1. buffer # <<>> /\ buffer' = Tail(buffer) /\ buffer \in Seq(Packet)
  BY DEF Handle, BufferInv
<1> QED
  BY <1>1, TailElements DEF BufferInv

LEMMA CapturedPacket ==
  ASSUME TypeInv, Capture
  PROVE  \E a \in air :
           LET packet == [answer |-> a, inTime |-> age[a.of] < Timeout]
           IN  /\ packet \in Packet
               /\ buffer' \in Seq(Packet) /\ Len(buffer) \in Nat
               /\ Len(buffer') = Len(buffer) + 1 /\ Len(buffer) < BufferSize
               /\ buffer'[Len(buffer) + 1] = packet
               /\ \A k \in 1 .. Len(buffer) : buffer'[k] = buffer[k]
<1>1. PICK a \in air :
        buffer' = Append(buffer, [answer |-> a, inTime |-> age[a.of] < Timeout])
  BY DEF Capture
<1> DEFINE packet == [answer |-> a, inTime |-> age[a.of] < Timeout]
<1>2. packet \in Packet
  <2>1. a \in Answer /\ (age[a.of] < Timeout) \in BOOLEAN
    BY DEF TypeInv, AirInv
  <2> QED
    BY <2>1 DEF Packet
<1>3. buffer \in Seq(Packet) /\ Len(buffer) < BufferSize
  BY DEF TypeInv, BufferInv, Capture
<1> HIDE DEF packet
<1>4. /\ Append(buffer, packet) \in Seq(Packet) /\ Len(buffer) \in Nat
      /\ Len(Append(buffer, packet)) = Len(buffer) + 1
      /\ Append(buffer, packet)[Len(buffer) + 1] = packet
      /\ \A k \in 1 .. Len(buffer) : Append(buffer, packet)[k] = buffer[k]
  BY <1>2, <1>3, AppendElements
<1>5. buffer' = Append(buffer, packet)
  BY <1>1 DEF packet
<1>6. /\ packet \in Packet
      /\ buffer' \in Seq(Packet) /\ Len(buffer) \in Nat
      /\ Len(buffer') = Len(buffer) + 1 /\ Len(buffer) < BufferSize
      /\ buffer'[Len(buffer) + 1] = packet
      /\ \A k \in 1 .. Len(buffer) : buffer'[k] = buffer[k]
  BY <1>2, <1>3, <1>4, <1>5
<1> QED
  BY <1>6 DEF packet

LEMMA BufferStep ==
  ASSUME TypeInv, [Next]_vars
  PROVE  BufferInv'
<1> USE DEF TypeInv
<1> air \subseteq air'
  BY AirStep
<1>1. CASE Handle
  <2>1. \A k \in 1 .. Len(buffer') : buffer'[k].answer \in air
    BY <1>1, HandledPacket DEF BufferInv
  <2> QED
    BY <1>1, <2>1, HandledPacket, BoundsAssumption DEF BufferInv
<1>2. CASE Capture
  <2>1. PICK a \in air :
           LET packet == [answer |-> a, inTime |-> age[a.of] < Timeout]
           IN  /\ packet \in Packet
               /\ buffer' \in Seq(Packet) /\ Len(buffer) \in Nat
               /\ Len(buffer') = Len(buffer) + 1 /\ Len(buffer) < BufferSize
               /\ buffer'[Len(buffer) + 1] = packet
               /\ \A k \in 1 .. Len(buffer) : buffer'[k] = buffer[k]
    BY <1>2, CapturedPacket
  <2>2. \A k \in 1 .. Len(buffer') : buffer'[k].answer \in air
    <3> TAKE k \in 1 .. Len(buffer')
    <3>1. CASE k \in 1 .. Len(buffer)
      BY <2>1, <3>1 DEF BufferInv
    <3>2. CASE k = Len(buffer) + 1
      BY <2>1, <3>2
    <3> QED
      BY <2>1, <3>1, <3>2
  <2> QED
    BY <2>1, <2>2, BoundsAssumption DEF BufferInv
<1>3. CASE UNCHANGED buffer
  BY <1>3 DEF BufferInv
<1>4. CASE SendFirst
  BY <1>3, <1>4 DEF SendFirst
<1>5. CASE LoopCheck
  BY <1>3, <1>5 DEF LoopCheck, network
<1>6. CASE PollReady
  BY <1>3, <1>6 DEF PollReady, network
<1>7. CASE PollTimeout
  BY <1>3, <1>7 DEF PollTimeout, network
<1>8. CASE DispatchEnds
  BY <1>3, <1>8 DEF DispatchEnds, network
<1>9. CASE DispatchBroken
  BY <1>3, <1>9 DEF DispatchBroken, network
<1>10. CASE Resend
  BY <1>3, <1>10 DEF Resend
<1>11. CASE GiveUp
  BY <1>3, <1>11 DEF GiveUp, network
<1>12. CASE PassOver
  BY <1>3, <1>12 DEF PassOver, network
<1>13. CASE Report
  BY <1>3, <1>13 DEF Report, network
<1>14. CASE Signal
  BY <1>3, <1>14 DEF Signal, network
<1>15. CASE Tick
  BY <1>3, <1>15 DEF Tick, network
<1>16. CASE UNCHANGED vars
  BY <1>3, <1>16 DEF vars, network
<1> QED
  BY <1>1, <1>2, <1>4, <1>5, <1>6, <1>7, <1>8, <1>9, <1>10, <1>11, <1>12,
     <1>13, <1>14, <1>15, <1>16 DEF Next, ScannerStep

(* Who is found in the table takes the state of the port that answered. *)
LEMMA HandleMatches ==
  ASSUME Handle
  PROVE  \/ UNCHANGED <<status, responded>>
         \/ \E e \in Matches(Head(buffer).answer) :
              /\ status' = [status EXCEPT ![e] = host[Head(buffer).answer.of]]
              /\ responded' = [responded EXCEPT ![e] = TRUE]
  BY DEF Handle

LEMMA TableStep ==
  ASSUME TypeInv, [Next]_vars
  PROVE  TableTypes'
<1> USE DEF TypeInv
<1>1. CASE SendFirst
  <2>1. src_port' \in [Entries -> Ports] /\ drawn' \in Ports
        /\ given' \in [Entries -> SUBSET Ports]
    BY <1>1, ProbeTypes DEF SendFirst, LoopTypes
  <2>2. attempts' \in [Entries -> 0..2]
    <3>1. attempts \in [Entries -> 0..2] /\ attempts' = [attempts EXCEPT ![i] = 1]
      BY <1>1 DEF SendFirst, TableTypes
    <3>2. 1 \in 0..2
      OBVIOUS
    <3> QED
      BY <3>1, <3>2
  <2>3. UNCHANGED <<status, responded, filter>>
    BY <1>1 DEF SendFirst
  <2> QED
    BY <2>1, <2>2, <2>3 DEF TableTypes
<1>2. CASE Resend
  <2>1. src_port' \in [Entries -> Ports] /\ drawn' \in Ports
        /\ given' \in [Entries -> SUBSET Ports]
    BY <1>2, ProbeTypes DEF Resend, LoopTypes
  <2>2. attempts' \in [Entries -> 0..2]
    <3>1. attempts \in [Entries -> 0..2] /\ attempts' = [attempts EXCEPT ![i] = 2]
      BY <1>2 DEF Resend, TableTypes
    <3>2. 2 \in 0..2
      OBVIOUS
    <3> QED
      BY <3>1, <3>2
  <2>3. UNCHANGED <<status, responded, filter>>
    BY <1>2 DEF Resend
  <2> QED
    BY <2>1, <2>2, <2>3 DEF TableTypes
<1>3. CASE Handle
  <2>1. Head(buffer).answer \in air
    BY <1>3, HandledPacket
  <2>2. host[Head(buffer).answer.of] \in {"open", "closed"}
    BY <2>1 DEF AirInv, Truthful
  <2>3. UNCHANGED <<src_port, drawn, given, filter, attempts>>
    BY <1>3 DEF Handle
  <2>4. status' \in [Entries -> {"open", "closed", "filtered"}]
        /\ responded' \in [Entries -> BOOLEAN]
    BY <1>3, <2>2, HandleMatches DEF TableTypes
  <2> QED
    BY <2>3, <2>4 DEF TableTypes
<1>4. CASE GiveUp
  BY <1>4 DEF GiveUp, TableTypes
<1>5. CASE UNCHANGED <<table, filter>>
  BY <1>5 DEF TableTypes, table
<1>6. CASE LoopCheck
  BY <1>5, <1>6 DEF LoopCheck
<1>7. CASE PollReady
  BY <1>5, <1>7 DEF PollReady
<1>8. CASE PollTimeout
  BY <1>5, <1>8 DEF PollTimeout
<1>9. CASE DispatchEnds
  BY <1>5, <1>9 DEF DispatchEnds
<1>10. CASE DispatchBroken
  BY <1>5, <1>10 DEF DispatchBroken
<1>11. CASE PassOver
  BY <1>5, <1>11 DEF PassOver
<1>12. CASE Report
  BY <1>5, <1>12 DEF Report
<1>13. CASE Signal
  BY <1>5, <1>13 DEF Signal
<1>14. CASE Capture
  BY <1>5, <1>14 DEF Capture
<1>15. CASE Tick
  BY <1>5, <1>15 DEF Tick
<1>16. CASE UNCHANGED vars
  BY <1>5, <1>16 DEF vars
<1> QED
  BY <1>1, <1>2, <1>3, <1>4, <1>6, <1>7, <1>8, <1>9, <1>10, <1>11, <1>12,
     <1>13, <1>14, <1>15, <1>16 DEF Next, ScannerStep

LEMMA LoopStep ==
  ASSUME TypeInv, [Next]_vars
  PROVE  LoopTypes'
<1> USE BoundsAssumption DEF TypeInv
<1>1. CASE SendFirst
  BY <1>1, StepMoves DEF SendFirst, LoopTypes, loop
<1>2. CASE LoopCheck
  <2>1. elapsed' \in [Entries -> 0..Timeout] /\ pc' \in {"print", "poll"}
    BY <1>2 DEF LoopCheck, LoopTypes
  <2>2. pending' = FALSE /\ handled' = 0 /\ UNCHANGED <<times, slept, stop, i>>
    BY <1>2 DEF LoopCheck
  <2>3. 0 \in 0 .. Batch
    OBVIOUS
  <2> QED
    BY <2>1, <2>2, <2>3 DEF LoopTypes, times
<1>3. CASE PollReady
  BY <1>3 DEF PollReady, LoopTypes, times
<1>4. CASE PollTimeout
  BY <1>4 DEF PollTimeout, LoopTypes, times
<1>5. CASE Handle
  BY <1>5 DEF Handle, LoopTypes, times
<1>6. CASE DispatchEnds
  BY <1>6 DEF DispatchEnds, LoopTypes, times, loop
<1>7. CASE DispatchBroken
  BY <1>7 DEF DispatchBroken, LoopTypes, times, loop
<1>8. CASE Resend
  BY <1>8, StepMoves DEF Resend, LoopTypes
<1>9. CASE GiveUp
  BY <1>9, StepMoves DEF GiveUp, LoopTypes, times
<1>10. CASE PassOver
  <2>1. pending' \in BOOLEAN
    BY <1>10 DEF PassOver
  <2>2. i' \in Entries /\ pc' \in {"check", "loop", "print"}
    BY <1>10, StepMoves DEF PassOver, LoopTypes
  <2>3. UNCHANGED <<times, elapsed, slept, handled, stop>>
    BY <1>10 DEF PassOver
  <2> QED
    BY <2>1, <2>2, <2>3 DEF LoopTypes, times
<1>11. CASE Report
  BY <1>11 DEF Report, LoopTypes, times, loop
<1>12. CASE Signal
  BY <1>12 DEF Signal, LoopTypes, times, loop
<1>13. CASE Capture
  BY <1>13 DEF Capture, LoopTypes, times, loop
<1>14. CASE Tick
  <2>1. age' \in [Entries -> 0..Timeout] /\ waited' \in [Entries -> 0..(2 * Timeout)]
    BY <1>14 DEF Tick, UpTo, LoopTypes
  <2>2. slept' \in 0..Timeout
    BY <1>14 DEF Tick, LoopTypes
  <2> QED
    BY <1>14, <2>1, <2>2 DEF Tick, LoopTypes
<1>15. CASE UNCHANGED vars
  BY <1>15 DEF vars, LoopTypes, times, loop
<1> QED
  BY <1>1, <1>2, <1>3, <1>4, <1>5, <1>6, <1>7, <1>8, <1>9, <1>10, <1>11,
     <1>12, <1>13, <1>14, <1>15 DEF Next, ScannerStep

LEMMA TypeInit == Init => TypeInv
<1> SUFFICES ASSUME Init PROVE TypeInv
  OBVIOUS
<1> USE EntriesAre, BoundsAssumption DEF Init
<1>1. AirInv
  BY DEF AirInv
<1>2. BufferInv
  BY DEF BufferInv
<1>3. src_port \in [Entries -> Ports] /\ drawn \in Ports
  BY DEF Ports
<1>4. filter \subseteq Ports
  BY <1>3
<1>5. TableTypes
  BY <1>3, <1>4 DEF TableTypes, Default
<1>6. LoopTypes
  <2>1. /\ age \in [Entries -> 0..Timeout] /\ elapsed \in [Entries -> 0..Timeout]
        /\ waited \in [Entries -> 0..(2 * Timeout)]
    OBVIOUS
  <2>2. slept \in 0..Timeout /\ handled \in 0..Batch /\ i \in Entries
    OBVIOUS
  <2> QED
    BY <2>1, <2>2 DEF LoopTypes
<1> QED
  BY <1>1, <1>2, <1>5, <1>6 DEF TypeInv

LEMMA TypeStep == TypeInv /\ [Next]_vars => TypeInv'
  BY AirStep, BufferStep, TableStep, LoopStep DEF TypeInv

-----------------------------------------------------------------------------
(* The verdicts. *)

(* Every entry has its source port on record, and so has what comes back.   *)
PortsInv ==
  /\ \A e \in Entries : src_port[e] \in given[e]
  /\ \A a \in air : IsTcp(a.of) => a.to \in given[a.of]

LEMMA ProbePorts ==
  ASSUME TypeInv, PortsInv, NEW e \in Entries, Probe(e), UNCHANGED host
  PROVE  PortsInv'
<1>1. PICK p \in Ports :
           /\ air' = air \/ air' = air \cup Answers(e, p)
           /\ src_port' = [src_port EXCEPT ![e] = p]
           /\ \/ p = src_port[e] /\ UNCHANGED <<drawn, given>>
              \/ /\ p \in FreePorts /\ drawn' = IF Distinct THEN drawn + 1 ELSE drawn
                 /\ given' = [given EXCEPT ![e] = @ \cup {p}]
  BY ProbeFacts DEF TypeInv
<1>2. p \in given'[e] /\ (\A x \in Entries : given[x] \subseteq given'[x])
  BY <1>1 DEF PortsInv, TypeInv, TableTypes
<1>3. \A x \in Entries : src_port'[x] \in given'[x]
  BY <1>1, <1>2 DEF PortsInv, TypeInv, TableTypes
<1>4. \A a \in air : a.of \in Entries
  BY DEF TypeInv, AirInv, Answer
<1>5. \A a \in air : IsTcp(a.of) => a.to \in given'[a.of]
  BY <1>2, <1>4 DEF PortsInv
<1>6. \A a \in Answers(e, p) : IsTcp(a.of) => a.to \in given'[a.of]
  BY <1>2, AnswersTruthful DEF TypeInv, AirInv
<1> QED
  BY <1>1, <1>3, <1>5, <1>6 DEF PortsInv

LEMMA PortsStep ==
  ASSUME TypeInv, PortsInv, [Next]_vars
  PROVE  PortsInv'
<1>1. CASE SendFirst
  BY <1>1, ProbePorts DEF SendFirst, TypeInv, LoopTypes
<1>2. CASE LoopCheck
  BY <1>2 DEF LoopCheck, PortsInv, network, table
<1>3. CASE PollReady
  BY <1>3 DEF PollReady, PortsInv, network, table
<1>4. CASE PollTimeout
  BY <1>4 DEF PollTimeout, PortsInv, network, table
<1>5. CASE Handle
  BY <1>5 DEF Handle, PortsInv
<1>6. CASE DispatchEnds
  BY <1>6 DEF DispatchEnds, PortsInv, network, table
<1>7. CASE DispatchBroken
  BY <1>7 DEF DispatchBroken, PortsInv, network, table
<1>8. CASE Resend
  BY <1>8, ProbePorts DEF Resend, TypeInv, LoopTypes
<1>9. CASE GiveUp
  BY <1>9 DEF GiveUp, PortsInv, network
<1>10. CASE PassOver
  BY <1>10 DEF PassOver, PortsInv, network, table
<1>11. CASE Report
  BY <1>11 DEF Report, PortsInv, network, table
<1>12. CASE Signal
  BY <1>12 DEF Signal, PortsInv, network, table
<1>13. CASE Capture
  BY <1>13 DEF Capture, PortsInv, table
<1>14. CASE Tick
  BY <1>14 DEF Tick, PortsInv, network, table
<1>15. CASE UNCHANGED vars
  BY <1>15 DEF vars, PortsInv, network, table
<1> QED
  BY <1>1, <1>2, <1>3, <1>4, <1>5, <1>6, <1>7, <1>8, <1>9, <1>10, <1>11,
     <1>12, <1>13, <1>14, <1>15 DEF Next, ScannerStep

(* An answer is given to nobody but the entry that it is about. *)
LEMMA MatchesOwner ==
  ASSUME TypeInv, PortsInv, NEW a \in air, NEW e \in Matches(a)
  PROVE  e \in Entries /\ (Alone(e) => e = a.of)
<1>1. e \in Entries /\ a.of \in Entries
  BY DEF Matches, TypeInv, AirInv, Answer
<1>2. IsTcp(e) <=> IsTcp(a.of)
  BY DEF Matches, IsTcp
<1>3. CASE IsTcp(e)
  <2>1. a.to \in given[e] \cap given[a.of]
    BY <1>1, <1>2, <1>3 DEF Matches, PortsInv
  <2> QED
    BY <1>1, <1>2, <1>3, <2>1 DEF Alone
<1>4. CASE ~IsTcp(e)
  BY <1>1, <1>2, <1>4 DEF Matches, Alone
<1> QED
  BY <1>3, <1>4

(* A probe makes nobody alone who was not. *)
LEMMA ProbeVerdict ==
  ASSUME TypeInv, VerdictTrue, NEW e \in Entries, Probe(e), UNCHANGED <<host, status>>
  PROVE  VerdictTrue'
<1>1. \A x \in Entries : given[x] \subseteq given'[x]
  BY DEF Probe, TypeInv, TableTypes
<1>2. \A x \in Entries : Alone(x)' => Alone(x)
  BY <1>1 DEF Alone
<1> QED
  BY <1>2 DEF VerdictTrue

LEMMA VerdictStep ==
  ASSUME TypeInv, PortsInv, VerdictTrue, [Next]_vars
  PROVE  VerdictTrue'
<1>1. CASE SendFirst
  <2>1. i \in Entries /\ Probe(i) /\ UNCHANGED <<host, status>>
    BY <1>1 DEF SendFirst, TypeInv, LoopTypes
  <2> QED
    BY <2>1, ProbeVerdict
<1>2. CASE LoopCheck
  BY <1>2 DEF LoopCheck, VerdictTrue, Alone, network, table
<1>3. CASE PollReady
  BY <1>3 DEF PollReady, VerdictTrue, Alone, network, table
<1>4. CASE PollTimeout
  BY <1>4 DEF PollTimeout, VerdictTrue, Alone, network, table
<1>5. CASE Handle
  <2> DEFINE a == Head(buffer).answer
  <2>1. a \in air /\ Truthful(a)
    BY <1>5, HandledPacket DEF TypeInv, AirInv
  <2>2. UNCHANGED <<host, given>> /\ status \in [Entries -> {"open", "closed", "filtered"}]
    BY <1>5 DEF Handle, TypeInv, TableTypes
  <2>3. \/ UNCHANGED status
        \/ \E e \in Matches(a) : status' = [status EXCEPT ![e] = host[a.of]]
    BY <1>5, HandleMatches
  <2> HIDE DEF a
  <2>4. CASE UNCHANGED status
    BY <2>2, <2>4 DEF VerdictTrue, Alone
  <2>5. CASE \E e \in Matches(a) : status' = [status EXCEPT ![e] = host[a.of]]
    <3>1. PICK e \in Matches(a) : status' = [status EXCEPT ![e] = host[a.of]]
      BY <2>5
    <3>2. e \in Entries /\ (Alone(e) => e = a.of)
      BY <2>1, MatchesOwner
    <3>3. /\ status'[e] = host[a.of]
          /\ \A x \in Entries : x # e => status'[x] = status[x]
      BY <2>2, <3>1, <3>2
    <3>4. \A x \in Entries : Alone(x)' <=> Alone(x)
      BY <2>2 DEF Alone
    <3>5. SUFFICES ASSUME NEW x \in Entries, Alone(x)
                   PROVE  /\ status'[x] = "closed" => host[x] = "closed"
                          /\ IsTcp(x) /\ status'[x] = "open" => host[x] = "open"
      BY <2>2, <3>4 DEF VerdictTrue
    <3>6. CASE x = e
      BY <3>2, <3>3, <3>5, <3>6
    <3>7. CASE x # e
      BY <3>3, <3>5, <3>7 DEF VerdictTrue
    <3> QED
      BY <3>6, <3>7
  <2> QED
    BY <2>3, <2>4, <2>5
<1>6. CASE DispatchEnds
  BY <1>6 DEF DispatchEnds, VerdictTrue, Alone, network, table
<1>7. CASE DispatchBroken
  BY <1>7 DEF DispatchBroken, VerdictTrue, Alone, network, table
<1>8. CASE Resend
  <2>1. i \in Entries /\ Probe(i) /\ UNCHANGED <<host, status>>
    BY <1>8 DEF Resend, TypeInv, LoopTypes
  <2> QED
    BY <2>1, ProbeVerdict
<1>9. CASE GiveUp
  BY <1>9 DEF GiveUp, VerdictTrue, Alone, network
<1>10. CASE PassOver
  BY <1>10 DEF PassOver, VerdictTrue, Alone, network, table
<1>11. CASE Report
  BY <1>11 DEF Report, VerdictTrue, Alone, network, table
<1>12. CASE Signal
  BY <1>12 DEF Signal, VerdictTrue, Alone, network, table
<1>13. CASE Capture
  BY <1>13 DEF Capture, VerdictTrue, Alone, table
<1>14. CASE Tick
  BY <1>14 DEF Tick, VerdictTrue, Alone, network, table
<1>15. CASE UNCHANGED vars
  BY <1>15 DEF vars, VerdictTrue, Alone, network, table
<1> QED
  BY <1>1, <1>2, <1>3, <1>4, <1>5, <1>6, <1>7, <1>8, <1>9, <1>10, <1>11,
     <1>12, <1>13, <1>14, <1>15 DEF Next, ScannerStep

-----------------------------------------------------------------------------
(* The times. *)

(* The second probe goes out when a whole timeout has passed. *)
WaitedInv ==
  \A e \in Entries :
    waited[e] >= age[e] /\ (attempts[e] = 2 => waited[e] >= Timeout + age[e])

(* What the loop has read is not later than now, for every entry that this  *)
(* round has not dealt with.                                                *)
ClockInv ==
  /\ pc \in {"poll", "dispatch"} => \A e \in Entries : elapsed[e] <= age[e]
  /\ pc = "check" => \A e \in Entries : e >= i => elapsed[e] <= age[e]

(* An entry that was late when the loop read the clock, and that this round *)
(* has not dealt with, has no answer in time left but behind a full batch.  *)
InTime(k, e) == buffer[k].answer.of = e /\ buffer[k].inTime

HandledInv ==
  pc = "check" =>
    \A k \in 1 .. Len(buffer), e \in Entries :
      InTime(k, e) /\ Expired(e) /\ e >= i => handled = Batch

LEMMA ClockStep ==
  ASSUME TypeInv, ClockInv, [Next]_vars
  PROVE  ClockInv'
<1>1. CASE SendFirst
  <2>1. pc' \in {"send", "loop"}
    BY <1>1, StepMoves DEF SendFirst, TypeInv, LoopTypes
  <2> QED
    BY <2>1 DEF ClockInv
<1>2. CASE LoopCheck
  BY <1>2 DEF LoopCheck, ClockInv, TypeInv, LoopTypes, times
<1>3. CASE PollReady
  BY <1>3 DEF PollReady, ClockInv, TypeInv, LoopTypes, times
<1>4. CASE PollTimeout
  BY <1>4 DEF PollTimeout, ClockInv, TypeInv, LoopTypes, times
<1>5. CASE Handle
  BY <1>5 DEF Handle, ClockInv, TypeInv, LoopTypes, times
<1>6. CASE DispatchEnds
  BY <1>6 DEF DispatchEnds, ClockInv, TypeInv, LoopTypes, times, loop
<1>7. CASE DispatchBroken
  BY <1>7 DEF DispatchBroken, ClockInv, TypeInv, LoopTypes, times, loop
<1>8. CASE Resend
  <2>1. (pc' = "check" /\ i' = i + 1) \/ pc' = "loop"
    BY <1>8, StepMoves DEF Resend, TypeInv, LoopTypes
  <2>2. elapsed' = elapsed /\ (\A e \in Entries : e # i => age'[e] = age[e])
    BY <1>8 DEF Resend, TypeInv, LoopTypes
  <2> QED
    BY <1>8, <2>1, <2>2, EntriesAre DEF Resend, ClockInv, TypeInv, LoopTypes
<1>9. CASE GiveUp
  <2>1. (pc' = "check" /\ i' = i + 1) \/ pc' = "loop"
    BY <1>9, StepMoves DEF GiveUp, TypeInv, LoopTypes
  <2> QED
    BY <1>9, <2>1, EntriesAre DEF GiveUp, ClockInv, TypeInv, LoopTypes, times
<1>10. CASE PassOver
  <2>1. (pc' = "check" /\ i' = i + 1) \/ pc' \in {"loop", "print"}
    BY <1>10, StepMoves DEF PassOver, TypeInv, LoopTypes
  <2> QED
    BY <1>10, <2>1, EntriesAre DEF PassOver, ClockInv, TypeInv, LoopTypes, times
<1>11. CASE Report
  BY <1>11 DEF Report, ClockInv, TypeInv, LoopTypes, times, loop
<1>12. CASE Signal
  BY <1>12 DEF Signal, ClockInv, TypeInv, LoopTypes, times, loop
<1>13. CASE Capture
  BY <1>13 DEF Capture, ClockInv, TypeInv, LoopTypes, times, loop
<1>14. CASE Tick
  <2>1. \A e \in Entries : age[e] \in Nat /\ elapsed[e] \in Nat
    BY BoundsAssumption DEF TypeInv, LoopTypes
  <2>2. \A e \in Entries : age'[e] = age[e] \/ age'[e] = age[e] + 1
    BY <1>14 DEF Tick, UpTo
  <2>3. UNCHANGED <<elapsed, pc, i>>
    BY <1>14 DEF Tick
  <2> QED
    BY <2>1, <2>2, <2>3 DEF ClockInv
<1>15. CASE UNCHANGED vars
  BY <1>15 DEF vars, ClockInv, TypeInv, LoopTypes, times, loop
<1> QED
  BY <1>1, <1>2, <1>3, <1>4, <1>5, <1>6, <1>7, <1>8, <1>9, <1>10, <1>11,
     <1>12, <1>13, <1>14, <1>15 DEF Next, ScannerStep

LEMMA WaitedStep ==
  ASSUME TypeInv, ClockInv, WaitedInv, [Next]_vars
  PROVE  WaitedInv'
<1>1. CASE SendFirst
  <2>1. \A e \in Entries : /\ e # i => /\ age'[e] = age[e] /\ waited'[e] = waited[e]
                                    /\ attempts'[e] = attempts[e]
                           /\ e = i => age'[e] = 0 /\ waited'[e] = 0 /\ attempts'[e] = 1
    BY <1>1 DEF SendFirst, TypeInv, LoopTypes, TableTypes
  <2> QED
    BY <2>1 DEF WaitedInv
<1>2. CASE LoopCheck
  BY <1>2 DEF LoopCheck, WaitedInv, table, times
<1>3. CASE PollReady
  BY <1>3 DEF PollReady, WaitedInv, table, times
<1>4. CASE PollTimeout
  BY <1>4 DEF PollTimeout, WaitedInv, table, times
<1>5. CASE Handle
  BY <1>5 DEF Handle, WaitedInv, times
<1>6. CASE DispatchEnds
  BY <1>6 DEF DispatchEnds, WaitedInv, table, times
<1>7. CASE DispatchBroken
  BY <1>7 DEF DispatchBroken, WaitedInv, table, times
<1>8. CASE Resend
  <2>1. i \in Entries /\ elapsed[i] >= Timeout /\ elapsed[i] <= age[i]
    BY <1>8, EntriesAre DEF Resend, Expired, ClockInv, TypeInv, LoopTypes
  <2>2. \A e \in Entries : /\ e # i => age'[e] = age[e] /\ attempts'[e] = attempts[e]
                           /\ e = i => age'[e] = 0
    BY <1>8 DEF Resend, TypeInv, LoopTypes, TableTypes
  <2>3. \A e \in Entries : /\ age[e] \in Nat /\ waited[e] \in Nat /\ elapsed[e] \in Nat
                           /\ waited'[e] = waited[e]
    BY <1>8, BoundsAssumption DEF Resend, TypeInv, LoopTypes
  <2> QED
    BY <2>1, <2>2, <2>3, BoundsAssumption DEF WaitedInv
<1>9. CASE GiveUp
  BY <1>9 DEF GiveUp, WaitedInv, times
<1>10. CASE PassOver
  BY <1>10 DEF PassOver, WaitedInv, table, times
<1>11. CASE Report
  BY <1>11 DEF Report, WaitedInv, table, times
<1>12. CASE Signal
  BY <1>12 DEF Signal, WaitedInv, table, times
<1>13. CASE Capture
  BY <1>13 DEF Capture, WaitedInv, table, times
<1>14. CASE Tick
  <2>1. \A e \in Entries : age[e] \in 0 .. Timeout /\ waited[e] \in 0 .. 2 * Timeout
    BY DEF TypeInv, LoopTypes
  <2>2. \A e \in Entries :
          /\ age'[e] = IF age[e] < Timeout THEN age[e] + 1 ELSE age[e]
          /\ waited'[e] = IF waited[e] < 2 * Timeout THEN waited[e] + 1 ELSE waited[e]
    BY <1>14 DEF Tick, UpTo
  <2>3. UNCHANGED attempts
    BY <1>14 DEF Tick, table
  <2> QED
    BY <2>1, <2>2, <2>3, BoundsAssumption DEF WaitedInv
<1>15. CASE UNCHANGED vars
  BY <1>15 DEF vars, WaitedInv, table, times
<1> QED
  BY <1>1, <1>2, <1>3, <1>4, <1>5, <1>6, <1>7, <1>8, <1>9, <1>10, <1>11,
     <1>12, <1>13, <1>14, <1>15 DEF Next, ScannerStep

(* A dispatch leaves nothing behind but what is behind a full batch, and    *)
(* what is captured after it is in time for no entry that is late.          *)
LEMMA HandledStep ==
  ASSUME TypeInv, ClockInv, HandledInv, [Next]_vars
  PROVE  HandledInv'
<1>1. CASE SendFirst
  <2>1. pc' \in {"send", "loop"}
    BY <1>1, StepMoves DEF SendFirst, TypeInv, LoopTypes
  <2> QED
    BY <2>1 DEF HandledInv
<1>2. CASE LoopCheck
  BY <1>2 DEF LoopCheck, HandledInv
<1>3. CASE PollReady
  BY <1>3 DEF PollReady, HandledInv
<1>4. CASE PollTimeout
  BY <1>4 DEF PollTimeout, HandledInv, network
<1>5. CASE Handle
  BY <1>5 DEF Handle, HandledInv
<1>6. CASE DispatchEnds
  BY <1>6 DEF DispatchEnds, HandledInv, network, loop
<1>7. CASE DispatchBroken
  BY <1>7 DEF DispatchBroken, HandledInv
<1>8. CASE Resend
  <2>1. (pc' = "check" /\ i' = i + 1) \/ pc' = "loop"
    BY <1>8, StepMoves DEF Resend, TypeInv, LoopTypes
  <2>2. pc = "check" /\ UNCHANGED <<buffer, elapsed, handled>>
    BY <1>8 DEF Resend
  <2> QED
    BY <2>1, <2>2, EntriesAre DEF HandledInv, InTime, Expired, TypeInv, LoopTypes
<1>9. CASE GiveUp
  <2>1. (pc' = "check" /\ i' = i + 1) \/ pc' = "loop"
    BY <1>9, StepMoves DEF GiveUp, TypeInv, LoopTypes
  <2>2. pc = "check" /\ UNCHANGED <<buffer, elapsed, handled>>
    BY <1>9 DEF GiveUp, network
  <2> QED
    BY <2>1, <2>2, EntriesAre DEF HandledInv, InTime, Expired, TypeInv, LoopTypes
<1>10. CASE PassOver
  <2>1. (pc' = "check" /\ i' = i + 1) \/ pc' \in {"loop", "print"}
    BY <1>10, StepMoves DEF PassOver, TypeInv, LoopTypes
  <2>2. pc = "check" /\ UNCHANGED <<buffer, elapsed, handled>>
    BY <1>10 DEF PassOver, network
  <2> QED
    BY <2>1, <2>2, EntriesAre DEF HandledInv, InTime, Expired, TypeInv, LoopTypes
<1>11. CASE Report
  BY <1>11 DEF Report, HandledInv
<1>12. CASE Signal
  BY <1>12 DEF Signal, HandledInv, InTime, Expired, network, loop
<1>13. CASE Capture
  <2>1. PICK a \in air :
           LET packet == [answer |-> a, inTime |-> age[a.of] < Timeout]
           IN  /\ packet \in Packet
               /\ buffer' \in Seq(Packet) /\ Len(buffer) \in Nat
               /\ Len(buffer') = Len(buffer) + 1 /\ Len(buffer) < BufferSize
               /\ buffer'[Len(buffer) + 1] = packet
               /\ \A k \in 1 .. Len(buffer) : buffer'[k] = buffer[k]
    BY <1>13, CapturedPacket
  <2>2. UNCHANGED <<pc, i, elapsed, handled, age>>
    BY <1>13 DEF Capture, times, loop
  <2>3. \A e \in Entries :
          /\ age[e] \in Nat /\ elapsed[e] \in Nat
          /\ \A k : k = Len(buffer) + 1 /\ InTime(k, e)' => age[e] < Timeout
    <3>1. buffer'[Len(buffer) + 1].answer = a
          /\ buffer'[Len(buffer) + 1].inTime = (age[a.of] < Timeout)
      BY <2>1
    <3>2. \A e \in Entries : age[e] \in Nat /\ elapsed[e] \in Nat
      BY BoundsAssumption DEF TypeInv, LoopTypes
    <3> QED
      BY <3>1, <3>2 DEF InTime
  <2>4. \A k \in 1 .. Len(buffer), e \in Entries : InTime(k, e)' <=> InTime(k, e)
    BY <2>1 DEF InTime
  <2>5. \A e \in Entries : Expired(e)' <=> Expired(e)
    BY <2>2 DEF Expired
  <2>6. \A k \in 1 .. Len(buffer') : k \in 1 .. Len(buffer) \/ k = Len(buffer) + 1
    BY <2>1
  <2>7. ASSUME pc = "check", NEW k \in 1 .. Len(buffer'), NEW e \in Entries,
               InTime(k, e)', Expired(e)', e >= i
        PROVE  handled = Batch
    <3>1. CASE k \in 1 .. Len(buffer)
      BY <2>4, <2>5, <2>7, <3>1 DEF HandledInv
    <3>2. CASE k = Len(buffer) + 1
      <4>1. age[e] < Timeout /\ elapsed[e] >= Timeout
        BY <2>3, <2>5, <2>7, <3>2 DEF Expired
      <4>2. elapsed[e] <= age[e]
        BY <2>7 DEF ClockInv
      <4> QED
        BY <2>3, <4>1, <4>2, BoundsAssumption
    <3> QED
      BY <2>6, <3>1, <3>2
  <2> QED
    BY <2>2, <2>7 DEF HandledInv
<1>14. CASE Tick
  BY <1>14 DEF Tick, HandledInv, InTime, Expired, network
<1>15. CASE UNCHANGED vars
  BY <1>15 DEF vars, HandledInv, InTime, Expired, network, loop
<1> QED
  BY <1>1, <1>2, <1>3, <1>4, <1>5, <1>6, <1>7, <1>8, <1>9, <1>10, <1>11,
     <1>12, <1>13, <1>14, <1>15 DEF Next, ScannerStep

-----------------------------------------------------------------------------
(* The results. *)

IInv == TypeInv /\ ClockInv /\ WaitedInv

(* Types, clock and times, in any scan.                                     *)
THEOREM Invariance == Spec => []IInv
<1>1. Init => IInv
  <2>1. Init => TypeInv
    BY TypeInit
  <2> QED
    BY <2>1 DEF Init, IInv, ClockInv, WaitedInv
<1>2. IInv /\ [Next]_vars => IInv'
  BY TypeStep, ClockStep, WaitedStep DEF IInv
<1> QED
  BY <1>1, <1>2, PTL DEF Spec

(* The types of all variables; in particular no entry is ever "silent": what *)
(* packet_handler writes into port_status is one of the three verdicts.     *)
THEOREM TypeCorrect == Spec => []TypeOK
<1>1. IInv => TypeOK
  BY DEF IInv, TypeInv, AirInv, BufferInv, TableTypes, LoopTypes, Packet, TypeOK
<1> QED
  BY <1>1, Invariance, PTL

(* Whatever ports get_free_port gives, the verdict about a port is that     *)
(* port's own, however late and in whatever order answers come, for every   *)
(* entry that has shared no source port (TCP) or port number (UDP).         *)
THEOREM VerdictsTrue == Spec => []VerdictTrue
<1> DEFINE Inv == TypeInv /\ PortsInv /\ VerdictTrue
<1>1. Init => Inv
  <2> SUFFICES ASSUME Init PROVE Inv
    OBVIOUS
  <2>1. TypeInv
    BY TypeInit
  <2>2. PortsInv
    BY DEF Init, PortsInv
  <2>3. VerdictTrue
    BY DEF Init, Default, VerdictTrue
  <2> QED
    BY <2>1, <2>2, <2>3
<1>2. Inv /\ [Next]_vars => Inv'
  BY TypeStep, PortsStep, VerdictStep
<1> QED
  BY <1>1, <1>2, PTL DEF Spec

(* A port is given up only after one whole timeout for UDP and two for TCP. *)
GivenUpStep == GiveUp => waited[i] >= (IF IsTcp(i) THEN 2 * Timeout ELSE Timeout)

LEMMA GivenUpStepHolds ==
  ASSUME IInv, [Next]_vars
  PROVE  [GivenUpStep]_vars
<1> SUFFICES ASSUME GiveUp PROVE GivenUpStep
  BY DEF GivenUpStep
<1>1. i \in Entries /\ elapsed[i] >= Timeout /\ elapsed[i] <= age[i]
  BY EntriesAre DEF GiveUp, Expired, IInv, ClockInv, TypeInv, LoopTypes
<1>2. waited[i] >= age[i] /\ (attempts[i] = 2 => waited[i] >= Timeout + age[i])
  BY <1>1 DEF IInv, WaitedInv
<1>3. age[i] \in Nat /\ waited[i] \in Nat /\ elapsed[i] \in Nat
  BY <1>1, BoundsAssumption DEF IInv, TypeInv, LoopTypes
<1>4. IsTcp(i) => attempts[i] = 2
  BY DEF GiveUp
<1> QED
  BY <1>1, <1>2, <1>3, <1>4, BoundsAssumption DEF GivenUpStep

THEOREM GivenUpInTimeAlways == Spec => GivenUpInTime
<1>1. IInv /\ [Next]_vars => [GivenUpStep]_vars
  BY GivenUpStepHolds
<1>2. Spec => [][GivenUpStep]_vars
  BY <1>1, Invariance, PTL DEF Spec
<1> QED
  BY <1>2, PTL DEF GivenUpInTime, GivenUpStep

(* However much the capture holds, nobody is given up while an answer that  *)
(* came within the timeout waits to be handled, unless this round's         *)
(* pcap_dispatch has stopped at a full batch.                               *)
CountsStep ==
  GiveUp => \A k \in DOMAIN buffer :
              buffer[k].answer.of = i /\ buffer[k].inTime => handled = Batch

THEOREM InTimeAnswersCountAlways == Spec => InTimeAnswersCount
<1> DEFINE Inv == IInv /\ HandledInv
<1>1. Init => Inv
  <2>1. Init => HandledInv
    BY DEF Init, HandledInv
  <2>2. Init => TypeInv
    BY TypeInit
  <2> QED
    BY <2>1, <2>2 DEF Init, IInv, ClockInv, WaitedInv
<1>2. Inv /\ [Next]_vars => Inv'
  BY TypeStep, ClockStep, WaitedStep, HandledStep DEF IInv
<1>3. Inv /\ [Next]_vars => [CountsStep]_vars
  <2> SUFFICES ASSUME Inv, GiveUp, NEW k \in DOMAIN buffer,
                      buffer[k].answer.of = i, buffer[k].inTime
               PROVE  handled = Batch
    BY DEF CountsStep
  <2>1. k \in 1 .. Len(buffer) /\ i \in Entries
    BY DEF IInv, TypeInv, BufferInv, LoopTypes
  <2>2. InTime(k, i) /\ Expired(i) /\ pc = "check"
    BY DEF InTime, GiveUp
  <2> QED
    BY <2>1, <2>2, EntriesAre DEF HandledInv
<1>4. Spec => [][CountsStep]_vars
  BY <1>1, <1>2, <1>3, PTL DEF Spec
<1> QED
  BY <1>4, PTL DEF InTimeAnswersCount, CountsStep
=============================================================================
