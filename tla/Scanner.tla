------------------------------ MODULE Scanner ------------------------------
(***************************************************************************)
(* The port scanner of IPK/Project-2: scan() and packet_handler().  One     *)
(* entry of port_status is probed by a TCP SYN, once more when nothing has  *)
(* come back, or by a single UDP datagram.  Answers are read from a capture *)
(* whose filter was compiled before the first probe.                        *)
(*                                                                          *)
(* The clock is kept as ages: age[e] is the time since the last probe of e, *)
(* counted up to Timeout, the only value the code compares it with.         *)
(***************************************************************************)
EXTENDS Integers, Sequences

CONSTANTS Table,       \* the entries to scan: [proto, port, ip] each
          Hosts,       \* what the ports may be: "open", "closed" or "silent" each
          Self,        \* the address of the scanner on the interface
          Timeout,     \* the option -w, in ticks of the clock
          Batch,       \* packets that one pcap_dispatch handles at most
          BufferSize,  \* packets that the capture holds
          MaxPort,     \* the ephemeral ports are 1..MaxPort
          Distinct     \* FALSE in the code; TRUE, for TLC: no port is given twice

Entries == DOMAIN Table
Ports == 1..MaxPort
IsTcp(e) == Table[e].proto = "tcp"

ASSUME TableAssumption ==
  /\ Table \in Seq([proto : {"tcp", "udp"}, port : Nat, ip : STRING])
  /\ Len(Table) > 0
ASSUME HostsAssumption == Hosts \subseteq [Entries -> {"open", "closed", "silent"}]
ASSUME BoundsAssumption ==
  /\ Timeout \in Nat \ {0} /\ Batch \in Nat \ {0} /\ BufferSize \in Nat
  /\ MaxPort \in Nat /\ MaxPort >= Len(Table) /\ Distinct \in BOOLEAN

VARIABLES
  host,       \* what each scanned port is
  air,        \* the answers that the target has ever sent
  buffer,     \* the captured ones that packet_handler has not had, each with
              \* whether it came within the timeout
  waited,     \* time since the first probe, up to twice Timeout
  src_port, status, responded, attempts, age,  \* port_status
  drawn,      \* how many ports get_free_port has given out, if Distinct
  given,      \* history: the source ports that each entry has ever had
  filter,     \* the destination ports of TCP that the capture lets through
  elapsed,    \* the ages when the loop read the clock
  slept,      \* time that this poll has waited
  handled,    \* packets of this round's pcap_dispatch
  pending,    \* pending_ports > 0
  stop,       \* stop_capture
  i,          \* the index of the for loops
  pc

network == <<host, air, buffer>>
table == <<src_port, status, responded, attempts, drawn, given>>
times == <<age, waited>>
loop == <<elapsed, slept, handled, pending>>
vars == <<network, table, times, loop, filter, stop, i, pc>>

Default(e) == IF IsTcp(e) THEN "filtered" ELSE "open"

\* An answer to a probe of e from port p: a SYN-ACK or RST goes to p, an ICMP
\* message quotes the datagram, of which the code looks at addresses and port.
Answers(e, p) ==
  IF IsTcp(e) THEN IF host[e] = "silent" THEN {} ELSE {[of |-> e, to |-> p]}
  ELSE IF host[e] = "closed" THEN {[of |-> e, to |-> 0]} ELSE {}

\* The ports that get_free_port may give: it closes the socket again, so that the
\* same port may come twice.
FreePortsOrError == {0, drawn + 1} \* -1 in the code
FreePorts == IF Distinct THEN {p \in Ports : p = drawn + 1} ELSE Ports

Init ==
  /\ host \in Hosts
  /\ IF Distinct THEN src_port = [e \in Entries |-> e]
                 ELSE src_port \in [Entries -> Ports]
  /\ drawn = Len(Table) /\ given = [e \in Entries |-> {src_port[e]}]
  /\ filter = {src_port[e] : e \in {x \in Entries : IsTcp(x)}}
  /\ status = [e \in Entries |-> Default(e)]
  /\ responded = [e \in Entries |-> FALSE]
  /\ attempts = [e \in Entries |-> 0]
  /\ age = [e \in Entries |-> 0] /\ elapsed = age /\ waited = age
  /\ air = {} /\ buffer = <<>>
  /\ slept = 0 /\ handled = 0 /\ pending = FALSE /\ stop = FALSE
  /\ i = 1 /\ pc = "send"

\* One probe of e.  When the send fails it is tried again from a new port, and
\* whether the second succeeds is not looked at.
Probe(e) ==
  \/ /\ air' = air \cup Answers(e, src_port[e])
     /\ UNCHANGED <<src_port, drawn, given>>
  \/ \E p \in FreePorts :
       /\ src_port' = [src_port EXCEPT ![e] = p]
       /\ given' = [given EXCEPT ![e] = @ \cup {p}]
       /\ drawn' = IF Distinct THEN drawn + 1 ELSE drawn
       /\ \/ air' = air \cup Answers(e, p)
          \/ UNCHANGED air

Step(last) == /\ i' = IF i = Len(Table) THEN 1 ELSE i + 1
              /\ pc' = IF i = Len(Table) THEN last ELSE pc

SendFirst ==
  /\ pc = "send"
  /\ attempts' = [attempts EXCEPT ![i] = 1]
  /\ age' = [age EXCEPT ![i] = 0]
  /\ waited' = [waited EXCEPT ![i] = 0]
  /\ Probe(i)
  /\ Step("loop")
  /\ UNCHANGED <<host, buffer, status, responded, loop, filter, stop>>

LoopCheck ==
  /\ pc = "loop"
  /\ pending' = FALSE /\ handled' = 0
  /\ IF stop THEN pc' = "print" /\ UNCHANGED elapsed
     ELSE pc' = "poll" /\ elapsed' = age
  /\ UNCHANGED <<network, table, times, slept, filter, stop, i>>

PollReady ==
  /\ pc = "poll" /\ buffer # <<>>
  /\ pc' = "dispatch" /\ slept' = 0
  /\ UNCHANGED <<network, table, times, elapsed, handled, pending, filter, stop, i>>

\* next_timeout is always the whole timeout: what the check of the ports makes of
\* it is thrown away at the top of the loop.
PollTimeout ==
  /\ pc = "poll" /\ buffer = <<>> /\ slept = Timeout
  /\ pc' = "check" /\ slept' = 0
  /\ UNCHANGED <<network, table, times, elapsed, handled, pending, filter, stop, i>>

\* The entries an answer may be for, in the code's eyes; the first one is taken.
MatchesAnyPort(a) ==
  {e \in Entries :
     /\ ~responded[e] /\ Table[e].proto = Table[a.of].proto
     /\ Table[e].ip = Table[a.of].ip}
Matches(a) ==
  {e \in Entries :
     /\ ~responded[e] /\ Table[e].proto = Table[a.of].proto
     /\ IF IsTcp(e) THEN src_port[e] = a.to /\ Table[e].ip = Table[a.of].ip
        ELSE Table[e].port = Table[a.of].port /\ Table[e].ip = Self}

Handle ==
  /\ pc = "dispatch" /\ buffer # <<>> /\ handled < Batch
  /\ ~stop
  /\ LET a == Head(buffer).answer
         found == Matches(a) IN
     /\ buffer' = Tail(buffer)
     /\ handled' = handled + 1
     /\ \/ found = {} /\ UNCHANGED <<status, responded>>
        \/ \E e \in found :
             /\ \A x \in found : e <= x
             /\ status' = [status EXCEPT ![e] = host[a.of]]
             /\ responded' = [responded EXCEPT ![e] = TRUE]
  /\ UNCHANGED <<host, air, src_port, attempts, drawn, given, times, elapsed, slept, pending, filter, stop, i, pc>>

\* pcap_dispatch returns when it has had its number or nothing is left.
DispatchEnds ==
  /\ pc = "dispatch"
  /\ buffer = <<>> \/ handled = Batch
  /\ pc' = "check"
  /\ UNCHANGED <<network, table, times, loop, filter, stop, i>>

\* After SIGINT packet_handler breaks the loop instead of looking at the packet.
DispatchBroken ==
  /\ pc = "dispatch" /\ stop /\ buffer # <<>> /\ handled < Batch
  /\ pc' = "print"
  /\ UNCHANGED <<network, table, times, loop, filter, stop, i>>

ExpiredEarly(e) == elapsed[e] + 1 >= Timeout
ExpiredByNow(e) == age[e] >= Timeout \* the clock read after poll
Expired(e) == elapsed[e] >= Timeout

Resend ==
  /\ pc = "check" /\ ~responded[i] /\ Expired(i) /\ IsTcp(i) /\ attempts[i] = 1
  /\ age' = [age EXCEPT ![i] = 0]
  /\ attempts' = [attempts EXCEPT ![i] = 2]
  /\ Probe(i)
  /\ pending' = TRUE
  /\ Step("loop")
  /\ UNCHANGED <<host, buffer, status, responded, waited, elapsed, slept, handled, filter, stop>>

\* A second TCP probe or the UDP probe has run out; the entry counts as pending once more.
GiveUp ==
  /\ pc = "check" /\ ~responded[i] /\ Expired(i) /\ (IsTcp(i) => attempts[i] = 2)
  /\ responded' = [responded EXCEPT ![i] = TRUE]
  /\ pending' = TRUE
  /\ Step("loop")
  /\ UNCHANGED <<network, src_port, status, attempts, drawn, given, times, elapsed, slept, handled, filter, stop>>

CountsAll(e) == TRUE
Counts(e) == ~responded[e]
PassOver ==
  /\ pc = "check" /\ (responded[i] \/ ~Expired(i))
  /\ pending' = (pending \/ Counts(i))
  /\ Step(IF pending' THEN "loop" ELSE "print")
  /\ UNCHANGED <<network, table, times, elapsed, slept, handled, filter, stop>>

Report ==
  /\ pc = "print" /\ pc' = "done"
  /\ UNCHANGED <<network, table, times, loop, filter, stop, i>>

\* SIGINT; poll returns with EINTR, and the loop is left.
Signal ==
  /\ pc # "done" /\ ~stop
  /\ stop' = TRUE
  /\ pc' = IF pc = "poll" THEN "print" ELSE pc
  /\ UNCHANGED <<network, table, times, loop, filter, i>>

\* An answer, late, again, or for the first time, reaches the capture.
Capture ==
  /\ pc # "done" /\ Len(buffer) < BufferSize
  /\ \E a \in air :
       /\ IsTcp(a.of) => a.to \in filter
       /\ buffer' = Append(buffer, [answer |-> a, inTime |-> age[a.of] < Timeout])
  /\ UNCHANGED <<host, air, table, times, loop, filter, stop, i, pc>>

UpTo(limit, f) == [e \in Entries |-> IF f[e] < limit THEN f[e] + 1 ELSE f[e]]

Tick ==
  /\ pc # "done"
  /\ age' = UpTo(Timeout, age)
  /\ waited' = UpTo(2 * Timeout, waited)
  /\ slept' = IF pc = "poll" /\ slept < Timeout THEN slept + 1 ELSE slept
  /\ UNCHANGED <<network, table, elapsed, handled, pending, filter, stop, i, pc>>

ScannerStep == \/ SendFirst \/ LoopCheck \/ PollReady \/ PollTimeout
               \/ Handle \/ DispatchEnds \/ DispatchBroken
               \/ Resend \/ GiveUp \/ PassOver \/ Report

Next == ScannerStep \/ Signal \/ Capture \/ Tick

Spec == Init /\ [][Next]_vars
FairSpec == Spec /\ WF_vars(ScannerStep) /\ WF_vars(Tick)
----------------------------------------------------------------------------
Answer == [of : Entries, to : 0..MaxPort]

\* The states have their types.
TypeOK ==
  /\ host \in Hosts
  /\ air \subseteq Answer /\ buffer \in Seq([answer : Answer, inTime : BOOLEAN]) /\ Len(buffer) <= BufferSize
  /\ src_port \in [Entries -> Ports] /\ drawn \in Ports /\ filter \subseteq Ports
  /\ given \in [Entries -> SUBSET Ports]
  /\ status \in [Entries -> {"open", "closed", "filtered"}]
  /\ responded \in [Entries -> BOOLEAN] /\ attempts \in [Entries -> 0..2]
  /\ age \in [Entries -> 0..Timeout] /\ elapsed \in [Entries -> 0..Timeout]
  /\ waited \in [Entries -> 0..(2 * Timeout)]
  /\ slept \in 0..Timeout /\ handled \in 0..Batch
  /\ pending \in BOOLEAN /\ stop \in BOOLEAN /\ i \in Entries
  /\ pc \in {"send", "loop", "poll", "dispatch", "check", "print", "done"}

\* No other TCP entry has ever had a source port of e; no other UDP entry has the
\* port of e, at whatever address.
Alone(e) ==
  \A x \in Entries \ {e} :
    /\ IsTcp(e) /\ IsTcp(x) => given[e] \cap given[x] = {}
    /\ ~IsTcp(e) /\ ~IsTcp(x) => Table[e].port # Table[x].port

\* What is reported of a port is what that port answered, however late the answer
\* to an earlier probe comes and whatever other ports answer meanwhile, unless
\* get_free_port, which closes its socket again, has given one of its source ports
\* to another entry too, or another address is scanned at the same UDP port.
VerdictTrue ==
  \A e \in Entries :
    Alone(e) => /\ status[e] = "closed" => host[e] = "closed"
                /\ IsTcp(e) /\ status[e] = "open" => host[e] = "open"

\* "No response is received after a timeout ... a second packet is sent to confirm
\* this": a port is given up only after two whole timeouts (one for UDP), although
\* the ages are read before poll and the second probe is sent after it.
GivenUpInTime ==
  [][GiveUp => waited[i] >= (IF IsTcp(i) THEN 2 * Timeout ELSE Timeout)]_vars

\* Nobody is given up while an answer to it, captured within the timeout, waits to
\* be handled, unless pcap_dispatch has just handled as many packets as it may: then
\* the answer lay behind a full batch, and the code does give the port up
\* (scanner.c:170 and 198).  The clock that is read before poll ensures the rest.
InTimeAnswersCount ==
  [][GiveUp => \A k \in DOMAIN buffer :
                 buffer[k].answer.of = i /\ buffer[k].inTime => handled = Batch]_vars

\* The scan ends, with every port resolved or by SIGINT, whatever the target does.
ScanEnds == <>(pc = "done")
=============================================================================
