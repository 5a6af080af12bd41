------------------------------ MODULE DnsProxy ------------------------------
(***************************************************************************)
(* The filtering DNS proxy (ISA/ISA-Project): the poll loop of             *)
(* run_dns_server, the decision of handle_query, the table of id_mapper,   *)
(* and the clients, the resolver and the clock around them.                *)
(*                                                                         *)
(* Datagrams may be lost, delayed and repeated: any query may arrive at    *)
(* any time, and so may the answer to any query that was ever forwarded.   *)
(* An answer carries a mark that the code does not see: whether the proxy  *)
(* was waiting for it when it came.                                        *)
(***************************************************************************)
EXTENDS Integers, Sequences

CONSTANTS
  Queries,      \* the clients' datagrams: [client, id, name, form]
  Blocked,      \* DomainFilter::blocked_domains, names as sequences of labels
  FwdIds,       \* 1 .. 65535 in the code
  Timeout,      \* -t, in ticks of the clock
  ListenSize, UpSize    \* bounds: datagrams waiting in either socket

ASSUME ConstantsAssumption ==
  /\ Timeout \in Nat /\ ListenSize \in Nat /\ UpSize \in Nat
  /\ \A q \in Queries :
       q.name \in Seq(STRING) /\ q.form \in {"A", "other", "bad", "short"}
  /\ Blocked \subseteq Seq(STRING)

VARIABLES
  pc,          \* "check", "poll", "query", "answer" or "ended"
  running,     \* server_running
  ready,       \* revents of the two sockets, as poll has set them
  active,      \* active_mappings, a function on the ids in use
  listenBuf, upBuf,   \* the datagrams waiting in the sockets
  upstream,    \* the network between proxy and resolver
  lastReply    \* history: what this round has last sent to a client

vars == <<pc, running, ready, active, listenBuf, upBuf, upstream, lastReply>>

Answer(fid, q, good, awaited) ==
  [fid |-> fid, q |-> q, good |-> good, awaited |-> awaited]
Reply(to, id, rcode, about, awaited) ==
  [to |-> to, id |-> id, rcode |-> rcode, about |-> about, awaited |-> awaited]

Init ==
  /\ pc = "check" /\ running = TRUE
  /\ ready = [listen |-> FALSE, up |-> FALSE]
  /\ active = <<>>
  /\ listenBuf = <<>> /\ upBuf = <<>> /\ upstream = {}
  /\ lastReply = {}

-----------------------------------------------------------------------------
(* filter.cpp and query_handler.cpp *)

(* Mutant: only the names of the list themselves. *)
ExactOnly(name, blocked) == name = blocked

(* The suffix must begin after a dot: here, at a label. *)
IsSubdomain(name, blocked) ==
  /\ Len(name) >= Len(blocked)
  /\ SubSeq(name, Len(name) - Len(blocked) + 1, Len(name)) = blocked

IsBlocked(name) == \E b \in Blocked : IsSubdomain(name, b)

Decide(q) ==
  CASE q.form \in {"bad", "short"} -> "FORMERR"
    [] q.form = "other" -> "NOTIMP"
    [] OTHER -> IF IsBlocked(q.name) THEN "REFUSED" ELSE "FORWARD"

-----------------------------------------------------------------------------
(* id_mapper.cpp.  Random ids first, then a scan: any free id. *)

InUse == DOMAIN active
Free == FwdIds \ InUse

Kept(fids) == [fid \in fids |-> active[fid]]
Added(fid, q) ==
  [f \in InUse \cup {fid} |-> IF f = fid THEN [q |-> q, age |-> 0] ELSE active[f]]

(* Mutant: the random id is not looked up in the table. *)
AllocateAnyway(fid, q) ==
  fid \in FwdIds /\ active' = Added(fid, q)

Allocate(fid, q) ==
  fid \in Free /\ active' = Added(fid, q)

Expired(fid) == fid \in InUse /\ active[fid].age > Timeout

(* Mutant: the comparison is off by one. *)
CleanupEarly == active' = Kept({fid \in InUse : active[fid].age < Timeout})

(* Mutant: the comparison the wrong way round. *)
CleanupYoung == active' = Kept({fid \in InUse : Expired(fid)})

Cleanup == active' = Kept({fid \in InUse : ~Expired(fid)})

-----------------------------------------------------------------------------
(* run_dns_server *)

(* Mutant: the stop flag counts only when no query waits. *)
StopsOnlyWhenIdle == ~running /\ listenBuf = <<>>
Stops == ~running

LoopCheck ==
  /\ pc = "check" /\ ~Stops /\ pc' = "poll"
  /\ UNCHANGED <<running, ready, active, listenBuf, upBuf, upstream, lastReply>>

(* A signal, or an error of poll or of a socket: the sockets are closed and *)
(* the table is emptied.                                                    *)
Stop ==
  /\ pc = "check" /\ Stops
  /\ pc' = "ended"
  /\ active' = <<>>
  /\ UNCHANGED <<running, ready, listenBuf, upBuf, upstream, lastReply>>

(* poll returns with something to read. *)
PollReady ==
  /\ pc = "poll"
  /\ listenBuf # <<>> \/ upBuf # <<>>
  /\ ready' = [listen |-> listenBuf # <<>>, up |-> upBuf # <<>>]
  /\ pc' = "query"
  /\ lastReply' = {}
  /\ UNCHANGED <<running, active, listenBuf, upBuf, upstream>>

(* A second has passed with nothing to read: the one place that cleans up. *)
PollTimeout ==
  /\ pc = "poll" /\ pc' = "check"
  /\ listenBuf = <<>> /\ upBuf = <<>>
  /\ Cleanup
  /\ UNCHANGED <<running, ready, listenBuf, upBuf, upstream, lastReply>>

(* EINTR, unless the signal came between the check and poll. *)
PollInterrupted ==
  /\ pc = "poll" /\ ~running /\ pc' = "check"
  /\ UNCHANGED <<running, ready, active, listenBuf, upBuf, upstream, lastReply>>

(* Mutant: "continue" after every query. *)
ToNextPoll == pc' = "check"
ToUpstream == pc' = "answer"

NoQuery ==
  /\ pc = "query" /\ ~ready.listen /\ pc' = "answer"
  /\ UNCHANGED <<running, ready, active, listenBuf, upBuf, upstream, lastReply>>

TakeQuery(q) ==
  /\ pc = "query" /\ ready.listen
  /\ q = Head(listenBuf) /\ listenBuf' = Tail(listenBuf)
  /\ UNCHANGED <<running, ready, upBuf>>

Forward ==
  \E q \in Queries, fid \in FwdIds :
    /\ TakeQuery(q) /\ Decide(q) = "FORWARD"
    /\ Allocate(fid, q)
    /\ upstream' = upstream \cup {<<fid, q>>}
    /\ ToUpstream
    /\ UNCHANGED lastReply

(* Mutant: the mapping of a query that was not sent stays in the table. *)
KeepMapping(q) == \E fid \in FwdIds : Allocate(fid, q)

(* sendto fails: the mapping just made is popped again. *)
DropMapping(q) == Free # {} /\ UNCHANGED active

ForwardFails ==
  \E q \in Queries :
    /\ TakeQuery(q) /\ Decide(q) = "FORWARD"
    /\ DropMapping(q)
    /\ ToUpstream
    /\ UNCHANGED <<upstream, lastReply>>

(* No id is left: the query is dropped, and "continue" passes by the        *)
(* upstream socket.                                                         *)
ForwardDropped ==
  \E q \in Queries :
    /\ TakeQuery(q) /\ Decide(q) = "FORWARD"
    /\ Free = {}
    /\ pc' = "check"
    /\ UNCHANGED <<active, upstream, lastReply>>

(* Too short a query for a header gets no answer. *)
Refuse ==
  \E q \in Queries :
    /\ TakeQuery(q) /\ Decide(q) # "FORWARD"
    /\ lastReply' = IF q.form = "short" THEN lastReply
                    ELSE {Reply(q.client, q.id, Decide(q), q, TRUE)}
    /\ ToUpstream
    /\ UNCHANGED <<active, upstream>>

NoAnswer ==
  /\ pc = "answer" /\ ~ready.up /\ pc' = "check"
  /\ UNCHANGED <<running, ready, active, listenBuf, upBuf, upstream, lastReply>>

(* Mutant: the socket is read again without another poll. *)
ReadAgain == UNCHANGED pc
PollAgain == pc' = "check"

TakeAnswer(a) ==
  /\ pc = "answer" /\ ready.up /\ PollAgain
  /\ a = Head(upBuf) /\ upBuf' = Tail(upBuf)
  /\ UNCHANGED <<running, ready, listenBuf, upstream>>

(* id_mapper_pop has found the client that the answer goes to. *)
Relay ==
  /\ upBuf # <<>>
  /\ LET a == Head(upBuf)
         entry == active[a.fid].q
     IN  /\ TakeAnswer(a) /\ a.good /\ a.fid \in InUse
         /\ active' = Kept(InUse \ {a.fid})
         /\ lastReply' = {Reply(entry.client, entry.id, "ANSWER", a.q, a.awaited)}

(* From elsewhere, not a response, unreasonable counts, or an unknown id. *)
DropAnswer ==
  /\ upBuf # <<>>
  /\ LET a == Head(upBuf)
     IN  TakeAnswer(a) /\ (a.good => a.fid \notin InUse)
  /\ UNCHANGED <<active, lastReply>>

Server ==
  \/ LoopCheck \/ Stop \/ PollReady \/ PollTimeout \/ PollInterrupted
  \/ NoQuery \/ Forward \/ ForwardFails \/ ForwardDropped \/ Refuse
  \/ NoAnswer \/ Relay \/ DropAnswer

-----------------------------------------------------------------------------
(* Clients, resolver, clock. *)

QueryArrives ==
  /\ pc # "ended" /\ Len(listenBuf) < ListenSize
  /\ \E q \in Queries : listenBuf' = Append(listenBuf, q)
  /\ UNCHANGED <<pc, running, ready, active, upBuf, upstream, lastReply>>

(* An answer that the proxy waits for: within the timeout, and the first. *)
Awaited(fid, q) ==
  /\ fid \in InUse /\ active[fid].q = q /\ ~Expired(fid)
  /\ \A k \in 1 .. Len(upBuf) : ~(upBuf[k].good /\ upBuf[k].fid = fid)

AnswerArrives ==
  /\ pc # "ended" /\ Len(upBuf) < UpSize
  /\ \E fid \in FwdIds, q \in Queries :
       /\ <<fid, q>> \in upstream
       /\ upBuf' = Append(upBuf, Answer(fid, q, TRUE, Awaited(fid, q)))
  /\ UNCHANGED <<pc, running, ready, active, listenBuf, upstream, lastReply>>

(* A datagram that the checks before id_mapper_pop reject. *)
Junk == Answer(CHOOSE fid \in FwdIds : TRUE, CHOOSE q \in Queries : TRUE, FALSE, FALSE)

JunkArrives ==
  /\ pc # "ended" /\ Len(upBuf) < UpSize
  /\ upBuf' = Append(upBuf, Junk)
  /\ UNCHANGED <<pc, running, ready, active, listenBuf, upstream, lastReply>>

(* Ages are counted up to the first that counts as expired. *)
Tick ==
  /\ \E fid \in InUse : ~Expired(fid)
  /\ active' = [fid \in InUse |-> IF Expired(fid) THEN active[fid]
                                  ELSE [active[fid] EXCEPT !.age = @ + 1]]
  /\ UNCHANGED <<pc, running, ready, listenBuf, upBuf, upstream, lastReply>>

(* SIGINT or SIGTERM, or an error that makes the loop break. *)
Signal ==
  /\ running /\ running' = FALSE
  /\ UNCHANGED <<pc, ready, active, listenBuf, upBuf, upstream, lastReply>>

Environment == QueryArrives \/ AnswerArrives \/ JunkArrives \/ Tick \/ Signal

Next == Server \/ Environment

Spec == Init /\ [][Next]_vars

(* The server runs on, poll's second passes, the clock advances.            *)
FairSpec == Spec /\ WF_vars(Server) /\ WF_vars(Tick)

-----------------------------------------------------------------------------
(* Properties. *)

(* The types of the server's variables; what the server waits for and what  *)
(* the network carries are queries of the clients.                          *)
TypeOK ==
  /\ pc \in {"check", "poll", "query", "answer", "ended"}
  /\ running \in BOOLEAN
  /\ ready \in [listen : BOOLEAN, up : BOOLEAN]
  /\ active \in [InUse -> [q : Queries, age : 0 .. Timeout + 1]] /\ InUse \subseteq FwdIds
  /\ \A k \in 1 .. Len(listenBuf) : listenBuf[k] \in Queries
  /\ upstream \subseteq FwdIds \X Queries
  /\ (pc = "query" /\ ready.listen) => listenBuf # <<>>
  /\ (pc = "answer" /\ ready.up) => upBuf # <<>>

(* No id is taken by a query that was not sent to the resolver: a failed    *)
(* send leaves nothing in the table.                                        *)
MappedIsForwarded == \A fid \in InUse : <<fid, active[fid].q>> \in upstream

(* The resolver sees only A queries for names that are neither on the list  *)
(* nor below a name on it.                                                  *)
OnlyAllowedForwarded ==
  \A m \in upstream :
    /\ m[2].form = "A"
    /\ \A b \in Blocked : \A k \in 1 .. Len(m[2].name) :
         SubSeq(m[2].name, k, Len(m[2].name)) # b

(* "Odpovede na preposlane dotazy predava povodnemu klientovi" (README):    *)
(* the answer that the proxy waits for goes to the client whose query it    *)
(* answers, under that query's id, whatever else comes before or after it.  *)
(* An overdue or a repeated answer may go to another client: nothing but    *)
(* its id is looked at (server.cpp:405).                                    *)
RightClient ==
  \A r \in lastReply :
    r.awaited => r.to = r.about.client /\ r.id = r.about.id

(* A client that is still within the timeout loses its place only to the    *)
(* answer with its forwarded id, or at the end of the program.              *)
KeptUntilTimeout ==
  [][\A fid \in InUse : ~Expired(fid) =>
         \/ fid \in InUse' /\ active'[fid].q = active[fid].q
         \/ pc' = "ended"
         \/ pc = "answer" /\ Head(upBuf).good /\ Head(upBuf).fid = fid]_vars

(* A signal ends the server. *)
StopsWhenAsked == ~running ~> pc = "ended"

Silence == listenBuf = <<>> /\ upBuf = <<>>

(* "Time-based cleanup of stale mappings to prevent memory leaks"           *)
(* (id_mapper.h:13): an expired mapping goes if in the end no datagram      *)
(* comes any more, or poll at least times out again and again.  One         *)
(* datagram in every second is enough to keep it for ever.                  *)
ExpiredGoWhenQuiet ==
  (<>[]Silence \/ []<><<PollTimeout>>_vars) =>
    \A fid \in FwdIds : Expired(fid) ~> ~Expired(fid)

(* An answer that has come is read, while there are ids left.               *)
AnswersReadWhileIdsLast ==
  <>[](Free # {}) => (upBuf # <<>> ~> (pc = "answer" /\ ready.up) \/ pc = "ended")
=============================================================================
