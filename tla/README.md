# FIT-VUT-Projects: specifications, model checking and proofs

The repository holds some twenty course projects of FIT VUT. They share no
code. What is worth a specification are the projects whose correctness depends
on the *order* of things: processes on semaphores, two programs that talk over
a lossy network, a server whose table outlives a query. The first part of this
document is the inventory of all of them; then come the modules, the runs, the
proofs, what the checks found, and the plan.

Paths are relative to the repository. `processes.c:105` is line 105.

| module | models | proofs |
|---|---|---|
| `Skibus` (`MCSkibus`) | `IOS/Project-2`: the ski bus, processes on POSIX semaphores | `SkibusProofs` |
| `ChatFsm`, `UdpChat` | `IPK/Project-1`: chat client over UDP, its network and server | `UdpChatProofs` |
| `TcpChat`, `OrderedChannel` | the same client over TCP; what it promises about messages | `TcpChatProofs` |
| `DnsProxy` (`MCDnsProxy`) | `ISA/ISA-Project`: filtering DNS proxy, its clients and resolver | `DnsProxyProofs` |
| `LudoBoard`, `LudoRules`, `Ludo` (`MCLudo`) | `ITU/ITU-Project`: the Ludo server, its rules and its page | `LudoProofs` |
| `Scanner` (`MCScanner`) | `IPK/Project-2`: the port scanner, the scanned machine and the capture | `ScannerProofs` |
| `FsmCore` (`MCFsmCore`) | `ICP/ICP-Project/src/core`: the automata editor without its windows | `FsmCoreProofs` |
| `SetInduction` | nothing: induction and iteration stated with sets, for the proofs | itself |

## 1. Inventory

### Ski bus (IOS/Project-2) - modelled

*State.* Shared memory: `counter` (next line number), `capacity[k]` (skiers
waiting at stop k), the semaphores `main_sem` (mutual exclusion of output),
`bus_stop_sem[k]`, `bus_boarding_sem`, `bus_unboarding_sem`. Locals of the bus:
stop, passengers, the number it found waiting.
*Operations.* The parent forks and waits; a skier counts itself, walks, waits,
boards, rides, gets off; the bus goes round its stops and decides at the end
whether to go again.
*Interaction.* Semaphores only. The same `bus_boarding_sem` acknowledges both
getting on and getting off.
*Hard.* Every interleaving of the processes; counts changed without a lock
(`proj2.c:79`, `processes.c:105`); a line numbered without `main_sem`
(`processes.c:214`); a decision taken from a count that a forked skier has not
entered yet (`processes.c:222`).
*Correct when* a skier boards only a bus standing at its stop, gets off only at
the final stop, the bus is never overfull and leaves the final stop empty,
numbered lines do not collide, and everybody is taken up.

### Chat client (IPK/Project-1) - UDP, TCP and the state machine modelled

*State.* `StateMachine::current_state_`, `termination_requested_`,
`last_request_time_`; in `UdpClient` the next id and the ids received, in
`TcpClient` `buffer_`, the bytes after the last complete message; the lines that
`std::cin` has read ahead.
*Operations.* One loop: poll; timeout of a request; termination; a line of
standard input; a datagram. `send_message` waits for a CONFIRM itself, inside
the loop's iteration, and retransmits. Over TCP `recv` appends to the buffer and
hands on every complete message as one batch.
*Interaction.* The network may lose, delay, duplicate and reorder. The socket
is read at two places: in the loop and in the wait for a CONFIRM. A TCP stream
keeps the order and may be cut anywhere.
*Hard.* What the wait consumes and the loop still believes to be there; old
CONFIRMs and old REPLYs; SIGINT and EOF while a request is pending; half a
message, or several and a half; a batch of which one message does not parse.
*Correct when* a message of the server is shown once at most, a confirmed
message has arrived, the session is open only after the server accepted it,
the wait ends, nothing but a farewell follows a farewell, and the client ends
when it is told to. Over TCP every message is shown, once and in order.
Arguments, name resolution and formatting are I/O without state.

### DNS proxy (ISA/ISA-Project) - modelled

*State.* `active_mappings`: forwarded id -> client address, its id, time.
The flag `server_running`, set by a signal handler. The list of blocked names.
*Operations.* poll with a timeout of one second; refuse, answer with an error or
forward a query; relay an answer and forget its id; remove expired entries.
*Interaction.* Two sockets; the answer is matched to its query by the forwarded
id alone.
*Hard.* Ids that are used again; removal only when nothing happens
(`server.cpp:228`); a table that is full; sends that fail half-way; a signal
between the check and poll.
*Correct when* answers go to the client that asked, filtered names stay inside,
no entry is removed early or leaked, and the server stops when told to.
The format of messages enters only as well formed or not, of type A or not. The
reading of the list and of arguments happens before the loop begins.

### Ludo server (ITU/ITU-Project) - modelled, one request at a time

*State.* The rows of a database: the game (`turn`, `extraTurn`, `over`), players
(`isBot`), pawns (`position`, `inHome`); in the page `clientState` and the moves
it has been offered.
*Operations.* Two HTTP requests, `roll` and `move`; `MovePawn`, which captures
and places; `DoBotTurns`, the turns of all bots up to the next human.
*Interaction.* One page plays for all humans. It waits for the answer before it
changes its own state. Nothing in the database says that a roll awaits its
move.
*Hard.* One turn is many writes; pawns that `DoBotTurns` reads once and uses for
all bots (`movement.ts:93`), a win told from what was read before the move
(`movement.ts:157`), a loop without a bound (`movement.ts:96`), the board
between the awaits of overlapping requests (`movement.ts:25`).
*Correct when* no two pawns share a spot, turns follow the rules whatever the
number of writes, wins are recorded, and every request is answered.

### The other games of ITU - not modelled

Snake and Pac-Man run in one browser; of their server side only the best score
is shared. The pages are presentation.

### Port scanner (IPK/Project-2) - modelled, without link types and errors of poll

*State.* `port_status`: an entry for each port and address with source port, status,
`responded`, number of probes and time of the last one; the filter of the
capture; `stop_capture`.
*Operations.* Send every first probe; then poll, read the captured answers, look
at all ports: probe a TCP port once more, give one up, count what is pending.
*Interaction.* The target answers or is silent; `pcap` keeps answers in a buffer,
if they pass the filter. A signal handler sets the flag.
*Hard.* The clock is read before `poll` and judged by after it (`scanner.c:180`);
late answers to a first probe; ports that are drawn again (`scanner.c:133`)
after the filter was compiled (`scanner.c:115`); ICMP messages matched by a quoted address
(`capture.c:92`).
*Correct when* what is reported of a port is what that port answered, nobody is
given up too early or with an answer in hand, and the scan ends.

### Automata editor (ICP) - core modelled

*State.* The map `states` of `State` objects, each with its list `nextStates` and
its list of dependencies; `startState`, `currentState` (pointers, which may
outlive the map's entry), `finalStates`; the input that is left, the output, the
expected inputs, the state of the machine.
*Operations.* Add, remove, prune, update; set the start state; save and load;
validate; run, step, stop; called by `FSMManager` in one thread.
*Hard.* A transition lives in two places (`fsm.cpp:200`); removal and pruning are
recursions over lists that they change (`fsm.cpp:1220`, `1283`) and compare states
by names, which a removed start state may share with a new one (`1253`); a load
clears before it knows that it will succeed (`fsm.cpp:924`); a step does
several things of which a later one may throw (`fsm.cpp:348`).
*Correct when* the two places agree, a valid automaton is determined and all of it
can be reached, a file loses nothing, a removal takes only orphans, and the
output is that of the states entered on the characters consumed.
The GUI is Qt; the script of a state is arbitrary JavaScript, of which the
model keeps that it may throw.

### LED snake (IMP) - not modelled

One loop without concurrency: buttons, steps, food. `snake_game.c:119` allows two
turns in one reading. The display driver is hardware.

### Convoys (IMS) - not modelled

A discrete simulation in SIMLIB: convoys seize towns, load and unload. Times and
amounts are random real numbers and its results are statistics; what they
should be is in a document that is not in the repository.

### Sequential programs

| component | why not (yet) |
|---|---|
| IAL: stack, infix to postfix, list, tree, hash table | pure algorithms, each with its own tests; could become operators against sequences and sets |
| IFJ compiler | sequential, without a reference semantics in the repository |
| IPP parser and interpreter | sequential; dispatch through classes could become operators |
| IOS/Project-1 `xtf` | a shell script of one pass, no state |
| IDS, ISS, IUS | a schema, a notebook, documents |

## 2. The modules and the code

### Skibus

A process is a program counter; an action is one access to shared memory. Two
neighbouring accesses are one action only where nobody can tell: a post after
an access of the same process, and the increment of `counter` under `main_sem`
with its post. The increment that the bus makes without the semaphore is two
actions (`BusFinalRead`, `BusFinalWrite`), and so are the unlocked `++` and
`--` of `capacity` (`SkierRead`, `SkierCountWrite`, `SkierOffWrite`).

| code | definitions |
|---|---|
| `main`, `proj2.c` | `Init`, `ForkSkier`, `ForkBus`, `ForkFails`, `Cleanup` |
| `skier_process`, `processes.c` | `SkierRead` ... `SkierDone` |
| `bus_process`, `processes.c` | `BusWrites` ... `BusFinish`, with `MayCall`, `NewLap`, `RemainingUpTo` |
| `sem_wait(main_sem)` and write, increment and `sem_post` | `WriteLine`, `Release` |

Left out: the sleeps (any interleaving is allowed anyway), the texts, the
checks of arguments, a failing `mmap` or `sem_init`. `lines` is a history
variable.

### ChatFsm and UdpChat

`ChatFsm` has no state: it is `StateMachine::transition` (`OnSent`,
`OnReceived`), the commands accepted in each state (`MaySend`) and the reaction
to a message (`Reaction`).

| code | definitions |
|---|---|
| `UdpClient::send_message` | `Send`, then `WaitConfirmed`, `WaitUnexpected`, `WaitIgnored`, `WaitTimeout`, `WaitFails` |
| `UdpClient::receive_message` | `Take`, `Remember`, `ReceiveNothing`, and `ReceiveNew` |
| a `recvfrom` that fails, in either place | `SocketError` in the network, `WaitIgnored`, `ReceiveFails` |
| `ClientApplication::run` | `Poll`, `Check...`, `Stdin...`, `Sock...` |
| `handle_server_input` | `ReceiveNew` |
| signal handler, clock | `Signal`, `Tick` |
| not in the repository: network, server | `Arrive`, `ServerGets`, `ServerSends` |

The network is the set of all datagrams ever sent. Each may arrive at any time,
again and again, or never; so a retransmission changes only what is left of the
client's attempts. Malformed datagrams and errors of the socket (`SocketError`, which
makes the next `recvfrom` fail) may come at any time. The wait for a CONFIRM takes
datagrams in two ways: one that does not confirm costs an attempt (`WaitUnexpected`,
`udp_client.cpp:122`), but one from another port than `server_addr_`, and a failed
`recvfrom`, only start the timeout again (`WaitIgnored`, `udp_client.cpp:96`, `107`).
To tell them apart the server has two ports, the one the client was given and one of
the session's own, and may send anything from either; `serverAddr` is the one in
`server_addr_`, which every new message sets. The time since a request is `"none"`, `"fresh"` or `"old"`
(five seconds). A sent message whose `sendto` fails ends the program: that is
the second disjunct in `Send`. `NoId` stands for the id of a datagram that is
malformed, and of the CONFIRM of a text message, which `send_message` accepts
whatever its id (`udp_client.cpp:117`).

Three abstractions matter. Ids do not wrap: the code's are 16 bits wide and the
run uses a handful. Datagrams come from the server's host only: `receive_message`
does not look at the sender, so one of a third host would be one more port here;
and the server's port is not 0, which `send_message` takes for "any". A user types one line at a time: lines that `std::cin`
has already buffered and that poll does not report are in `TcpChat`.

### TcpChat and OrderedChannel

The loop is that of `UdpChat`, and `ChatFsm` is shared. A message of the server is
two pieces of the byte stream, the second of which ends in CR LF: enough for
`recv` to return nothing complete, one message, or one and a half.

| code | definitions |
|---|---|
| `TcpClient::receive_message` | `Receive` with `EndsOf` (where a message ends), `End` (where the j-th one does), `MessagesIn`, `RestOf`; `ReceiveEnd`, `ReceiveFails` |
| `TcpMessage::parse` | `Parses`: both pieces there, and not one of the malformed messages (`"BAD"`) |
| `TcpClient::send_message` | `Sent`, `NotSent` |
| `ClientApplication::run` | `LoopEnds`, `CheckEnds`, `Poll`, `Stdin...`, `Sock...` |
| `handle_stdin` | `Lines`, `GetLine`: poll sees `pipe`, `getline` takes from `cin` |
| `handle_server_input` | `HandleMessage` for each message of `batch`, `BatchDone`, `Farewell` |
| not in the repository: user, server | `Type`, `CloseInput`, `ServerSays`, `ServerReplies`, `ServerCloses`; `Tick`, `Signal` |

`ServerCloses` is a FIN or a reset; after a reset what is on the wire is lost.
`said`, `shown` and `toServer` are histories. `OrderedChannel` is the abstract
specification: what was shown is a prefix of what was said. `InOrder` is the
refinement, with the numbers of the messages for the messages.
Left out: a message longer than the buffer, partial sends, name resolution, and a
NUL byte: `tcp_client.cpp:120` appends what `recv` returned as a C string, so a NUL
would drop the rest of it. The protocol's alphabet has no NUL, and neither have the
pieces of the model.

### DnsProxy

| code | definitions |
|---|---|
| `run_dns_server`, `server.cpp` | `LoopCheck`, `Stop`, `PollReady`, `PollTimeout`, `PollInterrupted`, then `NoQuery` ... `Refuse`, then `NoAnswer`, `Relay`, `DropAnswer` |
| `handle_query`, `filter.cpp`, `domain_utils.cpp` | `Decide`, `IsBlocked`, `IsSubdomain` |
| `id_mapper.cpp` | `Allocate`, `DropMapping`, `Kept`, `Expired`, `Cleanup` |
| signal handler | `Signal` |
| not in the repository: clients, resolver, clock | `QueryArrives`, `AnswerArrives`, `JunkArrives`, `Tick` |

A query is taken, decided and forwarded in one action: the server is one thread
and nothing it shares changes meanwhile except `server_running`, which it reads
only at the top of the loop. That reading and the call of poll are two actions,
because a signal may come between them. The id is any free one: the code draws
at random and then scans. A name is a sequence of labels. Ages are counted up
to the first that counts as expired, which bounds them without changing any
comparison.

The network repeats answers and brings them as late as it likes. An answer in the
socket carries a mark for the properties, `awaited`: it came within the timeout of
its query and is the first for its id that waits (`Awaited`). No guard of the server
looks at it.

### LudoBoard, LudoRules and Ludo

`LudoBoard` has the pure part: `GetAvailableMoves` (`AvailableMoves`, with the
walk of one pawn as `StepsFrom`), the next colour, the first free start. A pawn
is a colour and a number; a spot is the number it has in the code. The code
walks step by step and gives up when a step leaves the home path; here a walk that
has left it stays outside it, so that only its end is looked at (`Landing`).
`BoardAssumption` says what the tables of `constants.ts` have and the code relies
on: `NEXT_COLOR` is a cycle, home paths lie beyond the circle and starts before
it, no two colours share a spot of either, and a home has a spot for each pawn.
That the first colour, RED, is in the game is not a fact of the code (section 4).

`LudoRules` is the abstract specification: a throw, a move with its capture in
*one* step on the board as it is, another turn for a human's six, the next
colour. It knows nothing of requests or of the database.

| code | `Ludo` |
|---|---|
| `roll/route.ts` | `Roll`, `RecordSix`, `Offer`, `OfferNothing` |
| `move/route.ts` | `Choose` (the request), `PlaceForHuman`, then `Win`, `UseExtraTurn` or `PassTurn` |
| `MovePawn`, `movement.ts` | `FindOccupant`, `SendHome`, `Placed` |
| `DoBotTurns`, `movement.ts` | `ReadPlayers`, `BotMoves`, `BotCannotMove`, `PlaceForBot`, `HumanIsNext`, `SetTurn` |
| `use-game.ts` | `page`, `moves`, `Choose`, `Reload` |

An action is one access to the database; consecutive reads that nothing can
come between are one. `seen` is what `DoBotTurns` has read, `pos` what the
database holds: telling the two apart is the point of the module.
The refinement `Rules` reads a capture as not begun while its pawn is already
sent home and the mover not yet placed (`BoardForRules`), takes the turn from
`DoBotTurns` while it runs, and calls a six spent once the loop has left the
colour that threw it.

Left out: two requests at once (a second click before the first answer, a second
window), pausing, deleting and importing a game, and the layout of the board.

### Scanner

| code | `Scanner` |
|---|---|
| `scan`, first loop | `SendFirst` with `Probe` and `FreePorts` |
| top of the second loop | `LoopCheck` (reads the clock into `elapsed`) |
| `poll`, `pcap_dispatch` | `PollReady`, `PollTimeout`, `Handle`, `DispatchEnds`, `DispatchBroken` |
| `packet_handler` | `Matches`, `Handle` |
| third loop, over the ports | `Resend`, `GiveUp`, `PassOver` with `Expired`, `Counts` |
| output | `Report` |
| signal handler | `Signal` |
| not in the repository: target, capture, clock | `Answers`, `Capture`, `Tick` |

`air` is the set of all answers ever sent, each of which may be captured at
any time, again, or never. An answer to a TCP probe carries the port it goes
to; an ICMP message the datagram it quotes. `pending` is `pending_ports > 0`.
The adjustment of `next_timeout` (`scanner.c:203`) is thrown away at the top of the
loop, so `PollTimeout` always waits the whole timeout.
`waited`, `inTime` and `given`, the source ports that an entry has ever had, are
histories. `get_free_port` opens a socket and closes it again, so that it may give a
port out twice: that is `Distinct = FALSE`. The theorems hold for both values; the
run has `TRUE`, where `FreePorts` counts them up, which keeps the search small.
Left out: several addresses and both families at once, truncated packets,
errors of `poll` and `pcap_dispatch`, the time that pcap itself keeps a packet (it
counts as delay of the network).

### FsmCore

| code | `FsmCore` |
|---|---|
| `addState`, `setStartState`, `addTransition`, `removeTransition`, `updateTransition` | the actions of these names |
| `removeState`, `deleteStateRecursive` | `RemoveState`, `DeleteSkip`, `DeleteDescend`, `DeleteErase`, `DeleteThrows` |
| `pruneUnreachable` | `Prune`, `PruneSkip`, `PruneDescend`, `PruneErase`, `PruneReturn` |
| `saveToJson`, `loadFromJson` | `Saved`, `Loaded`, `SaveAndLoad` |
| `validateFSM` | `Valid` with `Visited` and `Deterministic` |
| `setInput`, `addExpectedInput`, `setCurrentMachineState`, `reset` | `SetInput`, `AddExpectedInput`, `SetMachineState`, `Reset` |
| `run`, `transitionToState`, `debugStep` | `Run`, `RunLoop`, `RunEnds`, `Transition`, `DebugStep` |

An object is a number, a name a singleton set (`{}` for a free object), pointers are
objects: a removed state that the start or the current state still points to
lives on without a place in `live`, and `Collected` frees what no `shared_ptr`
holds; `Held` says what that is as the least set with the roots that is closed under
`nextStates`. The recursions are a stack of frames, a step for each child.
`OnlyIn` stands for the loops that erase some members of a list and keep the order
of the others.
The order of a hash map is any order. A script is a choice: it throws or not.
`mode = "crashed"` is the stack overflow of an endless recursion.
Left out: renaming (`updateState`), variables, delays, conditions (stored and never
evaluated by a step), lengths of names, `createFSM`, debug output, and that
`addOutput` refuses the character NUL (`fsm.cpp:278`). `Prune` begins at the start
state whether it is still in the map or not, as `fsm.cpp:1253` does; without one it
does nothing. `fsmInterface.cpp` is one call each; the map names the
functions of `fsm.cpp` behind it.

## 3. Runs

| run | configuration | checks | result |
|---|---|---|---|
| `skibus_safety` | 3 skiers, 1 stop, capacity 2 | `TypeOK`, `BoardsAtItsStop`, `LoadMatches`, `OneWriter`, `NumberingExact` | hold |
| `skibus_distinct` | 2 skiers, 2 stops, capacity 1, one skier per stop at most | `CountedSkierRides` | holds |
| `skibus_stranded` | 1 skier | `NobodyLeftBehind` | **violated** |
| `udpchat_session` | 3 messages of the client, 1 of the server, 2 retries, inbox 1 | `TypeOK`, `AtMostOnce`, `BinaryAckReceived`, `OpenIsAuthorised`, `WaitEnds`, `TerminationHandled` | hold |
| `tcpchat_safety` | 2 lines, 2 messages of the server | `TypeOK`, `NothingLost`, `GoodbyeEnds`, `InOrder` (refines `OrderedChannel`), `TerminationHandled` | hold |
| `dns_safety` | 2 ids, five kinds of query, timeout 1, sockets of 1 and 2, any network | `TypeOK`, `MappedIsForwarded`, `OnlyAllowedForwarded`, `RightClient`, `KeptUntilTimeout` | hold |
| `dns_liveness` | 2 ids, two kinds of query, sockets of 1 and 2, any network | `StopsWhenAsked`, `ExpiredGoWhenQuiet`, `AnswersReadWhileIdsLast` | hold |
| `ludo_rules` | RED and YELLOW with a pawn each, GREEN with 2, circle of 4, die of 3; bots: none, GREEN, YELLOW and GREEN, or RED and YELLOW | `TypeOK`, `OnePawnPerSpot`, `KeepsRules` (refines `LudoRules`), `RequestEnds` | hold |
| `scanner_scan` | two TCP ports and a UDP port of the own machine, timeout 1, three packets captured, two handled at a time | `TypeOK`, `VerdictTrue`, `GivenUpInTime`, `InTimeAnswersCount`, `ScanEnds` | hold |
| `fsm_edit` | 3 states, 2 inputs, 2 transitions at a time, not executed | `TypeOK`, `NextBacked`, `ValidIsSound`, `LoadKeepsSteps`, `OrphansOnly` | hold |
| `fsm_run` | 2 states, 1 input, 3 transitions, inputs of length 2, executed | `OutputFollowsInput` | holds |
| `fsm_removal` | as `fsm_edit` | `ReachableKept` | **violated** |

### Why the bounds are enough

*Skibus.* Three skiers and a capacity of two: somebody is left behind by a full bus
and a second lap follows. The code asks for a capacity of ten at least; the number
is scaled down and nothing depends on it. One stop puts all skiers into one count,
where updates are lost; two stops are used where each has its own. The number of
laps is not bounded.
*UdpChat.* Three messages of the client are an AUTH, a second AUTH or a JOIN or MSG,
and the one kept for the BYE or ERR that ends the program (the guard of `StdinSend`
keeps it). One of the server is a REPLY or an unexpected message, delivered any
number of times. An inbox of one still lets a datagram arrive between any two steps,
and with two retries the last wait differs from a middle one. Two ports are what it
takes for a datagram to be from another one. The three safety
properties are proved for every bound.
*TcpChat.* Two lines are an AUTH and what is typed behind it before the answer; two
messages of the server cut into four pieces give batches of nothing, of one, of two
and of one and a half.
*DnsProxy.* Two ids are enough to run out of them and to reuse one. A socket of two
answers holds the one that is awaited behind one that is not. The queries: two
clients with the same id; a name below a blocked one; a name that only ends like a
blocked one (`badads.com`); another type; a malformed datagram.
*Ludo.* A circle of four and a die of three: pawns meet, capture, overshoot, and come
home within a few turns. Three colours, because two bots and a human are what it takes
for a bot to be captured between the reading of the table and its move; the third has
two pawns, so that one is moved while the other stands; a fourth colour, BLUE, is not
in the game and is passed over. The games with two bots have a human behind them
(RED and YELLOW) or before them (YELLOW and GREEN). The number of turns is not
bounded.
*Scanner.* Two TCP ports, so that one may get the other's answer, and a UDP port;
the ports are of different kinds (`OwnHosts`), because otherwise nobody could tell
one's answer from another's. The timeout is one tick, the only value the code
compares with; four source ports are the three first ones and one for a send that
failed. Each port is probed again, answered late, or given up. The number of answers
is not bounded. A buffer of three behind a batch of two stands for a capture that
holds more than the ten packets one `pcap_dispatch` handles (`scanner.c:170`): the
third packet waits behind a full batch, the case in which the code gives up a port
whose answer has come (section 4).
*FsmCore.* Three states and two transitions make every chain, fork, join and cycle
of two, and a self-loop with an edge; a step of the recursion with children of
children. Two states with three transitions have parallel edges and a loop on each.
Executions need length two: the middle of a run differs from its end. `Settable` has
the one machine state that makes a later run begin in the middle. The complete
searches have 1,913,712 states (`skibus_safety`), 454,835 (`udpchat_session`),
649,221 (`tcpchat_safety`), 2,848,050 (`dns_safety`), 48,325 (`dns_liveness`),
247,066 (`ludo_rules`), 1,251,622 (`scanner_scan`), 246,861 (`fsm_edit`) and 707,268
(`fsm_run`, both of the latter with symmetry of the names and inputs).

The deadlock check is off in every run because each of these programs ends, the
page of Ludo stays on the result, and a process whose stack has overflowed is
gone; the skiers and the UDP client may also wait for ever, see section 4.

### Fairness

*Skibus.* Weak fairness for every process: the scheduler runs what can run.
Waiting for `main_sem` needs strong fairness (`BusWrites`, `SkierWrites`): the
semaphore is busy and free again for ever while the bus circles, and a waiter on
a POSIX semaphore is woken in the end.
*UdpChat.* `FairSpec`: the client's own steps and the clock. Nothing is assumed
of the network. Where the code may wait for ever, the property says so: in a wait for
a CONFIRM that goes on ignoring datagrams (both), and in a blocking `recvfrom`
(`TerminationHandled`). TLC finds each of the exceptions needed (section 4).
*TcpChat.* `FairSpec`: the client's steps and the clock; nothing of the user, the
stream or the server. `recv` is called only when poll has reported something,
and nobody else reads the socket, so no heartbeat is needed.
*Scanner.* Weak fairness of the scanner's steps and of the clock.
*FsmCore.* None; only safety is checked.
*DnsProxy.* `FairSpec`: server and clock. The condition of `ExpiredGoWhenQuiet`, that
the sockets fall silent or poll times out again and again, is part of the property
and not of the fairness: a datagram every half second keeps poll from timing out for
ever, and expired mappings need not go then. `AnswersReadWhileIdsLast` has its
condition, that in the end an id is free, in the same way.

*Ludo.* Weak fairness of `Server`, the steps of a request that has begun: Node
resumes an `await` whose result is there. Nothing is assumed of the player. A
die that shows six for ever is possible; `RequestEnds` holds all the same,
because with one human in the game the loop over the bots is bounded by a round.

## 4. What the checks found

1. **A skier left behind** (`skibus_stranded`). The bus is forked after the last
   skier but may go its whole round before the skier runs `capacity++`; it finds
   nobody, finishes, the skier waits at its stop, the parent waits for the skier.
   What does hold is `CountedSkierRides`: a skier that has counted itself in time
   is taken.
2. **A start state removed with another** (`fsm_removal`). `deleteStateRecursive`
   deletes each child that no other state lists, and does not ask for the start
   state. With a transition A -> S into the start state S, removing A, which
   cannot even be reached, removes S; `startState` keeps pointing to it.
   "Recursively prunes unreachable children" (`fsm.cpp:117`) says otherwise. What
   holds is `OrphansOnly`: what is removed was listed by nobody who stays.

Met on the way, in the models, without a run of their own. Each is a
counterexample of TLC to a property that had to be weakened, or a state the model
reaches.

*Skibus*: a lost decrement of `capacity` leaves a skier on the books that has gone,
and the bus waits for its boarding; a failing fork leaves the forked children to
themselves (`ForkFails`).
*Chat client, UDP*: poll says the socket is readable and so is standard input; the
message typed is sent, the wait for its CONFIRM takes the datagram out of the
socket; the loop goes on to `recvfrom` (`client_application.cpp:93`,
`udp_client.cpp:176`), which blocks. SIGINT only sets a flag, and while the server
is silent nothing ends the client, although "Termination will be handled in the main
loop" (`client_application.cpp:119`). The wait itself need not end either: a datagram
from another port, or a failed `recvfrom`, restarts its timeout and costs no attempt
(`udp_client.cpp:96`, `107`), so that one a little more often than every timeout keeps
the client there, and the message is not even sent again. `WaitEnds` and
`TerminationHandled` have these as exceptions, and no others. The first REPLY from the
session's port sets `server_addr_`, and a CONFIRM from the first port is ignored from
then on. A second CONFIRM that comes late is entered in the ids of
received messages under an id the *client* chose, and the server's message of that
number is then confirmed and thrown away (`udp_client.cpp:204`); JOIN opens the
channel state again on a negative REPLY (`state_machine.cpp:68`);
`last_request_time_` survives a negative REPLY, so a timeout is reported five
seconds after an answer (`client_application.cpp:274`); an iteration still handles a
datagram after the state END was reached (`client_application.cpp:93`); a CONFIRM of
a text message is accepted whatever it confirms (`udp_client.cpp:117`), which is why
`BinaryAckReceived` is about the others.
*Chat client, TCP*: `std::cin` takes several lines from the pipe at once, and poll
reports only the pipe (`client_application.cpp:112`): lines typed together wait
until something else is typed, although README.md:146 says "Uses poll() to monitor
stdin"; a line that comes together with the hang-up is not looked at
(`client_application.cpp:116`); messages of a batch before a malformed one are never
shown (`tcp_client.cpp:130`), which is why `NothingLost` is about a running client;
a second farewell may follow the first in the same iteration (`:93`), which is why
`GoodbyeEnds` allows farewells; with two AUTHs typed at once the reply to the second
is taken for that of the JOIN typed next, whose own is then "unexpected".
*DNS proxy*: expired mappings are removed only in a second without any datagram
(`server.cpp:228`), although `id_mapper.h:13` promises "Time-based cleanup of stale
mappings to prevent memory leaks": under load that never ends every mapping whose
answer was lost stays, and the ids run out; a repeated or late answer whose
forwarded id belongs to another query by now is given to that client
(`server.cpp:405`): `RightClient` is about the answers that are awaited, which reach
their clients whatever else the network brings; when no id is left the proxy skips the socket whose answers would
free one (`server.cpp:288`), which is why `AnswersReadWhileIdsLast` has its
condition.
*Ludo*: a reload after a roll forgets the offer but not the six
(`roll/route.ts:40`), so that the player throws again and keeps the extra turn; a
game in which all names were left empty has four bots, and its first `DoBotTurns`
never ends; a game in which nobody plays RED begins with the turn of a bot, for
which the page then rolls, so that a bot's six gives another turn: `KeepsRules` leaves
out the steps of a turn that belongs to a bot (`turn \in bots`), which the run reaches.
With *two* bots: the bot YELLOW captures a pawn of the bot GREEN, and
GREEN moves it on from where `DoBotTurns` read it before the loop
(`movement.ts:93`), so that the capture ("move it to it's start",
`move/route.ts:51`) is undone; or it passes although the captured pawn could start.
That is the other exception of `KeepsRules`, `Outdated`: what a bot does whose *own*
pawn has been captured since the table was read. Nothing else that was read and has
changed leads to a step outside the rules: not a pawn of another colour, and not a
game with three bots. Without either exception TLC finds the property violated. The
game of four bots is in the proofs but not in the run, where `RequestEnds` would fail.
A bot cannot win: "Check if game over" (`movement.ts:156`) looks at pawns read before
the move, and once the bot has no move left, `continue` comes before the check; the
game goes on among the others. That is a theorem, `WinNeverSeen`, for any number of
bots.
*Scanner*: a closed UDP port of *another* machine is reported open: its ICMP message
is looked up by the source address of the quoted datagram, the scanner's own
(`capture.c:92`, `140`; the comment at `capture.c:96` says "Matches destination IP",
and README.md:23 that port unreachable means closed). `get_free_port` may give out a
port twice, and then the answer of one port is entered for another of the same
address (`capture.c:69-73`): `VerdictTrue` is about the entries that never shared a
source port (`Alone`), whatever the others shared. When more than ten answers are
waiting, the loop over the ports gives up a port whose answer, come in time, is the
eleventh (`scanner.c:170`, `198`): that, `handled = Batch`, is the one exception of
`InTimeAnswersCount`, and the run reaches it. After a failed
send the new source port is not in the filter compiled before (`scanner.c:115`), and
the answer is never seen.
*FsmCore*: removing a state with a self-loop, or in a cycle that nobody else refers
to, recurses until the stack overflows (`fsm.cpp:1283`, `mode = "crashed"`); two
transitions to the same child make the second deletion throw "State not found" and
leave the removal half done; a removed start or current state is not cleared, and a
new state of its name passes the check by name in `setCurrentState` while the start
points to the old object; `pruneUnreachable` erases *reachable* children that have
one reference and leaves unreachable states alone (`fsm.cpp:1220`; the test
`fsm_execution_tests.hpp:530` says "should prune unreachable states");
`removeTransition` takes the successor entries of both of two transitions between
the same states (`fsm.cpp:200`), which leaves a dependency that no step can take, so
that `NextBacked` holds in one direction only; S is the start state and is removed, A
had steps from S and from B, which is removed too, and a new S gets a step to A:
pruning then begins at the *old* S (`fsm.cpp:1253`), takes the new one for it when it
asks by name who else lists A, and erases A from the map while the new S goes on
listing it (`Forgotten`); a state of the map that lists what the map lacks deceives
`validateFSM` too, which is why `ValidIsSound` asks that there be none (`Stray = {}`);
`validateFSM` calls two inputs
between the same two states a violation of determinism; a file with an input that is
not empty cannot be read back, because the input is set before the expected inputs
are (`fsm.cpp:924`, `1060`), and the automaton edited so far has been cleared by
then; `updateTransition` loses the old transition if the new one is refused; a
failing script of the start state leaves the machine RUNNING.

## 5. Proofs

The theorems hold for every value of the constants that satisfies the modules'
assumptions, which TLC evaluates on every run and the code justifies:

| module | assumption |
|---|---|
| `Skibus` | at least one skier, stop and seat (`SizesAssumption`) |
| `UdpChat`, `TcpChat` | natural bounds; an inbox of one datagram at least (`BoundsAssumption`) |
| `DnsProxy` | names are sequences of strings, queries have one of the four forms (`ConstantsAssumption`) |
| `Scanner` | a table of one entry at least, ports that are open, closed or silent, as many ephemeral ports as entries, a timeout and a batch of one at least (`TableAssumption`, `HostsAssumption`, `BoundsAssumption`) |
| `LudoBoard`, `Ludo` | the tables of the board, with a RED player (`BoardAssumption`); bots are players (`BotsAssumption`, `ColorsAssumption`) |
| `FsmCore` | natural bounds, one object, name and input at least (`FsmAssumption`) |

No theorem has a condition of its own. Where the code does not keep what one would
expect, the exception is in the property, checked and proved in the same words, and
as narrow as we could make it: an answer that is not awaited (`RightClient`), an entry
that shared its source port (`VerdictTrue`), a full batch (`InTimeAnswersCount`), a bot
whose own pawn was captured and a turn that is a bot's (`KeepsRules`), the prune that
began at a removed start state (`NextBacked`), and what it may leave (`ValidIsSound`).
Every proof has an inductive invariant, `IInv` except in `FsmCoreProofs`, from which
the properties follow.

Recursive functions - the walk of a pawn, the depth-first search - are reasoned
about with `SetInduction`: a set that has 0 and n + 1 with every n has every natural
number, because otherwise the naturals outside it had a least one. That is a
statement about a set, not about an operator, so a theorem can be instantiated with
the set at hand. It also proves that a step can be repeated as often as one likes
(`IteratesExist`) and what is kept by a step is true of all that it leads to
(`IteratesIn`).

**Skibus.** The invariant is built in layers, each step lemma using the layers
below. `TypeOK` and `PlaceInv` (which program counter goes with which stop and
index); `MutexInv`: `mainSem` and the processes between wait and post make one
together; `NumberInv`: `counter` and `lines` agree as long as the bus has not
left the final stop; `RendezvousInv`: the heart. The three other kinds of
semaphore carry *one token*: while the bus waits at a stop, at most one of "the
stop's semaphore is posted", "one skier is entering", "the boarding semaphore is
posted" is the case, and none of them otherwise. This is
why a semaphore shared by boarding and alighting is harmless, and why
`BoardsAtItsStop` alone is not inductive: it does not say where the token is
when no skier holds it. `LoadMatches` then counts skiers aboard with the token.
Proved: `TypeCorrect`, `OneWriterAlways`, `NumberingAlways`, `BoardingAlways`,
`AlightingAlways` (skiers get off one at a time at the final stop), `LoadAlways` -
every property of `skibus_safety`, and `AlightsAtFinal`.
Mutual exclusion and the rendezvous do not rest on `capacity` at all, which is
why its lost updates leave them intact.

**UdpChat.** `IInv` has `Types`; `ServerInv` (a CONFIRM that carries an id
exists only for what the server has received; its messages carry ids that it has
sent); `IdsInv` (the client never uses an id for two messages); `OnceInv` (what
was delivered is in `received`); `BinaryAckReceived`; `AuthInv` (in OPEN and JOIN,
when a JOIN is under way, and when a positive REPLY is, the server has accepted
the client). The point of `AuthInv` is that a REPLY to an earlier attempt can come
at any time: what makes that harmless is only that JOIN is unreachable before
OPEN.
Proved: `TypeCorrect`, `AtMostOnceAlways`, `BinaryAckAlways`, `AuthorisedAlways`.

**DnsProxy.** `IInv` has `Types`; `Reported` (a socket that poll has reported still
has the datagram: nothing but the loop reads it); `MappedIsForwarded` in an
inductive form. `KeptUntilTimeout` is an action property proved from it.
`RightClientAlways` needs `Routed`: an awaited answer in the socket is about the query
that the table holds under its id, and no other answer with that id is before it. An
overdue or repeated one that comes *after* it does no harm, which is what the proof
turns on: the entry leaves the table when the awaited one is taken, or when poll times
out, and then the socket was empty. `OnlyAllowedAlways` rests on the lemma
`SuffixFound`: `IsSubdomain` finds every suffix.
Proved: `TypeCorrect`, `MappedAlways`, `KeptAlways`, `OnlyAllowedAlways`,
`RightClientAlways`.

**TcpChat.** The stream is described by one predicate, `Stretch(s, c)`: the sequence
s of pieces is what follows the first c messages, cut anywhere. Lemmas say what
`EndsOf`, `End`, `MessagesIn` and `RestOf` give for a stretch, whatever its length:
the message numbers from c + 1 on, and a shorter stretch. `ChannelInv` then says
that what was shown are the numbers from 1 on, that the batch goes on from there (or
is the BYE that `recv` makes), and that buffer and wire together are a stretch from
the end of the batch. `NothingLost` alone would not do: it does not say in which
order pieces lie in the buffer while half a message is there. `GoodbyeInv` adds that
a farewell in a client that still runs means the state END, where nothing may be
sent any more. `AppInv` has the types, and that a line which poll has reported is
still in the pipe.
Proved: `TypeCorrect`, `GoodbyeEndsAlways`, `NothingLostAlways`, and the refinement
`InOrderAlways`.

**Scanner.** `PortsInv`: every entry's source port, and every port that an answer to it
goes to, is in `given`. So an answer can be entered for another entry only if the two
have shared a port, and what is entered for an entry that is `Alone` is its own;
`given` only grows, so who is alone now has always been. `VerdictTrue` follows for
answers as late as they like.
`ClockInv`: what the loop read before `poll` is not more than the age now, for every
entry not yet dealt with in this round, so that an old reading errs on the safe
side. `WaitedInv`: an entry probed twice has waited a timeout more than its age.
`HandledInv`: when `pcap_dispatch` has returned, an answer in time for an entry that
was already late when the clock was read is left in the buffer only behind a full
batch. No answer captured later is in time for it.
Proved: `TypeCorrect`, `GivenUpInTimeAlways`, `VerdictsTrue`,
`InTimeAnswersCountAlways`.

**Ludo.** `LoopInv` (types, and where the request is), `BoardInv` (pawns stand, on
the board `seen` too, and go only where their colour may), `SpotInv`: when a pawn is
placed, its spot is empty on the board *as it is*. That the captured pawn finds a
free start needs the pigeonhole principle: the colour has as many starts as pawns,
and the captured pawn stands elsewhere. `OnePawnPerSpot` does not rest on `seen`
being true, which is why it holds with any number of bots. The refinement does, and
what it needs is how far `seen` is still true: `RulesInv` has `TurnInv` (whose turn it
is at each point of the request, and where a six is still to be spent), `MoveInv` (the
page's move is one the rules allow on the board as it is, a bot's on the board it has
read), `RoundInv` (while a human is in the game, the loop over the bots is in its first
round, so that a colour still to come has not moved: each of its pawns stands where
`seen` has it or was captured to a start) and `FlagInv` (`inHome` tells the truth). A
walk of a pawn depends on its own colour's pawns alone, so a bot that is not `Outdated`
chooses the same moves on both boards. `FlagInv` fails only in the game without
humans, whose first request never ends.
Proved: `TypeCorrect`, `OnePawnPerSpotAlways`, the refinement `KeepsRulesAlways`,
and `WinNeverSeen`: "Check if game over" never finds that the bot has won - if all
its pawns were at home before the move, its home is full and it has no move.

**FsmCore.** `Base` has `GraphInv` (types, pointers to objects that exist,
`UniqueNames` and `Backed`: a state of the map lists only states of the map with a
dependency on it, during a call too), `DataInv`, and `CallInv`: a state on the stack of
a removal shares its name with no state of the map, because it was in the map when the
call began. Nothing of the kind is true of a prune, which may begin at a removed state,
nor of the lists: a listed state may have a namesake. So the proof that no call leaves
a state listing what the map lacks goes by names: an erased state is taken from the
lists by its name, and who lists it still is either the one frame below, whose list is
cut, or has the name of a removed start state (`Forgotten`). What `Collected` destroys is
not in the way, since it keeps a closed set with the map and both pointers (`KeptIn`).
`ValidIsSound` compares validation, a depth-first search by
names, with steps: every name it visits is that of a state in any set that has the
start state and is closed under steps (`VisitedIn`). `OutputFollowsInput` needs that
the states of the output outlive a step although some were removed from the map: the
start state holds the first and each holds the next (`ChainKept`). `OrphansOnly`
rests on `RemovalInv`. `Children`: each frame of the recursion is about a child whose name
the frame below alone lists. `Again`: a state may be on the stack twice, in a
cycle, and then its upper frame still has to go the way that the lower one went; so
a state that is erased is on the stack once. `Lost`: only states on the stack have
lost a child, so when the last frame goes nobody who is left has.
Proved: `TypeCorrect`, `NextBackedAlways`, `LoadKeepsStepsAlways`,
`ValidIsSoundAlways`, `OutputFollowsInputAlways`, `OrphansOnlyAlways`.

**Only model-checked.** All liveness (`CountedSkierRides`,
`WaitEnds`, `TerminationHandled` in both clients, `StopsWhenAsked`, `ExpiredGoWhenQuiet`,
`AnswersReadWhileIdsLast`, `RequestEnds`, `ScanEnds`): the prover has no rules for
fairness and ENABLED. The negative results: a counterexample is its own proof.
Every invariant, action property and refinement that a passing run checks is proved.

## 6. Plan

The safety properties that the runs check are proved. What is left:

1. The safety half of the liveness properties: invariants that say what a wait is for
   (in `Skibus`, that a skier who has its stop to itself is in `capacity` from its
   counting until it boards; in `UdpChat`, that a wait has attempts left; in `Ludo`,
   that the colours between two turns get fewer), so that only fairness remains to be assumed.
2. `DnsProxy`: that an id is never given out while it is in the table, in the form of a
   refinement of a partial function from ids to queries.

## 7. Not modelled

*Ludo*: overlapping requests; they break `OnePawnPerSpot` by construction, for
nothing in the code locks a game, so a run would say no more than the hazard at
`movement.ts:25`.
*LedSnake*, *Convoys*, Snake and Pac-Man: one loop each, without concurrency,
or with random real numbers. *Structures* (IAL), IFJ, IPP: sequential; their tests
call the same functions on the same small inputs as TLC would. The GUI of
the automata editor, the pages, the display driver and the parsers of command
lines: presentation and input.
Vendored code (`nlohmann/json`, `catch2`) is two thirds of the lines of
the repository and is not the projects' own.
