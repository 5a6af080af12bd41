------------------------------- MODULE Skibus -------------------------------
(***************************************************************************)
(* The ski-bus program of IOS/Project-2: a parent that forks NumSkiers     *)
(* skier processes and one bus process, which share four kinds of POSIX    *)
(* semaphore, an output counter and an array with the number of skiers     *)
(* waiting at each stop.                                                   *)
(*                                                                         *)
(* One action is one access to shared memory.  Two neighbouring accesses   *)
(* are one action only where no other process can tell them apart: a post  *)
(* that follows a read or a write of the same process (a post only ever    *)
(* enables others), and the locked increment of the counter, whose lost    *)
(* updates are produced by the bus's unlocked read and write below.        *)
(***************************************************************************)
EXTENDS Integers, FiniteSets

CONSTANTS NumSkiers,     \* argv[1]
          NumStops,      \* argv[2]
          BusCapacity    \* argv[3]

ASSUME SizesAssumption ==
  /\ NumSkiers \in Nat \ {0}
  /\ NumStops \in Nat \ {0}
  /\ BusCapacity \in Nat \ {0}

Skiers == 1 .. NumSkiers
Stops == 1 .. NumStops
FinalStop == NumStops + 1      \* the bus counts the final stop as one more

VARIABLES
  mainPc, forked,              \* the parent: where it is, how many skiers it has forked
  pc, stopOf, tmp,             \* each skier: where it is, its stop, a register
  busPc, busStop, passengers, hopons, idx, remaining, busTmp,   \* the bus's locals
  mainSem, stopSem, boardingSem, unboardingSem,                 \* semaphores
  counter, capacity,           \* shared memory: line number, skiers waiting per stop
  lines                        \* history: lines written to proj2.out so far

mainVars == <<mainPc, forked>>
skierVars == <<pc, stopOf, tmp>>
tally == <<hopons, idx, remaining, busTmp>>
busVars == <<busPc, busStop, passengers, tally>>
semVars == <<stopSem, boardingSem, unboardingSem>>
logVars == <<mainSem, counter, lines>>
vars == <<mainVars, skierVars, busVars, semVars, logVars, capacity>>

SkierPc == {"unforked", "countRead", "countWrite", "start", "startOut",
            "arrive", "arriveOut", "waitStop", "board", "boardOut",
            "offRead", "offWrite", "aboard", "ski", "skiOut", "done"}

BusPc == {"unforked", "start", "startOut", "travel", "arriveOut", "hopons",
          "boarding", "waitBoard", "leave", "leaveOut", "unboard",
          "waitUnboard", "finalRead", "finalWrite", "remaining", "done"}

Init ==
  /\ mainPc = "forkSkiers" /\ forked = 0
  /\ pc = [s \in Skiers |-> "unforked"]
  /\ stopOf \in [Skiers -> Stops]          \* rand() % num_stops + 1
  /\ tmp = [s \in Skiers |-> 0]
  /\ busPc = "unforked" /\ busStop = 1 /\ passengers = 0 /\ hopons = 0
  /\ idx = 0 /\ remaining = 0 /\ busTmp = 0
  /\ mainSem = 1 /\ boardingSem = 0 /\ unboardingSem = 0
  /\ stopSem = [k \in Stops |-> 0]
  /\ counter = 1 /\ lines = 0
  /\ capacity = [k \in Stops |-> 0]

-----------------------------------------------------------------------------
(***************************************************************************)
(* A line of output under main_sem takes two steps: WriteLine takes the    *)
(* semaphore and writes, Release increments the counter and posts.         *)
(***************************************************************************)
WriteLineAnyway ==        \* mutant: sem_trywait instead of sem_wait
  /\ mainSem' = IF mainSem > 0 THEN mainSem - 1 ELSE 0
  /\ lines' = lines + 1 /\ UNCHANGED counter

WriteLine ==
  /\ mainSem > 0 /\ mainSem' = mainSem - 1
  /\ lines' = lines + 1 /\ UNCHANGED counter

ReleaseTwice ==           \* mutant: the increment is repeated
  counter' = counter + 2 /\ mainSem' = mainSem + 1 /\ UNCHANGED lines

Release == counter' = counter + 1 /\ mainSem' = mainSem + 1 /\ UNCHANGED lines

-----------------------------------------------------------------------------
(* The parent. *)

ForkSkier ==
  /\ mainPc = "forkSkiers" /\ forked < NumSkiers
  /\ forked' = forked + 1
  /\ pc' = [pc EXCEPT ![forked + 1] = "countRead"]
  /\ UNCHANGED <<mainPc, stopOf, tmp, busVars, semVars, logVars, capacity>>

ForkBus ==
  /\ mainPc = "forkSkiers" /\ forked = NumSkiers
  /\ mainPc' = "waiting" /\ busPc' = "start"
  /\ UNCHANGED <<forked, skierVars, busStop, passengers, tally, semVars, logVars, capacity>>

(* fork() fails: the parent exits and leaves the children it has to themselves. *)
ForkFails ==
  /\ mainPc = "forkSkiers" /\ mainPc' = "failed"
  /\ UNCHANGED <<forked, skierVars, busVars, semVars, logVars, capacity>>

(* wait() until no child is left, then destroy the semaphores. *)
Cleanup ==
  /\ mainPc = "waiting" /\ mainPc' = "cleanedUp"
  /\ busPc = "done" /\ \A s \in Skiers : pc[s] = "done"
  /\ UNCHANGED <<forked, skierVars, busVars, semVars, logVars, capacity>>

-----------------------------------------------------------------------------
(* A skier.  Its ++ and -- on the stop's capacity are unlocked: a read, a write. *)

SkierGoes(s, from, to) == pc[s] = from /\ pc' = [pc EXCEPT ![s] = to]

SkierRead(s) ==
  /\ SkierGoes(s, "countRead", "countWrite") \/ SkierGoes(s, "offRead", "offWrite")
  /\ tmp' = [tmp EXCEPT ![s] = capacity[stopOf[s]]]
  /\ UNCHANGED <<mainVars, stopOf, busVars, semVars, logVars, capacity>>

SkierCountWrite(s) ==
  /\ SkierGoes(s, "countWrite", "start")
  /\ capacity' = [capacity EXCEPT ![stopOf[s]] = tmp[s] + 1]
  /\ UNCHANGED <<mainVars, stopOf, tmp, busVars, semVars, logVars>>

(* "started", "arrived to", "boarding" and "going to ski". *)
SkierWrites(s) ==
  /\ \/ SkierGoes(s, "start", "startOut") \/ SkierGoes(s, "arrive", "arriveOut")
     \/ SkierGoes(s, "board", "boardOut") \/ SkierGoes(s, "ski", "skiOut")
  /\ WriteLine
  /\ UNCHANGED <<mainVars, stopOf, tmp, busVars, semVars, capacity>>

SkierReleases(s) ==
  /\ \/ SkierGoes(s, "startOut", "arrive") \/ SkierGoes(s, "arriveOut", "waitStop")
     \/ SkierGoes(s, "boardOut", "offRead")
  /\ Release
  /\ UNCHANGED <<mainVars, stopOf, tmp, busVars, semVars, capacity>>

SkierWaitStop(s) ==
  /\ SkierGoes(s, "waitStop", "board")
  /\ stopSem[stopOf[s]] > 0
  /\ stopSem' = [stopSem EXCEPT ![stopOf[s]] = @ - 1]
  /\ UNCHANGED <<mainVars, stopOf, tmp, busVars, boardingSem, unboardingSem, logVars, capacity>>

OneMore(s) == tmp[s] + 1  \* mutant of OneLess: the skier counts itself once more
OneLess(s) == tmp[s] - 1

SkierOffWrite(s) ==
  /\ SkierGoes(s, "offWrite", "aboard")
  /\ capacity' = [capacity EXCEPT ![stopOf[s]] = OneLess(s)]
  /\ boardingSem' = boardingSem + 1
  /\ UNCHANGED <<mainVars, stopOf, tmp, busVars, stopSem, unboardingSem, logVars>>

CalledOffAnyway == unboardingSem' = unboardingSem - 1   \* mutant: does not wait
CalledOff == unboardingSem > 0 /\ unboardingSem' = unboardingSem - 1

SkierWaitUnboard(s) ==
  /\ SkierGoes(s, "aboard", "ski")
  /\ CalledOff
  /\ UNCHANGED <<mainVars, stopOf, tmp, busVars, stopSem, boardingSem, logVars, capacity>>

SkierDone(s) ==
  /\ SkierGoes(s, "skiOut", "done")
  /\ Release
  /\ boardingSem' = boardingSem + 1
  /\ UNCHANGED <<mainVars, stopOf, tmp, busVars, stopSem, unboardingSem, capacity>>

Skier(s) ==
  \/ SkierRead(s) \/ SkierCountWrite(s) \/ SkierWrites(s) \/ SkierReleases(s)
  \/ SkierWaitStop(s) \/ SkierOffWrite(s) \/ SkierWaitUnboard(s) \/ SkierDone(s)

-----------------------------------------------------------------------------
(* The bus. *)

BusGoes(from, to) == busPc = from /\ busPc' = to

(* "started", "arrived to k" or "arrived to final", and "leaving k". *)
BusWrites ==
  /\ \/ BusGoes("start", "startOut") \/ BusGoes("travel", "arriveOut")
     \/ BusGoes("leave", "leaveOut")
  /\ WriteLine
  /\ UNCHANGED <<mainVars, skierVars, busStop, passengers, tally, semVars, capacity>>

(* A lap begins: "started" has been written, or skiers remain. *)
NewLap == passengers' = 0 /\ busStop' = 1

BusStarted ==
  /\ BusGoes("startOut", "travel")
  /\ Release /\ NewLap
  /\ UNCHANGED <<mainVars, skierVars, tally, semVars, capacity>>

(* A full bus leaves at once; at the final stop everybody gets off. *)
BusArrived ==
  /\ busPc = "arriveOut"
  /\ busPc' = IF busStop = FinalStop THEN "unboard"
              ELSE IF passengers < BusCapacity THEN "hopons" ELSE "leave"
  /\ Release
  /\ idx' = 0
  /\ UNCHANGED <<mainVars, skierVars, busStop, passengers, hopons, remaining, busTmp,
                 semVars, capacity>>

BusHopons ==
  /\ BusGoes("hopons", "boarding")
  /\ hopons' = capacity[busStop]
  /\ UNCHANGED <<mainVars, skierVars, busStop, passengers, idx, remaining, busTmp,
                 semVars, logVars, capacity>>

MayCallBeyondCapacity == idx < hopons          \* mutant: a full bus goes on calling
MayCall == idx < hopons /\ passengers # BusCapacity

(* "Check if there are skiers at the stop", then call one and wait for it. *)
BusCallSkier ==
  /\ BusGoes("boarding", "waitBoard")
  /\ MayCall /\ capacity[busStop] > 0
  /\ stopSem' = [stopSem EXCEPT ![busStop] = @ + 1]
  /\ UNCHANGED <<mainVars, skierVars, busStop, passengers, tally, boardingSem, unboardingSem,
                 logVars, capacity>>

BusSkipHopon ==
  /\ BusGoes("boarding", "boarding")
  /\ MayCall /\ capacity[busStop] <= 0
  /\ idx' = idx + 1
  /\ UNCHANGED <<mainVars, skierVars, busStop, passengers, hopons, remaining, busTmp,
                 semVars, logVars, capacity>>

BusStopsBoarding ==
  /\ BusGoes("boarding", "leave")
  /\ ~MayCall
  /\ UNCHANGED <<mainVars, skierVars, busStop, passengers, tally, semVars, logVars, capacity>>

(* Getting on and getting off are both acknowledged through bus_boarding_sem. *)
NotAcknowledged == UNCHANGED boardingSem       \* mutant: the bus does not wait
Acknowledged == boardingSem > 0 /\ boardingSem' = boardingSem - 1

BusBoarded ==
  /\ BusGoes("waitBoard", "boarding")
  /\ Acknowledged
  /\ passengers' = passengers + 1 /\ idx' = idx + 1
  /\ UNCHANGED <<mainVars, skierVars, busStop, hopons, remaining, busTmp,
                 stopSem, unboardingSem, logVars, capacity>>

BusLeft ==
  /\ BusGoes("leaveOut", "travel")
  /\ Release
  /\ busStop' = busStop + 1
  /\ UNCHANGED <<mainVars, skierVars, passengers, tally, semVars, capacity>>

BusUnboard ==
  /\ BusGoes("unboard", "waitUnboard")
  /\ idx < passengers
  /\ unboardingSem' = unboardingSem + 1
  /\ UNCHANGED <<mainVars, skierVars, busStop, passengers, tally, stopSem, boardingSem,
                 logVars, capacity>>

BusUnboarded ==
  /\ BusGoes("waitUnboard", "unboard")
  /\ Acknowledged
  /\ idx' = idx + 1
  /\ UNCHANGED <<mainVars, skierVars, busStop, passengers, hopons, remaining, busTmp,
                 stopSem, unboardingSem, logVars, capacity>>

(* "leaving final" is written, and the counter incremented, without main_sem. *)
BusLeaveFinal ==
  /\ BusGoes("unboard", "finalRead")
  /\ idx >= passengers
  /\ lines' = lines + 1
  /\ UNCHANGED <<mainVars, skierVars, busStop, passengers, tally, semVars, mainSem, counter,
                 capacity>>

BusFinalRead ==
  /\ BusGoes("finalRead", "finalWrite")
  /\ busTmp' = counter
  /\ UNCHANGED <<mainVars, skierVars, busStop, passengers, hopons, idx, remaining,
                 semVars, logVars, capacity>>

BusFinalWrite ==
  /\ BusGoes("finalWrite", "remaining")
  /\ counter' = busTmp + 1
  /\ remaining' = 0 /\ idx' = 1
  /\ UNCHANGED <<mainVars, skierVars, busStop, passengers, hopons, busTmp, semVars, mainSem,
                 lines, capacity>>

LastStopOnly == capacity[idx]                  \* mutant: "=" for "+="
RemainingUpTo == remaining + capacity[idx]

BusCountRemaining ==
  /\ BusGoes("remaining", "remaining")
  /\ idx <= NumStops
  /\ remaining' = RemainingUpTo /\ idx' = idx + 1
  /\ UNCHANGED <<mainVars, skierVars, busStop, passengers, hopons, busTmp,
                 semVars, logVars, capacity>>

BusGoAgain ==
  /\ BusGoes("remaining", "travel")
  /\ idx > NumStops /\ remaining > 0
  /\ NewLap
  /\ UNCHANGED <<mainVars, skierVars, tally, semVars, logVars, capacity>>

(* "finish", also unlocked; the counter is not incremented. *)
BusFinish ==
  /\ BusGoes("remaining", "done")
  /\ idx > NumStops /\ remaining <= 0
  /\ lines' = lines + 1
  /\ UNCHANGED <<mainVars, skierVars, busStop, passengers, tally, semVars, mainSem, counter,
                 capacity>>

Bus ==
  \/ BusWrites \/ BusStarted \/ BusArrived \/ BusHopons \/ BusCallSkier \/ BusSkipHopon
  \/ BusStopsBoarding \/ BusBoarded \/ BusLeft \/ BusUnboard \/ BusUnboarded
  \/ BusLeaveFinal \/ BusFinalRead \/ BusFinalWrite \/ BusCountRemaining \/ BusGoAgain
  \/ BusFinish

Main == ForkSkier \/ ForkBus \/ ForkFails \/ Cleanup

Next == Main \/ Bus \/ \E s \in Skiers : Skier(s)

Spec == Init /\ [][Next]_vars

(* Weak fairness of each process.  A step that waits for main_sem needs the *)
(* strong form: the semaphore is busy and free again for ever.              *)
Fairness ==
  /\ WF_vars(ForkSkier \/ ForkBus) /\ WF_vars(Cleanup)
  /\ WF_vars(Bus) /\ SF_vars(BusWrites)
  /\ \A s \in Skiers : WF_vars(Skier(s)) /\ SF_vars(SkierWrites(s))

FairSpec == Spec /\ Fairness

-----------------------------------------------------------------------------
(* Properties. *)

(* Every variable keeps its type: in particular no semaphore is decremented *)
(* below zero and the bus's loop never leaves 1 .. FinalStop.               *)
TypeOK ==
  /\ mainPc \in {"forkSkiers", "waiting", "cleanedUp", "failed"}
  /\ forked \in 0 .. NumSkiers
  /\ pc \in [Skiers -> SkierPc]
  /\ stopOf \in [Skiers -> Stops]
  /\ tmp \in [Skiers -> Int]
  /\ busPc \in BusPc
  /\ busStop \in 1 .. FinalStop
  /\ passengers \in Nat /\ hopons \in Int /\ idx \in Nat
  /\ remaining \in Int /\ busTmp \in Nat
  /\ mainSem \in Nat /\ boardingSem \in Nat /\ unboardingSem \in Nat
  /\ stopSem \in [Stops -> Nat]
  /\ counter \in Nat /\ lines \in Nat
  /\ capacity \in [Stops -> Int]

(* Skiers let onto the bus that have not told it so, skiers in the bus, and *)
(* skiers let off it that have not told it so.                              *)
Entering == {s \in Skiers : pc[s] \in {"board", "boardOut", "offRead", "offWrite"}}
Aboard == {s \in Skiers : pc[s] = "aboard"}
Alighting == {s \in Skiers : pc[s] \in {"ski", "skiOut"}}

(* Skiers enter the bus one at a time, and only while it stands at their    *)
(* stop and waits for them: bus_boarding_sem, which acknowledges both       *)
(* getting on and getting off, never lets the bus leave early.              *)
BoardsAtItsStop ==
  \A s \in Entering :
    busPc = "waitBoard" /\ busStop = stopOf[s] /\ Entering = {s}

(* Skiers get off one at a time, and only at the final stop.                *)
AlightsAtFinal ==
  \A s \in Alighting :
    busPc = "waitUnboard" /\ busStop = FinalStop /\ Alighting = {s}

(* num_passengers is the number of skiers in the bus, and never above its   *)
(* capacity: a skier that has posted and that the bus has not counted yet,  *)
(* and at the final stop the ones that have got off, make the difference.   *)
Boarded == IF busPc = "waitBoard" /\ boardingSem > 0 THEN 1 ELSE 0
GotOff == IF busPc = "waitUnboard" /\ unboardingSem = 0 THEN 1 ELSE 0

LoadMatches ==
  /\ passengers <= BusCapacity
  /\ Cardinality(Aboard) =
       CASE busPc \in {"unboard", "waitUnboard"} -> passengers - idx - GotOff
         [] busPc \in {"finalRead", "finalWrite", "remaining", "done"} -> 0
         [] OTHER -> passengers + Boarded

(* Whoever writes a line under main_sem does so alone.                      *)
Writing == {s \in Skiers : pc[s] \in {"startOut", "arriveOut", "boardOut", "skiOut"}}
BusWriting == busPc \in {"startOut", "arriveOut", "leaveOut"}

OneWriter ==
  /\ \A s, t \in Writing : s = t
  /\ BusWriting => Writing = {}

(* Until the bus writes "leaving final", which it does without main_sem,    *)
(* no number of a line is used twice or left out.  busTmp is set there for  *)
(* the first time, and the counter is never 0.                              *)
LeftFinal == busPc = "finalRead" \/ busTmp # 0

NumberingExact == ~LeftFinal => counter + (1 - mainSem) = lines + 1

(* Skiers that have counted themselves and are not in the bus yet.          *)
Counted == {s \in Skiers : pc[s] \in {"start", "startOut", "arrive", "arriveOut",
                          "waitStop", "board", "boardOut", "offRead", "offWrite"}}

(* "Check if there are still skiers" (processes.c:225): when the bus        *)
(* finishes, every skier that was forked has gone skiing.                   *)
NobodyLeftBehind == busPc = "done" => \A s \in Skiers : pc[s] = "done"

(* A skier that has counted itself before the bus sums up what remains is   *)
(* taken up the hill in the end.                                            *)
CountedSkierRides ==
  \A s \in Skiers :
    (s \in Counted /\ busPc \notin {"unforked", "remaining", "done"}) ~> pc[s] = "done"

=============================================================================
