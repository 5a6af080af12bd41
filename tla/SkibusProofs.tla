---------------------------- MODULE SkibusProofs ----------------------------
(***************************************************************************)
(* Proofs about Skibus, for any number of skiers and stops and any         *)
(* capacity of the bus.                                                    *)
(*                                                                         *)
(* The invariant is built in layers, each proved from the ones before it:  *)
(* types; where the bus may be at each of its labels; main_sem; the        *)
(* hand-over between the bus and a skier; the load.                        *)
(***************************************************************************)
EXTENDS Skibus, FiniteSetTheorems, TLAPS

-----------------------------------------------------------------------------
(* The invariant. *)

(* Who has been forked, and what the bus's counters may be at each label. *)
PlaceInv ==
  /\ \A s \in Skiers : s > forked => pc[s] = "unforked"
  /\ mainPc \in {"forkSkiers", "failed"} => busPc = "unforked"
  /\ busPc \in {"hopons", "boarding", "waitBoard", "leave", "leaveOut"}
       => busStop \in Stops
  /\ busPc \in {"unboard", "waitUnboard"} => busStop = FinalStop /\ idx <= passengers
  /\ busPc = "waitUnboard" => idx < passengers
  /\ passengers <= BusCapacity
  /\ busPc = "waitBoard" => passengers < BusCapacity
  /\ busPc \in {"unforked", "start", "startOut"} => passengers = 0

(* main_sem is free exactly when nobody writes. *)
MutexInv ==
  /\ mainSem \in {0, 1}
  /\ mainSem = 1 => Writing = {} /\ ~BusWriting
  /\ OneWriter

NumberInv ==
  /\ counter > 0
  /\ busPc \in {"finalWrite", "remaining", "done"} => busTmp # 0
  /\ NumberingExact

(* The hand-over: the permission to board is at most one token, that the    *)
(* bus puts into the stop's semaphore, a skier carries, and gives back      *)
(* through bus_boarding_sem; getting off passes one the same way.           *)
RendezvousInv ==
  /\ boardingSem \in {0, 1} /\ unboardingSem \in {0, 1}
  /\ boardingSem = 1 => /\ busPc \in {"waitBoard", "waitUnboard"}
                        /\ Entering = {} /\ Alighting = {}
  /\ \A k \in Stops : stopSem[k] # 0 =>
       /\ stopSem[k] = 1 /\ busPc = "waitBoard" /\ k = busStop
       /\ Entering = {} /\ boardingSem = 0
  /\ unboardingSem = 1 =>
       /\ busPc = "waitUnboard" /\ Alighting = {} /\ boardingSem = 0
  /\ BoardsAtItsStop
  /\ AlightsAtFinal

IInv == TypeOK /\ PlaceInv /\ MutexInv /\ NumberInv /\ RendezvousInv /\ LoadMatches

-----------------------------------------------------------------------------
(* Types and the bus's counters. *)

LEMMA TypeInit == Init => TypeOK /\ PlaceInv
  BY SizesAssumption DEF Init, TypeOK, PlaceInv, Stops, Skiers, FinalStop, SkierPc, BusPc

LEMMA TypeStep ==
  ASSUME TypeOK, PlaceInv, [Next]_vars
  PROVE  TypeOK' /\ PlaceInv'
<1> DEFINE Goal == TypeOK' /\ PlaceInv'
<1> USE SizesAssumption
<1>1. CASE ForkSkier
  <2>1. pc' \in [Skiers -> SkierPc]
    BY <1>1 DEF ForkSkier, TypeOK, SkierPc
  <2>2. \A s \in Skiers : s > forked' => pc'[s] = "unforked"
    BY <1>1 DEF ForkSkier, TypeOK, PlaceInv, Skiers
  <2> QED
    BY <1>1, <2>1, <2>2 DEF ForkSkier, TypeOK, PlaceInv, mainVars, skierVars,
         busVars, semVars, logVars, tally
<1>2. CASE ForkBus
  <2>1. TypeOK'
    BY <1>2 DEF ForkBus, TypeOK, BusPc, mainVars, skierVars, busVars, semVars,
         logVars, tally
  <2>2. PlaceInv'
    BY <1>2 DEF ForkBus, PlaceInv, mainVars, skierVars, busVars, semVars,
         logVars, tally
  <2> QED
    BY <1>2, <2>1, <2>2 DEF ForkBus
<1>3. CASE ForkFails
  BY <1>3 DEF ForkFails, TypeOK, PlaceInv, BusPc, FinalStop, Stops, mainVars,
       skierVars, busVars, semVars, logVars, tally
<1>4. CASE Cleanup
  BY <1>4 DEF Cleanup, TypeOK, PlaceInv, BusPc, FinalStop, Stops, mainVars,
       skierVars, busVars, semVars, logVars, tally
<1>5. CASE BusWrites
  BY <1>5 DEF BusWrites, BusGoes, WriteLine, TypeOK, PlaceInv, BusPc,
       FinalStop, Stops, mainVars, skierVars, busVars, semVars, logVars, tally
<1>6. CASE BusStarted
  BY <1>6 DEF BusStarted, BusGoes, Release, NewLap, TypeOK, PlaceInv, BusPc,
       FinalStop, Stops, mainVars, skierVars, busVars, semVars, logVars, tally
<1>7. CASE BusArrived
  BY <1>7 DEF BusArrived, Release, TypeOK, PlaceInv, BusPc, FinalStop, Stops,
       mainVars, skierVars, busVars, semVars, logVars, tally
<1>8. CASE BusHopons
  BY <1>8 DEF BusHopons, BusGoes, TypeOK, PlaceInv, BusPc, FinalStop, Stops,
       mainVars, skierVars, busVars, semVars, logVars, tally
<1>9. CASE BusCallSkier
  <2>1. stopSem' \in [Stops -> Nat]
    BY <1>9 DEF BusCallSkier, BusGoes, MayCall, TypeOK, PlaceInv
  <2>2. TypeOK'
    BY <1>9, <2>1 DEF BusCallSkier, BusGoes, MayCall, TypeOK, BusPc, mainVars,
         skierVars, busVars, semVars, logVars, tally
  <2>3. PlaceInv'
    BY <1>9 DEF BusCallSkier, BusGoes, MayCall, TypeOK, PlaceInv, mainVars,
         skierVars, busVars, semVars, logVars, tally
  <2> QED
    BY <1>9, <2>1, <2>2, <2>3 DEF BusCallSkier
<1>10. CASE BusSkipHopon
  BY <1>10 DEF BusSkipHopon, BusGoes, MayCall, TypeOK, PlaceInv, BusPc,
       FinalStop, Stops, mainVars, skierVars, busVars, semVars, logVars, tally
<1>11. CASE BusStopsBoarding
  BY <1>11 DEF BusStopsBoarding, BusGoes, MayCall, TypeOK, PlaceInv, BusPc,
       FinalStop, Stops, mainVars, skierVars, busVars, semVars, logVars, tally
<1>12. CASE BusBoarded
  BY <1>12 DEF BusBoarded, BusGoes, Acknowledged, TypeOK, PlaceInv, BusPc,
       FinalStop, Stops, mainVars, skierVars, busVars, semVars, logVars, tally
<1>13. CASE BusLeft
  BY <1>13 DEF BusLeft, BusGoes, Release, TypeOK, PlaceInv, BusPc, FinalStop,
       Stops, mainVars, skierVars, busVars, semVars, logVars, tally
<1>14. CASE BusUnboard
  BY <1>14 DEF BusUnboard, BusGoes, TypeOK, PlaceInv, BusPc, FinalStop, Stops,
       mainVars, skierVars, busVars, semVars, logVars, tally
<1>15. CASE BusUnboarded
  BY <1>15 DEF BusUnboarded, BusGoes, Acknowledged, TypeOK, PlaceInv, BusPc,
       FinalStop, Stops, mainVars, skierVars, busVars, semVars, logVars, tally
<1>16. CASE BusLeaveFinal
  BY <1>16 DEF BusLeaveFinal, BusGoes, TypeOK, PlaceInv, BusPc, FinalStop,
       Stops, mainVars, skierVars, busVars, semVars, logVars, tally
<1>17. CASE BusFinalRead
  BY <1>17 DEF BusFinalRead, BusGoes, TypeOK, PlaceInv, BusPc, FinalStop,
       Stops, mainVars, skierVars, busVars, semVars, logVars, tally
<1>18. CASE BusFinalWrite
  BY <1>18 DEF BusFinalWrite, BusGoes, TypeOK, PlaceInv, BusPc, FinalStop,
       Stops, mainVars, skierVars, busVars, semVars, logVars, tally
<1>19. CASE BusCountRemaining
  <2>1. remaining' \in Int /\ idx' \in Nat
    BY <1>19 DEF BusCountRemaining, RemainingUpTo, TypeOK, Stops
  <2> QED
    BY <1>19, <2>1 DEF BusCountRemaining, BusGoes, TypeOK, PlaceInv, BusPc,
         FinalStop, Stops, mainVars, skierVars, busVars, semVars, logVars,
         tally
<1>20. CASE BusGoAgain
  BY <1>20 DEF BusGoAgain, BusGoes, NewLap, TypeOK, PlaceInv, BusPc,
       FinalStop, Stops, mainVars, skierVars, busVars, semVars, logVars, tally
<1>21. CASE BusFinish
  BY <1>21 DEF BusFinish, BusGoes, TypeOK, PlaceInv, BusPc, FinalStop, Stops,
       mainVars, skierVars, busVars, semVars, logVars, tally
<1>22. ASSUME NEW s \in Skiers, SkierRead(s) PROVE Goal
  <2>1. pc' \in [Skiers -> SkierPc]
    BY <1>22 DEF SkierRead, SkierGoes, TypeOK, SkierPc
  <2>2. tmp' \in [Skiers -> Int]
    BY <1>22 DEF SkierRead, SkierGoes, TypeOK
  <2> QED
    BY <1>22, <2>1, <2>2 DEF SkierRead, SkierGoes, TypeOK, PlaceInv, mainVars,
         skierVars, busVars, semVars, logVars, tally
<1>23. ASSUME NEW s \in Skiers, SkierCountWrite(s) PROVE Goal
  <2>1. pc' \in [Skiers -> SkierPc]
    BY <1>23 DEF SkierCountWrite, SkierGoes, TypeOK, SkierPc
  <2>2. capacity' \in [Stops -> Int]
    BY <1>23 DEF SkierCountWrite, SkierGoes, TypeOK
  <2> QED
    BY <1>23, <2>1, <2>2 DEF SkierCountWrite, SkierGoes, TypeOK, PlaceInv,
         mainVars, skierVars, busVars, semVars, logVars, tally
<1>24. ASSUME NEW s \in Skiers, SkierWrites(s) PROVE Goal
  <2>1. pc' \in [Skiers -> SkierPc]
    BY <1>24 DEF SkierWrites, SkierGoes, WriteLine, TypeOK, SkierPc
  <2> QED
    BY <1>24, <2>1 DEF SkierWrites, SkierGoes, WriteLine, TypeOK, PlaceInv,
         mainVars, skierVars, busVars, semVars, logVars, tally
<1>25. ASSUME NEW s \in Skiers, SkierReleases(s) PROVE Goal
  <2>1. pc' \in [Skiers -> SkierPc]
    BY <1>25 DEF SkierReleases, SkierGoes, Release, TypeOK, SkierPc
  <2> QED
    BY <1>25, <2>1 DEF SkierReleases, SkierGoes, Release, TypeOK, PlaceInv,
         mainVars, skierVars, busVars, semVars, logVars, tally
<1>26. ASSUME NEW s \in Skiers, SkierWaitStop(s) PROVE Goal
  <2>1. pc' \in [Skiers -> SkierPc]
    BY <1>26 DEF SkierWaitStop, SkierGoes, TypeOK, SkierPc
  <2>2. stopOf[s] \in Stops
    BY DEF TypeOK
  <2>3. stopSem' \in [Stops -> Nat]
    BY <1>26, <2>2 DEF SkierWaitStop, TypeOK
  <2> QED
    BY <1>26, <2>1, <2>2, <2>3 DEF SkierWaitStop, SkierGoes, TypeOK, PlaceInv,
         mainVars, skierVars, busVars, semVars, logVars, tally
<1>27. ASSUME NEW s \in Skiers, SkierOffWrite(s) PROVE Goal
  <2>1. pc' \in [Skiers -> SkierPc]
    BY <1>27 DEF SkierOffWrite, SkierGoes, OneLess, TypeOK, SkierPc
  <2>2. capacity' \in [Stops -> Int]
    BY <1>27 DEF SkierOffWrite, SkierGoes, OneLess, TypeOK
  <2> QED
    BY <1>27, <2>1, <2>2 DEF SkierOffWrite, SkierGoes, OneLess, TypeOK,
         PlaceInv, mainVars, skierVars, busVars, semVars, logVars, tally
<1>28. ASSUME NEW s \in Skiers, SkierWaitUnboard(s) PROVE Goal
  <2>1. pc' \in [Skiers -> SkierPc]
    BY <1>28 DEF SkierWaitUnboard, SkierGoes, CalledOff, TypeOK, SkierPc
  <2> QED
    BY <1>28, <2>1 DEF SkierWaitUnboard, SkierGoes, CalledOff, TypeOK,
         PlaceInv, mainVars, skierVars, busVars, semVars, logVars, tally
<1>29. ASSUME NEW s \in Skiers, SkierDone(s) PROVE Goal
  <2>1. pc' \in [Skiers -> SkierPc]
    BY <1>29 DEF SkierDone, SkierGoes, Release, TypeOK, SkierPc
  <2> QED
    BY <1>29, <2>1 DEF SkierDone, SkierGoes, Release, TypeOK, PlaceInv,
         mainVars, skierVars, busVars, semVars, logVars, tally
<1>30. CASE UNCHANGED vars
  BY <1>30 DEF TypeOK, PlaceInv, BusPc, FinalStop, Stops, mainVars, skierVars,
       busVars, semVars, logVars, tally, vars, mainVars, skierVars, busVars,
       semVars, logVars, tally
<1>31. QED
  BY <1>1, <1>2, <1>3, <1>4, <1>5, <1>6, <1>7, <1>8, <1>9, <1>10, <1>11,
       <1>12, <1>13, <1>14, <1>15, <1>16, <1>17, <1>18, <1>19, <1>20, <1>21,
       <1>22, <1>23, <1>24, <1>25, <1>26, <1>27, <1>28, <1>29, <1>30 DEF Next,
       Main, Bus, Skier

(* Only the one that holds main_sem can post it. *)
LEMMA MutexStep ==
  ASSUME TypeOK, MutexInv, [Next]_vars
  PROVE  MutexInv'
<1> DEFINE Goal == MutexInv'
<1>1. CASE ForkSkier
  BY <1>1 DEF ForkSkier, TypeOK, MutexInv, OneWriter, Writing, BusWriting,
       mainVars, skierVars, busVars, semVars, logVars, tally
<1>2. CASE ForkBus
  BY <1>2 DEF ForkBus, TypeOK, MutexInv, OneWriter, Writing, BusWriting,
       mainVars, skierVars, busVars, semVars, logVars, tally
<1>3. CASE ForkFails
  BY <1>3 DEF ForkFails, TypeOK, MutexInv, OneWriter, Writing, BusWriting,
       mainVars, skierVars, busVars, semVars, logVars, tally
<1>4. CASE Cleanup
  BY <1>4 DEF Cleanup, TypeOK, MutexInv, OneWriter, Writing, BusWriting,
       mainVars, skierVars, busVars, semVars, logVars, tally
<1>5. CASE BusWrites
  BY <1>5 DEF BusWrites, BusGoes, WriteLine, TypeOK, MutexInv, OneWriter,
       Writing, BusWriting, mainVars, skierVars, busVars, semVars, logVars,
       tally
<1>6. CASE BusStarted
  BY <1>6 DEF BusStarted, BusGoes, Release, NewLap, TypeOK, MutexInv,
       OneWriter, Writing, BusWriting, mainVars, skierVars, busVars, semVars,
       logVars, tally
<1>7. CASE BusArrived
  BY <1>7 DEF BusArrived, Release, TypeOK, MutexInv, OneWriter, Writing,
       BusWriting, mainVars, skierVars, busVars, semVars, logVars, tally
<1>8. CASE BusHopons
  BY <1>8 DEF BusHopons, BusGoes, TypeOK, MutexInv, OneWriter, Writing,
       BusWriting, mainVars, skierVars, busVars, semVars, logVars, tally
<1>9. CASE BusCallSkier
  BY <1>9 DEF BusCallSkier, BusGoes, MayCall, TypeOK, MutexInv, OneWriter,
       Writing, BusWriting, mainVars, skierVars, busVars, semVars, logVars,
       tally
<1>10. CASE BusSkipHopon
  BY <1>10 DEF BusSkipHopon, BusGoes, MayCall, TypeOK, MutexInv, OneWriter,
       Writing, BusWriting, mainVars, skierVars, busVars, semVars, logVars,
       tally
<1>11. CASE BusStopsBoarding
  BY <1>11 DEF BusStopsBoarding, BusGoes, MayCall, TypeOK, MutexInv,
       OneWriter, Writing, BusWriting, mainVars, skierVars, busVars, semVars,
       logVars, tally
<1>12. CASE BusBoarded
  BY <1>12 DEF BusBoarded, BusGoes, Acknowledged, TypeOK, MutexInv, OneWriter,
       Writing, BusWriting, mainVars, skierVars, busVars, semVars, logVars,
       tally
<1>13. CASE BusLeft
  BY <1>13 DEF BusLeft, BusGoes, Release, TypeOK, MutexInv, OneWriter,
       Writing, BusWriting, mainVars, skierVars, busVars, semVars, logVars,
       tally
<1>14. CASE BusUnboard
  BY <1>14 DEF BusUnboard, BusGoes, TypeOK, MutexInv, OneWriter, Writing,
       BusWriting, mainVars, skierVars, busVars, semVars, logVars, tally
<1>15. CASE BusUnboarded
  BY <1>15 DEF BusUnboarded, BusGoes, Acknowledged, TypeOK, MutexInv,
       OneWriter, Writing, BusWriting, mainVars, skierVars, busVars, semVars,
       logVars, tally
<1>16. CASE BusLeaveFinal
  BY <1>16 DEF BusLeaveFinal, BusGoes, TypeOK, MutexInv, OneWriter, Writing,
       BusWriting, mainVars, skierVars, busVars, semVars, logVars, tally
<1>17. CASE BusFinalRead
  BY <1>17 DEF BusFinalRead, BusGoes, TypeOK, MutexInv, OneWriter, Writing,
       BusWriting, mainVars, skierVars, busVars, semVars, logVars, tally
<1>18. CASE BusFinalWrite
  BY <1>18 DEF BusFinalWrite, BusGoes, TypeOK, MutexInv, OneWriter, Writing,
       BusWriting, mainVars, skierVars, busVars, semVars, logVars, tally
<1>19. CASE BusCountRemaining
  BY <1>19 DEF BusCountRemaining, BusGoes, RemainingUpTo, TypeOK, MutexInv,
       OneWriter, Writing, BusWriting, mainVars, skierVars, busVars, semVars,
       logVars, tally
<1>20. CASE BusGoAgain
  BY <1>20 DEF BusGoAgain, BusGoes, NewLap, TypeOK, MutexInv, OneWriter,
       Writing, BusWriting, mainVars, skierVars, busVars, semVars, logVars,
       tally
<1>21. CASE BusFinish
  BY <1>21 DEF BusFinish, BusGoes, TypeOK, MutexInv, OneWriter, Writing,
       BusWriting, mainVars, skierVars, busVars, semVars, logVars, tally
<1>22. ASSUME NEW s \in Skiers, SkierRead(s) PROVE Goal
  BY <1>22 DEF SkierRead, SkierGoes, TypeOK, MutexInv, OneWriter, Writing,
       BusWriting, mainVars, skierVars, busVars, semVars, logVars, tally
<1>23. ASSUME NEW s \in Skiers, SkierCountWrite(s) PROVE Goal
  BY <1>23 DEF SkierCountWrite, SkierGoes, TypeOK, MutexInv, OneWriter,
       Writing, BusWriting, mainVars, skierVars, busVars, semVars, logVars,
       tally
<1>24. ASSUME NEW s \in Skiers, SkierWrites(s) PROVE Goal
  BY <1>24 DEF SkierWrites, SkierGoes, WriteLine, TypeOK, MutexInv, OneWriter,
       Writing, BusWriting, mainVars, skierVars, busVars, semVars, logVars,
       tally
<1>25. ASSUME NEW s \in Skiers, SkierReleases(s) PROVE Goal
  BY <1>25 DEF SkierReleases, SkierGoes, Release, TypeOK, MutexInv, OneWriter,
       Writing, BusWriting, mainVars, skierVars, busVars, semVars, logVars,
       tally
<1>26. ASSUME NEW s \in Skiers, SkierWaitStop(s) PROVE Goal
  BY <1>26 DEF SkierWaitStop, SkierGoes, TypeOK, MutexInv, OneWriter, Writing,
       BusWriting, mainVars, skierVars, busVars, semVars, logVars, tally
<1>27. ASSUME NEW s \in Skiers, SkierOffWrite(s) PROVE Goal
  BY <1>27 DEF SkierOffWrite, SkierGoes, OneLess, TypeOK, MutexInv, OneWriter,
       Writing, BusWriting, mainVars, skierVars, busVars, semVars, logVars,
       tally
<1>28. ASSUME NEW s \in Skiers, SkierWaitUnboard(s) PROVE Goal
  BY <1>28 DEF SkierWaitUnboard, SkierGoes, CalledOff, TypeOK, MutexInv,
       OneWriter, Writing, BusWriting, mainVars, skierVars, busVars, semVars,
       logVars, tally
<1>29. ASSUME NEW s \in Skiers, SkierDone(s) PROVE Goal
  BY <1>29 DEF SkierDone, SkierGoes, Release, TypeOK, MutexInv, OneWriter,
       Writing, BusWriting, mainVars, skierVars, busVars, semVars, logVars,
       tally
<1>30. CASE UNCHANGED vars
  BY <1>30 DEF TypeOK, MutexInv, OneWriter, Writing, BusWriting, mainVars,
       skierVars, busVars, semVars, logVars, tally, vars, mainVars, skierVars,
       busVars, semVars, logVars, tally
<1>31. QED
  BY <1>1, <1>2, <1>3, <1>4, <1>5, <1>6, <1>7, <1>8, <1>9, <1>10, <1>11,
       <1>12, <1>13, <1>14, <1>15, <1>16, <1>17, <1>18, <1>19, <1>20, <1>21,
       <1>22, <1>23, <1>24, <1>25, <1>26, <1>27, <1>28, <1>29, <1>30 DEF Next,
       Main, Bus, Skier

(* The counter moves with the lines until the bus leaves the final stop. *)
LEMMA NumberStep ==
  ASSUME TypeOK, PlaceInv, MutexInv, NumberInv, [Next]_vars
  PROVE  NumberInv'
<1> DEFINE Goal == NumberInv'
<1>1. CASE ForkSkier
  BY <1>1 DEF ForkSkier, TypeOK, MutexInv, Writing, BusWriting, NumberInv,
       NumberingExact, LeftFinal, mainVars, skierVars, busVars, semVars,
       logVars, tally
<1>2. CASE ForkBus
  BY <1>2 DEF ForkBus, PlaceInv, TypeOK, MutexInv, Writing, BusWriting, NumberInv,
       NumberingExact, LeftFinal, mainVars, skierVars, busVars, semVars,
       logVars, tally
<1>3. CASE ForkFails
  BY <1>3 DEF ForkFails, TypeOK, MutexInv, Writing, BusWriting, NumberInv,
       NumberingExact, LeftFinal, mainVars, skierVars, busVars, semVars,
       logVars, tally
<1>4. CASE Cleanup
  BY <1>4 DEF Cleanup, TypeOK, MutexInv, Writing, BusWriting, NumberInv,
       NumberingExact, LeftFinal, mainVars, skierVars, busVars, semVars,
       logVars, tally
<1>5. CASE BusWrites
  BY <1>5 DEF BusWrites, BusGoes, WriteLine, TypeOK, MutexInv, Writing,
       BusWriting, NumberInv, NumberingExact, LeftFinal, mainVars, skierVars,
       busVars, semVars, logVars, tally
<1>6. CASE BusStarted
  BY <1>6 DEF BusStarted, BusGoes, Release, NewLap, TypeOK, MutexInv, Writing,
       BusWriting, NumberInv, NumberingExact, LeftFinal, mainVars, skierVars,
       busVars, semVars, logVars, tally
<1>7. CASE BusArrived
  BY <1>7 DEF BusArrived, Release, TypeOK, MutexInv, Writing, BusWriting,
       NumberInv, NumberingExact, LeftFinal, mainVars, skierVars, busVars,
       semVars, logVars, tally
<1>8. CASE BusHopons
  BY <1>8 DEF BusHopons, BusGoes, TypeOK, MutexInv, Writing, BusWriting,
       NumberInv, NumberingExact, LeftFinal, mainVars, skierVars, busVars,
       semVars, logVars, tally
<1>9. CASE BusCallSkier
  BY <1>9 DEF BusCallSkier, BusGoes, MayCall, TypeOK, MutexInv, Writing,
       BusWriting, NumberInv, NumberingExact, LeftFinal, mainVars, skierVars,
       busVars, semVars, logVars, tally
<1>10. CASE BusSkipHopon
  BY <1>10 DEF BusSkipHopon, BusGoes, MayCall, TypeOK, MutexInv, Writing,
       BusWriting, NumberInv, NumberingExact, LeftFinal, mainVars, skierVars,
       busVars, semVars, logVars, tally
<1>11. CASE BusStopsBoarding
  BY <1>11 DEF BusStopsBoarding, BusGoes, MayCall, TypeOK, MutexInv, Writing,
       BusWriting, NumberInv, NumberingExact, LeftFinal, mainVars, skierVars,
       busVars, semVars, logVars, tally
<1>12. CASE BusBoarded
  BY <1>12 DEF BusBoarded, BusGoes, Acknowledged, TypeOK, MutexInv, Writing,
       BusWriting, NumberInv, NumberingExact, LeftFinal, mainVars, skierVars,
       busVars, semVars, logVars, tally
<1>13. CASE BusLeft
  BY <1>13 DEF BusLeft, BusGoes, Release, TypeOK, MutexInv, Writing,
       BusWriting, NumberInv, NumberingExact, LeftFinal, mainVars, skierVars,
       busVars, semVars, logVars, tally
<1>14. CASE BusUnboard
  BY <1>14 DEF BusUnboard, BusGoes, TypeOK, MutexInv, Writing, BusWriting,
       NumberInv, NumberingExact, LeftFinal, mainVars, skierVars, busVars,
       semVars, logVars, tally
<1>15. CASE BusUnboarded
  BY <1>15 DEF BusUnboarded, BusGoes, Acknowledged, TypeOK, MutexInv, Writing,
       BusWriting, NumberInv, NumberingExact, LeftFinal, mainVars, skierVars,
       busVars, semVars, logVars, tally
<1>16. CASE BusLeaveFinal
  BY <1>16 DEF BusLeaveFinal, BusGoes, TypeOK, MutexInv, Writing, BusWriting,
       NumberInv, NumberingExact, LeftFinal, mainVars, skierVars, busVars,
       semVars, logVars, tally
<1>17. CASE BusFinalRead
  BY <1>17 DEF BusFinalRead, BusGoes, TypeOK, MutexInv, Writing, BusWriting,
       NumberInv, NumberingExact, LeftFinal, mainVars, skierVars, busVars,
       semVars, logVars, tally
<1>18. CASE BusFinalWrite
  BY <1>18 DEF BusFinalWrite, BusGoes, TypeOK, MutexInv, Writing, BusWriting,
       NumberInv, NumberingExact, LeftFinal, mainVars, skierVars, busVars,
       semVars, logVars, tally
<1>19. CASE BusCountRemaining
  BY <1>19 DEF BusCountRemaining, BusGoes, RemainingUpTo, TypeOK, MutexInv,
       Writing, BusWriting, NumberInv, NumberingExact, LeftFinal, mainVars,
       skierVars, busVars, semVars, logVars, tally
<1>20. CASE BusGoAgain
  BY <1>20 DEF BusGoAgain, BusGoes, NewLap, TypeOK, MutexInv, Writing,
       BusWriting, NumberInv, NumberingExact, LeftFinal, mainVars, skierVars,
       busVars, semVars, logVars, tally
<1>21. CASE BusFinish
  BY <1>21 DEF BusFinish, BusGoes, TypeOK, MutexInv, Writing, BusWriting,
       NumberInv, NumberingExact, LeftFinal, mainVars, skierVars, busVars,
       semVars, logVars, tally
<1>22. ASSUME NEW s \in Skiers, SkierRead(s) PROVE Goal
  BY <1>22 DEF SkierRead, SkierGoes, TypeOK, MutexInv, Writing, BusWriting,
       NumberInv, NumberingExact, LeftFinal, mainVars, skierVars, busVars,
       semVars, logVars, tally
<1>23. ASSUME NEW s \in Skiers, SkierCountWrite(s) PROVE Goal
  BY <1>23 DEF SkierCountWrite, SkierGoes, TypeOK, MutexInv, Writing,
       BusWriting, NumberInv, NumberingExact, LeftFinal, mainVars, skierVars,
       busVars, semVars, logVars, tally
<1>24. ASSUME NEW s \in Skiers, SkierWrites(s) PROVE Goal
  BY <1>24 DEF SkierWrites, SkierGoes, WriteLine, TypeOK, MutexInv, Writing,
       BusWriting, NumberInv, NumberingExact, LeftFinal, mainVars, skierVars,
       busVars, semVars, logVars, tally
<1>25. ASSUME NEW s \in Skiers, SkierReleases(s) PROVE Goal
  BY <1>25 DEF SkierReleases, SkierGoes, Release, TypeOK, MutexInv, Writing,
       BusWriting, NumberInv, NumberingExact, LeftFinal, mainVars, skierVars,
       busVars, semVars, logVars, tally
<1>26. ASSUME NEW s \in Skiers, SkierWaitStop(s) PROVE Goal
  BY <1>26 DEF SkierWaitStop, SkierGoes, TypeOK, MutexInv, Writing,
       BusWriting, NumberInv, NumberingExact, LeftFinal, mainVars, skierVars,
       busVars, semVars, logVars, tally
<1>27. ASSUME NEW s \in Skiers, SkierOffWrite(s) PROVE Goal
  BY <1>27 DEF SkierOffWrite, SkierGoes, OneLess, TypeOK, MutexInv, Writing,
       BusWriting, NumberInv, NumberingExact, LeftFinal, mainVars, skierVars,
       busVars, semVars, logVars, tally
<1>28. ASSUME NEW s \in Skiers, SkierWaitUnboard(s) PROVE Goal
  BY <1>28 DEF SkierWaitUnboard, SkierGoes, CalledOff, TypeOK, MutexInv,
       Writing, BusWriting, NumberInv, NumberingExact, LeftFinal, mainVars,
       skierVars, busVars, semVars, logVars, tally
<1>29. ASSUME NEW s \in Skiers, SkierDone(s) PROVE Goal
  BY <1>29 DEF SkierDone, SkierGoes, Release, TypeOK, MutexInv, Writing,
       BusWriting, NumberInv, NumberingExact, LeftFinal, mainVars, skierVars,
       busVars, semVars, logVars, tally
<1>30. CASE UNCHANGED vars
  BY <1>30 DEF TypeOK, MutexInv, Writing, BusWriting, NumberInv,
       NumberingExact, LeftFinal, mainVars, skierVars, busVars, semVars,
       logVars, tally, vars, mainVars, skierVars, busVars, semVars, logVars,
       tally
<1>31. QED
  BY <1>1, <1>2, <1>3, <1>4, <1>5, <1>6, <1>7, <1>8, <1>9, <1>10, <1>11,
       <1>12, <1>13, <1>14, <1>15, <1>16, <1>17, <1>18, <1>19, <1>20, <1>21,
       <1>22, <1>23, <1>24, <1>25, <1>26, <1>27, <1>28, <1>29, <1>30 DEF Next,
       Main, Bus, Skier

(* The token of the hand-over is passed on and never doubled. *)
LEMMA RendezvousStep ==
  ASSUME TypeOK, PlaceInv, RendezvousInv, [Next]_vars
  PROVE  RendezvousInv'
<1> DEFINE Goal == RendezvousInv'
<1>1. CASE ForkSkier
  BY <1>1 DEF ForkSkier, TypeOK, PlaceInv, RendezvousInv, BoardsAtItsStop,
       AlightsAtFinal, Entering, Alighting, mainVars, skierVars, busVars,
       semVars, logVars, tally
<1>2. CASE ForkBus
  BY <1>2 DEF ForkBus, TypeOK, PlaceInv, RendezvousInv, BoardsAtItsStop,
       AlightsAtFinal, Entering, Alighting, mainVars, skierVars, busVars,
       semVars, logVars, tally
<1>3. CASE ForkFails
  BY <1>3 DEF ForkFails, TypeOK, PlaceInv, RendezvousInv, BoardsAtItsStop,
       AlightsAtFinal, Entering, Alighting, mainVars, skierVars, busVars,
       semVars, logVars, tally
<1>4. CASE Cleanup
  BY <1>4 DEF Cleanup, TypeOK, PlaceInv, RendezvousInv, BoardsAtItsStop,
       AlightsAtFinal, Entering, Alighting, mainVars, skierVars, busVars,
       semVars, logVars, tally
<1>5. CASE BusWrites
  BY <1>5 DEF BusWrites, BusGoes, WriteLine, TypeOK, PlaceInv, RendezvousInv,
       BoardsAtItsStop, AlightsAtFinal, Entering, Alighting, mainVars,
       skierVars, busVars, semVars, logVars, tally
<1>6. CASE BusStarted
  BY <1>6 DEF BusStarted, BusGoes, Release, NewLap, TypeOK, PlaceInv,
       RendezvousInv, BoardsAtItsStop, AlightsAtFinal, Entering, Alighting,
       mainVars, skierVars, busVars, semVars, logVars, tally
<1>7. CASE BusArrived
  BY <1>7 DEF BusArrived, Release, TypeOK, PlaceInv, RendezvousInv,
       BoardsAtItsStop, AlightsAtFinal, Entering, Alighting, mainVars,
       skierVars, busVars, semVars, logVars, tally
<1>8. CASE BusHopons
  BY <1>8 DEF BusHopons, BusGoes, TypeOK, PlaceInv, RendezvousInv,
       BoardsAtItsStop, AlightsAtFinal, Entering, Alighting, mainVars,
       skierVars, busVars, semVars, logVars, tally
<1>9. CASE BusCallSkier
  BY <1>9 DEF BusCallSkier, BusGoes, MayCall, TypeOK, PlaceInv, RendezvousInv,
       BoardsAtItsStop, AlightsAtFinal, Entering, Alighting, mainVars,
       skierVars, busVars, semVars, logVars, tally
<1>10. CASE BusSkipHopon
  BY <1>10 DEF BusSkipHopon, BusGoes, MayCall, TypeOK, PlaceInv,
       RendezvousInv, BoardsAtItsStop, AlightsAtFinal, Entering, Alighting,
       mainVars, skierVars, busVars, semVars, logVars, tally
<1>11. CASE BusStopsBoarding
  BY <1>11 DEF BusStopsBoarding, BusGoes, MayCall, TypeOK, PlaceInv,
       RendezvousInv, BoardsAtItsStop, AlightsAtFinal, Entering, Alighting,
       mainVars, skierVars, busVars, semVars, logVars, tally
<1>12. CASE BusBoarded
  BY <1>12 DEF BusBoarded, BusGoes, Acknowledged, TypeOK, PlaceInv,
       RendezvousInv, BoardsAtItsStop, AlightsAtFinal, Entering, Alighting,
       mainVars, skierVars, busVars, semVars, logVars, tally
<1>13. CASE BusLeft
  BY <1>13 DEF BusLeft, BusGoes, Release, TypeOK, PlaceInv, RendezvousInv,
       BoardsAtItsStop, AlightsAtFinal, Entering, Alighting, mainVars,
       skierVars, busVars, semVars, logVars, tally
<1>14. CASE BusUnboard
  BY <1>14 DEF BusUnboard, BusGoes, TypeOK, PlaceInv, RendezvousInv,
       BoardsAtItsStop, AlightsAtFinal, Entering, Alighting, mainVars,
       skierVars, busVars, semVars, logVars, tally
<1>15. CASE BusUnboarded
  BY <1>15 DEF BusUnboarded, BusGoes, Acknowledged, TypeOK, PlaceInv,
       RendezvousInv, BoardsAtItsStop, AlightsAtFinal, Entering, Alighting,
       mainVars, skierVars, busVars, semVars, logVars, tally
<1>16. CASE BusLeaveFinal
  BY <1>16 DEF BusLeaveFinal, BusGoes, TypeOK, PlaceInv, RendezvousInv,
       BoardsAtItsStop, AlightsAtFinal, Entering, Alighting, mainVars,
       skierVars, busVars, semVars, logVars, tally
<1>17. CASE BusFinalRead
  BY <1>17 DEF BusFinalRead, BusGoes, TypeOK, PlaceInv, RendezvousInv,
       BoardsAtItsStop, AlightsAtFinal, Entering, Alighting, mainVars,
       skierVars, busVars, semVars, logVars, tally
<1>18. CASE BusFinalWrite
  BY <1>18 DEF BusFinalWrite, BusGoes, TypeOK, PlaceInv, RendezvousInv,
       BoardsAtItsStop, AlightsAtFinal, Entering, Alighting, mainVars,
       skierVars, busVars, semVars, logVars, tally
<1>19. CASE BusCountRemaining
  BY <1>19 DEF BusCountRemaining, BusGoes, RemainingUpTo, TypeOK, PlaceInv,
       RendezvousInv, BoardsAtItsStop, AlightsAtFinal, Entering, Alighting,
       mainVars, skierVars, busVars, semVars, logVars, tally
<1>20. CASE BusGoAgain
  BY <1>20 DEF BusGoAgain, BusGoes, NewLap, TypeOK, PlaceInv, RendezvousInv,
       BoardsAtItsStop, AlightsAtFinal, Entering, Alighting, mainVars,
       skierVars, busVars, semVars, logVars, tally
<1>21. CASE BusFinish
  BY <1>21 DEF BusFinish, BusGoes, TypeOK, PlaceInv, RendezvousInv,
       BoardsAtItsStop, AlightsAtFinal, Entering, Alighting, mainVars,
       skierVars, busVars, semVars, logVars, tally
<1>22. ASSUME NEW s \in Skiers, SkierRead(s) PROVE Goal
  BY <1>22 DEF SkierRead, SkierGoes, TypeOK, PlaceInv, RendezvousInv,
       BoardsAtItsStop, AlightsAtFinal, Entering, Alighting, mainVars,
       skierVars, busVars, semVars, logVars, tally
<1>23. ASSUME NEW s \in Skiers, SkierCountWrite(s) PROVE Goal
  BY <1>23 DEF SkierCountWrite, SkierGoes, TypeOK, PlaceInv, RendezvousInv,
       BoardsAtItsStop, AlightsAtFinal, Entering, Alighting, mainVars,
       skierVars, busVars, semVars, logVars, tally
<1>24. ASSUME NEW s \in Skiers, SkierWrites(s) PROVE Goal
  BY <1>24 DEF SkierWrites, SkierGoes, WriteLine, TypeOK, PlaceInv,
       RendezvousInv, BoardsAtItsStop, AlightsAtFinal, Entering, Alighting,
       mainVars, skierVars, busVars, semVars, logVars, tally
<1>25. ASSUME NEW s \in Skiers, SkierReleases(s) PROVE Goal
  BY <1>25 DEF SkierReleases, SkierGoes, Release, TypeOK, PlaceInv,
       RendezvousInv, BoardsAtItsStop, AlightsAtFinal, Entering, Alighting,
       mainVars, skierVars, busVars, semVars, logVars, tally
<1>26. ASSUME NEW s \in Skiers, SkierWaitStop(s) PROVE Goal
  BY <1>26 DEF SkierWaitStop, SkierGoes, TypeOK, PlaceInv, RendezvousInv,
       BoardsAtItsStop, AlightsAtFinal, Entering, Alighting, mainVars,
       skierVars, busVars, semVars, logVars, tally
<1>27. ASSUME NEW s \in Skiers, SkierOffWrite(s) PROVE Goal
  BY <1>27 DEF SkierOffWrite, SkierGoes, OneLess, TypeOK, PlaceInv,
       RendezvousInv, BoardsAtItsStop, AlightsAtFinal, Entering, Alighting,
       mainVars, skierVars, busVars, semVars, logVars, tally
<1>28. ASSUME NEW s \in Skiers, SkierWaitUnboard(s) PROVE Goal
  BY <1>28 DEF SkierWaitUnboard, SkierGoes, CalledOff, TypeOK, PlaceInv,
       RendezvousInv, BoardsAtItsStop, AlightsAtFinal, Entering, Alighting,
       mainVars, skierVars, busVars, semVars, logVars, tally
<1>29. ASSUME NEW s \in Skiers, SkierDone(s) PROVE Goal
  BY <1>29 DEF SkierDone, SkierGoes, Release, TypeOK, PlaceInv, RendezvousInv,
       BoardsAtItsStop, AlightsAtFinal, Entering, Alighting, mainVars,
       skierVars, busVars, semVars, logVars, tally
<1>30. CASE UNCHANGED vars
  BY <1>30 DEF TypeOK, PlaceInv, RendezvousInv, BoardsAtItsStop,
       AlightsAtFinal, Entering, Alighting, mainVars, skierVars, busVars,
       semVars, logVars, tally, vars, mainVars, skierVars, busVars, semVars,
       logVars, tally
<1>31. QED
  BY <1>1, <1>2, <1>3, <1>4, <1>5, <1>6, <1>7, <1>8, <1>9, <1>10, <1>11,
       <1>12, <1>13, <1>14, <1>15, <1>16, <1>17, <1>18, <1>19, <1>20, <1>21,
       <1>22, <1>23, <1>24, <1>25, <1>26, <1>27, <1>28, <1>29, <1>30 DEF Next,
       Main, Bus, Skier

(* Getting on and off moves the number in the bus with num_passengers. *)
LEMMA LoadStep ==
  ASSUME TypeOK, PlaceInv, RendezvousInv, LoadMatches, [Next]_vars
  PROVE  LoadMatches'
<1> DEFINE Goal == LoadMatches'
<1>0. IsFiniteSet(Aboard) /\ Cardinality(Aboard) \in Nat
  <2>1. IsFiniteSet(Skiers)
    BY SizesAssumption, FS_Interval DEF Skiers
  <2> QED
    BY <2>1, FS_Subset, FS_CardinalityType DEF Aboard
<1> USE SizesAssumption
<1>1. CASE ForkSkier
  <2>1. Aboard' = Aboard
    BY <1>1 DEF ForkSkier, Aboard, TypeOK, PlaceInv, Skiers
  <2> QED
    BY <1>1, <2>1 DEF ForkSkier, TypeOK, PlaceInv, RendezvousInv, LoadMatches,
         Boarded, GotOff, mainVars, skierVars, busVars, semVars, logVars,
         tally
<1>2. CASE ForkBus
  <2>1. Aboard' = Aboard
    BY <1>2 DEF ForkBus, Aboard, TypeOK, skierVars
  <2> QED
    BY <1>2, <2>1 DEF ForkBus, TypeOK, PlaceInv, RendezvousInv, LoadMatches,
         Boarded, GotOff, mainVars, skierVars, busVars, semVars, logVars,
         tally
<1>3. CASE ForkFails
  <2>1. Aboard' = Aboard
    BY <1>3 DEF ForkFails, Aboard, TypeOK, skierVars
  <2> QED
    BY <1>3, <2>1 DEF ForkFails, TypeOK, PlaceInv, RendezvousInv, LoadMatches,
         Boarded, GotOff, mainVars, skierVars, busVars, semVars, logVars,
         tally
<1>4. CASE Cleanup
  <2>1. Aboard' = Aboard
    BY <1>4 DEF Cleanup, Aboard, TypeOK, skierVars
  <2> QED
    BY <1>4, <2>1 DEF Cleanup, TypeOK, PlaceInv, RendezvousInv, LoadMatches,
         Boarded, GotOff, mainVars, skierVars, busVars, semVars, logVars,
         tally
<1>5. CASE BusWrites
  <2>1. Aboard' = Aboard
    BY <1>5 DEF BusWrites, BusGoes, WriteLine, Aboard, TypeOK, skierVars
  <2> QED
    BY <1>5, <2>1 DEF BusWrites, BusGoes, WriteLine, TypeOK, PlaceInv,
         RendezvousInv, LoadMatches, Boarded, GotOff, mainVars, skierVars,
         busVars, semVars, logVars, tally
<1>6. CASE BusStarted
  <2>1. Aboard' = Aboard
    BY <1>6 DEF BusStarted, BusGoes, Release, NewLap, Aboard, TypeOK,
         skierVars
  <2> QED
    BY <1>6, <2>1 DEF BusStarted, BusGoes, Release, NewLap, TypeOK, PlaceInv,
         RendezvousInv, LoadMatches, Boarded, GotOff, mainVars, skierVars,
         busVars, semVars, logVars, tally
<1>7. CASE BusArrived
  <2>1. Aboard' = Aboard
    BY <1>7 DEF BusArrived, Release, Aboard, TypeOK, skierVars
  <2> QED
    BY <1>7, <2>1 DEF BusArrived, Release, TypeOK, PlaceInv, RendezvousInv,
         LoadMatches, Boarded, GotOff, mainVars, skierVars, busVars, semVars,
         logVars, tally
<1>8. CASE BusHopons
  <2>1. Aboard' = Aboard
    BY <1>8 DEF BusHopons, BusGoes, Aboard, TypeOK, skierVars
  <2> QED
    BY <1>8, <2>1 DEF BusHopons, BusGoes, TypeOK, PlaceInv, RendezvousInv,
         LoadMatches, Boarded, GotOff, mainVars, skierVars, busVars, semVars,
         logVars, tally
<1>9. CASE BusCallSkier
  <2>1. Aboard' = Aboard
    BY <1>9 DEF BusCallSkier, BusGoes, MayCall, Aboard, TypeOK, skierVars
  <2> QED
    BY <1>9, <2>1 DEF BusCallSkier, BusGoes, MayCall, TypeOK, PlaceInv,
         RendezvousInv, LoadMatches, Boarded, GotOff, mainVars, skierVars,
         busVars, semVars, logVars, tally
<1>10. CASE BusSkipHopon
  <2>1. Aboard' = Aboard
    BY <1>10 DEF BusSkipHopon, BusGoes, MayCall, Aboard, TypeOK, skierVars
  <2> QED
    BY <1>10, <2>1 DEF BusSkipHopon, BusGoes, MayCall, TypeOK, PlaceInv,
         RendezvousInv, LoadMatches, Boarded, GotOff, mainVars, skierVars,
         busVars, semVars, logVars, tally
<1>11. CASE BusStopsBoarding
  <2>1. Aboard' = Aboard
    BY <1>11 DEF BusStopsBoarding, BusGoes, MayCall, Aboard, TypeOK, skierVars
  <2> QED
    BY <1>11, <2>1 DEF BusStopsBoarding, BusGoes, MayCall, TypeOK, PlaceInv,
         RendezvousInv, LoadMatches, Boarded, GotOff, mainVars, skierVars,
         busVars, semVars, logVars, tally
<1>12. CASE BusBoarded
  <2>1. Aboard' = Aboard
    BY <1>12 DEF BusBoarded, BusGoes, Acknowledged, Aboard, TypeOK, skierVars
  <2> QED
    BY <1>12, <2>1 DEF BusBoarded, BusGoes, Acknowledged, TypeOK, PlaceInv,
         RendezvousInv, LoadMatches, Boarded, GotOff, mainVars, skierVars,
         busVars, semVars, logVars, tally
<1>13. CASE BusLeft
  <2>1. Aboard' = Aboard
    BY <1>13 DEF BusLeft, BusGoes, Release, Aboard, TypeOK, skierVars
  <2> QED
    BY <1>13, <2>1 DEF BusLeft, BusGoes, Release, TypeOK, PlaceInv,
         RendezvousInv, LoadMatches, Boarded, GotOff, mainVars, skierVars,
         busVars, semVars, logVars, tally
<1>14. CASE BusUnboard
  <2>1. Aboard' = Aboard
    BY <1>14 DEF BusUnboard, BusGoes, Aboard, TypeOK, skierVars
  <2> QED
    BY <1>14, <2>1 DEF BusUnboard, BusGoes, TypeOK, PlaceInv, RendezvousInv,
         LoadMatches, Boarded, GotOff, mainVars, skierVars, busVars, semVars,
         logVars, tally
<1>15. CASE BusUnboarded
  <2>1. Aboard' = Aboard
    BY <1>15 DEF BusUnboarded, BusGoes, Acknowledged, Aboard, TypeOK,
         skierVars
  <2> QED
    BY <1>15, <2>1 DEF BusUnboarded, BusGoes, Acknowledged, TypeOK, PlaceInv,
         RendezvousInv, LoadMatches, Boarded, GotOff, mainVars, skierVars,
         busVars, semVars, logVars, tally
<1>16. CASE BusLeaveFinal
  <2>1. Aboard' = Aboard
    BY <1>16 DEF BusLeaveFinal, BusGoes, Aboard, TypeOK, skierVars
  <2> QED
    BY <1>16, <2>1 DEF BusLeaveFinal, BusGoes, TypeOK, PlaceInv,
         RendezvousInv, LoadMatches, Boarded, GotOff, mainVars, skierVars,
         busVars, semVars, logVars, tally
<1>17. CASE BusFinalRead
  <2>1. Aboard' = Aboard
    BY <1>17 DEF BusFinalRead, BusGoes, Aboard, TypeOK, skierVars
  <2> QED
    BY <1>17, <2>1 DEF BusFinalRead, BusGoes, TypeOK, PlaceInv, RendezvousInv,
         LoadMatches, Boarded, GotOff, mainVars, skierVars, busVars, semVars,
         logVars, tally
<1>18. CASE BusFinalWrite
  <2>1. Aboard' = Aboard
    BY <1>18 DEF BusFinalWrite, BusGoes, Aboard, TypeOK, skierVars
  <2> QED
    BY <1>18, <2>1 DEF BusFinalWrite, BusGoes, TypeOK, PlaceInv,
         RendezvousInv, LoadMatches, Boarded, GotOff, mainVars, skierVars,
         busVars, semVars, logVars, tally
<1>19. CASE BusCountRemaining
  <2>1. Aboard' = Aboard
    BY <1>19 DEF BusCountRemaining, BusGoes, RemainingUpTo, Aboard, TypeOK,
         skierVars
  <2> QED
    BY <1>19, <2>1 DEF BusCountRemaining, BusGoes, RemainingUpTo, TypeOK,
         PlaceInv, RendezvousInv, LoadMatches, Boarded, GotOff, mainVars,
         skierVars, busVars, semVars, logVars, tally
<1>20. CASE BusGoAgain
  <2>1. Aboard' = Aboard
    BY <1>20 DEF BusGoAgain, BusGoes, NewLap, Aboard, TypeOK, skierVars
  <2> QED
    BY <1>20, <2>1 DEF BusGoAgain, BusGoes, NewLap, TypeOK, PlaceInv,
         RendezvousInv, LoadMatches, Boarded, GotOff, mainVars, skierVars,
         busVars, semVars, logVars, tally
<1>21. CASE BusFinish
  <2>1. Aboard' = Aboard
    BY <1>21 DEF BusFinish, BusGoes, Aboard, TypeOK, skierVars
  <2> QED
    BY <1>21, <2>1 DEF BusFinish, BusGoes, TypeOK, PlaceInv, RendezvousInv,
         LoadMatches, Boarded, GotOff, mainVars, skierVars, busVars, semVars,
         logVars, tally
<1>22. ASSUME NEW s \in Skiers, SkierRead(s) PROVE Goal
  <2>1. Aboard' = Aboard
    BY <1>22 DEF SkierRead, SkierGoes, Aboard, TypeOK
  <2> QED
    BY <1>22, <2>1 DEF SkierRead, SkierGoes, TypeOK, PlaceInv, RendezvousInv,
         LoadMatches, Boarded, GotOff, mainVars, skierVars, busVars, semVars,
         logVars, tally
<1>23. ASSUME NEW s \in Skiers, SkierCountWrite(s) PROVE Goal
  <2>1. Aboard' = Aboard
    BY <1>23 DEF SkierCountWrite, SkierGoes, Aboard, TypeOK
  <2> QED
    BY <1>23, <2>1 DEF SkierCountWrite, SkierGoes, TypeOK, PlaceInv,
         RendezvousInv, LoadMatches, Boarded, GotOff, mainVars, skierVars,
         busVars, semVars, logVars, tally
<1>24. ASSUME NEW s \in Skiers, SkierWrites(s) PROVE Goal
  <2>1. Aboard' = Aboard
    BY <1>24 DEF SkierWrites, SkierGoes, WriteLine, Aboard, TypeOK
  <2> QED
    BY <1>24, <2>1 DEF SkierWrites, SkierGoes, WriteLine, TypeOK, PlaceInv,
         RendezvousInv, LoadMatches, Boarded, GotOff, mainVars, skierVars,
         busVars, semVars, logVars, tally
<1>25. ASSUME NEW s \in Skiers, SkierReleases(s) PROVE Goal
  <2>1. Aboard' = Aboard
    BY <1>25 DEF SkierReleases, SkierGoes, Release, Aboard, TypeOK
  <2> QED
    BY <1>25, <2>1 DEF SkierReleases, SkierGoes, Release, TypeOK, PlaceInv,
         RendezvousInv, LoadMatches, Boarded, GotOff, mainVars, skierVars,
         busVars, semVars, logVars, tally
<1>26. ASSUME NEW s \in Skiers, SkierWaitStop(s) PROVE Goal
  <2>1. Aboard' = Aboard
    BY <1>26 DEF SkierWaitStop, SkierGoes, Aboard, TypeOK
  <2> QED
    BY <1>26, <2>1 DEF SkierWaitStop, SkierGoes, TypeOK, PlaceInv,
         RendezvousInv, LoadMatches, Boarded, GotOff, mainVars, skierVars,
         busVars, semVars, logVars, tally
<1>27. ASSUME NEW s \in Skiers, SkierOffWrite(s) PROVE Goal
  <2>1. Aboard' = Aboard \cup {s} /\ s \notin Aboard
    BY <1>27 DEF SkierOffWrite, SkierGoes, Aboard, TypeOK
  <2>2. Cardinality(Aboard') = Cardinality(Aboard) + 1
    BY <1>0, <2>1, FS_AddElement
  <2>3. s \in Entering
    BY <1>27 DEF SkierOffWrite, SkierGoes, Entering
  <2>4. busPc = "waitBoard" /\ boardingSem = 0
    BY <2>3 DEF RendezvousInv, BoardsAtItsStop
  <2> QED
    BY <1>27, <1>0, <2>2, <2>4 DEF SkierOffWrite, TypeOK, LoadMatches,
         Boarded, busVars, tally
<1>28. ASSUME NEW s \in Skiers, SkierWaitUnboard(s) PROVE Goal
  <2>1. Aboard' = Aboard \ {s} /\ s \in Aboard
    BY <1>28 DEF SkierWaitUnboard, CalledOff, SkierGoes, Aboard, TypeOK
  <2>2. Cardinality(Aboard') = Cardinality(Aboard) - 1
    BY <1>0, <2>1, FS_RemoveElement
  <2>3. busPc = "waitUnboard" /\ unboardingSem = 1
    BY <1>28 DEF SkierWaitUnboard, CalledOff, RendezvousInv
  <2> QED
    BY <1>28, <1>0, <2>2, <2>3 DEF SkierWaitUnboard, CalledOff, TypeOK,
         LoadMatches, GotOff, busVars, tally
<1>29. ASSUME NEW s \in Skiers, SkierDone(s) PROVE Goal
  <2>1. Aboard' = Aboard
    BY <1>29 DEF SkierDone, SkierGoes, Aboard, TypeOK
  <2>2. s \in Alighting
    BY <1>29 DEF SkierDone, SkierGoes, Alighting
  <2>3. busPc = "waitUnboard"
    BY <2>2 DEF AlightsAtFinal, RendezvousInv
  <2> QED
    BY <1>29, <2>1, <2>3 DEF SkierDone, LoadMatches, GotOff, busVars, tally
<1>30. CASE UNCHANGED vars
  <2>1. Aboard' = Aboard
    BY <1>30 DEF Aboard, vars, skierVars
  <2> QED
    BY <1>30, <2>1 DEF vars, TypeOK, PlaceInv, RendezvousInv, LoadMatches,
         Boarded, GotOff, mainVars, skierVars, busVars, semVars, logVars,
         tally
<1>31. QED
  BY <1>1, <1>2, <1>3, <1>4, <1>5, <1>6, <1>7, <1>8, <1>9, <1>10, <1>11,
       <1>12, <1>13, <1>14, <1>15, <1>16, <1>17, <1>18, <1>19, <1>20, <1>21,
       <1>22, <1>23, <1>24, <1>25, <1>26, <1>27, <1>28, <1>29, <1>30 DEF Next,
       Main, Bus, Skier

-----------------------------------------------------------------------------
(* The results. *)

LEMMA InvInit == Init => IInv
<1> SUFFICES ASSUME Init PROVE IInv
  OBVIOUS
<1> USE SizesAssumption DEF Init
<1>1. TypeOK /\ PlaceInv
  BY TypeInit
<1>2. Entering = {} /\ Aboard = {} /\ Alighting = {} /\ Writing = {}
  BY DEF Entering, Aboard, Alighting, Writing
<1>3. MutexInv /\ NumberInv
  BY <1>2 DEF MutexInv, OneWriter, BusWriting, NumberInv, NumberingExact
<1>4. RendezvousInv
  BY <1>2 DEF RendezvousInv, BoardsAtItsStop, AlightsAtFinal
<1>5. LoadMatches
  BY <1>2, FS_EmptySet DEF LoadMatches, Boarded
<1> QED
  BY <1>1, <1>3, <1>4, <1>5 DEF IInv

LEMMA InvStep == IInv /\ [Next]_vars => IInv'
  BY TypeStep, MutexStep, NumberStep, RendezvousStep, LoadStep DEF IInv

(* The inductive invariant holds in every reachable state. *)
THEOREM Invariance == Spec => []IInv
  BY InvInit, InvStep, PTL DEF Spec

(* No semaphore drops below zero and every loop of the bus stays in range.  *)
THEOREM TypeCorrect == Spec => []TypeOK
  BY Invariance, PTL DEF IInv

(* A line numbered under main_sem is written by one process at a time.      *)
THEOREM OneWriterAlways == Spec => []OneWriter
<1>1. IInv => OneWriter
  BY DEF IInv, MutexInv
<1> QED
  BY <1>1, Invariance, PTL

(* No number is used twice before the bus first leaves the final stop.      *)
THEOREM NumberingAlways == Spec => []NumberingExact
<1>1. IInv => NumberingExact
  BY DEF IInv, NumberInv
<1> QED
  BY <1>1, Invariance, PTL

(* Skiers board one at a time, at their own stop, with the bus waiting.     *)
THEOREM BoardingAlways == Spec => []BoardsAtItsStop
<1>1. IInv => BoardsAtItsStop
  BY DEF IInv, RendezvousInv
<1> QED
  BY <1>1, Invariance, PTL

(* Skiers get off one at a time, at the final stop, with the bus waiting.   *)
THEOREM AlightingAlways == Spec => []AlightsAtFinal
<1>1. IInv => AlightsAtFinal
  BY DEF IInv, RendezvousInv
<1> QED
  BY <1>1, Invariance, PTL

(* The bus is never overloaded, knows its load, and leaves the final stop   *)
(* empty.                                                                   *)
THEOREM LoadAlways == Spec => []LoadMatches
<1>1. IInv => LoadMatches
  BY DEF IInv
<1> QED
  BY <1>1, Invariance, PTL
=============================================================================
