------------------------------ MODULE LudoBoard ------------------------------
(***************************************************************************)
(* The board of the game Ludo (ITU-Project, lib/ludo): spots, colours and  *)
(* the moves that GetAvailableMoves offers.  Spots are numbered as in the  *)
(* code: the circle from 0, then the four home paths; starts are negative. *)
(***************************************************************************)
EXTENDS Integers, Sequences

CONSTANTS
  Order,       \* the colours in the order of NEXT_COLOR
  InGame,      \* the colours of the game's players
  BoardSize,   \* TOTAL_BOARD_POSITIONS
  Sides,       \* of the die; the highest lets a pawn out of its start
  Config,      \* COLOR_CONFIGS
  Starts       \* GetStartFromColor: a sequence of spots for each colour

Circle == 0 .. BoardSize - 1
Home(c) == Config[c].homeStart .. Config[c].homeEnd
Start(c) == {Starts[c][k] : k \in 1 .. Len(Starts[c])}

(* NEXT_COLOR is a cycle; RED, whose turn is the first, plays; home paths   *)
(* are beyond the circle and starts before it, no two colours share a spot  *)
(* of either, and a colour has a spot at home for each of its pawns.        *)
ASSUME BoardAssumption ==
  /\ BoardSize \in Nat \ {0} /\ Sides \in Nat \ {0}
  /\ Len(Order) \in Nat \ {0} /\ Order[1] \in InGame
  /\ InGame \subseteq {Order[k] : k \in 1 .. Len(Order)}
  /\ \A j, k \in 1 .. Len(Order) : Order[j] = Order[k] => j = k
  /\ \A c \in InGame :
       /\ Config[c].homeEntry \in Circle /\ Config[c].boardEntry \in Circle
       /\ Config[c].homeStart \in Int /\ Config[c].homeEnd \in Int
       /\ Config[c].homeStart >= BoardSize /\ Config[c].homeEnd >= Config[c].homeStart
       /\ Len(Starts[c]) = Config[c].homeEnd - Config[c].homeStart + 1
       /\ \A k \in 1 .. Len(Starts[c]) : Starts[c][k] \in Int /\ Starts[c][k] < 0
  /\ \A c, d \in InGame : c # d => Home(c) \cap Home(d) = {}
  /\ \A c, d \in InGame : \A k \in 1 .. Len(Starts[c]), l \in 1 .. Len(Starts[d]) :
       Starts[c][k] = Starts[d][l] => c = d /\ k = l

(* A pawn is a colour and a number; each colour has a pawn for each start.  *)
PawnsOf(c) == {<<c, k>> : k \in 1 .. Len(Starts[c])}
Pawns == UNION {PawnsOf(c) : c \in InGame}
ColorOf(p) == p[1]

AtStart == [p \in Pawns |-> Starts[ColorOf(p)][p[2]]]

(* NEXT_COLOR, again and again until the colour is in the game. *)
NextInGame(c) ==
  LET n == Len(Order)
      at == CHOOSE k \in 1 .. n : Order[k] = c
      ahead(d) == Order[((at + d - 1) % n) + 1]
      dist == CHOOSE d \in 1 .. n :
                ahead(d) \in InGame /\ \A e \in 1 .. d - 1 : ahead(e) \notin InGame
  IN  ahead(dist)

-----------------------------------------------------------------------------
(* GetAvailableMoves *)

StepFrom(c, spot) ==
  IF spot >= Config[c].homeStart THEN spot + 1
  ELSE IF spot = Config[c].homeEntry THEN Config[c].homeStart
  ELSE (spot + 1) % BoardSize

StepsFrom(c, spot, n) ==
  LET walk[k \in 0 .. n] == IF k = 0 THEN spot ELSE StepFrom(c, walk[k - 1])
  IN  walk[n]

(* Mutant: one step too far is allowed. *)
LandingBeyond(c, spot, roll) ==
  {t \in {IF spot < 0 THEN Config[c].boardEntry ELSE StepsFrom(c, spot, roll)} :
     t <= Config[c].homeEnd + 1 /\ (spot < 0 => roll = Sides)}

(* Once beyond the end of its home path a walk stays there. *)
Landing(c, spot, roll) ==
  {t \in {IF spot < 0 THEN Config[c].boardEntry ELSE StepsFrom(c, spot, roll)} :
     t <= Config[c].homeEnd /\ (spot < 0 => roll = Sides)}

(* Own pawns block the spot where a move ends, others are captured. *)
AvailableMoves(c, pos, roll) ==
  UNION {{p} \X {t \in Landing(c, pos[p], roll) : \A q \in PawnsOf(c) : pos[q] # t} :
           p \in PawnsOf(c)}

-----------------------------------------------------------------------------
(* MovePawn sends the pawn it finds on the spot to the first free start. *)

FreeStarts(c, pos) ==
  {k \in 1 .. Len(Starts[c]) : \A q \in Pawns : pos[q] # Starts[c][k]}

FirstFreeStart(c, pos) ==
  Starts[c][CHOOSE k \in FreeStarts(c, pos) : \A j \in FreeStarts(c, pos) : k <= j]

AllHome(c, pos) == \A p \in PawnsOf(c) : pos[p] \in Home(c)
=============================================================================
