-------------------------------- MODULE Ludo --------------------------------
(***************************************************************************)
(* The Ludo game of ITU-Project: the routes roll and move of the server,   *)
(* MovePawn and DoBotTurns, and the page that calls them (use-game.ts).    *)
(*                                                                         *)
(* Every access to the database is a step.  One page plays the game and    *)
(* waits for each answer; it may be loaded anew between two requests.      *)
(***************************************************************************)
EXTENDS LudoBoard

CONSTANT BotSets      \* which colours the computer may play

ASSUME BotsAssumption == \A b \in BotSets : b \subseteq InGame

VARIABLES
  pos, inHome,             \* table Pawn
  turn, extraTurn, over,   \* table Game
  bots,                    \* table Player: isBot
  page, moves,             \* the page's clientState and avaliableMoves
  pc, kind,                \* the request that is being served: where, which
  die, pawn, to, occupant, \* its locals
  botTurn, seen            \* DoBotTurns: turn, and the pawns it has read

gameVars == <<turn, extraTurn, over>>
moveVars == <<pawn, to, occupant>>
botVars == <<botTurn, seen>>
vars == <<pos, inHome, gameVars, bots, page, moves, pc, kind, die, moveVars, botVars>>

NoPawn == <<"none", 0>>
NoColor == "none"
ASSUME ColorsAssumption == NoColor \notin InGame
Table == [pos |-> pos, inHome |-> inHome]
Unread == [pos |-> AtStart, inHome |-> [p \in Pawns |-> FALSE]]

Init ==
  /\ pos = AtStart /\ inHome = [p \in Pawns |-> FALSE]
  /\ turn = Order[1] /\ extraTurn = FALSE /\ over = FALSE
  /\ bots \in BotSets
  /\ page = "ready" /\ moves = {}
  /\ pc = "idle" /\ kind = "none" /\ die = 0
  /\ pawn = NoPawn /\ to = 0 /\ occupant = NoPawn
  /\ botTurn = NoColor /\ seen = Unread

Goes(from, next) == pc = from /\ pc' = next

(* The answer is sent and the request's locals are gone. *)
Answered ==
  /\ pc' = "idle" /\ kind' = "none" /\ die' = 0
  /\ pawn' = NoPawn /\ to' = 0 /\ occupant' = NoPawn
  /\ botTurn' = NoColor /\ seen' = Unread

-----------------------------------------------------------------------------
(* roll/route.ts *)

Roll ==
  /\ page = "ready" /\ page' = "waiting"
  /\ pc = "idle" /\ kind' = "roll"
  /\ die' \in 1 .. Sides
  /\ pc' = IF die' = Sides THEN "six" ELSE "offer"
  /\ UNCHANGED <<pos, inHome, gameVars, bots, moves, moveVars, botVars>>

RecordSix ==
  /\ Goes("six", "offer") /\ extraTurn' = TRUE
  /\ UNCHANGED <<pos, inHome, turn, over, bots, page, moves, kind, die, moveVars, botVars>>

Offer ==
  /\ pc = "offer" /\ AvailableMoves(turn, pos, die) # {}
  /\ moves' = AvailableMoves(turn, pos, die)
  /\ page' = "choosing" /\ Answered
  /\ UNCHANGED <<pos, inHome, gameVars, bots>>

OfferNothing ==
  /\ Goes("offer", "bots") /\ AvailableMoves(turn, pos, die) = {}
  /\ UNCHANGED <<pos, inHome, gameVars, bots, page, moves, kind, die, moveVars, botVars>>

-----------------------------------------------------------------------------
(* use-game.ts *)

Choose ==
  /\ page = "choosing" /\ page' = "waiting"
  /\ Goes("idle", "find") /\ kind' = "move"
  /\ \E m \in moves : pawn' = m[1] /\ to' = m[2]
  /\ moves' = {}
  /\ UNCHANGED <<pos, inHome, gameVars, bots, die, occupant, botVars>>

(* The page is loaded again: what the roll has offered is forgotten, and a  *)
(* player with all pawns at home is noticed, whether the game is over or    *)
(* not.                                                                     *)
Reload ==
  /\ page \in {"ready", "choosing"} /\ moves' = {}
  /\ page' = IF \E c \in InGame : \A p \in PawnsOf(c) : inHome[p] THEN "over" ELSE "ready"
  /\ UNCHANGED <<pos, inHome, gameVars, bots, pc, kind, die, moveVars, botVars>>

-----------------------------------------------------------------------------
(* MovePawn, called by the route move and by DoBotTurns. *)

FindOccupant ==
  /\ pc = "find"
  /\ LET found == {q \in Pawns \ {pawn} : pos[q] = to}
     IN  IF found = {} THEN pc' = "place" /\ occupant' = NoPawn
                       ELSE pc' = "capture" /\ occupant' \in found
  /\ UNCHANGED <<pos, inHome, gameVars, bots, page, moves, kind, die, pawn, to, botVars>>

(* Mutant: the first start, free or not. *)
FirstStart(c, board) == Starts[c][1]
WhereTo(c, board) == FirstFreeStart(c, board)

(* The starts are tried in turn, and the pawn sent to the first free one.   *)
SendHome ==
  /\ Goes("capture", "place")
  /\ pos' = IF FreeStarts(ColorOf(occupant), pos) = {} THEN pos
            ELSE [pos EXCEPT ![occupant] = WhereTo(ColorOf(occupant), pos)]
  /\ UNCHANGED <<inHome, gameVars, bots, page, moves, kind, die, moveVars, botVars>>

IsInHome(p, spot) == spot \in Home(ColorOf(p))

Placed ==
  /\ pos' = [pos EXCEPT ![pawn] = to]
  /\ inHome' = [inHome EXCEPT ![pawn] = IsInHome(pawn, to)]

-----------------------------------------------------------------------------
(* move/route.ts *)

PlaceForHuman ==
  /\ Goes("place", "decide") /\ botTurn = NoColor
  /\ Placed
  /\ UNCHANGED <<gameVars, bots, page, moves, kind, die, moveVars, botVars>>

Won == \A p \in PawnsOf(ColorOf(pawn)) : inHome[p]

PassTurn ==
  /\ Goes("decide", "bots") /\ ~Won /\ ~extraTurn
  /\ UNCHANGED <<pos, inHome, gameVars, bots, page, moves, kind, die, moveVars, botVars>>

Win ==
  /\ pc = "decide" /\ Won
  /\ over' = TRUE /\ page' = "over" /\ Answered
  /\ UNCHANGED <<pos, inHome, turn, extraTurn, bots, moves>>

UseExtraTurn ==
  /\ pc = "decide" /\ ~Won /\ extraTurn
  /\ extraTurn' = FALSE /\ page' = "ready" /\ Answered
  /\ UNCHANGED <<pos, inHome, turn, over, bots, moves>>
-----------------------------------------------------------------------------
(* DoBotTurns.  At "played" the colour botTurn has moved, at "unplayed" it  *)
(* has not been able to.                                                    *)

ReadPlayers ==
  /\ pc = "bots" /\ pc' = IF kind = "move" THEN "played" ELSE "unplayed"
  /\ botTurn' = turn /\ seen' = Table
  /\ UNCHANGED <<pos, inHome, gameVars, bots, page, moves, kind, die, moveVars>>

(* Mutant: the loop moves on twice. *)
NextButOne == NextInGame(NextInGame(botTurn))
NextPlayer == NextInGame(botTurn)

(* Mutant: the loop ends only when another human is on turn. *)
OtherHuman(c) == c \notin bots /\ c # turn
IsHuman(c) == c \notin bots

(* A bot throws the die and moves by what has been read. *)
BotMoves ==
  /\ pc \in {"played", "unplayed"} /\ ~IsHuman(NextPlayer)
  /\ botTurn' = NextPlayer
  /\ \E roll \in 1 .. Sides :
       \E m \in AvailableMoves(NextPlayer, seen.pos, roll) : pawn' = m[1] /\ to' = m[2]
  /\ pc' = "find"
  /\ UNCHANGED <<pos, inHome, gameVars, bots, page, moves, kind, die, occupant, seen>>

BotCannotMove ==
  /\ pc \in {"played", "unplayed"} /\ ~IsHuman(NextPlayer)
  /\ botTurn' = NextPlayer
  /\ \E roll \in 1 .. Sides : AvailableMoves(NextPlayer, seen.pos, roll) = {}
  /\ pc' = "unplayed"
  /\ UNCHANGED <<pos, inHome, gameVars, bots, page, moves, kind, die, moveVars, seen>>

(* "Check if game over", on the pawns as they were read. *)
WinSeen == \A p \in PawnsOf(botTurn) : seen.inHome[p]

PlaceForBot ==
  /\ pc = "place" /\ botTurn # NoColor
  /\ Placed
  /\ IF WinSeen
     THEN over' = TRUE /\ page' = "over" /\ Answered
     ELSE pc' = "played" /\ UNCHANGED <<over, page, kind, die, moveVars, botVars>>
  /\ UNCHANGED <<turn, extraTurn, bots, moves>>

HumanIsNext ==
  /\ pc \in {"played", "unplayed"} /\ IsHuman(NextPlayer)
  /\ botTurn' = NextPlayer /\ pc' = "pass"
  /\ UNCHANGED <<pos, inHome, gameVars, bots, page, moves, kind, die, moveVars, seen>>

TurnOf(c) == c

SetTurn ==
  /\ pc = "pass"
  /\ turn' = TurnOf(botTurn) /\ extraTurn' = FALSE
  /\ page' = "ready" /\ Answered
  /\ UNCHANGED <<pos, inHome, over, bots, moves>>

Server ==
  \/ RecordSix \/ Offer \/ OfferNothing
  \/ FindOccupant \/ SendHome \/ PlaceForHuman \/ PassTurn \/ Win \/ UseExtraTurn
  \/ ReadPlayers \/ BotMoves \/ BotCannotMove \/ PlaceForBot \/ HumanIsNext \/ SetTurn

Next == Server \/ Roll \/ Choose \/ Reload

Spec == Init /\ [][Next]_vars

(* The server goes on with a request it has begun. *)
FairSpec == Spec /\ WF_vars(Server)

-----------------------------------------------------------------------------
(* Properties. *)

(* Each pawn stands on the circle, or at a start or on the home path of its *)
(* own colour; the page holds moves only while it lets one be chosen.       *)
TypeOK ==
  /\ \A p \in Pawns : pos[p] \in Circle \cup Start(ColorOf(p)) \cup Home(ColorOf(p))
  /\ inHome \in [Pawns -> BOOLEAN]
  /\ turn \in InGame /\ botTurn \in InGame \cup {NoColor}
  /\ extraTurn \in BOOLEAN /\ over \in BOOLEAN
  /\ page \in {"ready", "waiting", "choosing", "over"}
  /\ pc # "idle" <=> page = "waiting"
  /\ moves # {} <=> page = "choosing"

(* No two pawns ever stand on one spot, on the circle, at home or at start: *)
(* MovePawn captures before it places, on whatever board DoBotTurns saw.    *)
OnePawnPerSpot == \A p, q \in Pawns : pos[p] = pos[q] => p = q

(* "Loop until the next human player": every request is answered.           *)
RequestEnds == pc # "idle" ~> pc = "idle"

(* Read between its two writes, a capture has not begun. *)
BoardForRules ==
  IF pc = "place" /\ occupant # NoPawn THEN [pos EXCEPT ![occupant] = to] ELSE pos

(* Until the database has the new turn, it is that of DoBotTurns. *)
OnTurn == IF botTurn = NoColor THEN turn ELSE botTurn

HasMoved ==
  pc \in {"decide", "played"} \/ (pc = "bots" /\ kind = "move") \/ over

(* A six is spent once the loop has left the colour that threw it. *)
HasSix == extraTurn /\ (botTurn = NoColor \/ (botTurn = turn /\ pc # "pass"))

Rules == INSTANCE LudoRules WITH
  pos <- BoardForRules, turn <- OnTurn, moved <- HasMoved, six <- HasSix

(* A bot has chosen by a board on which one of its pawns stood elsewhere:   *)
(* another bot has captured that pawn since DoBotTurns has read the table.  *)
Outdated ==
  /\ botTurn \in bots /\ pc \in {"unplayed", "place"}
  /\ \E p \in PawnsOf(botTurn) : BoardForRules[p] # seen.pos[p]

(* Whatever the server does in several steps is what the rules allow in     *)
(* one, turn by turn, however many bots play on the one reading of the      *)
(* table; except what a bot does whose own pawn has been captured since,    *)
(* and the first turns of a game whose RED is a bot, which the page plays.  *)
KeepsRules == Rules!Init /\ [][turn \notin bots => Rules!Next \/ Outdated]_Rules!vars
=============================================================================
