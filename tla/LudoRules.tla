------------------------------ MODULE LudoRules ------------------------------
(***************************************************************************)
(* The rules of Ludo as the code means them: who is on turn throws the     *)
(* die and makes one move, capturing what stands on the spot in the same   *)
(* step, on the board as it is; a six is worth another turn, to a human;   *)
(* then the next colour is on turn, whoever plays it.                      *)
(***************************************************************************)
EXTENDS LudoBoard

VARIABLES
  pos,      \* where each pawn stands
  turn,     \* the colour on turn
  moved,    \* it has made its move
  six,      \* it has thrown a six since its last move
  bots      \* the colours that the computer plays

vars == <<pos, turn, moved, six, bots>>

Init ==
  /\ pos = AtStart /\ turn = Order[1] /\ moved = FALSE /\ six = FALSE
  /\ bots \subseteq InGame

ThrowSix ==
  /\ ~moved /\ turn \notin bots /\ six' = TRUE
  /\ UNCHANGED <<pos, turn, moved, bots>>

(* The board after a move: whoever stood on the spot is at a start. *)
After(p, to) ==
  [q \in Pawns |-> IF q = p THEN to
                   ELSE IF pos[q] = to THEN FirstFreeStart(ColorOf(q), pos)
                   ELSE pos[q]]

Move ==
  /\ ~moved /\ moved' = TRUE
  /\ \E roll \in 1 .. Sides :
       /\ (roll = Sides /\ turn \notin bots) => six
       /\ \E m \in AvailableMoves(turn, pos, roll) : pos' = After(m[1], m[2])
  /\ UNCHANGED <<turn, six, bots>>

Again ==
  /\ moved /\ six /\ moved' = FALSE /\ six' = FALSE
  /\ ~AllHome(turn, pos)
  /\ UNCHANGED <<pos, turn, bots>>

NoMove == \E roll \in 1 .. Sides : AvailableMoves(turn, pos, roll) = {}

PassOn ==
  /\ (moved /\ ~six) \/ (~moved /\ NoMove)
  /\ turn' = NextInGame(turn) /\ moved' = FALSE /\ six' = FALSE
  /\ UNCHANGED <<pos, bots>>

Next == ThrowSix \/ Move \/ Again \/ PassOn

Spec == Init /\ [][Next]_vars
=============================================================================
