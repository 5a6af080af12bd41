------------------------------- MODULE MCLudo -------------------------------
(* A small board for Ludo: a circle of four spots, a die of three sides,    *)
(* three players, of whom the last has two pawns and the others one.        *)
EXTENDS Ludo

MCOrder == <<"RED", "YELLOW", "GREEN", "BLUE">>

ColorConfig(entry, before, home, end) ==
  [boardEntry |-> entry, homeEntry |-> before, homeStart |-> home, homeEnd |-> end]

(* BLUE is not in the game and is passed over. *)
ThreeColors == {"RED", "YELLOW", "GREEN"}
ThreeConfig == [c \in ThreeColors |-> CASE c = "RED"    -> ColorConfig(0, 3, 4, 4)
                                        [] c = "YELLOW" -> ColorConfig(1, 0, 5, 5)
                                        [] c = "GREEN"  -> ColorConfig(2, 1, 6, 7)]
ThreeStarts == [c \in ThreeColors |-> CASE c = "RED"    -> <<-1>>
                                        [] c = "YELLOW" -> <<-2>>
                                        [] c = "GREEN"  -> <<-3, -4>>]
SomeHuman == {{}, {"GREEN"}, {"YELLOW", "GREEN"}, {"RED", "YELLOW"}}
=============================================================================
