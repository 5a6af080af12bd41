--------------------------- MODULE OrderedChannel ---------------------------
(***************************************************************************)
(* What a client over TCP promises about the messages of its server: each  *)
(* is shown once at most, in the order in which they were sent, and none   *)
(* is passed over.                                                         *)
(***************************************************************************)
EXTENDS Naturals, Sequences

CONSTANT Message

VARIABLES sent,   \* the messages of the server
          shown   \* what the user has seen of them

Init == sent = <<>> /\ shown = <<>>

Send == \E m \in Message : sent' = Append(sent, m) /\ UNCHANGED shown
Show == /\ Len(shown) < Len(sent)
        /\ shown' = Append(shown, sent[Len(shown) + 1])
        /\ UNCHANGED sent

Spec == Init /\ [][Send \/ Show]_<<sent, shown>>
=============================================================================
