------------------------------ MODULE ChatFsm ------------------------------
(***************************************************************************)
(* The IPK25-CHAT client's rules, shared by its UDP and its TCP form:      *)
(* StateMachine::transition, the commands that InputHandler accepts, and   *)
(* what ClientApplication does with a message of the server.               *)
(***************************************************************************)

States == {"START", "AUTH", "OPEN", "JOIN", "END"}

(* Mutant: a BYE of the client does not end the session. *)
OnSentByeStays(st, type) ==
  CASE st = "START" /\ type = "AUTH" -> "AUTH"
    [] st = "OPEN" /\ type = "JOIN" -> "JOIN"
    [] OTHER -> st

(* transition(nullptr, msg): a message of the client has been sent. *)
OnSent(st, type) ==
  CASE st = "START" /\ type = "AUTH" -> "AUTH"
    [] st = "OPEN" /\ type = "JOIN" -> "JOIN"
    [] type = "BYE" -> "END"
    [] OTHER -> st

(* Mutant: a refused AUTH opens the session. *)
OnReceivedOptimist(st, type, ok) ==
  CASE st = "END" -> "END"
    [] type \in {"ERR", "BYE"} -> "END"
    [] st \in {"AUTH", "JOIN"} /\ type = "REPLY" -> "OPEN"
    [] OTHER -> st

(* transition(msg, nullptr): a message of the server has been received. *)
OnReceived(st, type, ok) ==
  CASE st = "END" -> "END"
    [] type \in {"ERR", "BYE"} -> "END"
    [] st = "AUTH" /\ type = "REPLY" -> IF ok THEN "OPEN" ELSE "AUTH"
    [] st = "JOIN" /\ type = "REPLY" -> "OPEN"
    [] st = "OPEN" /\ type = "REPLY" -> "END"
    [] st = "AUTH" /\ type = "MSG" -> "END"
    [] OTHER -> st

(* What the user may send in which state; the rest is refused on the spot. *)
MaySend(st) ==
  {"BYE"} \cup (IF st \in {"START", "AUTH"} THEN {"AUTH"} ELSE {})
          \cup (IF st = "OPEN" THEN {"JOIN", "MSG"} ELSE {})

(* What handle_server_input does after a message in state prev: answer with *)
(* ERR or BYE and end, end at once, or go on.                               *)
Reaction(prev, type) ==
  CASE type = "REPLY" /\ prev = "OPEN" -> "ERR"
    [] type = "MSG" /\ prev = "AUTH" -> "ERR"
    [] type = "BYE" -> "BYE"
    [] type = "ERR" -> "end"
    [] OTHER -> "go on"

(* A request awaits its reply: SIGINT and EOF are then put off. *)
Awaiting(st) == st \in {"AUTH", "JOIN"}
=============================================================================
