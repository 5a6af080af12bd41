----------------------------- MODULE MCScanner -----------------------------
(* Small scans for TLC. *)
EXTENDS Scanner

\* Two TCP ports and a UDP port of the scanner's own address, as in the tests.
OwnPorts == <<[proto |-> "tcp", port |-> 22, ip |-> "lo"],
              [proto |-> "tcp", port |-> 80, ip |-> "lo"],
              [proto |-> "udp", port |-> 53, ip |-> "lo"]>>
\* The ports differ: else nobody could tell an answer given to the wrong one.
OwnHosts == {<<"open", "closed", "silent">>, <<"silent", "open", "closed">>}
=============================================================================
