------------------------------ MODULE MCTunnel ------------------------------
(* Two chunks each way: a request in two parts, an answer that can overtake *)
(* the second, and a second answer that must not give a second notice.      *)
EXTENDS Tunnel

MCDomains == {"d1"}
=============================================================================
