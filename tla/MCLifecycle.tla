---------------------------- MODULE MCLifecycle ----------------------------
(***************************************************************************)
(* Small instances of Lifecycle for TLC.                                   *)
(***************************************************************************)
EXTENDS Lifecycle

(* The tasks that end when their context does. *)
Stoppable == {"tcpAccept", "nacos"}
(* The tasks of StartIpv6. *)
StartIpv6 == {"tcpAccept", "nacos", "rabbitmq"}
=============================================================================
