-------------------------- MODULE MCRabbitProducer --------------------------
(* The two queues the server sends to.                                     *)
EXTENDS RabbitProducer
=============================================================================
