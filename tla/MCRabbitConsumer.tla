-------------------------- MODULE MCRabbitConsumer --------------------------
(* One receive with a few channels over fewer connections.                 *)
EXTENDS RabbitConsumer
=============================================================================
