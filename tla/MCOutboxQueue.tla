--------------------------- MODULE MCOutboxQueue ----------------------------
(***************************************************************************)
(* OutboxQueue with small numbers; the workers and bounds are in the cfg.  *)
(***************************************************************************)
EXTENDS OutboxQueue
=============================================================================
