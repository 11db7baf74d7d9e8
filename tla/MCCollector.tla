---------------------------- MODULE MCCollector ----------------------------
(* Four metrics, one of them not encodable, and batches of two. *)
EXTENDS Collector
=============================================================================
