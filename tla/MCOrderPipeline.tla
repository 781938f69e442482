---------------------------- MODULE MCOrderPipeline ----------------------------
(***************************************************************************)
(* A few orders, a batch smaller than the backlog a crash can leave, and a  *)
(* stream that can be trimmed under a slow consumer.                        *)
(***************************************************************************)
EXTENDS OrderPipeline
================================================================================
