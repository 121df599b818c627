-------------------------- MODULE MCLocalFileProxy --------------------------
(* Two threads on one node; Stores are numbered, so threads are symmetric.   *)
EXTENDS LocalFileProxy, TLC

CONSTANTS t1, t2, d1, d2
=============================================================================
