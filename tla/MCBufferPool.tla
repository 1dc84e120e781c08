---------------------------- MODULE MCBufferPool ----------------------------
(* BufferPool on a small instance: two shards, one of which has fewer frames   *)
(* than pages, so that pages are evicted and read again.                       *)
EXTENDS BufferPool, TLC

CONSTANTS x1, x2

TwoShards == x1 :> 0 @@ x2 :> 1
=============================================================================
