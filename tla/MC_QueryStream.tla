--------------------------- MODULE MC_QueryStream ---------------------------
(***************************************************************************)
(* QueryStream for TLC.  With a buffer of one and batches of two, two      *)
(* entries leave a batch half sent; five, in the run without deletions,    *)
(* fill the channel, a batch and the item in hand, and one more.           *)
(***************************************************************************)
EXTENDS QueryStream
=============================================================================
