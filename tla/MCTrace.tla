------------------------------ MODULE MCTrace ------------------------------
(***************************************************************************)
(* A recursive function: traces from its header and from its return, side  *)
(* traces, stitched traces, and one number less than they need.  Or two    *)
(* functions that share a penalty cache with room for one.                 *)
(***************************************************************************)
EXTENDS Trace
=============================================================================
