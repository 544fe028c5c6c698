---------------------------- MODULE MCPtmpSession ----------------------------
(* Small instances of PtmpSession: a session with interchangeable calls. *)
EXTENDS PtmpSession, TLC

CallSymmetry == Permutations(Calls)
==============================================================================
