---------------------------- MODULE MCAsyncLogger ----------------------------
(* A message that leaves room, one that fills the buffer, one too long for it. *)
EXTENDS AsyncLogger, TLC

CONSTANTS m1, m2, m3

MCLen == m1 :> 1 @@ m2 :> 2 @@ m3 :> 3
MCLevel == m1 :> 2 @@ m2 :> 3 @@ m3 :> 4
=============================================================================
