---------------------------- MODULE LibraryClaim ----------------------------
(***************************************************************************)
(* What the claim on a library promises, with no clock and no database: a  *)
(* lock held by at most one process, taken only when it is free and given  *)
(* up only by its holder.  RecorderSession implements it as long as every  *)
(* living holder beats often enough.                                       *)
(***************************************************************************)
CONSTANTS
    Proc,     \* the processes that may run against the library
    NoProc    \* the holder of a free library

VARIABLE holder

ClaimInit == holder = NoProc

Take(p) == holder = NoProc /\ holder' = p

GiveUp(p) == holder = p /\ holder' = NoProc

ClaimNext == \E p \in Proc : Take(p) \/ GiveUp(p)

ClaimSpec == ClaimInit /\ [][ClaimNext]_holder
=============================================================================
