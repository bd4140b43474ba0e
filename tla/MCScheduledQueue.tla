-------------------------- MODULE MCScheduledQueue --------------------------
(***************************************************************************)
(* The scheduled queue as TLC checks it: all the constants are numbers, and *)
(* the configurations give them.                                            *)
(***************************************************************************)
EXTENDS ScheduledQueue
=============================================================================
