----------------------------- MODULE ShardState -----------------------------
(***************************************************************************)
(* The state machine of a shard context: transition() in                   *)
(* service/history/shard/context_impl.go, shared by the modules that model *)
(* what a context does with the shard (ShardContext) and how contexts are  *)
(* started, re-acquired and stopped (ShardController).                     *)
(***************************************************************************)

States == {"Initialized", "Acquiring", "Acquired", "Stopping", "Stopped"}

ValidStates == {"Initialized", "Acquiring", "Acquired"}

\* where transition() leads from state s; a request that is a no-op or
\* invalid in s leaves s as it is
NextState(s, req) ==
    CASE req = "Acquire" /\ s = "Initialized"   -> "Acquiring"
      [] req = "Acquired" /\ s = "Acquiring"    -> "Acquired"
      [] req = "Lost" /\ s = "Acquired"         -> "Acquiring"
      [] req = "Stop" /\ s \in ValidStates      -> "Stopping"
      [] req = "FinishStop"                     -> "Stopped"
      [] OTHER                                  -> s

WriteErrors == {"notCommitted", "ownershipLost", "unknown"}

\* faulty: an unknown outcome is taken for a failure
WriteErrorRequest_UnknownIgnored(err) ==
    IF err = "ownershipLost" THEN "Stop" ELSE "none"

\* handleWriteErrorAndUpdateMaxReadLevelLocked: the request made for an error
WriteErrorRequest(err) ==
    IF err = "ownershipLost" THEN "Stop"
    ELSE IF err = "unknown" THEN "Lost" ELSE "none"
=============================================================================
