--------------------------- MODULE MCHistoryQueue ---------------------------
(* Instances of HistoryQueue for TLC. *)
EXTENDS HistoryQueue

TwoTasks == <<"a", "b">>

ThreeTasks == <<"a", "b", "a">>
=============================================================================
