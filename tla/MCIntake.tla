------------------------------ MODULE MCIntake ------------------------------
(* A small instance of Intake for TLC: a message with a file that the user  *)
(* channel and the app deliver, and an edit without a file.                *)
EXTENDS Intake, TLC

CONSTANTS l1, l2, x1, x2

SomeEvents ==
    {[op |-> "create", channel |-> "user_api", analyze |-> FALSE, file |-> TRUE],
     [op |-> "create", channel |-> "app_event", analyze |-> TRUE, file |-> TRUE],
     [op |-> "edit", channel |-> "user_api", analyze |-> TRUE, file |-> FALSE]}

SameWorkers == Permutations(Loaders) \cup Permutations(Extractors)
=============================================================================
