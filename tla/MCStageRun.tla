------------------------------ MODULE MCStageRun ------------------------------
\* Instances of StageRun for TLC.
EXTENDS StageRun

\* A run that asks the user for everything, one that asks for nothing, and one
\* that keeps no checkpoints.  What an auto-confirmed run does, one that asks
\* does too, with the answer "continue".
Options ==
    {[interactive |-> i, autoConfirm |-> FALSE, resumable |-> TRUE] : i \in BOOLEAN}
    \cup {[interactive |-> FALSE, autoConfirm |-> TRUE, resumable |-> FALSE]}
===============================================================================
