--------------------------- MODULE MCRunStateLive ---------------------------
(***************************************************************************)
(* RunState with a bounded number of commands, for its liveness: a user    *)
(* who restarts a zone for ever keeps its valve open for ever.             *)
(***************************************************************************)
EXTENDS MCRunState

CONSTANT MaxCommands   \* commands a behaviour may contain

VARIABLE commands

LiveInit == Init /\ commands = MaxCommands
LiveNext ==
  \/ (Tick \/ ZoneHandlerLoop \/ Pass) /\ UNCHANGED commands
  \/ commands > 0 /\ commands' = commands - 1 /\ Command

LiveSpec == LiveInit /\ [][LiveNext]_<<vars, commands>> /\ Fairness

=============================================================================
