-------------------------------- MODULE MCPollSet ------------------------------
(* Instances of PollSet for TLC: seven descriptors, and processes started  *)
(* with any of them open, standard input (0) and all of them included.     *)
EXTENDS PollSet

Descriptors == 0 .. 6

AnyOpen == SUBSET Descriptors

(* Standard input, output and error open, and the last two of them only.   *)
FromTerminal == {{0, 1, 2}}
StdinClosed  == {{1, 2}}
================================================================================
