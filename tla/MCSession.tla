------------------------------- MODULE MCSession -------------------------------
(* Instances of Session for TLC: r1 asks for a file that exists, r2 for    *)
(* one that does not.                                                      *)
EXTENDS Session

CONSTANTS r1, r2
================================================================================
