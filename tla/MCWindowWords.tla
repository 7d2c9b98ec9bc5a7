----------------------------- MODULE MCWindowWords -----------------------------
(* Instances of WindowWords for TLC: words of four bits, so that sequence  *)
(* numbers reach the sign of an int and wrap round.                        *)
EXTENDS WindowWords

AcceptedWindows == 0 .. 3
================================================================================
