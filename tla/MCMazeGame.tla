----------------------------- MODULE MCMazeGame -----------------------------
(***************************************************************************)
(* A corridor of two open squares: the start (1,1) and the exit (2,1) to  *)
(* its right.  Three pixels per square, so a reversal mid-square happens   *)
(* at two distances.  The player changes the held tux buttons twice,     *)
(* among RIGHT, LEFT, and DOWN with LEFT (Holds in the cfg): RIGHT moves   *)
(* toward the exit, LEFT then reverses, DOWN with LEFT tests that DOWN is  *)
(* tested after LEFT, and between them every swap of two bits of           *)
(* tuxctl_handle_packet changes a direction.  The tux buttons steer, so    *)
(* getc returns only the EOF of the non-blocking stdin.  One level time    *)
(* is shown; TimeEncoding checks the others.                               *)
(***************************************************************************)
EXTENDS MazeGame

MCOpenSquares == {<<1, 1>>, <<2, 1>>}
MCExit == <<2, 1>>
MCSeconds == {754}                       \* 12.34
MCKeys == {EOF}                        \* the non-blocking stdin with no key typed

=============================================================================
