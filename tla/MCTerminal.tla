----------------------------- MODULE MCTerminal -----------------------------
(* A terminal whose pipes hold one message, so that each end blocks soon.   *)
(* It takes three messages on one stream to block the shell when nobody     *)
(* reads: one in the hands of the goroutine, one in the pipe, one to write. *)
EXTENDS Terminal

Output3And1 == [s \in Streams |-> IF s = "stdout" THEN 3 ELSE 1]
=============================================================================
