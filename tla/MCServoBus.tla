----------------------------- MODULE MCServoBus -----------------------------
(***************************************************************************)
(* ServoBus for TLC: positions whose low byte is 255, the byte headers are *)
(* made of, a negative one for the servo pushed past its zero, and one     *)
(* with a carriage return in it. A 3 for a 0 makes up for the newline the  *)
(* tty turns that into.                                                    *)
(***************************************************************************)
EXTENDS ServoBus

MCTargets == <<{255, 2000}, {1535}>>
MCPresent == {-1, 511, 269}
MCGarble == {0, 3, 255}

=============================================================================
