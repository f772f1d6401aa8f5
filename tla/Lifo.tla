-------------------------------- MODULE Lifo --------------------------------
(***************************************************************************)
(* What a Stack promises: a Fifo but for the end at which values are put.  *)
(***************************************************************************)
EXTENDS Fifo

PutOnTop(v) ==
    /\ ~shut
    /\ content' = <<v>> \o content
    /\ UNCHANGED <<shut, got>>

LNext ==
    \/ \E v \in Values : PutOnTop(v)
    \/ \E g \in Getters : Get(g) \/ Miss(g)
    \/ Shut

LSpec == FInit /\ [][LNext]_fvars
=============================================================================
