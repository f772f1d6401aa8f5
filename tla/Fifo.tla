-------------------------------- MODULE Fifo --------------------------------
(***************************************************************************)
(* What a Buffer promises: an unbounded queue that gives each value to one *)
(* getter in the order in which the values were put, takes none after it   *)
(* is closed, and turns a getter away only when it is empty; a getter in   *)
(* Waiters only when it is closed as well.                                 *)
(***************************************************************************)
EXTENDS Sequences

CONSTANTS Values, Getters, Waiters, None, Missing

VARIABLES
    content,    \* values in the queue, oldest first
    shut,       \* the queue is closed
    got         \* what each getter got: a value, Missing, or None before that

fvars == <<content, shut, got>>

FInit ==
    /\ content = << >>
    /\ shut = FALSE
    /\ got = [g \in Getters |-> None]

Put(v) ==
    /\ ~shut
    /\ content' = Append(content, v)
    /\ UNCHANGED <<shut, got>>

Get(g) ==
    /\ got[g] = None
    /\ content # << >>
    /\ got' = [got EXCEPT ![g] = Head(content)]
    /\ content' = Tail(content)
    /\ UNCHANGED shut

Miss(g) ==
    /\ got[g] = None
    /\ content = << >>
    /\ g \in Waiters => shut
    /\ got' = [got EXCEPT ![g] = Missing]
    /\ UNCHANGED <<content, shut>>

Shut ==
    /\ shut' = TRUE
    /\ UNCHANGED <<content, got>>

FNext ==
    \/ \E v \in Values : Put(v)
    \/ \E g \in Getters : Get(g) \/ Miss(g)
    \/ Shut

FSpec == FInit /\ [][FNext]_fvars
=============================================================================
