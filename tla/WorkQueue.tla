----------------------------- MODULE WorkQueue -----------------------------
(***************************************************************************)
(* What a Queue promises about the items it accepts, without its locks,    *)
(* channels, contexts and goroutines: an item is accepted at most once and *)
(* only before the queue is sealed, at most Size items wait, they are      *)
(* taken in the order in which they were accepted, each by one worker, and *)
(* an item that was taken is worked on until its worker function returns.  *)
(***************************************************************************)
EXTENDS Naturals, Sequences

CONSTANTS Items, Size

VARIABLES
    sealed,     \* no item is accepted any more
    backlog,    \* accepted items that wait for a worker
    working,    \* items that a worker function is called with
    done        \* items whose worker function has returned

wvars == <<sealed, backlog, working, done>>

Waiting == {backlog[i] : i \in 1 .. Len(backlog)}

WInit ==
    /\ sealed = FALSE
    /\ backlog = << >>
    /\ working = {}
    /\ done = {}

Accept(i) ==
    /\ ~sealed
    /\ Len(backlog) < Size
    /\ i \notin Waiting \cup working \cup done
    /\ backlog' = Append(backlog, i)
    /\ UNCHANGED <<sealed, working, done>>

Take ==
    /\ backlog # << >>
    /\ working' = working \cup {Head(backlog)}
    /\ backlog' = Tail(backlog)
    /\ UNCHANGED <<sealed, done>>

Finish(i) ==
    /\ i \in working
    /\ working' = working \ {i}
    /\ done' = done \cup {i}
    /\ UNCHANGED <<sealed, backlog>>

Seal ==
    /\ ~sealed
    /\ sealed' = TRUE
    /\ UNCHANGED <<backlog, working, done>>

WNext ==
    \/ Take
    \/ Seal
    \/ \E i \in Items : Accept(i) \/ Finish(i)

WSpec == WInit /\ [][WNext]_wvars
=============================================================================
