-------------------------------- MODULE Bus --------------------------------
(***************************************************************************)
(* Bus of bus.go for one type of value: Publish takes the list of          *)
(* subscribers, then a slot of the bus's Semaphore, and then starts a      *)
(* goroutine that calls them and gives the slot back.                      *)
(*                                                                         *)
(* The callers of the semaphore are the calls of Publish, each with a      *)
(* value of its own.  A subscriber may publish too: Inside says inside of  *)
(* which publish a call of Publish is made.                                *)
(***************************************************************************)
EXTENDS Semaphore, Registry, SequencesExt

CONSTANTS
    Inside,         \* publish whose subscriber makes each call of Publish
    None            \* a call that is not made by a subscriber

ASSUME BusAssumption == Inside \in [Callers -> Callers \cup {None}]

VARIABLES
    taken,          \* the slice each Publish took
    meant,          \* its content at that moment
    given,          \* the subscribers that have returned from the value of each
    panicked        \* calls of Publish that found no subscribers

busVars == <<regVars, taken, meant, given, panicked>>
vars == <<semVars, busVars>>

Init ==
    /\ SemInit
    /\ RegInit
    /\ taken = [p \in Callers |-> Nil]
    /\ meant = [p \in Callers |-> << >>]
    /\ given = [p \in Callers |-> << >>]
    /\ panicked = {}

-----------------------------------------------------------------------------
Subscribe == Put /\ UNCHANGED <<semVars, taken, meant, given, panicked>>

Unsubscribe ==
    /\ list # Nil
    /\ Delete
    /\ UNCHANGED <<semVars, taken, meant, given, panicked>>

\* A subscriber is being called with the value of p.
Calling(p) == caller[p] = "held" /\ Len(given[p]) < taken[p].len

\* Publish takes the list, and panics or goes on to Acquire.
Publish(p) ==
    /\ p \notin panicked
    /\ Inside[p] \in Callers => Calling(Inside[p])
    /\ IF list.len = 0
       THEN /\ caller[p] = "idle"
            /\ panicked' = panicked \cup {p}
            /\ UNCHANGED <<semVars, taken, meant>>
       ELSE /\ AcquireBegin(p)
            /\ taken' = [taken EXCEPT ![p] = list]
            /\ meant' = [meant EXCEPT ![p] = Content(list)]
            /\ UNCHANGED panicked
    /\ UNCHANGED <<regVars, given>>

\* Publish has its slot and returns: the goroutine takes over.
PublishGo(p) == AcquireSlot(p) /\ UNCHANGED busVars

\* Publish returns without publishing.
PublishDrop(p) == AcquireCtx(p) /\ UNCHANGED busVars

\* Mutant: the goroutine looks the subscribers up again.
LookedUpAgain(p) ==
    Content(IF Len(given[p]) < list.len THEN list ELSE taken[p])[Len(given[p]) + 1]

\* The subscriber of the slice that is called.
Callee(p) == Content(taken[p])[Len(given[p]) + 1]

\* A subscriber has returned, after the calls of Publish it made.
Called(p) ==
    /\ Calling(p)
    /\ \A q \in Callers : Inside[q] = p => caller[q] # "select"
    /\ given' = [given EXCEPT ![p] = Append(@, Callee(p))]
    /\ UNCHANGED <<semVars, regVars, taken, meant, panicked>>

\* Mutant: the slot is given back when the goroutine has been started.
FinishedAtOnce(p) == TRUE

\* The goroutine has called them all.
Finished(p) == Len(given[p]) = taken[p].len

PublishDone(p) == Finished(p) /\ Release(p) /\ UNCHANGED busVars

PublishCtxEnd(p) == CtxEnd(p) /\ UNCHANGED busVars

\* No Publish waits and no value is being handed out.
Done == (\A p \in Callers : caller[p] \notin {"select", "held"}) /\ UNCHANGED vars

PublishNext ==
    \/ Subscribe \/ Unsubscribe
    \/ \E p \in Callers :
         Publish(p) \/ PublishGo(p) \/ PublishDrop(p) \/ PublishDone(p) \/ PublishCtxEnd(p)
    \/ Done

-----------------------------------------------------------------------------
(* Properties.                                                             *)

\* A value goes to the subscribers of the moment of Publish, whatever becomes
\* of the registry while Publish waits and they are called: to each of them
\* once and in order when the publish is over, to none if it was dropped.
Delivered ==
    \A p \in Callers :
        /\ IsPrefix(given[p], meant[p])
        /\ caller[p] = "released" => given[p] = meant[p]
        /\ caller[p] \in {"select", "failed"} => given[p] = << >>

\* Subscribers are called for at most Size values at the same time (NewBus):
\* a value that is between two of its subscribers has its slot.
Bounded ==
    Cardinality({p \in Callers :
        given[p] # meant[p] /\ caller[p] \in {"held", "released"}}) <= Size

\* Publish returns, if there are more slots than publishes inside each other.
PublishReturns == \A p \in Callers : caller[p] = "select" ~> caller[p] # "select"
=============================================================================
