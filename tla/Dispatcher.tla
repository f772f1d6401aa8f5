----------------------------- MODULE Dispatcher -----------------------------
(***************************************************************************)
(* Dispatcher of dispatcher.go for one type of value: Dispatch takes the   *)
(* list of handlers under the lock and calls them without it, in order,    *)
(* up to the first that fails.                                             *)
(***************************************************************************)
EXTENDS Registry

CONSTANT Dispatches     \* calls of Dispatch

VARIABLES
    taken,          \* the slice each Dispatch took
    meant,          \* its content at that moment
    called,         \* handlers that have returned to each Dispatch
    result          \* "none", then "running", and then what Dispatch returned

dispatcherVars == <<regVars, taken, meant, called, result>>

DispatcherInit ==
    /\ RegInit
    /\ taken = [d \in Dispatches |-> Nil]
    /\ meant = [d \in Dispatches |-> << >>]
    /\ called = [d \in Dispatches |-> << >>]
    /\ result = [d \in Dispatches |-> "none"]

-----------------------------------------------------------------------------
Register == Put /\ UNCHANGED <<taken, meant, called, result>>

Unregister ==
    /\ list # Nil
    /\ Delete
    /\ UNCHANGED <<taken, meant, called, result>>

\* Dispatch takes the list, and returns an error if there is none.
Dispatch(d) ==
    /\ result[d] = "none"
    /\ taken' = [taken EXCEPT ![d] = list]
    /\ meant' = [meant EXCEPT ![d] = Content(list)]
    /\ result' = [result EXCEPT ![d] = IF list.len = 0 THEN "no handler" ELSE "running"]
    /\ UNCHANGED <<regVars, called>>

\* What becomes of a Dispatch when its next handler succeeds or fails.
Answer(d, ok) ==
    IF ~ok THEN "error"
    ELSE IF Len(called[d]) + 1 < taken[d].len THEN "running" ELSE "nil"

\* The next handler of the slice returns.
HandlerReturns(d, ok) ==
    /\ result[d] = "running"
    /\ LET h == Content(taken[d])[Len(called[d]) + 1]
       IN called' = [called EXCEPT ![d] = Append(@, [handler |-> h, ok |-> ok])]
    /\ result' = [result EXCEPT ![d] = Answer(d, ok)]
    /\ UNCHANGED <<regVars, taken, meant>>

-----------------------------------------------------------------------------
\* A value goes to the handlers of the moment of Dispatch, in their order and
\* whatever becomes of the registry meanwhile; to all of them if Dispatch
\* returns nil, and to none after the one whose error it returns.
Dispatched ==
    \A d \in Dispatches :
        LET n == Len(called[d])
        IN /\ n <= Len(meant[d])
           /\ \A i \in 1 .. n : called[d][i].handler = meant[d][i]
           /\ \A i \in 1 .. n : called[d][i].ok \/ (i = n /\ result[d] = "error")
           /\ result[d] = "nil" => n = Len(meant[d]) /\ n > 0
           /\ result[d] = "no handler" => meant[d] = << >>
=============================================================================
