------------------------------ MODULE Messages ------------------------------
(***************************************************************************)
(* A Bus whose subscribers, and a program around it, dispatch values with  *)
(* a Dispatcher: a subscriber returns after the calls of Dispatch it made, *)
(* and keeps the slot of its publish until then.                           *)
(***************************************************************************)
EXTENDS Bus

CONSTANTS
    Dispatches,     \* calls of Dispatch
    Within,         \* publish whose subscriber makes each, None for another caller
    Handlers,       \* handlers that are registered in the beginning
    MoreHandlers    \* bound of their number

ASSUME MessagesAssumption ==
    /\ Within \in [Dispatches -> Callers \cup {None}]
    /\ Handlers \in 0 .. 3 /\ MoreHandlers \in Nat

VARIABLES
    handlerArrays, handlers, handlerCount,      \* the registry of the Dispatcher
    dispatchTaken, dispatchMeant, called, result

D == INSTANCE Dispatcher WITH
        Already <- Handlers, Registrations <- MoreHandlers,
        arrays <- handlerArrays, list <- handlers, registered <- handlerCount,
        taken <- dispatchTaken, meant <- dispatchMeant

dispatchVars == <<handlerArrays, handlers, handlerCount, dispatchTaken, dispatchMeant, called, result>>

messageVars == <<vars, dispatchVars>>

MessagesInit == Init /\ D!DispatcherInit

-----------------------------------------------------------------------------
\* A subscriber of p returns when its calls of Dispatch have.
SubscriberReturns(p) ==
    /\ \A d \in Dispatches : Within[d] = p => result[d] # "running"
    /\ Called(p)
    /\ UNCHANGED dispatchVars

MakesDispatch(d) ==
    /\ Within[d] \in Callers => Calling(Within[d])
    /\ D!Dispatch(d)
    /\ UNCHANGED vars

HandlerStep(d) == \E ok \in BOOLEAN : D!HandlerReturns(d, ok) /\ UNCHANGED vars

MessagesNext ==
    \/ PublishNext /\ UNCHANGED dispatchVars
    \/ \E p \in Callers : SubscriberReturns(p)
    \/ (D!Register \/ D!Unregister) /\ UNCHANGED vars
    \/ \E d \in Dispatches : MakesDispatch(d) \/ HandlerStep(d)

Spec == MessagesInit /\ [][MessagesNext]_messageVars

\* Handlers and subscribers return, goroutines run, and senders that are
\* blocked on the channel are served in order.
FairSpec ==
    /\ Spec
    /\ \A p \in Callers :
         /\ SF_messageVars(PublishGo(p) /\ UNCHANGED dispatchVars)
         /\ WF_messageVars(SubscriberReturns(p))
         /\ WF_messageVars(PublishDone(p) /\ UNCHANGED dispatchVars)
    /\ \A d \in Dispatches : WF_messageVars(HandlerStep(d))

-----------------------------------------------------------------------------
(* Properties.                                                             *)

Dispatched == D!Dispatched
=============================================================================
