------------------------------- MODULE Server -------------------------------
(***************************************************************************)
(* Start and Stop of web/server.go on top of http.Server, with requests in *)
(* progress.  Each request has a connection of its own.                    *)
(***************************************************************************)
EXTENDS Response

CONSTANTS
    Starts,         \* calls of Start
    Stops           \* calls of Stop

VARIABLES
    stopping,       \* s.stopping
    shuttingDown,   \* the http.Server has been shut down
    start,          \* where each Start is, and then what it returned
    stop            \* where each Stop is, and then what it returned

serverVars == <<stopping, shuttingDown, start, stop>>
vars == <<serverVars, responseVars>>

Init ==
    /\ ResponseInit
    /\ stopping = FALSE
    /\ shuttingDown = FALSE
    /\ start = [s \in Starts |-> "idle"]
    /\ stop = [s \in Stops |-> "idle"]

\* The connections that http.Server has to wait for: it forgets those that a
\* handler or middleware has hijacked, which may still run.
InProgress(r) == stage[r] \notin {"none", "done"} /\ ~response[r].hijacked

-----------------------------------------------------------------------------
(* Start.                                                                  *)

StartMoves(s, from, to) ==
    /\ start[s] = from
    /\ start' = [start EXCEPT ![s] = to]
    /\ UNCHANGED <<stopping, shuttingDown, stop, responseVars>>

\* ListenAndServe looks whether the server has been shut down.
StartBegin(s) == StartMoves(s, "idle", IF shuttingDown THEN "closed" ELSE "listen")

\* The socket is open: Serve registers it, unless there was a shutdown.
StartListens(s) == StartMoves(s, "listen", IF shuttingDown THEN "closed" ELSE "serve")

\* The socket cannot be opened, or fails: Start returns the error.
StartFails(s) ==
    \/ StartMoves(s, "listen", "error")
    \/ ~shuttingDown /\ StartMoves(s, "serve", "error")

\* Shutdown has closed the socket: ListenAndServe returns ErrServerClosed.
StartCloses(s) == shuttingDown /\ StartMoves(s, "serve", "closed")

StartReturns(s) == StartMoves(s, "closed", IF stopping THEN "nil" ELSE "ErrServerClosed")

-----------------------------------------------------------------------------
(* Stop.                                                                   *)

StopMoves(s, from, to) ==
    /\ stop[s] = from
    /\ stop' = [stop EXCEPT ![s] = to]
    /\ UNCHANGED <<start, responseVars>>

\* Mutant: nothing tells Start that the end was asked for.
StopUnmarked(s) == StopMoves(s, "idle", "shutdown") /\ UNCHANGED <<stopping, shuttingDown>>

StopBegin(s) ==
    StopMoves(s, "idle", "shutdown") /\ stopping' = TRUE /\ UNCHANGED shuttingDown

StopShutdown(s) ==
    StopMoves(s, "shutdown", "close") /\ shuttingDown' = TRUE /\ UNCHANGED stopping

\* Shutdown waits until every Serve has left its socket.
StopClosed(s) ==
    /\ \A t \in Starts : start[t] # "serve"
    /\ StopMoves(s, "close", "wait")
    /\ UNCHANGED <<stopping, shuttingDown>>

\* Shutdown finds all its connections idle.
StopDrained(s) ==
    /\ \A r \in Requests : ~InProgress(r)
    /\ StopMoves(s, "wait", "nil")
    /\ UNCHANGED <<stopping, shuttingDown>>

\* Mutant: Shutdown has a context without a timeout.
NoTimeout(s) == FALSE

\* ShutdownTimeout is over.
StopExpires(s) == StopMoves(s, "wait", "timeout") /\ UNCHANGED <<stopping, shuttingDown>>

-----------------------------------------------------------------------------
(* Requests.                                                               *)

\* A connection is accepted, until Shutdown has closed the socket.
Accept(r) ==
    /\ \E s \in Starts : start[s] = "serve"
    /\ Moves(r, {"none"}, "new")
    /\ UNCHANGED <<serverVars, response>>

\* Its request comes, and serveHTTP calls the middleware.
ServeHTTP(r) == Moves(r, {"new"}, "before") /\ UNCHANGED <<serverVars, response>>

\* The client closes the connection instead.
ClientLeaves(r) == Moves(r, {"new"}, "done") /\ UNCHANGED <<serverVars, response>>

\* Every Stop has returned, and nothing has to happen.
Done ==
    /\ \A s \in Stops : stop[s] \in {"nil", "timeout"}
    /\ \A s \in Starts : start[s] \in {"nil", "error"}
    /\ UNCHANGED vars

StartStep(s) ==
    StartBegin(s) \/ StartListens(s) \/ StartFails(s) \/ StartCloses(s) \/ StartReturns(s)

StopStep(s) ==
    StopBegin(s) \/ StopShutdown(s) \/ StopClosed(s) \/ StopDrained(s) \/ StopExpires(s)

Next ==
    \/ \E s \in Starts : StartStep(s)
    \/ \E s \in Stops : StopStep(s)
    \/ \E r \in Requests :
         Accept(r) \/ ServeHTTP(r) \/ ClientLeaves(r) \/ (RequestStep(r) /\ UNCHANGED serverVars)
    \/ Done

Spec == Init /\ [][Next]_vars

\* Start and Stop go on and the timeout of Stop ends; nobody has to call them,
\* handlers need not return and clients need not send.
FairSpec ==
    /\ Spec
    /\ \A s \in Starts : WF_vars(StartListens(s) \/ StartCloses(s) \/ StartReturns(s))
    /\ \A s \in Stops :
         WF_vars(StopShutdown(s) \/ StopClosed(s) \/ StopDrained(s) \/ StopExpires(s))

-----------------------------------------------------------------------------
(* Properties.                                                             *)

\* However Start and Stop overlap, Start hides that it was stopped, and only
\* that; and when a Stop has returned nil, what is still running for a request
\* has hijacked its connection, and no request will come.
StopTells ==
    /\ \A s \in Starts :
         /\ start[s] # "ErrServerClosed"
         /\ start[s] = "nil" => \E t \in Stops : stop[t] # "idle"
    /\ \A t \in Stops :
         stop[t] = "nil" => /\ \A r \in Requests :
                                 stage[r] \in {"none", "done"} \/ response[r].hijacked
                            /\ \A s \in Starts : start[s] # "serve"

\* After a call of Stop every Start returns, whenever it began, and so does
\* Stop, although handlers may never return.
ServerStops ==
    /\ \A t \in Stops : stop[t] # "idle" ~> stop[t] \in {"nil", "timeout"}
    /\ \A s \in Starts :
         (start[s] # "idle" /\ \E t \in Stops : stop[t] # "idle")
            ~> start[s] \in {"nil", "error"}
=============================================================================
