------------------------------ MODULE Response ------------------------------
(***************************************************************************)
(* What becomes of a request in web/server.go and web/context.go: global   *)
(* middleware and the route's handler, each with a Context, write to one   *)
(* responseWriter in any order, and Serve answers the errors they return.  *)
(* One goroutine serves a request.                                         *)
(*                                                                         *)
(* Bodies are left out.  The Context of the middleware is "outer", the one *)
(* of the route "inner".                                                   *)
(***************************************************************************)
EXTENDS Integers

CONSTANTS
    Requests,
    Statuses,           \* statuses that are written
    ErrorStatuses       \* statuses of the errors that are returned

\* net/http panics if another status is written; an error may have any.
ASSUME ResponseAssumption == Statuses \subseteq 100 .. 999 /\ ErrorStatuses \subseteq Int

Contexts == {"outer", "inner"}

VARIABLES
    custom,             \* Options.ErrorHandler is set
    stage,              \* the code that has the request
    response

responseVars == <<custom, stage, response>>

\* A response that nobody has written to.
Fresh ==
    [written    |-> {},     \* contexts whose writer has headerWritten set
     status     |-> 0,      \* the final header that net/http sent, or 0
     asked      |-> 0,      \* the first final header asked for, or 0
     late       |-> FALSE,  \* net/http got a header after the final one
     hijacked   |-> FALSE,
     failed     |-> FALSE,  \* an error was returned before the final header
     overwritten |-> FALSE] \* an error was answered after the final header

ResponseInit ==
    /\ custom \in BOOLEAN
    /\ stage = [r \in Requests |-> "none"]
    /\ response = [r \in Requests |-> Fresh]

-----------------------------------------------------------------------------
(* The writers.                                                            *)

\* net/http gets a final header.
HandOn(w, status) ==
    IF w.hijacked THEN w
    ELSE IF w.status = 0 THEN [w EXCEPT !.status = status] ELSE [w EXCEPT !.late = TRUE]

\* net/http gets an informational header.
HandOnInformational(w) ==
    IF w.status # 0 /\ ~w.hijacked THEN [w EXCEPT !.late = TRUE] ELSE w

Asked(w, status) ==
    IF w.asked = 0 /\ ~w.hijacked THEN [w EXCEPT !.asked = status] ELSE w

\* Mutant: every Context gets a writer of its own.
OwnWriter(c) == {c}

\* The contexts that have the writer of c: the route's takes over the
\* responseWriter of the middleware's.
Sharing(c) == Contexts

Begun(w, c) == [w EXCEPT !.written = @ \cup Sharing(c)]

Informational(status) == status >= 100 /\ status < 200 /\ status # 101

WroteHeader(w, c, status) ==
    IF Informational(status)
    THEN IF c \in w.written THEN w ELSE HandOnInformational(w)
    ELSE IF c \in w.written THEN w ELSE HandOn(Begun(Asked(w, status), c), status)

Wrote(w, c) ==
    IF c \in w.written THEN w ELSE HandOn(Begun(Asked(w, 200), c), 200)

\* Mutant: headerWritten is not set.
FlushedUnmarked(w, c) ==
    LET asked == Asked(w, 200)
    IN IF w.status = 0 THEN HandOn(asked, 200) ELSE asked

\* net/http's Flush sends the header if there was none.
Flushed(w, c) ==
    LET begun == Begun(Asked(w, 200), c)
    IN IF w.status = 0 THEN HandOn(begun, 200) ELSE begun

\* HTML, JSON and String, with a status or with none (0).
Responded(w, c, status) ==
    Wrote(IF status = 0 THEN w ELSE WroteHeader(w, c, status), c)

-----------------------------------------------------------------------------
(* Middleware, handlers and custom error handlers.                         *)

\* The Context of the code that has the request.
Using(r) == IF stage[r] \in {"handler", "handler error"} THEN "inner" ELSE "outer"

UserCode(r) ==
    stage[r] \in {"before", "handler", "handler error", "after", "error"}

Becomes(r, w) ==
    /\ UserCode(r)
    /\ response' = [response EXCEPT ![r] = w]
    /\ UNCHANGED <<custom, stage>>

Status(r, status) == Becomes(r, WroteHeader(response[r], Using(r), status))

Respond(r, status) == Becomes(r, Responded(response[r], Using(r), status))

Flush(r) == Becomes(r, Flushed(response[r], Using(r)))

Hijack(r) == Becomes(r, [response[r] EXCEPT !.hijacked = TRUE])

Moves(r, from, to) ==
    /\ stage[r] \in from
    /\ stage' = [stage EXCEPT ![r] = to]
    /\ UNCHANGED custom

\* Middleware calls next, and the mux finds a route.
Route(r) == Moves(r, {"before", "after"}, "handler") /\ UNCHANGED response

\* Middleware calls next, and the mux answers by itself.
NoRoute(r) ==
    /\ Moves(r, {"before", "after"}, "after")
    /\ response' = [response EXCEPT ![r] = Responded(@, "outer", 404)]

\* A handler or middleware returns nil, or a custom error handler ends.
HandlerReturns(r) == Moves(r, {"handler", "handler error"}, "after") /\ UNCHANGED response

MiddlewareReturns(r) == Moves(r, {"before", "after", "error"}, "done") /\ UNCHANGED response

-----------------------------------------------------------------------------
(* Serve, when what it calls returns an error.                             *)

Normalized(status) == IF status < 400 \/ status > 599 THEN 500 ELSE status

Noted(w) == [w EXCEPT !.failed = @ \/ (w.status = 0 /\ ~w.hijacked)]

\* The answer of Serve is about to begin.
Answering(w) == [w EXCEPT !.overwritten = @ \/ w.status # 0]

\* Serve in stages from: the request goes to stage handler if the custom error
\* handler is called, and else to stage to, with the response w.
Answer(r, from, handler, to, status) ==
    LET w == Noted(response[r])
        c == Using(r)
    IN \/ /\ c \in w.written
          /\ Moves(r, from, to)
          /\ response' = [response EXCEPT ![r] = w]
       \/ /\ c \notin w.written /\ custom
          /\ Moves(r, from, handler)
          /\ response' = [response EXCEPT ![r] = Answering(w)]
       \/ /\ c \notin w.written /\ ~custom
          /\ Moves(r, from, to)
          /\ response' = [response EXCEPT
                ![r] = Responded(Answering(w), c, Normalized(status))]

HandlerFails(r, status) == Answer(r, {"handler"}, "handler error", "after", status)

MiddlewareFails(r, status) == Answer(r, {"before", "after"}, "error", "done", status)

RequestStep(r) ==
    \/ Route(r) \/ NoRoute(r) \/ HandlerReturns(r) \/ MiddlewareReturns(r)
    \/ Flush(r) \/ Hijack(r) \/ Respond(r, 0)
    \/ \E s \in Statuses : Status(r, s) \/ Respond(r, s)
    \/ \E s \in ErrorStatuses : HandlerFails(r, s) \/ MiddlewareFails(r, s)

-----------------------------------------------------------------------------
(* Properties.                                                             *)

\* net/http gets one final header for a response, the first that any of
\* middleware, handlers and error handlers asked for in whatever way, and no
\* header after it.
OneHeader ==
    \A r \in Requests : ~response[r].late /\ response[r].status = response[r].asked

\* "Error handler cannot change a response that has already started", whoever
\* started it; and without a custom handler a request that failed before the
\* response has started ends with the status of an error.
ErrorAnswered ==
    \A r \in Requests :
        LET w == response[r]
        IN /\ ~w.overwritten
           /\ stage[r] = "done" /\ ~custom /\ w.failed => w.status \in 400 .. 599
=============================================================================
