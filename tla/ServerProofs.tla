---------------------------- MODULE ServerProofs ----------------------------
(***************************************************************************)
(* Theorems about the responses and about Start and Stop.                  *)
(***************************************************************************)
EXTENDS Server, TLAPS

-----------------------------------------------------------------------------
(* Responses.                                                              *)

ResponseRecord ==
    [written : SUBSET Contexts, status : Int, asked : Int, late : BOOLEAN,
     hijacked : BOOLEAN, failed : BOOLEAN, overwritten : BOOLEAN]

\* The statuses that may be written.
Codes == 100 .. 999

\* The flags of the writer tell whether net/http has sent a header, as long as
\* it has the connection.
Sound(w) ==
    /\ w \in ResponseRecord
    /\ w.written = {} \/ w.written = Contexts
    /\ w.status # 0 => w.written = Contexts
    /\ w.written = Contexts /\ ~w.hijacked => w.status # 0
    /\ w.status = w.asked
    /\ ~w.late /\ ~w.overwritten
    /\ w.failed /\ ~custom => w.status \in 400 .. 599

\* The first final header of a response that nobody has begun: net/http gets
\* it, unless the connection was hijacked.
LEMMA FirstHeader ==
    ASSUME NEW w \in ResponseRecord, w.written = {}, w.status = 0, w.asked = 0,
           NEW c \in Contexts, NEW status \in Int, ~Informational(status),
           NEW v, v = WroteHeader(w, c, status)
    PROVE  /\ v \in ResponseRecord /\ v.written = Contexts
           /\ v.status = IF w.hijacked THEN 0 ELSE status
           /\ v.asked = v.status
           /\ v.hijacked = w.hijacked /\ v.late = w.late
           /\ v.overwritten = w.overwritten /\ v.failed = w.failed
<1> DEFINE a == Asked(w, status)
           b == Begun(a, c)
<1>1. v = HandOn(b, status)
  BY DEF WroteHeader
<1>2. CASE w.hijacked
  <2>1. a = w
    BY <1>2 DEF Asked
  <2>2. b = [w EXCEPT !.written = Contexts]
    BY <2>1 DEF Begun, Sharing, ResponseRecord
  <2>3. v = [w EXCEPT !.written = Contexts]
    BY <1>1, <1>2, <2>2 DEF HandOn, ResponseRecord
  <2>4. v \in ResponseRecord
    BY <2>3 DEF ResponseRecord
  <2>. QED
    BY <1>2, <2>3, <2>4 DEF ResponseRecord
<1>3. CASE ~w.hijacked
  <2>1. a = [w EXCEPT !.asked = status]
    BY <1>3 DEF Asked
  <2>2. a \in ResponseRecord /\ a.written = {} /\ a.status = 0 /\ ~a.hijacked
    BY <1>3, <2>1 DEF ResponseRecord
  <2>3. /\ a.asked = status /\ a.late = w.late
        /\ a.overwritten = w.overwritten /\ a.failed = w.failed /\ a.hijacked = w.hijacked
    BY <2>1 DEF ResponseRecord
  <2>. HIDE DEF a
  <2>4. b = [a EXCEPT !.written = Contexts]
    <3>1. a.written \cup Contexts = Contexts
      BY <2>2
    <3>2. b = [a EXCEPT !.written = a.written \cup Contexts]
      BY DEF Begun, Sharing
    <3>. QED
      BY <3>1, <3>2
  <2>5. b \in ResponseRecord /\ b.status = 0 /\ ~b.hijacked /\ b.written = Contexts
    BY <2>2, <2>4 DEF ResponseRecord
  <2>6. /\ b.asked = a.asked /\ b.late = a.late /\ b.overwritten = a.overwritten /\ b.failed = a.failed
        /\ b.hijacked = a.hijacked
    BY <2>2, <2>4 DEF ResponseRecord
  <2>. HIDE DEF b
  <2>7. v = [b EXCEPT !.status = status]
    BY <1>1, <2>5 DEF HandOn
  <2>8. v \in ResponseRecord /\ v.status = status /\ v.written = Contexts /\ ~v.hijacked
    BY <2>5, <2>7 DEF ResponseRecord
  <2>9. /\ v.asked = b.asked /\ v.late = b.late /\ v.overwritten = b.overwritten /\ v.failed = b.failed
        /\ v.hijacked = b.hijacked
    BY <2>5, <2>7 DEF ResponseRecord
  <2>. QED
    BY <1>3, <2>3, <2>6, <2>8, <2>9
<1>. QED
  BY <1>2, <1>3

LEMMA WroteHeaderSound ==
    ASSUME NEW w, Sound(w), NEW c \in Contexts, NEW status \in Codes
    PROVE  Sound(WroteHeader(w, c, status))
<1>1. CASE c \in w.written
  BY <1>1 DEF WroteHeader
<1>2. CASE c \notin w.written /\ Informational(status)
  <2>1. w.status = 0
    BY <1>2 DEF Sound
  <2>. QED
    BY <1>2, <2>1 DEF WroteHeader, HandOnInformational
<1>3. CASE c \notin w.written /\ ~Informational(status)
  <2> DEFINE v == WroteHeader(w, c, status)
  <2>1. /\ w \in ResponseRecord /\ w.written = {} /\ w.status = 0 /\ w.asked = 0
        /\ status \in Int /\ status # 0
    BY <1>3 DEF Sound, Codes
  <2>2. /\ v \in ResponseRecord /\ v.written = Contexts
        /\ v.status = IF w.hijacked THEN 0 ELSE status
        /\ v.asked = v.status
        /\ v.hijacked = w.hijacked /\ v.late = w.late
        /\ v.overwritten = w.overwritten /\ v.failed = w.failed
    BY <1>3, <2>1, FirstHeader
  <2>. HIDE DEF v
  <2>3. ~w.late /\ ~w.overwritten /\ (w.failed => custom)
    BY <2>1 DEF Sound
  <2>4. Sound(v)
    BY <2>1, <2>2, <2>3 DEF Sound
  <2>. QED
    BY <2>4 DEF v
<1>. QED
  BY <1>1, <1>2, <1>3

\* Write without a header is WriteHeader of 200.
LEMMA WroteIsHeader ==
    ASSUME NEW w, NEW c PROVE Wrote(w, c) = WroteHeader(w, c, 200)
BY DEF Wrote, WroteHeader, Informational

LEMMA WroteSound ==
    ASSUME NEW w, Sound(w), NEW c \in Contexts PROVE Sound(Wrote(w, c))
<1>1. 200 \in Codes
  BY DEF Codes
<1>. QED
  BY <1>1, WroteHeaderSound, WroteIsHeader

LEMMA RespondedSound ==
    ASSUME NEW w, Sound(w), NEW c \in Contexts, NEW status, status \in {0} \cup Codes
    PROVE  Sound(Responded(w, c, status))
<1>1. CASE status = 0
  BY <1>1, WroteSound DEF Responded
<1>2. CASE status # 0
  <2>1. status \in Codes
    BY <1>2
  <2>2. Sound(WroteHeader(w, c, status))
    BY <2>1, WroteHeaderSound
  <2>3. Sound(Wrote(WroteHeader(w, c, status), c))
    BY <2>2, WroteSound
  <2>. QED
    BY <1>2, <2>3 DEF Responded
<1>. QED
  BY <1>1, <1>2

LEMMA FlushedSound ==
    ASSUME NEW w, Sound(w), NEW c \in Contexts PROVE Sound(Flushed(w, c))
<1>1. CASE c \in w.written
  <2>1. w.written = Contexts /\ Asked(w, 200) = w
    BY <1>1 DEF Asked, Sound, ResponseRecord
  <2>2. Begun(Asked(w, 200), c) = w
    BY <2>1 DEF Begun, Sharing, Sound, ResponseRecord
  <2>. QED
    BY <2>1, <2>2 DEF Flushed, HandOn, Sound
<1>2. CASE c \notin w.written
  <2>1. w.status = 0
    BY <1>2 DEF Sound
  <2>2. Flushed(w, c) = Wrote(w, c)
    BY <1>2, <2>1 DEF Flushed, Wrote
  <2>. QED
    BY <2>2, WroteSound
<1>. QED
  BY <1>1, <1>2

LEMMA HijackedSound ==
    ASSUME NEW w, Sound(w) PROVE Sound([w EXCEPT !.hijacked = TRUE])
<1> DEFINE v == [w EXCEPT !.hijacked = TRUE]
<1>1. w \in ResponseRecord
  BY DEF Sound
<1>2. v \in ResponseRecord /\ v.hijacked
  BY <1>1 DEF ResponseRecord
<1>3. /\ v.written = w.written /\ v.status = w.status /\ v.asked = w.asked
      /\ v.late = w.late /\ v.overwritten = w.overwritten /\ v.failed = w.failed
  BY <1>1 DEF ResponseRecord
<1>. HIDE DEF v
<1>4. Sound(v)
  BY <1>2, <1>3 DEF Sound
<1>. QED
  BY <1>4 DEF v

LEMMA NormalizedIsError ==
    ASSUME NEW status \in Int PROVE Normalized(status) \in 400 .. 599
BY DEF Normalized

\* What Serve does with an error keeps the response sound.
LEMMA AnswerSound ==
    ASSUME NEW w, Sound(w), NEW c \in Contexts, NEW status \in Int
    PROVE  /\ c \in w.written => Sound(Noted(w))
           /\ c \notin w.written /\ custom => Sound(Answering(Noted(w)))
           /\ c \notin w.written /\ ~custom =>
                Sound(Responded(Answering(Noted(w)), c, Normalized(status)))
<1>1. CASE c \in w.written
  <2>1. ~(w.status = 0 /\ ~w.hijacked)
    BY <1>1 DEF Sound
  <2>2. w.failed \in BOOLEAN /\ w \in ResponseRecord
    BY DEF Sound, ResponseRecord
  <2>3. Noted(w) = w
    BY <2>1, <2>2 DEF Noted, ResponseRecord
  <2>. QED
    BY <1>1, <2>3
<1>2. ASSUME c \notin w.written
      PROVE  /\ w.status = 0 /\ w.asked = 0 /\ w.written = {}
             /\ Answering(Noted(w)) = [w EXCEPT !.failed = @ \/ ~w.hijacked]
  <2>1. w.status = 0 /\ w.asked = 0 /\ w.written = {}
    BY <1>2 DEF Sound
  <2>. QED
    BY <2>1 DEF Answering, Noted, Sound, ResponseRecord
<1>3. CASE c \notin w.written /\ custom
  BY <1>2, <1>3 DEF Sound, ResponseRecord
<1>4. CASE c \notin w.written /\ ~custom
  <2> DEFINE s == Normalized(status)
             v == Answering(Noted(w))
  <2>1. s \in 400 .. 599 /\ s \in Int /\ s # 0 /\ ~Informational(s)
    BY NormalizedIsError DEF Informational
  <2>2. v = [w EXCEPT !.failed = @ \/ ~w.hijacked]
    BY <1>2, <1>4
  <2>3. c \notin v.written /\ v.written = {} /\ v.status = 0 /\ v.asked = 0
    <3>1. w \in ResponseRecord
      BY DEF Sound
    <3>. QED
      BY <1>2, <1>4, <2>2, <3>1 DEF ResponseRecord
  <2>4. v \in ResponseRecord /\ v.hijacked = w.hijacked
    <3>1. w \in ResponseRecord
      BY DEF Sound
    <3>. QED
      BY <2>2, <3>1 DEF ResponseRecord
  <2>5. Sound(WroteHeader(v, c, s)) /\ c \in WroteHeader(v, c, s).written
    <3> DEFINE u == WroteHeader(v, c, s)
    <3>1. ~w.late /\ ~w.overwritten /\ (w.failed => custom)
      BY <1>2, <1>4 DEF Sound
    <3>2. ~v.late /\ ~v.overwritten /\ (v.failed => w.failed \/ ~w.hijacked)
      BY <2>2, <3>1 DEF Sound, ResponseRecord
    <3>. HIDE DEF s, v
    <3>3. /\ u \in ResponseRecord /\ u.written = Contexts
          /\ u.status = IF v.hijacked THEN 0 ELSE s
          /\ u.asked = u.status
          /\ u.hijacked = v.hijacked /\ u.late = v.late
          /\ u.overwritten = v.overwritten /\ u.failed = v.failed
      BY <2>1, <2>3, <2>4, FirstHeader
    <3>. HIDE DEF u
    <3>4. Sound(u) /\ c \in u.written
      BY <1>4, <2>1, <2>4, <3>1, <3>2, <3>3 DEF Sound
    <3>. QED
      BY <3>4 DEF u
  <2>6. Responded(v, c, s) = WroteHeader(v, c, s)
    BY <2>1, <2>5 DEF Responded, Wrote
  <2>. QED
    BY <1>4, <2>5, <2>6
<1>. QED
  BY <1>1, <1>3, <1>4

-----------------------------------------------------------------------------
\* Every response is sound, and the stages are those of the code.
ResponseInv ==
    /\ custom \in BOOLEAN
    /\ response \in [Requests -> ResponseRecord]
    /\ \A r \in Requests : Sound(response[r])

LEMMA ResponsesBegin == Init => ResponseInv
<1>1. Sound(Fresh)
  BY DEF Sound, Fresh, ResponseRecord, Contexts
<1>2. Fresh \in ResponseRecord
  BY <1>1 DEF Sound
<1>. QED
  BY <1>1, <1>2 DEF Init, ResponseInit, ResponseInv

LEMMA OneResponse ==
    ASSUME ResponseInv, NEW r \in Requests, NEW w, Sound(w), custom' = custom,
           response' = [response EXCEPT ![r] = w]
    PROVE  ResponseInv'
<1>1. \A v : Sound(v)' <=> Sound(v')
  BY DEF Sound
<1>. QED
  BY <1>1 DEF ResponseInv, Sound

LEMMA ResponsesGoOn == ResponseInv /\ [Next]_vars => ResponseInv'
<1> SUFFICES ASSUME ResponseInv, [Next]_vars PROVE ResponseInv'
  OBVIOUS
<1>1. CASE UNCHANGED <<custom, response>>
  BY <1>1 DEF ResponseInv, Sound
<1>2. ASSUME NEW r \in Requests, NEW w, Becomes(r, w), Sound(w) PROVE ResponseInv'
  BY <1>2, OneResponse DEF Becomes
<1>3. ASSUME NEW r \in Requests, RequestStep(r) PROVE ResponseInv'
  <2>1. Sound(response[r]) /\ Using(r) \in Contexts /\ "outer" \in Contexts
    BY DEF ResponseInv, Using, Contexts
  <2>2. CASE Route(r) \/ HandlerReturns(r) \/ MiddlewareReturns(r)
    BY <1>1, <2>2 DEF Route, HandlerReturns, MiddlewareReturns, Moves
  <2>3. CASE NoRoute(r)
    <3>1. 404 \in {0} \cup Codes
      BY DEF Codes
    <3>2. Sound(Responded(response[r], "outer", 404))
      BY <2>1, <3>1, RespondedSound
    <3>3. custom' = custom /\ response' = [response EXCEPT ![r] = Responded(@, "outer", 404)]
      BY <2>3 DEF NoRoute, Moves
    <3>4. response' = [response EXCEPT ![r] = Responded(response[r], "outer", 404)]
      BY <3>3 DEF ResponseInv
    <3>5. ASSUME NEW w, Sound(w), response' = [response EXCEPT ![r] = w] PROVE ResponseInv'
      BY <3>3, <3>5, OneResponse
    <3>. QED
      BY <3>2, <3>4, <3>5
  <2>4. CASE Flush(r)
    BY <1>2, <2>1, <2>4, FlushedSound DEF Flush
  <2>5. CASE Hijack(r)
    <3>1. Sound([response[r] EXCEPT !.hijacked = TRUE])
      BY <2>1, HijackedSound
    <3>. QED
      BY <1>2, <2>5, <3>1 DEF Hijack
  <2>6. ASSUME NEW s \in {0} \cup Statuses, Respond(r, s) PROVE ResponseInv'
    <3>1. s \in {0} \cup Codes
      BY ResponseAssumption DEF Codes
    <3>2. Sound(Responded(response[r], Using(r), s))
      BY <2>1, <3>1, RespondedSound
    <3>3. Becomes(r, Responded(response[r], Using(r), s))
      BY <2>6 DEF Respond
    <3>. QED
      BY <1>2, <3>2, <3>3
  <2>7. ASSUME NEW s \in Statuses, Status(r, s) PROVE ResponseInv'
    <3>1. s \in Codes
      BY ResponseAssumption DEF Codes
    <3>2. Sound(WroteHeader(response[r], Using(r), s))
      BY <2>1, <3>1, WroteHeaderSound
    <3>3. Becomes(r, WroteHeader(response[r], Using(r), s))
      BY <2>7 DEF Status
    <3>. QED
      BY <1>2, <3>2, <3>3
  <2>8. ASSUME NEW s \in ErrorStatuses, NEW from, NEW handler, NEW to,
               Answer(r, from, handler, to, s)
        PROVE  ResponseInv'
    <3> DEFINE w == response[r]
               c == Using(r)
    <3>1. s \in Int
      BY ResponseAssumption
    <3>2. /\ c \in w.written => Sound(Noted(w))
          /\ c \notin w.written /\ custom => Sound(Answering(Noted(w)))
          /\ c \notin w.written /\ ~custom =>
               Sound(Responded(Answering(Noted(w)), c, Normalized(s)))
      BY <2>1, <3>1, AnswerSound
    <3>3. Noted(w).written = w.written
      BY <2>1 DEF Noted, Sound, ResponseRecord
    <3>. QED
      BY <2>8, <3>2, <3>3, OneResponse DEF Answer, Moves, ResponseInv
  <2>. QED
    BY <1>3, <2>2, <2>3, <2>4, <2>5, <2>6, <2>7, <2>8
       DEF RequestStep, HandlerFails, MiddlewareFails
<1>4. CASE ~\E r \in Requests : RequestStep(r)
  BY <1>1, <1>4 DEF Next, vars, responseVars, serverVars, StartStep, StopStep, Done,
     StartBegin, StartListens, StartFails, StartCloses, StartReturns, StartMoves,
     StopBegin, StopShutdown, StopClosed, StopDrained, StopExpires, StopMoves,
     Accept, ServeHTTP, ClientLeaves, Moves
<1>. QED
  BY <1>3, <1>4

LEMMA ResponseInvariant == Spec => []ResponseInv
<1>. QED
  BY ResponsesBegin, ResponsesGoOn, PTL DEF Spec

LEMMA ResponsesAre ==
    ASSUME ResponseInv, NEW r \in Requests
    PROVE  /\ ~response[r].late /\ response[r].status = response[r].asked
           /\ ~response[r].overwritten
           /\ response[r].failed /\ ~custom => response[r].status \in 400 .. 599
<1>1. Sound(response[r])
  BY DEF ResponseInv
<1>. QED
  BY <1>1 DEF Sound

\* A response gets one final header, the first that was asked for.
THEOREM HeaderSentOnce == Spec => []OneHeader
<1>1. ASSUME ResponseInv PROVE OneHeader
  <2>1. ASSUME NEW r \in Requests PROVE ~response[r].late /\ response[r].status = response[r].asked
    BY <1>1, ResponsesAre
  <2>. QED
    BY <2>1 DEF OneHeader
<1>. QED
  BY ResponseInvariant, <1>1, PTL

\* An error is answered if and only if the response has not started.
THEOREM ErrorsAnsweredInTime == Spec => []ErrorAnswered
<1>1. ASSUME ResponseInv, NEW r \in Requests
      PROVE  /\ ~response[r].overwritten
             /\ stage[r] = "done" /\ ~custom /\ response[r].failed
                  => response[r].status \in 400 .. 599
  BY <1>1, ResponsesAre
<1>2. ResponseInv => ErrorAnswered
  BY <1>1, Zenon DEF ErrorAnswered
<1>. QED
  BY ResponseInvariant, <1>2, PTL

-----------------------------------------------------------------------------
(* Start and Stop.                                                         *)

Stages == {"none", "new", "before", "handler", "handler error", "after", "error", "done"}

\* stopping is set before the server is shut down, and what comes after it in
\* Start and Stop is reached only then.
StopInv ==
    /\ start \in [Starts -> {"idle", "listen", "serve", "closed", "nil", "error", "ErrServerClosed"}]
    /\ stop \in [Stops -> {"idle", "shutdown", "close", "wait", "nil", "timeout"}]
    /\ stage \in [Requests -> Stages]
    /\ stopping <=> \E t \in Stops : stop[t] # "idle"
    /\ shuttingDown => stopping
    /\ \A t \in Stops : stop[t] \notin {"idle", "shutdown"} => shuttingDown
    /\ \A s \in Starts : start[s] \in {"closed", "nil"} => shuttingDown
    /\ \A t \in Stops, s \in Starts : stop[t] \in {"wait", "nil"} => start[s] # "serve"
    /\ \A t \in Stops, r \in Requests : stop[t] = "nil" => ~InProgress(r)
    /\ \A s \in Starts : start[s] # "ErrServerClosed"

LEMMA StopBegins == Init => StopInv
BY DEF Init, ResponseInit, StopInv, InProgress, Stages

\* Code that has a request gives it to other code, or ends it.
LEMMA StagesOfRequest ==
    ASSUME stage \in [Requests -> Stages], NEW r \in Requests, RequestStep(r)
    PROVE  /\ stage[r] \notin {"none", "done"}
           /\ \E to \in Stages : stage' = [stage EXCEPT ![r] = to]
<1>. DEFINE Goal == /\ stage[r] \notin {"none", "done"}
                    /\ \E to \in Stages : stage' = [stage EXCEPT ![r] = to]
<1>1. ASSUME NEW w, Becomes(r, w) PROVE Goal
  <2>1. stage' = stage /\ stage[r] \in {"before", "handler", "handler error", "after", "error"}
    BY <1>1 DEF Becomes, UserCode
  <2>2. stage' = [stage EXCEPT ![r] = stage[r]] /\ stage[r] \in Stages
    BY <2>1
  <2>. QED
    BY <2>1, <2>2
<1>2. ASSUME NEW from, NEW to \in Stages, Moves(r, from, to), "none" \notin from, "done" \notin from
      PROVE  Goal
  BY <1>2 DEF Moves
<1>3. ASSUME NEW s, HandlerFails(r, s) \/ MiddlewareFails(r, s) PROVE Goal
  <2>1. ASSUME NEW from, NEW handler \in Stages, NEW to \in Stages,
               Answer(r, from, handler, to, s), "none" \notin from, "done" \notin from
        PROVE  Goal
    BY <1>2, <2>1 DEF Answer
  <2>. QED
    BY <1>3, <2>1 DEF HandlerFails, MiddlewareFails, Stages
<1>4. CASE Route(r) \/ NoRoute(r) \/ HandlerReturns(r) \/ MiddlewareReturns(r)
  <2>1. \E to \in {"handler", "after", "done"} :
           /\ stage[r] \in {"before", "handler", "handler error", "after", "error"}
           /\ stage' = [stage EXCEPT ![r] = to]
    BY <1>4 DEF Route, NoRoute, HandlerReturns, MiddlewareReturns, Moves
  <2>. QED
    BY <2>1 DEF Stages
<1>5. CASE Flush(r) \/ Hijack(r) \/ \E s \in {0} \cup Statuses : Respond(r, s) \/ Status(r, s)
  BY <1>1, <1>5 DEF Flush, Hijack, Respond, Status
<1>. QED
  BY <1>3, <1>4, <1>5 DEF RequestStep

\* A header, a body, a flush and an error leave the connection with whom it is.
SameHands(v, w) == v \in ResponseRecord /\ v.hijacked = w.hijacked

LEMMA StepsOfHeader ==
    ASSUME NEW w \in ResponseRecord, NEW c \in Contexts, NEW status \in Int
    PROVE  /\ SameHands(Asked(w, status), w) /\ SameHands(Begun(w, c), w)
           /\ SameHands(HandOn(w, status), w) /\ SameHands(HandOnInformational(w), w)
           /\ SameHands(Noted(w), w) /\ SameHands(Answering(w), w)
<1>1. SameHands(Asked(w, status), w)
  BY DEF SameHands, Asked, ResponseRecord
<1>2. SameHands(Begun(w, c), w)
  BY DEF SameHands, Begun, Sharing, ResponseRecord
<1>3. SameHands(HandOn(w, status), w) /\ SameHands(HandOnInformational(w), w)
  BY DEF SameHands, HandOn, HandOnInformational, ResponseRecord
<1>4. SameHands(Noted(w), w)
  BY DEF SameHands, Noted, ResponseRecord
<1>5. SameHands(Answering(w), w)
  BY DEF SameHands, Answering, ResponseRecord
<1>. QED
  BY <1>1, <1>2, <1>3, <1>4, <1>5

LEMMA HeaderKeepsHands ==
    ASSUME NEW w \in ResponseRecord, NEW c \in Contexts, NEW status \in Int
    PROVE  SameHands(WroteHeader(w, c, status), w)
<1>. DEFINE a == Asked(w, status)
            b == Begun(a, c)
<1>1. SameHands(w, w)
  BY DEF SameHands
<1>2. SameHands(a, w)
  BY StepsOfHeader
<1>3. SameHands(b, a)
  BY <1>2, StepsOfHeader DEF SameHands
<1>4. SameHands(HandOn(b, status), b)
  BY <1>3, StepsOfHeader DEF SameHands
<1>5. SameHands(HandOn(b, status), w)
  BY <1>2, <1>3, <1>4 DEF SameHands
<1>6. SameHands(HandOnInformational(w), w)
  BY StepsOfHeader
<1>. QED
  BY <1>1, <1>5, <1>6 DEF WroteHeader

LEMMA RespondedKeepsHands ==
    ASSUME NEW w \in ResponseRecord, NEW c \in Contexts, NEW status \in Int
    PROVE  SameHands(Responded(w, c, status), w)
<1>1. ASSUME NEW v \in ResponseRecord PROVE SameHands(Wrote(v, c), v)
  BY <1>1, HeaderKeepsHands, WroteIsHeader
<1>. DEFINE v == WroteHeader(w, c, status)
<1>2. SameHands(v, w)
  BY HeaderKeepsHands
<1>3. SameHands(Wrote(v, c), v) /\ SameHands(Wrote(w, c), w)
  BY <1>1, <1>2 DEF SameHands
<1>4. SameHands(Wrote(v, c), w)
  BY <1>2, <1>3 DEF SameHands
<1>. QED
  BY <1>3, <1>4 DEF Responded

LEMMA FlushedKeepsHands ==
    ASSUME NEW w \in ResponseRecord, NEW c \in Contexts
    PROVE  SameHands(Flushed(w, c), w)
<1>. DEFINE a == Asked(w, 200)
            b == Begun(a, c)
<1>1. SameHands(a, w)
  BY StepsOfHeader
<1>2. SameHands(b, w)
  <2>1. a \in ResponseRecord
    BY <1>1 DEF SameHands
  <2>2. SameHands(b, a)
    BY <2>1, StepsOfHeader
  <2>. QED
    BY <1>1, <2>2 DEF SameHands
<1>3. SameHands(HandOn(b, 200), w)
  <2>1. b \in ResponseRecord
    BY <1>2 DEF SameHands
  <2>. HIDE DEF b
  <2>2. SameHands(HandOn(b, 200), b)
    BY <2>1, StepsOfHeader
  <2>. QED
    BY <1>2, <2>2 DEF SameHands
<1>4. Flushed(w, c) \in {b, HandOn(b, 200)}
  BY DEF Flushed
<1>. QED
  BY <1>2, <1>3, <1>4

\* Code that has a request writes to its response alone, and a connection that
\* was hijacked is never given back.
LEMMA HijackedForGood ==
    ASSUME ResponseInv, NEW r \in Requests, RequestStep(r)
    PROVE  /\ \A q \in Requests : q # r => response'[q] = response[q]
           /\ response[r].hijacked => response'[r].hijacked
<1>. DEFINE Goal == /\ \A q \in Requests : q # r => response'[q] = response[q]
                    /\ response[r].hijacked => response'[r].hijacked
            w == response[r]
            c == Using(r)
<1>1. response \in [Requests -> ResponseRecord] /\ w \in ResponseRecord /\ c \in Contexts
  BY DEF ResponseInv, Using, Contexts
<1>2. ASSUME NEW v, response' = [response EXCEPT ![r] = v], w.hijacked => v.hijacked
      PROVE  Goal
  BY <1>1, <1>2
<1>3. ASSUME NEW v, response' = [response EXCEPT ![r] = v], SameHands(v, w)
      PROVE  Goal
  BY <1>2, <1>3 DEF SameHands
<1>4. CASE Route(r) \/ HandlerReturns(r) \/ MiddlewareReturns(r)
  BY <1>4 DEF Route, HandlerReturns, MiddlewareReturns
<1>5. CASE NoRoute(r)
  <2>1. response' = [response EXCEPT ![r] = Responded(w, "outer", 404)]
    BY <1>1, <1>5 DEF NoRoute
  <2>2. SameHands(Responded(w, "outer", 404), w)
    BY <1>1, RespondedKeepsHands DEF Contexts
  <2>. QED
    BY <1>3, <2>1, <2>2
<1>6. CASE Flush(r)
  BY <1>1, <1>3, <1>6, FlushedKeepsHands DEF Flush, Becomes
<1>7. CASE Hijack(r)
  <2>1. response' = [response EXCEPT ![r] = [w EXCEPT !.hijacked = TRUE]]
    BY <1>7 DEF Hijack, Becomes
  <2>2. [w EXCEPT !.hijacked = TRUE].hijacked
    BY <1>1 DEF ResponseRecord
  <2>. QED
    BY <1>2, <2>1, <2>2
<1>8. ASSUME NEW s \in {0} \cup Statuses, Respond(r, s) PROVE Goal
  <2>1. s \in Int
    BY ResponseAssumption
  <2>2. SameHands(Responded(w, c, s), w)
    BY <1>1, <2>1, RespondedKeepsHands
  <2>. QED
    BY <1>3, <1>8, <2>2 DEF Respond, Becomes
<1>9. ASSUME NEW s \in Statuses, Status(r, s) PROVE Goal
  <2>1. s \in Int
    BY ResponseAssumption
  <2>2. SameHands(WroteHeader(w, c, s), w)
    BY <1>1, <2>1, HeaderKeepsHands
  <2>. QED
    BY <1>3, <1>9, <2>2 DEF Status, Becomes
<1>10. ASSUME NEW s \in ErrorStatuses, NEW from, NEW handler, NEW to,
              Answer(r, from, handler, to, s)
       PROVE  Goal
  <2>. DEFINE v == Noted(w)
              u == Answering(v)
              n == Normalized(s)
  <2>1. n \in Int
    BY ResponseAssumption, NormalizedIsError
  <2>2. SameHands(v, w)
    BY <1>1, StepsOfHeader
  <2>3. SameHands(u, v)
    <3>1. v \in ResponseRecord
      BY <2>2 DEF SameHands
    <3>. HIDE DEF v, c
    <3>. QED
      BY <1>1, <2>1, <3>1, StepsOfHeader
  <2>. HIDE DEF u, n, c
  <2>4. SameHands(Responded(u, c, n), u)
    <3>1. u \in ResponseRecord
      BY <2>3 DEF SameHands
    <3>. QED
      BY <1>1, <2>1, <3>1, RespondedKeepsHands
  <2>5. SameHands(u, w) /\ SameHands(Responded(u, c, n), w)
    BY <2>2, <2>3, <2>4 DEF SameHands
  <2>6. \/ response' = [response EXCEPT ![r] = v]
        \/ response' = [response EXCEPT ![r] = u]
        \/ response' = [response EXCEPT ![r] = Responded(u, c, n)]
    BY <1>10 DEF Answer, u, n, c
  <2>. QED
    BY <1>3, <2>2, <2>5, <2>6
<1>. QED
  BY <1>4, <1>5, <1>6, <1>7, <1>8, <1>9, <1>10 DEF RequestStep, HandlerFails, MiddlewareFails

\* Only Stops that have to wait for a request are kept from returning nil, so a
\* step that makes no request one to wait for keeps what they say.
LEMMA RequestsKeepStop ==
    ASSUME StopInv, UNCHANGED serverVars, stage' \in [Requests -> Stages],
           \A r \in Requests :
              InProgress(r)' => InProgress(r) \/ \A t \in Stops : stop[t] # "nil"
    PROVE  StopInv'
BY DEF StopInv, serverVars

LEMMA StopGoesOn == ResponseInv /\ StopInv /\ [Next]_vars => StopInv'
<1> SUFFICES ASSUME ResponseInv, StopInv, [Next]_vars PROVE StopInv'
  OBVIOUS
<1>1. CASE UNCHANGED vars
  BY <1>1 DEF vars, responseVars, serverVars, StopInv, InProgress
<1>2. ASSUME NEW s \in Starts, StartStep(s) PROVE StopInv'
  <2>1. UNCHANGED <<stopping, shuttingDown, stop, stage, response>>
    BY <1>2 DEF StartStep, StartBegin, StartListens, StartFails, StartCloses, StartReturns,
       StartMoves, responseVars
  <2>2. \A r \in Requests : InProgress(r)' = InProgress(r)
    BY <2>1 DEF InProgress
  <2>3. PICK to \in {"listen", "serve", "closed", "nil", "error", "ErrServerClosed"} :
           /\ start' = [start EXCEPT ![s] = to]
           /\ to = "serve" => ~shuttingDown
           /\ to \in {"closed", "nil"} => shuttingDown
           /\ to # "ErrServerClosed"
    BY <1>2 DEF StartStep, StartBegin, StartListens, StartFails, StartCloses, StartReturns,
       StartMoves, StopInv
  <2>. QED
    BY <2>1, <2>2, <2>3 DEF StopInv
<1>3. ASSUME NEW t \in Stops, StopStep(t) PROVE StopInv'
  <2>1. UNCHANGED <<start, stage, response>> /\ stop[t] \in {"idle", "shutdown", "close", "wait"}
    BY <1>3 DEF StopStep, StopBegin, StopShutdown, StopClosed, StopDrained, StopExpires,
       StopMoves, responseVars
  <2>2. \A r \in Requests : InProgress(r)' = InProgress(r)
    BY <2>1 DEF InProgress
  <2>3. CASE StopBegin(t)
    BY <2>1, <2>2, <2>3 DEF StopBegin, StopMoves, StopInv
  <2>4. CASE StopShutdown(t)
    BY <2>1, <2>2, <2>4 DEF StopShutdown, StopMoves, StopInv
  <2>5. CASE StopClosed(t)
    BY <2>1, <2>2, <2>5 DEF StopClosed, StopMoves, StopInv
  <2>6. CASE StopDrained(t)
    BY <2>1, <2>2, <2>6 DEF StopDrained, StopMoves, StopInv
  <2>7. CASE StopExpires(t)
    BY <2>1, <2>2, <2>7 DEF StopExpires, StopMoves, StopInv
  <2>. QED
    BY <1>3, <2>3, <2>4, <2>5, <2>6, <2>7 DEF StopStep
<1>4. ASSUME NEW r \in Requests, UNCHANGED serverVars,
             NEW to \in Stages, stage' = [stage EXCEPT ![r] = to],
             \A q \in Requests : q # r => response'[q] = response[q],
             InProgress(r)' => InProgress(r) \/ \A t \in Stops : stop[t] # "nil"
      PROVE  StopInv'
  <2>1. stage \in [Requests -> Stages]
    BY DEF StopInv
  <2>2. stage' \in [Requests -> Stages]
    BY <1>4, <2>1
  <2>3. ASSUME NEW q \in Requests, q # r PROVE InProgress(q)' = InProgress(q)
    BY <1>4, <2>1, <2>3 DEF InProgress
  <2>. QED
    BY <1>4, <2>2, <2>3, RequestsKeepStop
<1>5. ASSUME NEW r \in Requests, Accept(r) PROVE StopInv'
  <2>1. UNCHANGED <<serverVars, response>> /\ stage' = [stage EXCEPT ![r] = "new"]
    BY <1>5 DEF Accept, Moves
  <2>2. \A t \in Stops : stop[t] # "nil"
    BY <1>5 DEF Accept, StopInv
  <2>3. "new" \in Stages
    BY DEF Stages
  <2>. QED
    BY <1>4, <2>1, <2>2, <2>3
<1>6. ASSUME NEW r \in Requests, ServeHTTP(r) \/ ClientLeaves(r) PROVE StopInv'
  <2>1. PICK to \in Stages : /\ UNCHANGED <<serverVars, response>> /\ stage[r] = "new"
                             /\ stage' = [stage EXCEPT ![r] = to]
    BY <1>6 DEF ServeHTTP, ClientLeaves, Moves, Stages
  <2>2. InProgress(r)' => InProgress(r)
    BY <2>1 DEF InProgress
  <2>. QED
    BY <1>4, <2>1, <2>2
<1>7. ASSUME NEW r \in Requests, RequestStep(r), UNCHANGED serverVars PROVE StopInv'
  <2>. stage \in [Requests -> Stages]
    BY DEF StopInv
  <2>1. PICK to \in Stages : stage' = [stage EXCEPT ![r] = to]
    BY <1>7, StagesOfRequest
  <2>2. stage[r] \notin {"none", "done"}
    BY <1>7, StagesOfRequest
  <2>3. \A q \in Requests : q # r => response'[q] = response[q]
    BY <1>7, HijackedForGood
  <2>4. response[r].hijacked => response'[r].hijacked
    BY <1>7, HijackedForGood
  <2>5. InProgress(r)' => InProgress(r)
    BY <2>2, <2>4 DEF InProgress
  <2>. QED
    BY <1>4, <1>7, <2>1, <2>3, <2>5
<1>. QED
  BY <1>1, <1>2, <1>3, <1>5, <1>6, <1>7 DEF Next, Done

\* Start returns nil or an error of its own, nil only after a call of Stop; and
\* when a Stop has returned nil, no request has its connection left to net/http,
\* and no Start accepts another: what runs still has hijacked its connection.
THEOREM StopIsTold == Spec => []StopTells
<1>1. StopInv => StopTells
  BY DEF StopInv, StopTells, InProgress
<1>. QED
  BY StopBegins, StopGoesOn, ResponseInvariant, <1>1, PTL DEF Spec
=============================================================================
