-------------------------- MODULE RequestPipeline --------------------------
(* One HTTP request through httpx.Router: newContext wraps the connection's
   writer in a status tracker, the middleware stack is entered outermost first,
   the mux calls the route's handler (or answers 404/405 itself), the stack is
   left innermost first, with panics unwinding through the deferred functions
   of Recover and Logger, and ServeHTTP turns an error into a response unless
   one is already committed.  The client can go away and the deadline of the
   Timeout middleware can fire at any moment.                               *)
EXTENDS Integers, Sequences, FiniteSets

CONSTANTS
  Stack,       \* the middleware, outermost first
  Routes,      \* the methods registered for the request's path
  PipelineRequests,    \* the requests to try
  Statuses,    \* the statuses a handler writes
  HTTPErrors,  \* the statuses of the *HTTPError a handler returns
  MaxOps       \* bound on the writes of a handler

(* The status line has a three-digit code, and the application installs Logger
   outside Timeout. *)
ASSUME PipelineAssumption ==
  /\ Stack \in Seq(STRING) /\ Statuses \subseteq 100..999 /\ HTTPErrors \subseteq Nat
  /\ \A i, j \in 1..Len(Stack) : Stack[i] = "logger" /\ Stack[j] = "timeout" => i < j

VARIABLES
  pipelineReq,      \* the request as received
  caps,     \* the optional interfaces of the connection's writer
  phase,    \* "in", "handler", "out", "answer", "done"
  depth,    \* the middleware being entered or left
  err,      \* what is being returned (or the panic unwinding)
  ctx,      \* Context: requestID, method, pattern
  headers,  \* the response header map
  sw,       \* statusWriter: status, wroteHeader
  wire,     \* what the client received
  inbound,  \* the error of the request's own context
  child,    \* the error of the context Timeout made; "none" before it exists
  log,      \* the completion records
  ops       \* writes of the handler so far

pipelineVars == <<pipelineReq, caps, phase, depth, err, ctx, headers, sw, wire, inbound, child, log, ops>>

Nil == [k |-> "nil", status |-> 0, cause |-> "none"]
Failure(kind) == [k |-> kind, status |-> 0, cause |-> "none"]
NewHTTPError(status) == [k |-> "http", status |-> status, cause |-> "none"]
WithCause(e, cause) == [e EXCEPT !.cause = cause]

(* errors.Is(err, context.DeadlineExceeded / context.Canceled). *)
Is(e, kind) == e.k = kind \/ e.cause = kind

Panicking == err.k \in {"panic", "abort"}

----------------------------------------------------------------------------
(* The status tracker over net/http's writer. A response is the pair of both. *)

(* net/http: 1xx (but 101) may precede the one final header; later final
   headers are dropped; nothing is sent on a hijacked connection. *)
NetWriteHeader(w, status) ==
  IF w.hijacked \/ w.final # 0 THEN w
  ELSE IF status \in 100..199 /\ status # 101
       THEN [w EXCEPT !.info = @ \cup {status}]
       ELSE [w EXCEPT !.final = status, !.headers = headers]

NetWrite(w, part) == IF w.hijacked THEN w ELSE [w EXCEPT !.body = Append(@, part)]

WriteHeader(r, status) ==
  IF r.sw.wrote THEN r
  ELSE [sw |-> [status |-> status,
                wrote  |-> ~(status >= 100 /\ status < 200 /\ status # 101)],
        wire |-> NetWriteHeader(r.wire, status)]

Committed(r) == IF r.sw.wrote THEN r ELSE WriteHeader(r, 200)

Write(r, part) == [Committed(r) EXCEPT !.wire = NetWrite(@, part)]

flush(r) == Committed(r)

hijack(r) ==
  [sw |-> IF r.sw.wrote THEN r.sw ELSE [status |-> 101, wrote |-> TRUE],
   wire |-> [r.wire EXCEPT !.hijacked = TRUE]]

(* newStatusWriter: the wrapper type with exactly the interfaces underneath. *)
newStatusWriter(underlying) ==
  (IF "flush" \in underlying THEN {"flush"} ELSE {}) \cup
  (IF "hijack" \in underlying THEN {"hijack"} ELSE {}) \cup
  (IF "push" \in underlying THEN {"push"} ELSE {})

Response == [sw |-> sw, wire |-> wire]
Becomes(r) == sw' = r.sw /\ wire' = r.wire

----------------------------------------------------------------------------
newContext ==
  /\ ctx = [requestID |-> "", method |-> pipelineReq.method, pattern |-> "", asserted |-> ""]
  /\ sw = [status |-> 200, wrote |-> FALSE]
  /\ wire = [info |-> {}, final |-> 0, headers |-> {}, body |-> <<>>,
             hijacked |-> FALSE, aborted |-> FALSE]

PipelineInit ==
  /\ pipelineReq \in PipelineRequests
  /\ caps \in SUBSET {"flush", "hijack", "push"}
  /\ newContext
  /\ phase = "in" /\ depth = 1 /\ err = Nil /\ headers = {}
  /\ inbound = "none" /\ child = "absent" /\ log = <<>> /\ ops = 0

(* The layer at depth calls next. *)
Next_(layerName) == phase = "in" /\ depth <= Len(Stack) /\ Stack[depth] = layerName
CallNext == depth' = depth + 1 /\ UNCHANGED <<phase, err>>

(* The layer at depth returns e without calling next. *)
ReturnEarly(e) == phase' = "out" /\ depth' = depth - 1 /\ err' = e

EnterRecover ==
  /\ Next_("recover") /\ CallNext
  /\ UNCHANGED <<pipelineReq, caps, ctx, headers, sw, wire, inbound, child, log, ops>>

validRequestID(value) == value = "valid"

Accepted == Len(pipelineReq.ids) = 1 /\ validRequestID(pipelineReq.ids[1])

EnterRequestID ==
  /\ Next_("requestID")
  /\ \E generated \in {"fresh", "error"} :
       LET id == IF Accepted THEN pipelineReq.ids[1] ELSE generated
       IN IF id = "error"
          THEN ReturnEarly(Failure("plain")) /\ UNCHANGED <<ctx, headers>>
          ELSE /\ CallNext
               /\ ctx' = [ctx EXCEPT !.requestID = id]
               /\ headers' = headers \cup {id}
  /\ UNCHANGED <<pipelineReq, caps, sw, wire, inbound, child, log, ops>>

EnterLogger ==
  /\ Next_("logger") /\ CallNext
  /\ UNCHANGED <<pipelineReq, caps, ctx, headers, sw, wire, inbound, child, log, ops>>

EnterSecurity ==
  /\ Next_("security") /\ CallNext
  /\ headers' = headers \cup {"nosniff", "DENY"}
  /\ UNCHANGED <<pipelineReq, caps, ctx, sw, wire, inbound, child, log, ops>>

Overridable == {"PUT", "PATCH", "DELETE"}

(* MethodOverride: only a POST of a URL form under the prefix is looked at. *)
EnterOverride ==
  /\ Next_("override")
  /\ IF ctx.method # "POST" \/ ~pipelineReq.prefixed \/ ~pipelineReq.form
     THEN CallNext /\ UNCHANGED ctx
     ELSE \/ pipelineReq.override = "unreadable" /\ ReturnEarly(NewHTTPError(400)) /\ UNCHANGED ctx
          \/ pipelineReq.override = "" /\ CallNext /\ UNCHANGED ctx
          \/ /\ pipelineReq.override \in Overridable /\ CallNext
             /\ ctx' = [ctx EXCEPT !.method = pipelineReq.override]
          \/ /\ pipelineReq.override \notin Overridable \cup {"", "unreadable"}
             /\ ReturnEarly(NewHTTPError(400)) /\ UNCHANGED ctx
  /\ UNCHANGED <<pipelineReq, caps, headers, sw, wire, inbound, child, log, ops>>

(* context.WithTimeout: a child is born with its parent's error. *)
EnterTimeout ==
  /\ Next_("timeout") /\ CallNext
  /\ child' = inbound
  /\ UNCHANGED <<pipelineReq, caps, ctx, headers, sw, wire, inbound, log, ops>>

(* The mux: the route's handler, or net/http's own 404 or 405. *)
Mux ==
  /\ phase = "in" /\ depth = Len(Stack) + 1
  /\ depth' = Len(Stack)
  /\ IF ctx.method \in Routes
     THEN /\ phase' = "handler" /\ ctx' = [ctx EXCEPT !.pattern = "/items/{id}"]
          /\ UNCHANGED <<err, sw, wire>>
     ELSE /\ phase' = "out" /\ UNCHANGED <<err, ctx>>
          /\ Becomes(Write(WriteHeader(Response, IF Routes = {} THEN 404 ELSE 405), "mux"))
  /\ UNCHANGED <<pipelineReq, caps, headers, inbound, child, log, ops>>

----------------------------------------------------------------------------
(* What a handler may do, one call at a time. *)
HandlerCall(r) ==
  /\ phase = "handler" /\ ops < MaxOps /\ ops' = ops + 1
  /\ Becomes(r)
  /\ UNCHANGED <<pipelineReq, caps, phase, depth, err, ctx, headers, inbound, child, log>>

HandlerWrites ==
  \/ \E status \in Statuses : HandlerCall(WriteHeader(Response, status))
  \/ HandlerCall(Write(Response, "handler"))

(* An optional interface is used when the wrapper offers it; the wrapper then
   asserts it of the writer underneath, which panics when it lacks it. *)
HandlerUses ==
  /\ phase = "handler" /\ ops < MaxOps /\ ops' = ops + 1
  /\ \E use \in newStatusWriter(caps) :
       /\ IF use \in caps THEN UNCHANGED <<phase, err>>
          ELSE phase' = "out" /\ err' = Failure("panic")
       /\ ctx' = [ctx EXCEPT !.asserted = IF use \in caps THEN @ ELSE use]
       /\ \/ use = "flush" /\ Becomes(flush(Response))
          \/ use = "hijack" /\ use \in caps /\ Becomes(hijack(Response))
          \/ use = "hijack" /\ UNCHANGED <<sw, wire>>   \* Hijack failed
          \/ use = "push" /\ UNCHANGED <<sw, wire>>
  /\ UNCHANGED <<pipelineReq, caps, depth, headers, inbound, child, log>>

(* A context error may be the request's or that of a context of the handler's
   own, and an *HTTPError may wrap one. *)
HandlerReturns ==
  /\ phase = "handler" /\ phase' = "out"
  /\ \/ err' \in {Nil, Failure("plain"), Failure("panic"), Failure("abort")}
     \/ \E status \in HTTPErrors, cause \in {"none", "deadline", "canceled"} :
          err' = WithCause(NewHTTPError(status), cause)
     \/ err' \in {Failure("deadline"), Failure("canceled")}
  /\ UNCHANGED <<pipelineReq, caps, depth, ctx, headers, sw, wire, inbound, child, log, ops>>

----------------------------------------------------------------------------
Leaving(layerName) == phase = "out" /\ depth >= 1 /\ Stack[depth] = layerName
Unwind(e) == depth' = depth - 1 /\ err' = e /\ UNCHANGED phase

(* Reads the child's error, then the deferred cancel() runs. *)
LeaveTimeout ==
  /\ Leaving("timeout")
  /\ Unwind(IF ~Panicking /\ (Is(err, "deadline") \/ child = "deadline")
            THEN WithCause(NewHTTPError(504), "deadline") ELSE err)
  /\ child' = IF child = "none" THEN "canceled" ELSE child
  /\ UNCHANGED <<pipelineReq, caps, ctx, headers, sw, wire, inbound, log, ops>>

LeavePlain ==
  /\ \E layer \in {"requestID", "security", "override"} : Leaving(layer)
  /\ Unwind(err)
  /\ UNCHANGED <<pipelineReq, caps, ctx, headers, sw, wire, inbound, child, log, ops>>

(* The completion record's outcome and status. seen is requestContext.Err(). *)
Outcome(seen) ==
  CASE Panicking -> "panic"
    [] ~Panicking /\ (Is(err, "deadline") \/ seen = "deadline") -> "timeout"
    [] ~Panicking /\ ~(Is(err, "deadline") \/ seen = "deadline")
       /\ (Is(err, "canceled") \/ seen = "canceled") -> "canceled"
    [] OTHER -> IF err # Nil THEN "error" ELSE "success"

LoggedStatus(outcome) ==
  IF outcome = "error" /\ err.k = "http" /\ err.status \in 400..599 THEN err.status
  ELSE IF outcome = "success" \/ sw.wrote THEN sw.status
  ELSE IF outcome = "timeout" THEN 504 ELSE 500

Record(seen) ==
  LET outcome == Outcome(seen)
      status  == LoggedStatus(outcome)
  IN [id |-> ctx.requestID, method |-> pipelineReq.method, routeMethod |-> ctx.method,
      route |-> ctx.pattern, status |-> status,
      outcome |-> IF outcome = "success" /\ status >= 400 THEN "error" ELSE outcome]

(* Logger without the capture: it reads the context of ctx.Request, which
   Timeout has replaced and cancelled by now. *)
MutantCaptured == IF child = "absent" THEN inbound ELSE child

(* requestContext, captured before next. *)
Captured == inbound

LeaveLogger ==
  /\ Leaving("logger")
  /\ log' = Append(log, Record(Captured))
  /\ Unwind(err)
  /\ UNCHANGED <<pipelineReq, caps, ctx, headers, sw, wire, inbound, child, ops>>

LeaveRecover ==
  /\ Leaving("recover")
  /\ Unwind(IF err.k = "panic" THEN NewHTTPError(500) ELSE err)
  /\ UNCHANGED <<pipelineReq, caps, ctx, headers, sw, wire, inbound, child, log, ops>>

(* DefaultErrorHandler: the error's own status when it is an error status. *)
ErrorStatus == IF err.k = "http" /\ err.status \in 400..599 THEN err.status ELSE 500

AnswersError == err # Nil /\ ~sw.wrote

(* The tail of ServeHTTP, and net/http after it: a panic that got this far
   aborts the connection, and a handler that wrote nothing answered 200. *)
Answer ==
  /\ phase = "out" /\ depth = 0
  /\ phase' = "done"
  /\ IF Panicking THEN wire' = [wire EXCEPT !.aborted = TRUE] /\ UNCHANGED sw
     ELSE Becomes(IF AnswersError
                  THEN Write(WriteHeader(Response, ErrorStatus), "error")
                  ELSE [Response EXCEPT !.wire = NetWriteHeader(@, 200)])
  /\ UNCHANGED <<pipelineReq, caps, depth, err, ctx, headers, inbound, child, log, ops>>

----------------------------------------------------------------------------
ClientLeaves ==
  /\ phase # "done" /\ inbound = "none" /\ inbound' = "canceled"
  /\ child' = IF child = "none" THEN "canceled" ELSE child
  /\ UNCHANGED <<pipelineReq, caps, phase, depth, err, ctx, headers, sw, wire, log, ops>>

DeadlineFires ==
  /\ child = "none" /\ child' = "deadline"
  /\ UNCHANGED <<pipelineReq, caps, phase, depth, err, ctx, headers, sw, wire, inbound, log, ops>>

Finished == phase = "done" /\ UNCHANGED pipelineVars

PipelineNext ==
  \/ EnterRecover \/ EnterRequestID \/ EnterLogger \/ EnterSecurity
  \/ EnterOverride \/ EnterTimeout \/ Mux
  \/ HandlerWrites \/ HandlerUses \/ HandlerReturns
  \/ LeaveTimeout \/ LeavePlain \/ LeaveLogger \/ LeaveRecover \/ Answer
  \/ ClientLeaves \/ DeadlineFires \/ Finished

PipelineSpec == PipelineInit /\ [][PipelineNext]_pipelineVars

----------------------------------------------------------------------------
Done == phase = "done"

(* A context error that reaches Logger is logged as a 504 or a 500, whatever
   the error handler sends for the *HTTPError around it: a deadline only where
   no Timeout turned it into a 504 on its way. *)
Overruled(status) ==
  \/ /\ Is(err, "deadline") /\ status = 504
     /\ \A i \in 1..Len(Stack) : Stack[i] # "timeout"
  \/ Is(err, "canceled") /\ status = 500

(* What the log says happened is what the client saw of the default error
   handler (middleware.go:103-134, errors.go:40-61): "success" is only logged
   for a request whose final status is not an error, "canceled" only when the
   client really left or the error says so, "timeout" only for an expired
   context, and the status logged is the one sent, or the context error's own,
   as long as the client stayed, no handler returned an *HTTPError over a
   committed response, and no response consisted of informational headers
   alone. *)
CompletionIsTrue ==
  (Done /\ log # <<>> /\ ~wire.aborted) =>
    LET r == log[1] IN
    /\ r.outcome = "success" => wire.final < 400
    /\ r.outcome = "canceled" => (inbound = "canceled" \/ Is(err, "canceled"))
    /\ r.outcome = "timeout" => Is(err, "deadline")
    /\ (inbound = "none" /\ r.status >= 200 /\ ~wire.hijacked
        /\ ~(err.k = "http" /\ wire.final # ErrorStatus))
       => (r.status = wire.final \/ Overruled(r.status))

=============================================================================
