--------------------------- MODULE PipelineProofs ---------------------------
(***************************************************************************)
(* Theorems about Pipeline, for every request, every outcome of a handler, *)
(* both environments and whatever the script of SecurityChecks does.       *)
(***************************************************************************)
EXTENDS SecurityChecks, TLAPS

(* What a layer is given and returns: a response with a status, or an       *)
(* exception; and the id, once a layer has set it, is the client's own.     *)
Results ==
  [status : 200..599 \cup {None}, error : Errors \cup {None}, id : {"client", "generated", "empty", None},
   cors : BOOLEAN, handled : BOOLEAN]

Result(r, result) ==
  /\ result \in Results
  /\ result.error = None => result.status \in 200..599
  /\ r.id # None => result.id \in {None, r.id}

(* The handler has run only if the origin does not forbid it.              *)
Guarded(r, result) ==
  result.handled /\ r.cookie /\ r.method # "GET" => r.origin \in {"public", "listed"}

(* A handler is behind the router: POST and DELETE are its only writes.    *)
Routed(r, result) ==
  result.handled => r.api /\ r.method \in {"GET", "POST", "DELETE"}

-----------------------------------------------------------------------------
(* Layer by layer, from the router outwards. *)

LEMMA ResponseResult ==
  ASSUME NEW r, NEW status \in 200..599
  PROVE  /\ Response(status) \in Results /\ Result(r, Response(status))
         /\ ~Response(status).handled /\ Response(status).status = status
         /\ Response(status).error = None /\ Response(status).id = None
BY DEF Result, Results, Response

LEMMA RaisedResult ==
  ASSUME NEW r, NEW error \in Errors
  PROVE  /\ Raised(error) \in Results /\ Result(r, Raised(error))
         /\ ~Raised(error).handled /\ Raised(error).error = error /\ Raised(error).id = None
<1>0. Response(None) \in Results
  BY DEF Response, Results
<1>1. PICK none \in Results : none = Response(None) /\ ~none.handled /\ none.id = None
  BY <1>0 DEF Response
<1>2. Raised(error) = [none EXCEPT !.error = error]
  BY <1>1 DEF Raised
<1> QED
  BY <1>1, <1>2, PipelineAssumption DEF Result, Results

LEMMA RouteResult ==
  ASSUME NEW r \in HttpRequests, NEW outcome \in Errors \cup {"ok"}
  PROVE  Result(r, Route(r, outcome)) /\ Routed(r, Route(r, outcome))
<1>1. r.api \in BOOLEAN /\ r.method \in Methods /\ r.authenticated \in BOOLEAN
  BY DEF HttpRequests
<1>2. ASSUME NEW s \in 200..599, Route(r, outcome) = Response(s)
      PROVE  Result(r, Route(r, outcome)) /\ Routed(r, Route(r, outcome))
  BY <1>2, ResponseResult DEF Routed
<1>3. CASE Route(r, outcome) = Raised("AuthenticationError")
  BY <1>3, RaisedResult DEF Errors, Routed
<1>4. CASE /\ r.api /\ r.method \notin {"PUT", "OPTIONS"}
           /\ Route(r, outcome) = [(IF outcome = "ok" THEN Response(200) ELSE Raised(outcome)) EXCEPT !.handled = TRUE]
  <2>1. PICK result \in Results :
          /\ result = IF outcome = "ok" THEN Response(200) ELSE Raised(outcome)
          /\ Result(r, result)
    <3>1. 200 \in 200..599
      OBVIOUS
    <3>2. CASE outcome = "ok"
      BY <3>1, <3>2, ResponseResult
    <3>3. CASE outcome # "ok"
      BY <3>3, RaisedResult
    <3> QED
      BY <3>2, <3>3
  <2>2. Route(r, outcome) = [result EXCEPT !.handled = TRUE]
    BY <1>4, <2>1
  <2>3. Result(r, Route(r, outcome))
    <3>1. [result EXCEPT !.handled = TRUE] \in Results
      BY DEF Results
    <3>2. /\ [result EXCEPT !.handled = TRUE].error = result.error
          /\ [result EXCEPT !.handled = TRUE].status = result.status
          /\ [result EXCEPT !.handled = TRUE].id = result.id
      BY DEF Results
    <3> QED
      BY <2>1, <2>2, <3>1, <3>2 DEF Result
  <2> QED
    BY <1>1, <1>4, <2>3 DEF Routed, Methods
<1>5. 404 \in 200..599 /\ 405 \in 200..599 /\ 400 \in 200..599 /\ 422 \in 200..599
  OBVIOUS
<1>6. \/ \E s \in 200..599 : Route(r, outcome) = Response(s)
      \/ Route(r, outcome) = Raised("AuthenticationError")
      \/ /\ r.api /\ r.method \notin {"PUT", "OPTIONS"}
         /\ Route(r, outcome) = [(IF outcome = "ok" THEN Response(200) ELSE Raised(outcome)) EXCEPT !.handled = TRUE]
  <2>1. CASE ~r.api
    BY <1>5, <2>1 DEF Route
  <2>2. CASE r.api /\ r.method \in {"PUT", "OPTIONS"}
    BY <1>5, <2>2 DEF Route
  <2>3. CASE r.api /\ r.method \notin {"PUT", "OPTIONS"} /\ r.method = "POST" /\ r.body = "malformed"
    BY <1>5, <2>3 DEF Route
  <2>4. CASE r.api /\ r.method \notin {"PUT", "OPTIONS"} /\ ~(r.method = "POST" /\ r.body = "malformed")
    BY <1>5, <2>4 DEF Route
  <2> QED
    BY <1>1, <2>1, <2>2, <2>3, <2>4
<1> QED
  BY <1>2, <1>3, <1>4, <1>6

(* A preflight is answered, any other answer is kept. *)
LEMMA CorsResult ==
  ASSUME NEW r \in HttpRequests, NEW inner, Result(r, inner), Routed(r, inner)
  PROVE  Result(r, Cors(r, inner)) /\ Routed(r, Cors(r, inner))
<1>1. ASSUME NEW cors \in BOOLEAN, NEW result, Result(r, result), Routed(r, result)
      PROVE  Result(r, [result EXCEPT !.cors = cors]) /\ Routed(r, [result EXCEPT !.cors = cors])
  BY <1>1 DEF Result, Results, Routed
<1>2. \A s \in 200..599 : Result(r, Response(s)) /\ Routed(r, Response(s))
  BY ResponseResult DEF Routed
<1>3. CASE r.origin # None /\ r.method = "OPTIONS"
  <2>1. PICK s \in 200..599 : s = IF r.origin = "listed" THEN 200 ELSE 400
    OBVIOUS
  <2> QED
    <3>1. PICK preflight : preflight = Response(s)
      OBVIOUS
    <3>2. Cors(r, inner) = [preflight EXCEPT !.cors = (r.origin = "listed")]
      BY <1>3, <2>1, <3>1 DEF Cors
    <3>3. Result(r, preflight) /\ Routed(r, preflight)
      BY <1>2, <3>1
    <3>4. /\ Result(r, [preflight EXCEPT !.cors = (r.origin = "listed")])
          /\ Routed(r, [preflight EXCEPT !.cors = (r.origin = "listed")])
      BY <1>1, <3>3
    <3> QED
      BY <3>2, <3>4
<1>4. CASE ~(r.origin # None /\ r.method = "OPTIONS")
  BY <1>1, <1>4 DEF Cors
<1> QED
  BY <1>3, <1>4

(* The layers around RequestId find the client's id in every response.     *)
LEMMA RequestIdResult ==
  ASSUME NEW r \in HttpRequests, NEW inner, Result(r, inner), Routed(r, inner)
  PROVE  Result(r, RequestId(r, inner)) /\ Routed(r, RequestId(r, inner))
<1>1. r.id \in {"client", None}
  BY DEF HttpRequests
<1> QED
  BY <1>1 DEF Result, Results, Routed, RequestId, WithId

LEMMA OriginCheckResult ==
  ASSUME NEW r \in HttpRequests, NEW inner, Result(r, inner), Routed(r, inner)
  PROVE  Result(r, OriginCheck(r, inner)) /\ Guarded(r, OriginCheck(r, inner))
<1>1. Result(r, Raised("AuthorizationError")) /\ Guarded(r, Raised("AuthorizationError"))
  BY RaisedResult DEF Errors, Guarded
<1>2. CASE /\ OriginCheck(r, inner) = inner
           /\ r.api /\ r.method \in {"POST", "PUT", "DELETE"} /\ r.cookie => r.origin \in {"public", "listed"}
  BY <1>2 DEF Guarded, Routed
<1> QED
  BY <1>1, <1>2 DEF OriginCheck

LEMMA ContentTypeResult ==
  ASSUME NEW r \in HttpRequests, NEW inner, Result(r, inner), Guarded(r, inner)
  PROVE  Result(r, ContentTypeGuard(r, inner)) /\ Guarded(r, ContentTypeGuard(r, inner))
<1>1. Result(r, Response(415)) /\ Guarded(r, Response(415))
  <2>1. 415 \in 200..599
    OBVIOUS
  <2> QED
    <3>1. Result(r, Response(415)) /\ ~Response(415).handled
      BY <2>1, ResponseResult
    <3> QED
      BY <3>1 DEF Guarded
<1> QED
  BY <1>1 DEF ContentTypeGuard

(* Nothing but a response leaves the outermost layer. *)
LEMMA ErrorHandlingResult ==
  ASSUME NEW r \in HttpRequests, NEW inner, Result(r, inner), Guarded(r, inner)
  PROVE  LET result == ErrorHandling(r, inner)
         IN  /\ result.error = None /\ result.status \in 200..599
             /\ r.id # None => result.id = r.id
             /\ Guarded(r, result)
<1>1. CASE inner.error = None
  BY <1>1 DEF ErrorHandling, WithId, Result, Results, Guarded
<1>2. CASE inner.error # None
  <2>1. Status(inner.error) \in 200..599
    BY <1>2 DEF Result, Results, Errors, Status
  <2> QED
    BY <1>2, <2>1 DEF ErrorHandling, Result, Results, Guarded
<1> QED
  BY <1>1, <1>2

-----------------------------------------------------------------------------
IInv ==
  /\ cookie \in BOOLEAN
  /\ AnsweredInFull
  /\ ForeignWritesStopped

(* What any request leaves, on its way through all layers. *)
LEMMA ServeIInv ==
  ASSUME NEW r \in HttpRequests, NEW outcome \in Errors \cup {"ok"}, Serve(r, outcome)
  PROVE  AnsweredInFull' /\ ForeignWritesStopped' /\ exchange'.result.status \in 200..599
<1>1. PICK inner : inner = RequestId(r, Cors(r, Route(r, outcome)))
  OBVIOUS
<1>2. Result(r, inner) /\ Routed(r, inner)
  BY <1>1, RouteResult, CorsResult, RequestIdResult
<1>3. Result(r, OriginCheck(r, inner)) /\ Guarded(r, OriginCheck(r, inner))
  BY <1>2, OriginCheckResult
<1>4. PICK guarded : guarded = ContentTypeGuard(r, OriginCheck(r, inner))
  OBVIOUS
<1>5. Result(r, guarded) /\ Guarded(r, guarded)
  BY <1>3, <1>4, ContentTypeResult
<1>6. PICK result : result = ErrorHandling(r, guarded)
  OBVIOUS
<1>7. result.error = None /\ result.status \in 200..599 /\ (r.id # None => result.id = r.id) /\ Guarded(r, result)
  BY <1>5, <1>6, ErrorHandlingResult
<1>8. exchange' = [request |-> r, result |-> result]
  BY <1>1, <1>4, <1>6 DEF Serve, Nested
<1> QED
  BY <1>7, <1>8 DEF AnsweredInFull, ForeignWritesStopped, Served, Guarded

LEMMA NextServes ==
  ASSUME PipelineNext
  PROVE  AnsweredInFull' /\ ForeignWritesStopped'
<1>1. CASE exchange' = NoExchange
  BY <1>1 DEF AnsweredInFull, ForeignWritesStopped, Served, NoExchange
<1>2. CASE exchange = NoExchange /\ \E r \in HttpRequests, outcome \in Errors \cup {"ok"} : Serve(r, outcome)
  BY <1>2, ServeIInv
<1> QED
  BY <1>1, <1>2 DEF PipelineNext

LEMMA WriteIsRequest ==
  ASSUME NEW with_cookie \in BOOLEAN, NEW origin \in Origins
  PROVE  Write(with_cookie, origin) \in HttpRequests
BY DEF Write, HttpRequests, Methods, ContentTypes

(* A request of the script is one, and so is what its handler would do.    *)
LEMMA RunIInv ==
  ASSUME IInv, Run
  PROVE  IInv'
<1>1. cookie \in BOOLEAN /\ FALSE \in BOOLEAN /\ None \in Origins /\ "public" \in Origins
  BY DEF IInv, Origins
<1>2. "ok" \in Errors \cup {"ok"} /\ {"ValidationError", "RateLimitError", "Exception", "AuthenticationError"} \subseteq Errors
  BY DEF Errors
<1>3. \A origin \in Origins : Write(cookie, origin) \in HttpRequests /\ Write(FALSE, origin) \in HttpRequests
  BY <1>1, WriteIsRequest
<1>4. CASE Register
  BY <1>1, <1>2, <1>3, <1>4, ServeIInv DEF Register, IInv
<1>5. CASE Login
  <2>1. Limited({"address"}, "ok") \in Errors \cup {"ok"}
    BY <1>2 DEF Limited
  <2> QED
    BY <1>1, <1>3, <1>5, <2>1, ServeIInv DEF Login, IInv
<1>6. CASE Setup
  BY <1>1, <1>2, <1>3, <1>6, ServeIInv DEF Setup, IInv
<1>7. CASE Enable
  BY <1>1, <1>2, <1>3, <1>7, ServeIInv DEF Enable, IInv
<1>8. CASE WrongLogin
  <2>1. Outcome \in Errors \cup {"ok"}
    BY <1>2 DEF Outcome, Limited
  <2>2. cookie' = FALSE /\ Serve(Write(FALSE, None), Outcome)
    BY <1>8 DEF WrongLogin, Cleared
  <2> QED
    BY <1>1, <1>3, <2>1, <2>2, ServeIInv DEF IInv
<1> QED
  BY <1>4, <1>5, <1>6, <1>7, <1>8 DEF Run

LEMMA ScriptInvariance == SSpec => []IInv
<1>1. SInit => IInv
  BY DEF SInit, PipelineInit, IInv, AnsweredInFull, ForeignWritesStopped, Served
<1>2. IInv /\ [SNext]_svars => IInv'
  <2> SUFFICES ASSUME IInv, [SNext]_svars PROVE IInv'
    OBVIOUS
  <2>1. CASE Run
    BY <2>1, RunIInv
  <2>2. CASE Others
    BY <2>2, NextServes DEF Others, IInv
  <2>3. CASE UNCHANGED <<exchange, cookie>>
    BY <2>3 DEF IInv, AnsweredInFull, ForeignWritesStopped, Served
  <2> QED
    BY <2>1, <2>2, <2>3 DEF SNext, NextWindow, svars
<1> QED
  BY <1>1, <1>2, PTL DEF SSpec

-----------------------------------------------------------------------------
(* No exception passes ErrorHandling, every status is one of HTTP's, and    *)
(* the client's request id comes back with responses and errors alike.     *)
THEOREM AnswerTheorem == SSpec => []AnsweredInFull
<1>1. IInv => AnsweredInFull
  BY DEF IInv
<1> QED
  BY <1>1, ScriptInvariance, PTL

(* Whatever the layers between do, a handler that runs for a POST or DELETE *)
(* with a cookie was let through by the origin check.                      *)
THEOREM OriginTheorem == SSpec => []ForeignWritesStopped
<1>1. IInv => ForeignWritesStopped
  BY DEF IInv
<1> QED
  BY <1>1, ScriptInvariance, PTL
=============================================================================
