------------------------------ MODULE Pipeline ------------------------------
(***************************************************************************)
(* The way of a request through the middlewares to a handler and of its    *)
(* response, or exception, back.  Each layer is an operator that is given  *)
(* what the layers inside it would return.                                 *)
(*                                                                         *)
(* Starlette puts each middleware that is added around those added before, *)
(* so the layers nest in the reverse of the order main.py adds them in.    *)
(***************************************************************************)
EXTENDS Naturals, Null

CONSTANT Production  \* APP_ENV = "production"

VARIABLE exchange  \* the last request and what was returned to its client

-----------------------------------------------------------------------------
Methods == {"GET", "POST", "PUT", "DELETE", "OPTIONS"}
ContentTypes == {"json", "form", "other", None}

(* `public` is PUBLIC_BASE_URL, `listed` is in CORS_ALLOW_ORIGINS.          *)
Origins == {"public", "listed", "foreign", None}

(* A body comes with its Content-Length, OPTIONS with an Origin is a        *)
(* preflight, and `authenticated` says that the dependencies of the        *)
(* endpoint accept the request.                                            *)
HttpRequests ==
  {r \in [api : BOOLEAN, method : Methods, body : {"none", "valid", "malformed", "invalid"},
          content_type : ContentTypes, cookie : BOOLEAN, origin : Origins,
          authenticated : BOOLEAN, id : {"client", None}] :
     /\ r.body = "none" => r.content_type = None
     /\ r.body # "none" => r.method \in {"POST", "PUT"}
     /\ r.body = "malformed" => r.content_type = "json"}

Errors == {"RateLimitError", "AuthenticationError", "AuthorizationError", "ValidationError",
           "IntegrityError", "AppError", "Exception"}

ASSUME PipelineAssumption == None \notin Errors

(* What is on its way back: a response or an exception, and whether the     *)
(* handler has run.  `id` is the header X-Request-Id.                      *)
Response(status) == [status |-> status, error |-> None, id |-> None, cors |-> FALSE, handled |-> FALSE]
Raised(error) == [Response(None) EXCEPT !.error = error]

WithId(result, id) == IF result.id = None THEN [result EXCEPT !.id = id] ELSE result

-----------------------------------------------------------------------------
(* The router: body parsing, dependencies, validation, the handler.  The    *)
(* validation handler answers inside the middlewares.                      *)
Route(r, outcome) ==
  CASE ~r.api -> Response(404)
    [] r.api /\ r.method \in {"PUT", "OPTIONS"} -> Response(405)
    [] r.api /\ r.method = "POST" /\ r.body = "malformed" -> Response(400)
    [] OTHER ->
         IF ~r.authenticated THEN Raised("AuthenticationError")
         ELSE IF r.body = "invalid" THEN Response(422)
         ELSE [(IF outcome = "ok" THEN Response(200) ELSE Raised(outcome)) EXCEPT !.handled = TRUE]

(* CORSMiddleware answers preflights and marks responses, not exceptions. *)
Cors(r, inner) ==
  IF r.origin # None /\ r.method = "OPTIONS"
    THEN [Response(IF r.origin = "listed" THEN 200 ELSE 400) EXCEPT !.cors = (r.origin = "listed")]
    ELSE [inner EXCEPT !.cors = (r.origin = "listed" /\ inner.error = None)]

RequestId(r, inner) ==
  IF inner.error # None THEN inner
  ELSE WithId(inner, IF r.id = None THEN "generated" ELSE r.id)

(* Mutant: DELETE is not among the methods. *)
OriginCheck_NoDelete(r, inner) ==
  IF r.api /\ r.method \in {"POST", "PUT"} /\ r.cookie /\ r.origin \notin {"public", "listed"}
    THEN Raised("AuthorizationError") ELSE inner

OriginCheck(r, inner) ==
  IF r.api /\ r.method \in {"POST", "PUT", "DELETE"} /\ r.cookie /\ r.origin \notin {"public", "listed"}
    THEN Raised("AuthorizationError") ELSE inner

ContentTypeGuard(r, inner) ==
  IF r.api /\ r.method \in {"POST", "PUT"} /\ r.body # "none" /\ r.content_type \notin {"json", "form"}
    THEN Response(415) ELSE inner

Status(error) ==
  CASE error = "RateLimitError" -> 429
    [] error = "AuthenticationError" -> 401
    [] error = "AuthorizationError" -> 403
    [] error \in {"ValidationError", "IntegrityError", "AppError"} -> 400
    [] error = "Exception" -> 500

(* The id is read before the layer that sets it has run: without the        *)
(* client's own, errors carry an empty header, and in development none.    *)

ErrorHandling(r, inner) ==
  IF inner.error = None THEN (IF r.id = None THEN inner ELSE WithId(inner, r.id))
  ELSE [inner EXCEPT
          !.status = Status(inner.error),
          !.error = None,
          !.id = IF r.id # None THEN r.id
                 ELSE IF inner.error = "Exception" /\ ~Production THEN None ELSE "empty"]

(* Mutant: the nesting that the comment on the middlewares names. *)
Nested_AsCommented(r, outcome) ==
  RequestId(r, OriginCheck(r, ContentTypeGuard(r, ErrorHandling(r, Cors(r, Route(r, outcome))))))

Nested(r, outcome) ==
  ErrorHandling(r, ContentTypeGuard(r, OriginCheck(r, RequestId(r, Cors(r, Route(r, outcome))))))

-----------------------------------------------------------------------------
NoExchange == [request |-> None, result |-> None]

PipelineInit == exchange = NoExchange

Serve(r, outcome) == exchange' = [request |-> r, result |-> Nested(r, outcome)]

PipelineNext ==
  \/ exchange = NoExchange /\ \E r \in HttpRequests, outcome \in Errors \cup {"ok"} : Serve(r, outcome)
  \/ exchange' = NoExchange

PipelineSpec == PipelineInit /\ [][PipelineNext]_exchange

-----------------------------------------------------------------------------
(* Properties. *)

Served == exchange # NoExchange

(* Every request gets a response, and its own request id with it: whichever  *)
(* layer answers, and whichever raised, not only a handler.                *)
AnsweredInFull ==
  Served =>
    /\ exchange.result.error = None /\ exchange.result.status \in 200..599
    /\ exchange.request.id # None => exchange.result.id = exchange.request.id

(* A POST or DELETE that carries the session cookie runs a handler, with    *)
(* its limiter and its database, only if it comes from a page of the       *)
(* application.  A GET passes the check, though GET /messages/{id} sets    *)
(* read_at: that write is not covered.                                     *)
ForeignWritesStopped ==
  Served /\ exchange.result.handled /\ exchange.request.cookie /\ exchange.request.method # "GET"
    => exchange.request.origin \in {"public", "listed"}
=============================================================================
