--------------------------- MODULE ErrorMapping ---------------------------
(***************************************************************************)
(* From what a server answers to the exception a caller sees.               *)
(*                                                                         *)
(* A refusal arrives as an HTTP status, as the code of a GeoServices error  *)
(* envelope inside an answer of status 200, or as a gRPC code, and may      *)
(* declare its kind and whether it may be tried again.  The three code      *)
(* spaces overlap without agreeing; an exception has a class, a             *)
(* status_code, a failure kind and a retryable flag.                        *)
(***************************************************************************)
EXTENDS Integers

Known == {"authentication", "authorization", "not-found", "validation", "conflict",
          "throttled", "unavailable"}
FailureKinds == Known \cup {"unknown"}

HttpKinds ==
  [c \in {400, 401, 403, 404, 409, 412, 422, 428, 429, 498, 499} |->
     CASE c \in {400, 422} -> "validation"
       [] c \in {401, 498, 499} -> "authentication"
       [] c = 403 -> "authorization"
       [] c = 404 -> "not-found"
       [] c \in {409, 412, 428} -> "conflict"
       [] c = 429 -> "throttled"]

RetryableHttpCodes == {408, 429, 500, 502, 503, 504}

HttpKind(code, status) ==
  IF code \in DOMAIN HttpKinds THEN HttpKinds[code]
  ELSE IF code \in RetryableHttpCodes \/ status >= 500 THEN "unavailable" ELSE "unknown"

Retryable(code, status) == {code, status} \cap RetryableHttpCodes # {}

\* What a server says of a failure in its own words goes before what the code stands
\* for: a kind the SDK knows, and whether the call may be tried again.
DeclaredKind(signal, kind) == IF signal.kind \in FailureKinds THEN signal.kind ELSE kind

DeclaredRetryable(signal, retryable) ==
  IF signal.retryable = "none" THEN retryable ELSE signal.retryable = "true"

\* _to_http_error: the answer's status, and what its body declares.
HttpError(signal) ==
  LET status == signal.code
  IN [class |-> IF status \in {401, 403} THEN "HonuaAuthError"
                ELSE IF status = 429 THEN "HonuaRateLimitError" ELSE "HonuaHttpError",
      status |-> status,
      kind |-> DeclaredKind(signal, HttpKind(status, status)),
      retryable |-> DeclaredRetryable(signal, Retryable(status, status))]

GeoServicesAuthCodes == {401, 403, 498, 499}

\* Codes outside HTTP's range do not reach status_code.
NormalizeStatus(code) ==
  IF code \in GeoServicesAuthCodes THEN IF code \in {401, 403} THEN code ELSE 403
  ELSE IF code \in 100..599 THEN code ELSE 500

\* Mutant: the code is taken for an HTTP status.
GeoServicesErrorAsHttp(signal) == HttpError(signal)

\* The code of the envelope decides, not the answer's own status.
GeoServicesError(signal) ==
  LET code == signal.code
  IN [class |-> IF code \in GeoServicesAuthCodes THEN "HonuaAuthError"
                ELSE IF code = 429 THEN "HonuaRateLimitError" ELSE "HonuaHttpError",
      status |-> NormalizeStatus(code),
      kind |-> DeclaredKind(signal, HttpKind(code, 200)),
      retryable |-> DeclaredRetryable(signal, Retryable(code, 200))]

GrpcKind(code) ==
  CASE code = 16 -> "authentication"
    [] code = 7 -> "authorization"
    [] code = 5 -> "not-found"
    [] code = 3 -> "validation"
    [] code \in {6, 10} -> "conflict"
    [] code = 8 -> "throttled"
    [] code \in {4, 14} -> "unavailable"
    [] OTHER -> "unknown"

GrpcRetryable(code) == code \in {4, 8, 10, 14}

\* The status_code of a gRPC error is none; its metadata may declare the rest.
GrpcError(signal) ==
  [class |-> "HonuaGrpcError", status |-> 0,
   kind |-> DeclaredKind(signal, GrpcKind(signal.code)),
   retryable |-> DeclaredRetryable(signal, GrpcRetryable(signal.code))]

\* What the SDK raises for an answer: sent as an HTTP status, an envelope or a
\* gRPC code.
Raised(signal) ==
  CASE signal.as = "status" -> HttpError(signal)
    [] signal.as = "envelope" -> GeoServicesError(signal)
    [] signal.as = "grpc" -> GrpcError(signal)

-----------------------------------------------------------------------------
(* The server's side: the codes that stand for a reason. *)

StatusCodes(reason) ==
  CASE reason = "authentication" -> {401, 498, 499} [] reason = "authorization" -> {403}
    [] reason = "not-found" -> {404} [] reason = "validation" -> {400, 422}
    [] reason = "conflict" -> {409, 412, 428} [] reason = "throttled" -> {429}
    [] reason = "unavailable" -> {408, 500, 501, 502, 503, 504} [] reason = "unknown" -> {302, 418}

ServerFailure == -2147217395   \* a code of its own, outside HTTP's range

EnvelopeCodes(reason) ==
  CASE reason = "authentication" -> {401, 498, 499} [] reason = "authorization" -> {403}
    [] reason = "not-found" -> {404} [] reason = "validation" -> {400}
    [] reason = "conflict" -> {409} [] reason = "throttled" -> {429}
    [] reason = "unavailable" -> {500, 501, 503} [] reason = "unknown" -> {ServerFailure}

GrpcCodes(reason) ==
  CASE reason = "authentication" -> {16} [] reason = "authorization" -> {7}
    [] reason = "not-found" -> {5} [] reason = "validation" -> {3}
    [] reason = "conflict" -> {6, 10} [] reason = "throttled" -> {8}
    [] reason = "unavailable" -> {4, 14} [] reason = "unknown" -> {2, 13}

Codes(as, reason) ==
  CASE as = "status" -> StatusCodes(reason)
    [] as = "envelope" -> EnvelopeCodes(reason)
    [] as = "grpc" -> GrpcCodes(reason)

\* A server that declares its reason is free in the code it sends with it; one that
\* declares nothing, or a kind of its own, sends a code that stands for the reason.
Declared(as, reason) ==
  [as : {as}, code : UNION {Codes(as, r) : r \in FailureKinds}, kind : {reason},
   retryable : {"none", "true", "false"}]
  \cup [as : {as}, code : Codes(as, reason), kind : {"none", "other"},
        retryable : {"none", "true", "false"}]

Undeclared(as, reason) ==
  [as : {as}, code : Codes(as, reason), kind : {"none"}, retryable : {"none"}]

\* What a server may answer for a reason, to a method that reads body.
Signals(reason, body, declares) ==
  UNION {IF declares THEN Declared(as, reason) ELSE Undeclared(as, reason) :
           as \in IF body = "grpc" THEN {"grpc"} ELSE {"status", "envelope"}}

NoSignal == [as |-> "none", code |-> 0, kind |-> "none", retryable |-> "none"]
=============================================================================
