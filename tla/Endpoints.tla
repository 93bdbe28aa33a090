----------------------------- MODULE Endpoints -----------------------------
(***************************************************************************)
(* What the HTTP endpoints have in common: the answers a request meets     *)
(* before its handler calls a service, and the shape of a handler.         *)
(***************************************************************************)

\* A handler: the answers it gives without the service, the one to a success, those to
\* the errors of the service and those to a statement that fails.
Endpoint(refused, success, failure, broken) ==
    [refused |-> refused, success |-> success, failure |-> failure, broken |-> broken]

\* NewAuthSecurityMiddleware: HTTPS may be required, and attempts are counted.
RequireHTTPS == {"400"}
RateLimited == {"429"}

\* The session of the access token is looked up in the database.
NewAuthMiddleware == {"401", "500"}

\* The OpenAPI validator and the handler check what was sent.
Validate == {"400"}

\* A body that is kept to find its nulls may be too large.
CaptureRawRequestBody == {"413"}

\* The handlers that look for fields set to null, which the decoded body shows as absent.
StrictDetectNullFields == CaptureRawRequestBody \cup Validate

BeforeHandler == NewAuthMiddleware \cup Validate

Successes == {"200", "201", "204"}
Refusals == {"400", "401", "404", "409", "413", "422", "429"}
=============================================================================
