------------------------------- MODULE HttpApi -------------------------------
(***************************************************************************)
(* A request on its way through the HTTP server: the middlewares in the    *)
(* order NewRouter installs them, the generated wrapper that binds the     *)
(* parameters, and the handler that calls a service and maps its error to  *)
(* a status.  A client that sees no answer in time sends its request again *)
(* with the same Idempotency-Key.  Services are reduced to their outcome.  *)
(***************************************************************************)
EXTENDS Naturals, FiniteSets, OpenApi

CONSTANTS
    Intents,     \* what clients want done, each with an Idempotency-Key of its own
    Users,
    MaxTries,    \* bound on the requests for one intent
    None         \* nobody

TriesAssumption == MaxTries \in Nat \ {0}
NoneAssumption == None \notin Users \cup Operations

VARIABLES
    intent,   \* what is asked for: operation, bearer token and shape; fixed by the first try
    valid,    \* the users whose access token, one each, has not expired
    req,      \* the requests
    created   \* how many resources an intent has made

vars == <<intent, valid, req, created>>

Tries == Intents \X (1..MaxTries)
Stages == {"unsent", "cors", "limit", "auth", "validate", "bind", "handle", "done"}

(* shape: as the document asks; not so; so, but for a rule between fields  *)
(* that only the handler knows; so, but for a parameter that is there      *)
(* twice, whose name is the shape.                                         *)
Shapes == {"good", "schema", "rule"} \cup Keyed \cup Feed

(* status: what was written.  refused: by whom is in front of the handler. *)
(* served: the service was called.  proven: the token was valid when the   *)
(* request came to AuthOptional.                                           *)
Unsent == [at |-> "unsent", user |-> None, status |-> 0, refused |-> FALSE,
           served |-> FALSE, proven |-> FALSE]
Nothing == [op |-> None, token |-> None, shape |-> "good"]

TypeOK ==
    /\ intent \in [Intents -> {Nothing} \cup
                    [op : Operations, token : Users \cup {None}, shape : Shapes]]
    /\ valid \subseteq Users
    /\ \A t \in Tries :
          /\ req[t].at \in Stages
          /\ req[t].user \in Users \cup {None}
          /\ req[t].status \in {0, 200, 204, 400, 401, 403, 404, 409, 429, 500}
          /\ req[t].at = "done" => req[t].status # 0
          /\ req[t].refused \in BOOLEAN /\ req[t].served \in BOOLEAN
          /\ req[t].proven \in BOOLEAN
    /\ created \in [Intents -> 0..MaxTries]

Init ==
    /\ intent = [i \in Intents |-> Nothing]
    /\ valid \in SUBSET Users
    /\ req = [t \in Tries |-> Unsent]
    /\ created = [i \in Intents |-> 0]

Asked(t) == intent[t[1]]
GoOn(t, stage) == req' = [req EXCEPT ![t].at = stage]

-----------------------------------------------------------------------------
(* The errors of the modules and their statuses.                           *)

StatusFromCode == [validation |-> 400, unauthorized |-> 401, forbidden |-> 403,
                   not_found |-> 404, conflict |-> 409, rate_limited |-> 429,
                   feature_not_ready |-> 409, internal |-> 500]

AuthErrors == {"validation", "unauthorized", "conflict", "not_found", "internal"}
PromptErrors == {"validation", "not_found", "internal"}
ReadModelErrors == {"not_found", "internal"}
ProfileErrors == {"validation", "not_found", "internal"}
ChangeErrors == {"validation", "conflict", "not_found", "internal"}

ErrorsOf(op) ==
    CASE op = "healthz" -> {}
      [] op = "drawOfficialPrompt" -> PromptErrors
      [] op \in {"getOfficialHome", "listOfficialDateUploads", "getOfficialUpload",
                 "listReviewDates", "listReviewKeywords", "listReviewMyUploadsByDate",
                 "getReviewUpload", "listReviewMyUploadsByKeyword",
                 "listReviewAllUploadsByKeyword", "getMeHome"} -> ReadModelErrors
      [] op \in {"getMeSettings", "updateMeNotificationSettings", "updateMeNickname"} ->
            ProfileErrors
      [] op \in Public -> AuthErrors
      [] OTHER -> ChangeErrors

(* A plausible bug: an error path that returns without an answer. *)
WriteNothing(t, status) == GoOn(t, "done")
Write(t, status) == req' = [req EXCEPT ![t].at = "done", ![t].status = status]

(* A plausible bug: the answer is written and the chain goes on. *)
RefuseWithoutAbort(t, code) ==
    req' = [req EXCEPT ![t].at = "handle", ![t].status = StatusFromCode[code],
                       ![t].refused = TRUE]
(* response.Write in front of a handler: what follows in the chain does    *)
(* not run.                                                                *)
Refuse(t, code) ==
    req' = [req EXCEPT ![t].at = "done", ![t].status = StatusFromCode[code],
                       ![t].refused = TRUE]

-----------------------------------------------------------------------------
(* The client.  It does not wait for an answer before it tries again.      *)

Send(i, op, token, shape) ==
    /\ intent[i] = Nothing
    /\ shape = "rule" => op \in Bodies
    /\ intent' = [intent EXCEPT ![i] = [op |-> op, token |-> token, shape |-> shape]]
    /\ GoOn(<<i, 1>>, "cors")
    /\ UNCHANGED <<valid, created>>

Resend(i, n) ==
    /\ req[<<i, n>>].at = "unsent" /\ req[<<i, n - 1>>].at # "unsent"
    /\ GoOn(<<i, n>>, "cors")
    /\ UNCHANGED <<intent, valid, created>>

(* The access token of a user runs out (TokenService, AccessTTL).          *)
TokenExpires(u) ==
    /\ u \in valid
    /\ valid' = valid \ {u}
    /\ UNCHANGED <<intent, req, created>>

-----------------------------------------------------------------------------
(* The chain.                                                              *)

CORS(t) ==
    /\ req[t].at = "cors"
    /\ IF Asked(t).op = "preflight" THEN Write(t, 204) ELSE GoOn(t, "limit")
    /\ UNCHANGED <<intent, valid, created>>

RateLimit(t) ==
    /\ req[t].at = "limit"
    /\ GoOn(t, "auth") \/ Refuse(t, "rate_limited")
    /\ UNCHANGED <<intent, valid, created>>

(* A plausible bug: the token is looked at by the validator alone. *)
AuthOptionalLeavesIt(t) ==
    /\ req[t].at = "auth"
    /\ req' = [req EXCEPT ![t].at = "validate", ![t].proven = Asked(t).token \in valid]
    /\ UNCHANGED <<intent, valid, created>>

(* A plausible bug: a token that has expired is refused at once. *)
AuthRequired(t) ==
    /\ req[t].at = "auth"
    /\ \/ Asked(t).token \in valid \cup {None} /\ GoOn(t, "validate")
       \/ Asked(t).token \notin valid \cup {None} /\ Refuse(t, "unauthorized")
    /\ UNCHANGED <<intent, valid, created>>

(* Any request may bear a token; one that is not valid is not refused here. *)
AuthOptional(t) ==
    /\ req[t].at = "auth"
    /\ LET ok == Asked(t).token \in valid IN
          req' = [req EXCEPT ![t].at = "validate", ![t].proven = ok,
                             ![t].user = IF ok THEN Asked(t).token ELSE None]
    /\ UNCHANGED <<intent, valid, created>>

(* The OpenAPI validator: the path, then the security requirement, for     *)
(* which a token that was not valid is verified once more, then the rest.  *)
Identified(t) == req[t].user # None \/ Asked(t).token \in valid

Validate(t) ==
    /\ req[t].at = "validate"
    /\ \/ Asked(t).op = "nowhere" /\ Refuse(t, "not_found")
       \/ Asked(t).op \in Secured /\ ~Identified(t) /\ Refuse(t, "unauthorized")
       \/ /\ Asked(t).op \in Public \/ (Asked(t).op \in Secured /\ Identified(t))
          /\ \/ Asked(t).shape = "schema" /\ Refuse(t, "validation")
             \/ /\ Asked(t).shape # "schema"
                /\ req' = [req EXCEPT ![t].at = "bind",
                             ![t].user = IF Asked(t).op \in Secured THEN Asked(t).token ELSE @]
    /\ UNCHANGED <<intent, valid, created>>

(* The generated wrapper.  What it does not bind may be there twice.       *)
Bind(t) ==
    /\ req[t].at = "bind"
    /\ IF Asked(t).shape \in Singles[Asked(t).op]
       THEN Refuse(t, "validation") ELSE GoOn(t, "handle")
    /\ UNCHANGED <<intent, valid, created>>

(* The handler before it calls the service: the user, the body.            *)
Handles(t) ==
    /\ Asked(t).op \in Secured => req[t].user # None
    /\ Asked(t).shape # "rule"

HandlerRefuses(t) ==
    /\ req[t].at = "handle" /\ ~Handles(t)
    /\ Refuse(t, IF Asked(t).op \in Secured /\ req[t].user = None
                 THEN "unauthorized" ELSE "validation")
    /\ UNCHANGED <<intent, valid, created>>

Served(t, status) ==
    req' = [req EXCEPT ![t].at = "done", ![t].status = status, ![t].served = TRUE]

(* The service succeeds.  A panic on the way back is answered by Recover.  *)
HandlerSucceeds(t) ==
    /\ req[t].at = "handle" /\ Handles(t)
    /\ \E status \in {200, 500} : Served(t, status)
    /\ created' = [created EXCEPT ![t[1]] = @ + (IF Asked(t).op \in Creates THEN 1 ELSE 0)]
    /\ UNCHANGED <<intent, valid>>

HandlerFails(t) ==
    /\ req[t].at = "handle" /\ Handles(t)
    /\ \E code \in ErrorsOf(Asked(t).op) : Served(t, StatusFromCode[code])
    /\ UNCHANGED <<intent, valid, created>>

Next ==
    \/ \E i \in Intents, op \in Operations, token \in Users \cup {None}, shape \in Shapes :
          Send(i, op, token, shape)
    \/ \E i \in Intents, n \in 2..MaxTries : Resend(i, n)
    \/ \E u \in Users : TokenExpires(u)
    \/ \E t \in Tries :
          \/ CORS(t) \/ RateLimit(t) \/ AuthOptional(t) \/ Validate(t) \/ Bind(t)
          \/ HandlerRefuses(t) \/ HandlerSucceeds(t) \/ HandlerFails(t)

Spec == Init /\ [][Next]_vars

-----------------------------------------------------------------------------
(* Whoever refuses a request in front of its handler ends the chain: the   *)
(* service is not called for a request that was answered (response.Write). *)
RefusedIsNotServed == \A t \in Tries : ~(req[t].refused /\ req[t].served)

(* A token is judged once: one that was valid when its request came is not *)
(* refused later because it ran out on the way through the chain, although *)
(* the validator asks again (AuthOptional, authFunc).                      *)
ValidTokenSuffices ==
    \A t \in Tries : req[t].proven /\ req[t].refused => req[t].status # 401

(* Operations without a security requirement are answered 401 only by the  *)
(* handlers of auth, for credentials: a client may go on sending a token   *)
(* that has expired to them, also to get a new one.                        *)
StaleTokenDoesNotHurt ==
    \A t \in Tries : req[t].refused /\ req[t].status = 401 => Asked(t).op \in Secured

(* A request that is sent again with the Idempotency-Key of the first one  *)
(* makes nothing anew, where the document has the parameter ("Optional     *)
(* idempotency key.", openapi.v1.yaml:50).                                 *)
CreatedOncePerKey ==
    \A i \in Intents : created[i] > 1 => "Idempotency-Key" \notin Singles[intent[i].op]
=============================================================================
