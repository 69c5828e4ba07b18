--------------------------- MODULE ServingProofs ---------------------------
(***************************************************************************)
(* What holds of what serves requests, for any requests, clients, limits   *)
(* and users: of the life of the process, of the buckets of the rate       *)
(* limiter, and of the chain of middlewares and handlers.                  *)
(***************************************************************************)
EXTENDS MCServing, FiniteSetTheorems, TLAPS

-----------------------------------------------------------------------------
(* The process.  What is open is a function of how far the start and the   *)
(* end have come; clients are connected only between the two, and beyond   *)
(* the end only when Shutdown gave up on them or the listener failed.      *)

(* The start opens the pool in its second step and Redis in its third.     *)
OpenedSoFar ==
    pc = "start" =>
        /\ steps < 8
        /\ pool = IF steps >= 2 THEN "open" ELSE NotYet
        /\ redis = IF steps >= 3 THEN "open" ELSE NotYet

(* From then on both are open until the deferred calls close them.         *)
OpenWhileServing ==
    /\ pc \in {"listen", "notify", "select", "shutdown", "answer", "redis"} =>
          pool = "open" /\ redis = "open"
    /\ pc = "pool" => pool \in {"open", "closing"} /\ redis \in {NotYet, "closed"}
    /\ pc = "exited" => pool \in {NotYet, "closed"} /\ redis \in {NotYet, "closed"}

(* Clients connect only to a listener that runs.                           *)
ServedByListener ==
    /\ listener = "running" => pc \in {"notify", "select", "shutdown"}
    /\ pc \in {"start", "listen"} => listener = NotYet
    /\ cause = "start" => pc \in {"redis", "pool", "exited", "killed"}
    /\ listener = NotYet \/ cause = "start" => Connected = {}

(* Only a signal is waited for; who is left after the wait was given up,   *)
(* or was not waited for.                                                  *)
LeftBehind ==
    /\ pc \in {"shutdown", "answer"} => cause = "signal"
    /\ pc \in {"redis", "pool", "exited"} =>
           Connected = {} \/ waited \/ cause = "listen"

IInv == TypeOK /\ OpenedSoFar /\ OpenWhileServing /\ ServedByListener /\ LeftBehind

-----------------------------------------------------------------------------
(* The start takes eight steps.                                            *)
LEMMA StartLength == Len(Start) = 8
BY DEF Start

(* What Opened says of the two resources that are closed again.            *)
LEMMA OpenedSteps ==
    ASSUME steps \in 0..8
    PROVE  /\ Len(Start) = 8
           /\ Opened("postgres") <=> steps >= 2
           /\ Opened("redis") <=> steps >= 3
           /\ \A i \in 1..8 : Start[i] = "postgres" <=> i = 2
           /\ \A i \in 1..8 : Start[i] = "redis" <=> i = 3
<1>1. Len(Start) = 8
  BY DEF Start
<1>2. \A i \in 1..8 : (Start[i] = "postgres" <=> i = 2) /\ (Start[i] = "redis" <=> i = 3)
  BY DEF Start
<1>3. Opened("postgres") <=> steps >= 2
  BY <1>2 DEF Opened
<1>4. Opened("redis") <=> steps >= 3
  BY <1>2 DEF Opened
<1> QED
  BY <1>1, <1>2, <1>3, <1>4

(* The process begins with nothing open.                                   *)
LEMMA InitInductive == Init => IInv
<1> SUFFICES ASSUME Init PROVE IInv
  OBVIOUS
<1>1. TypeOK
  <2>1. steps \in 0..Len(Start)
    BY StartLength DEF Init
  <2>2. handler \in [Requests -> Places]
    BY DEF Init, Places
  <2> QED
    BY <2>1, <2>2 DEF Init, TypeOK, NotYet
<1>2. OpenedSoFar /\ OpenWhileServing /\ ServedByListener /\ LeftBehind
  BY DEF Init, OpenedSoFar, OpenWhileServing, ServedByListener, LeftBehind, Connected, Running, NotYet
<1> QED
  BY <1>1, <1>2 DEF IInv

(* A step of the start opens what it should, and one that fails goes to    *)
(* the deferred call of what was opened last.                              *)
LEMMA StartKeeps ==
    ASSUME IInv, StartStep \/ StartFails
    PROVE  IInv'
<1> USE DEF IInv, TypeOK, NotYet
<1>0. /\ Len(Start) = 8 /\ steps \in 0..8 /\ pc = "start"
      /\ Opened("postgres") <=> steps >= 2
      /\ Opened("redis") <=> steps >= 3
      /\ \A i \in 1..8 : (Start[i] = "postgres" <=> i = 2) /\ (Start[i] = "redis" <=> i = 3)
  <2>1. Len(Start) = 8
    BY DEF Start
  <2> QED
    BY <2>1, OpenedSteps DEF StartStep, StartFails
<1>1. CASE StartStep
  <2>1. /\ steps' = steps + 1 /\ steps' \in 1..8
        /\ pool' = IF steps' = 2 THEN "open" ELSE pool
        /\ redis' = IF steps' = 3 THEN "open" ELSE redis
        /\ pc' = IF steps' = 8 THEN "listen" ELSE "start"
    BY <1>0, <1>1 DEF StartStep
  <2> QED
    BY <1>0, <1>1, <2>1
    DEF StartStep, OpenedSoFar, OpenWhileServing, ServedByListener, LeftBehind, Connected, Running
<1>2. CASE StartFails
  <2>1. pc' = IF steps >= 3 THEN "redis" ELSE IF steps >= 2 THEN "pool" ELSE "exited"
    BY <1>0, <1>2 DEF StartFails
  <2> QED
    BY <1>0, <1>2, <2>1
    DEF StartFails, OpenedSoFar, OpenWhileServing, ServedByListener, LeftBehind, Connected, Running
<1> QED
  BY <1>1, <1>2

(* The listener, signals, and the end.                                     *)
LEMMA EndKeeps ==
    ASSUME IInv, Listen \/ Notify \/ ListenFails \/ Signal \/ Kill \/ ReturnError \/ End
    PROVE  IInv'
<1> USE DEF IInv, TypeOK, NotYet, Places, OpenedSoFar, OpenWhileServing, ServedByListener, LeftBehind,
       Connected, Running
<1>1. CASE Listen
  BY <1>1, StartLength DEF Listen
<1>2. CASE Notify
  BY <1>2 DEF Notify
<1>3. CASE ListenFails
  BY <1>3 DEF ListenFails
<1>4. CASE Signal
  BY <1>4 DEF Signal
<1>5. CASE Kill
  BY <1>5 DEF Kill
<1>6. CASE ReturnError
  BY <1>6 DEF ReturnError
<1>7. CASE Shutdown
  BY <1>7 DEF Shutdown
<1>8. CASE Answered
  BY <1>8 DEF Answered
<1>9. CASE GiveUp
  BY <1>9 DEF GiveUp
<1>10. CASE CloseRedis
  BY <1>10 DEF CloseRedis
<1>11. CASE ClosePool
  BY <1>11 DEF ClosePool
<1>12. CASE Exit
  BY <1>12 DEF Exit
<1> QED
  BY <1>1, <1>2, <1>3, <1>4, <1>5, <1>6, <1>7, <1>8, <1>9, <1>10, <1>11, <1>12 DEF End

(* A client connects only while the listener runs; then both are open.     *)
LEMMA RequestKeeps ==
    ASSUME IInv, NEW r \in Requests,
           \/ Accept(r) \/ Disconnect(r) \/ Serve(r) \/ Respond(r)
           \/ BeginTx(r) \/ EndTx(r) \/ Hang(r)
    PROVE  IInv'
<1> USE DEF IInv, TypeOK, NotYet, Places, OpenedSoFar, OpenWhileServing, ServedByListener, LeftBehind,
       Connected, Running
<1>1. CASE Serve(r)
  BY <1>1 DEF Serve
<1>2. CASE BeginTx(r)
  BY <1>2 DEF BeginTx
<1>3. CASE EndTx(r)
  BY <1>3 DEF EndTx
<1>4. CASE Respond(r)
  BY <1>4 DEF Respond
<1>5. CASE Accept(r)
  BY <1>5 DEF Accept
<1>6. CASE Disconnect(r)
  BY <1>6 DEF Disconnect
<1>7. CASE Hang(r)
  BY <1>7 DEF Hang
<1> QED
  BY <1>1, <1>2, <1>3, <1>4, <1>5, <1>6, <1>7

LEMMA StutterKeeps == IInv /\ UNCHANGED vars => IInv'
BY DEF IInv, TypeOK, vars, OpenedSoFar, OpenWhileServing, ServedByListener, LeftBehind, Connected, Running

(* Every step of the process keeps the invariant.                          *)
LEMMA StepKeeps ==
    ASSUME IInv, [Next]_vars
    PROVE  IInv'
<1>1. CASE StartStep \/ StartFails
  BY <1>1, StartKeeps
<1>2. CASE Listen \/ Notify \/ ListenFails \/ Signal \/ Kill \/ ReturnError \/ End
  BY <1>2, EndKeeps
<1>3. ASSUME NEW r \in Requests,
             \/ Accept(r) \/ Disconnect(r) \/ Serve(r) \/ Respond(r)
             \/ BeginTx(r) \/ EndTx(r) \/ Hang(r)
      PROVE  IInv'
  BY <1>3, RequestKeeps
<1>4. CASE UNCHANGED vars
  BY <1>4, StutterKeeps
<1> QED
  BY <1>1, <1>2, <1>3, <1>4 DEF Next

(* The inductive invariant of the process.                                 *)
THEOREM Inductive == Spec => []IInv
BY InitInductive, StepKeeps, PTL DEF Spec

(* The variables have their types in every reachable state.                *)
THEOREM TypeCorrect == Spec => []TypeOK
<1>1. IInv => TypeOK
  BY DEF IInv
<1> QED
  BY <1>1, Inductive, PTL

(* While requests run the pool and Redis are there, however many there are *)
(* and whenever they came, unless Shutdown gave up or the listener failed. *)
THEOREM ResourcesOutlive == Spec => []ResourcesOutliveRequests
<1>1. IInv => ResourcesOutliveRequests
  BY DEF IInv, TypeOK, NotYet, OpenedSoFar, OpenWhileServing, ServedByListener, LeftBehind,
         Connected, ResourcesOutliveRequests
<1> QED
  BY <1>1, Inductive, PTL

(* An end that is not a kill leaves neither the pool nor Redis open, also  *)
(* when the start failed between the two.                                  *)
THEOREM NothingOpen == Spec => []NothingLeftOpen
<1>1. IInv => NothingLeftOpen
  BY DEF IInv, OpenWhileServing, NothingLeftOpen
<1> QED
  BY <1>1, Inductive, PTL

(* What was opened is closed, in the right order, by whatever end.         *)
THEOREM InOrder == Spec => []ClosedInOrder
<1>1. ResourcesOutliveRequests /\ NothingLeftOpen => ClosedInOrder
  BY DEF ClosedInOrder
<1> QED
  BY <1>1, ResourcesOutlive, NothingOpen, PTL

(* Only a kill cuts a transaction: the pool waits for the connections that *)
(* are out, also for requests that Shutdown has given up on, and for ever  *)
(* for one that hangs.                                                     *)
THEOREM TransactionsNotCut == Spec => TransactionsEnd
<1>1. IInv /\ [Next]_vars =>
        [\A r \in Requests :
           handler[r] \in {"tx", "stuck"} /\ pc' # "killed"
              => handler'[r] \in {"tx", "stuck", "runs"}]_vars
  <2> SUFFICES ASSUME IInv, Next, NEW r \in Requests, handler[r] \in {"tx", "stuck"},
                      pc' # "killed"
               PROVE  handler'[r] \in {"tx", "stuck", "runs"}
    OBVIOUS
  <2> USE DEF IInv, TypeOK
  <2>1. CASE handler' = handler
    BY <2>1
  <2>2. CASE Kill
    BY <2>2 DEF Kill
  <2>3. CASE Exit
    BY <2>3 DEF Exit
  <2>4. ASSUME NEW q \in Requests,
               \/ Accept(q) \/ Disconnect(q) \/ Serve(q) \/ Respond(q)
               \/ BeginTx(q) \/ EndTx(q) \/ Hang(q)
        PROVE  handler'[r] \in {"tx", "stuck", "runs"}
    BY <2>4 DEF Accept, Disconnect, Serve, Respond, BeginTx, EndTx, Hang, NotYet
  <2> QED
    BY <2>1, <2>2, <2>3, <2>4
    DEF Next, End, StartStep, StartFails, Listen, Notify, ListenFails, Signal, ReturnError,
        Shutdown, Answered, GiveUp, CloseRedis, ClosePool
<1> QED
  BY <1>1, Inductive, PTL DEF Spec, TransactionsEnd

-----------------------------------------------------------------------------
(* The chain.  A request is where its middlewares have brought it.         *)

TryType == [at : Api!Stages, user : Users \cup {NoValue}, status : Nat, refused : BOOLEAN,
            served : BOOLEAN, proven : BOOLEAN]
AskType == {Api!Nothing} \cup [op : Api!Operations, token : Users \cup {NoValue}, shape : Api!Shapes]

(* Whose request it is, as far as the chain has found out.                 *)
Known(q, a) ==
    /\ q.user \in {NoValue, a.token}
    /\ q.at \in {"unsent", "cors", "limit", "auth"} => q.proven = FALSE /\ q.user = NoValue
    /\ q.at = "validate" /\ q.proven = TRUE => q.user # NoValue
    /\ q.at \in {"bind", "handle"} /\ a.op \in Api!Secured => q.user # NoValue

(* What was answered.                                                      *)
Answers(q, a) ==
    /\ q.at = "done" => q.status \in {200, 204, 400, 401, 403, 404, 409, 429, 500}
    /\ q.at # "done" => q.refused = FALSE /\ q.served = FALSE /\ q.status = 0
    /\ q.refused = TRUE => q.served = FALSE
    /\ q.refused = TRUE /\ q.status = 401 => a.op \in Api!Secured /\ q.proven = FALSE

TryOK(q, a) ==
    /\ q \in TryType
    /\ q.at # "unsent" => a # Api!Nothing
    /\ Known(q, a)
    /\ Answers(q, a)

ServedTries(i) == {n \in 1..MaxTries : sent[<<i, n>>].served = TRUE}

ApiInv ==
    /\ intent \in [Intents -> AskType] /\ valid \in SUBSET Users
    /\ sent \in [Api!Tries -> TryType]
    /\ \A t \in Api!Tries : TryOK(sent[t], intent[t[1]])
    /\ created \in [Intents -> Nat]
    /\ \A i \in Intents : created[i] <= Cardinality(ServedTries(i))

(* A step replaces one request.                                            *)
Moved(t, q) == sent' = [sent EXCEPT ![t] = q]

(* The next stage, with nothing else written.                              *)
LEMMA GoOnMoves ==
    ASSUME sent \in [Api!Tries -> TryType], NEW t \in Api!Tries, NEW stage, Api!GoOn(t, stage)
    PROVE  Moved(t, [at |-> stage, user |-> sent[t].user, status |-> sent[t].status,
                     refused |-> sent[t].refused, served |-> sent[t].served,
                     proven |-> sent[t].proven])
<1> DEFINE r == sent[t]
<1>1. r \in TryType
  OBVIOUS
<1>2. sent' = [sent EXCEPT ![t] = [r EXCEPT !.at = stage]]
  BY DEF Api!GoOn
<1> HIDE DEF r
<1>3. [r EXCEPT !.at = stage]
      = [at |-> stage, user |-> r.user, status |-> r.status, refused |-> r.refused,
          served |-> r.served, proven |-> r.proven]
  BY <1>1 DEF TryType
<1>4. Moved(t, [at |-> stage, user |-> r.user, status |-> r.status, refused |-> r.refused,
          served |-> r.served, proven |-> r.proven])
  BY <1>2, <1>3 DEF Moved
<1> QED
  BY <1>4 DEF r

(* An answer in front of the handler.                                      *)
LEMMA RefuseMoves ==
    ASSUME sent \in [Api!Tries -> TryType], NEW t \in Api!Tries, NEW code, Api!Refuse(t, code),
           Api!StatusFromCode[code] \in Nat
    PROVE  Moved(t, [at |-> "done", user |-> sent[t].user, status |-> Api!StatusFromCode[code],
                     refused |-> TRUE, served |-> sent[t].served, proven |-> sent[t].proven])
<1> DEFINE r == sent[t]
<1>1. r \in TryType
  OBVIOUS
<1>2. sent' = [sent EXCEPT ![t] = [r EXCEPT !.at = "done", !.status = Api!StatusFromCode[code], !.refused = TRUE]]
  BY DEF Api!Refuse
<1> HIDE DEF r
<1>3. [r EXCEPT !.at = "done", !.status = Api!StatusFromCode[code], !.refused = TRUE]
      = [at |-> "done", user |-> r.user, status |-> Api!StatusFromCode[code], refused |-> TRUE,
          served |-> r.served, proven |-> r.proven]
  <2> DEFINE q == [r EXCEPT !.at = "done", !.status = Api!StatusFromCode[code], !.refused = TRUE]
  <2>1. q \in TryType
    BY <1>1 DEF TryType, Api!Stages
  <2>2. /\ q.at = "done" /\ q.user = r.user /\ q.status = Api!StatusFromCode[code]
        /\ q.refused = TRUE /\ q.served = r.served /\ q.proven = r.proven
    BY <1>1 DEF TryType
  <2> HIDE DEF q
  <2>3. q = [at |-> q.at, user |-> q.user, status |-> q.status, refused |-> q.refused,
             served |-> q.served, proven |-> q.proven]
    BY <2>1 DEF TryType
  <2> QED
    BY <2>2, <2>3 DEF q
<1>4. Moved(t, [at |-> "done", user |-> r.user, status |-> Api!StatusFromCode[code], refused |-> TRUE,
          served |-> r.served, proven |-> r.proven])
  BY <1>2, <1>3 DEF Moved
<1> QED
  BY <1>4 DEF r

(* An answer of the service.                                               *)
LEMMA ServedMoves ==
    ASSUME sent \in [Api!Tries -> TryType], NEW t \in Api!Tries, NEW status \in Nat,
           Api!Served(t, status)
    PROVE  Moved(t, [at |-> "done", user |-> sent[t].user, status |-> status,
                     refused |-> sent[t].refused, served |-> TRUE, proven |-> sent[t].proven])
<1> DEFINE r == sent[t]
<1>1. r \in TryType
  OBVIOUS
<1>2. sent' = [sent EXCEPT ![t] = [r EXCEPT !.at = "done", !.status = status, !.served = TRUE]]
  BY DEF Api!Served
<1> HIDE DEF r
<1>3. [r EXCEPT !.at = "done", !.status = status, !.served = TRUE]
      = [at |-> "done", user |-> r.user, status |-> status, refused |-> r.refused,
          served |-> TRUE, proven |-> r.proven]
  <2> DEFINE q == [r EXCEPT !.at = "done", !.status = status, !.served = TRUE]
  <2>1. q \in TryType
    BY <1>1 DEF TryType, Api!Stages
  <2>2. /\ q.at = "done" /\ q.user = r.user /\ q.status = status
        /\ q.refused = r.refused /\ q.served = TRUE /\ q.proven = r.proven
    BY <1>1 DEF TryType
  <2> HIDE DEF q
  <2>3. q = [at |-> q.at, user |-> q.user, status |-> q.status, refused |-> q.refused,
             served |-> q.served, proven |-> q.proven]
    BY <2>1 DEF TryType
  <2> QED
    BY <2>2, <2>3 DEF q
<1>4. Moved(t, [at |-> "done", user |-> r.user, status |-> status, refused |-> r.refused,
          served |-> TRUE, proven |-> r.proven])
  BY <1>2, <1>3 DEF Moved
<1> QED
  BY <1>4 DEF r

(* The statuses of the errors.                                             *)
LEMMA Statuses ==
    /\ Api!StatusFromCode["validation"] = 400 /\ Api!StatusFromCode["unauthorized"] = 401
    /\ Api!StatusFromCode["not_found"] = 404 /\ Api!StatusFromCode["conflict"] = 409
    /\ Api!StatusFromCode["rate_limited"] = 429 /\ Api!StatusFromCode["internal"] = 500
BY DEF Api!StatusFromCode

(* Whatever an operation fails with has a status.                          *)
LEMMA ErrorStatuses ==
    ASSUME NEW op, NEW code \in Api!ErrorsOf(op)
    PROVE  Api!StatusFromCode[code] \in {400, 401, 404, 409, 500}
<1>1. code \in {"validation", "unauthorized", "conflict", "not_found", "internal"}
  BY DEF Api!ErrorsOf, Api!AuthErrors, Api!PromptErrors, Api!ReadModelErrors,
         Api!ProfileErrors, Api!ChangeErrors
<1> QED
  BY <1>1, Statuses

(* An answer that nobody refuses with.                                     *)
LEMMA WriteMoves ==
    ASSUME sent \in [Api!Tries -> TryType], NEW t \in Api!Tries, Api!Write(t, 204)
    PROVE  Moved(t, [at |-> "done", user |-> sent[t].user, status |-> 204,
                     refused |-> sent[t].refused, served |-> sent[t].served,
                     proven |-> sent[t].proven])
<1> DEFINE r == sent[t]
<1>1. r \in TryType
  OBVIOUS
<1> DEFINE q == [r EXCEPT !.at = "done", !.status = 204]
<1>2. sent' = [sent EXCEPT ![t] = q]
  BY DEF Api!Write
<1> HIDE DEF r
<1>3. q \in TryType
  <2>1. PICK n : n = 204
    OBVIOUS
  <2>2. [r EXCEPT !.at = "done", !.status = n] \in TryType
    <3>1. n \in Nat
      BY <2>1
    <3> QED
      BY <1>1, <3>1 DEF TryType, Api!Stages
  <2> QED
    BY <2>1, <2>2
<1>4. /\ q.at = "done" /\ q.user = r.user /\ q.status = 204
      /\ q.refused = r.refused /\ q.served = r.served /\ q.proven = r.proven
  BY <1>1 DEF TryType
<1> HIDE DEF q
<1>5. q = [at |-> q.at, user |-> q.user, status |-> q.status, refused |-> q.refused,
           served |-> q.served, proven |-> q.proven]
  BY <1>3 DEF TryType
<1>6. q = [at |-> "done", user |-> r.user, status |-> 204, refused |-> r.refused,
           served |-> r.served, proven |-> r.proven]
  BY <1>4, <1>5
<1> QED
  BY <1>2, <1>6 DEF Moved, r

(* What AuthOptional and the validator write of the user.                  *)
Finds(t, ok, user) ==
    sent' = [sent EXCEPT ![t].at = "validate", ![t].proven = ok, ![t].user = user]
Confirms(t, user) == sent' = [sent EXCEPT ![t].at = "bind", ![t].user = user]

(* The user that AuthOptional finds.                                       *)
LEMMA AuthMoves ==
    ASSUME sent \in [Api!Tries -> TryType], NEW t \in Api!Tries, NEW ok \in BOOLEAN,
           NEW user \in Users \cup {NoValue}, Finds(t, ok, user)
    PROVE  Moved(t, [at |-> "validate", user |-> user, status |-> sent[t].status,
                     refused |-> sent[t].refused, served |-> sent[t].served, proven |-> ok])
<1> DEFINE r == sent[t]
<1>1. r \in TryType
  OBVIOUS
<1> DEFINE q == [r EXCEPT !.at = "validate", !.proven = ok, !.user = user]
<1>2. sent' = [sent EXCEPT ![t] = q]
  BY DEF Finds
<1> HIDE DEF r
<1>3. q \in TryType
  BY <1>1 DEF TryType, Api!Stages
<1>4. /\ q.at = "validate" /\ q.user = user /\ q.status = r.status
      /\ q.refused = r.refused /\ q.served = r.served /\ q.proven = ok
  BY <1>1 DEF TryType
<1> HIDE DEF q
<1>5. q = [at |-> q.at, user |-> q.user, status |-> q.status, refused |-> q.refused,
           served |-> q.served, proven |-> q.proven]
  BY <1>3 DEF TryType
<1>6. q = [at |-> "validate", user |-> user, status |-> r.status, refused |-> r.refused,
           served |-> r.served, proven |-> ok]
  BY <1>4, <1>5
<1> QED
  BY <1>2, <1>6 DEF Moved, r

(* The user that the validator confirms.                                   *)
LEMMA ValidMoves ==
    ASSUME sent \in [Api!Tries -> TryType], NEW t \in Api!Tries,
           NEW user \in Users \cup {NoValue}, Confirms(t, user)
    PROVE  Moved(t, [at |-> "bind", user |-> user, status |-> sent[t].status,
                     refused |-> sent[t].refused, served |-> sent[t].served,
                     proven |-> sent[t].proven])
<1> DEFINE r == sent[t]
<1>1. r \in TryType
  OBVIOUS
<1> DEFINE q == [r EXCEPT !.at = "bind", !.user = user]
<1>2. sent' = [sent EXCEPT ![t] = q]
  BY DEF Confirms
<1> HIDE DEF r
<1>3. q \in TryType
  BY <1>1 DEF TryType, Api!Stages
<1>4. /\ q.at = "bind" /\ q.user = user /\ q.status = r.status
      /\ q.refused = r.refused /\ q.served = r.served /\ q.proven = r.proven
  BY <1>1 DEF TryType
<1> HIDE DEF q
<1>5. q = [at |-> q.at, user |-> q.user, status |-> q.status, refused |-> q.refused,
           served |-> q.served, proven |-> q.proven]
  BY <1>3 DEF TryType
<1>6. q = [at |-> "bind", user |-> user, status |-> r.status, refused |-> r.refused,
           served |-> r.served, proven |-> r.proven]
  BY <1>4, <1>5
<1> QED
  BY <1>2, <1>6 DEF Moved, r

(* What was served stays served; a request that is served now was not.     *)
LEMMA ServedGrow ==
    ASSUME ApiInv, NEW t \in Api!Tries, NEW q \in TryType, Moved(t, q), sent[t].at # "done",
           NEW i \in Intents
    PROVE  /\ Cardinality(ServedTries(i)) \in Nat /\ Cardinality(ServedTries(i)') \in Nat
           /\ Cardinality(ServedTries(i)) <= Cardinality(ServedTries(i)')
           /\ i = t[1] /\ q.served = TRUE =>
                 Cardinality(ServedTries(i)') = Cardinality(ServedTries(i)) + 1
<1>1. IsFiniteSet(1..MaxTries)
  BY FS_Interval, ApiAssumption DEF Api!TriesAssumption
<1>2. /\ ServedTries(i) \in SUBSET (1..MaxTries)
      /\ ServedTries(i)' \in SUBSET (1..MaxTries)
  BY DEF ServedTries
<1>3. /\ IsFiniteSet(ServedTries(i)) /\ IsFiniteSet(ServedTries(i)')
  BY <1>1, <1>2, FS_Subset
<1>4. sent[t].served = FALSE
  BY DEF ApiInv, TryOK, Answers
<1>5. \A u \in Api!Tries : sent'[u] = IF u = t THEN q ELSE sent[u]
  BY DEF Moved, ApiInv
<1>6. \A n \in 1..MaxTries : <<i, n>> \in Api!Tries
  BY DEF Api!Tries
<1>7. ServedTries(i) \in SUBSET ServedTries(i)'
  BY <1>4, <1>5, <1>6 DEF ServedTries
<1>8. ASSUME i = t[1], q.served = TRUE
      PROVE  Cardinality(ServedTries(i)') = Cardinality(ServedTries(i)) + 1
  <2>1. t = <<i, t[2]>> /\ t[2] \in 1..MaxTries
    BY <1>8 DEF Api!Tries
  <2>2. ServedTries(i)' = ServedTries(i) \cup {t[2]} /\ t[2] \notin ServedTries(i)
    <3>1. \A n \in 1..MaxTries : <<i, n>> = t <=> n = t[2]
      BY <2>1
    <3> QED
      BY <1>4, <1>5, <1>6, <1>8, <2>1, <3>1 DEF ServedTries
  <2> QED
    BY <1>3, <2>2, FS_AddElement
<1> QED
  BY <1>3, <1>7, <1>8, FS_Subset, FS_CardinalityType

(* What a step may make: something for the request that it serves.         *)
Made(t, q) ==
    /\ created' \in [Intents -> Nat]
    /\ \A i \in Intents : \/ created'[i] = created[i]
                          \/ i = t[1] /\ q.served = TRUE /\ created'[i] = created[i] + 1

(* A move to a request that is as it should be keeps the invariant.        *)
LEMMA MoveKeeps ==
    ASSUME ApiInv, NEW t \in Api!Tries, NEW q, TryOK(q, intent[t[1]]), Moved(t, q),
           sent[t].at # "done", intent' = intent, valid' \in SUBSET Users,
           Made(t, q)
    PROVE  ApiInv'
<1>1. q \in TryType
  BY DEF TryOK
<1>2. sent' \in [Api!Tries -> TryType]
  BY <1>1 DEF Moved, ApiInv
<1>3. \A u \in Api!Tries : sent'[u] = IF u = t THEN q ELSE sent[u]
  BY DEF Moved, ApiInv
<1>4. \A u \in Api!Tries : TryOK(sent'[u], intent'[u[1]])
  <2> SUFFICES ASSUME NEW u \in Api!Tries PROVE TryOK(sent'[u], intent'[u[1]])
    OBVIOUS
  <2>1. CASE u = t
    BY <1>3, <2>1
  <2>2. CASE u # t
    <3>1. sent'[u] = sent[u] /\ TryOK(sent[u], intent[u[1]])
      BY <1>3, <2>2 DEF ApiInv
    <3> QED
      BY <3>1
  <2> QED
    BY <2>1, <2>2
<1>5. \A i \in Intents : created'[i] <= Cardinality(ServedTries(i)')
  <2> SUFFICES ASSUME NEW i \in Intents PROVE created'[i] <= Cardinality(ServedTries(i)')
    OBVIOUS
  <2>1. /\ Cardinality(ServedTries(i)) \in Nat /\ Cardinality(ServedTries(i)') \in Nat
        /\ Cardinality(ServedTries(i)) <= Cardinality(ServedTries(i)')
        /\ i = t[1] /\ q.served = TRUE =>
              Cardinality(ServedTries(i)') = Cardinality(ServedTries(i)) + 1
    BY <1>1, ServedGrow
  <2>2. created[i] \in Nat /\ created[i] <= Cardinality(ServedTries(i))
    BY DEF ApiInv
  <2> QED
    BY <2>1, <2>2 DEF Made
<1> QED
  BY <1>2, <1>4, <1>5 DEF ApiInv, Made

(* The first try: until then no request of the intent was sent, so that    *)
(* what is asked for may still be chosen.                                  *)
LEMMA SendKeeps ==
    ASSUME ApiInv, NEW i \in Intents, NEW op \in Api!Operations,
           NEW token \in Users \cup {NoValue}, NEW shape \in Api!Shapes,
           Api!Send(i, op, token, shape)
    PROVE  ApiInv'
<1> DEFINE a == [op |-> op, token |-> token, shape |-> shape]
<1>1. a # Api!Nothing /\ a \in AskType /\ a.token \in Users \cup {NoValue}
  BY ApiAssumption DEF Api!NoneAssumption, Api!Nothing, AskType
<1>2. intent' = [intent EXCEPT ![i] = a] /\ UNCHANGED <<valid, created>>
  BY DEF Api!Send
<1> HIDE DEF a
<1>3. \A n \in 1..MaxTries : <<i, n>> \in Api!Tries /\ sent[<<i, n>>].at = "unsent"
  BY DEF Api!Send, Api!Tries, ApiInv, TryOK
<1>4. 1 \in 1..MaxTries /\ <<i, 1>> \in Api!Tries
  BY ApiAssumption DEF Api!TriesAssumption, Api!Tries
<1> DEFINE t == <<i, 1>>
           q == [at |-> "cors", user |-> sent[t].user, status |-> sent[t].status,
                 refused |-> sent[t].refused, served |-> sent[t].served,
                 proven |-> sent[t].proven]
<1>5. Moved(t, q)
  BY <1>4, GoOnMoves DEF Api!Send, ApiInv
<1>6. sent[t] \in TryType /\ TryOK(sent[t], intent[i]) /\ sent[t].at = "unsent"
  BY <1>3, <1>4 DEF ApiInv
<1>7. /\ q.at = "cors" /\ q.user = sent[t].user /\ q.status = sent[t].status
      /\ q.refused = sent[t].refused /\ q.served = sent[t].served /\ q.proven = sent[t].proven
      /\ q \in TryType
  BY <1>6 DEF TryType, Api!Stages
<1>8. PICK p : p = q
  OBVIOUS
<1> HIDE DEF q, t
<1>9. p \in TryType /\ Moved(t, p) /\ TryOK(p, a)
  BY <1>1, <1>5, <1>6, <1>7, <1>8 DEF TryOK, Known, Answers
<1>10. \A u \in Api!Tries : sent'[u] = IF u = t THEN p ELSE sent[u]
  BY <1>9 DEF Moved, ApiInv
<1>11. sent' \in [Api!Tries -> TryType]
  BY <1>9 DEF Moved, ApiInv
<1>12. \A u \in Api!Tries : TryOK(sent'[u], intent'[u[1]])
  <2> SUFFICES ASSUME NEW u \in Api!Tries PROVE TryOK(sent'[u], intent'[u[1]])
    OBVIOUS
  <2>1. u[1] \in Intents /\ u[2] \in 1..MaxTries /\ u = <<u[1], u[2]>>
    BY DEF Api!Tries
  <2>2. intent'[u[1]] = IF u[1] = i THEN a ELSE intent[u[1]]
    BY <1>2, <2>1 DEF ApiInv
  <2>3. CASE u = t
    BY <1>9, <1>10, <2>2, <2>3 DEF t
  <2>4. CASE u # t /\ u[1] = i
    <3>1. sent'[u] = sent[u] /\ sent[u].at = "unsent" /\ TryOK(sent[u], intent[u[1]])
      BY <1>3, <1>10, <2>1, <2>4 DEF ApiInv
    <3> QED
      BY <1>1, <2>2, <2>4, <3>1 DEF TryOK, Known, Answers
  <2>5. CASE u # t /\ u[1] # i
    <3>1. sent'[u] = sent[u] /\ TryOK(sent[u], intent[u[1]])
      BY <1>10, <2>5 DEF ApiInv
    <3> QED
      BY <2>2, <2>5, <3>1
  <2> QED
    BY <2>3, <2>4, <2>5
<1>13. \A j \in Intents : created'[j] <= Cardinality(ServedTries(j)')
  <2> SUFFICES ASSUME NEW j \in Intents PROVE created[j] <= Cardinality(ServedTries(j)')
    BY <1>2
  <2>1. /\ Cardinality(ServedTries(j)) \in Nat /\ Cardinality(ServedTries(j)') \in Nat
        /\ Cardinality(ServedTries(j)) <= Cardinality(ServedTries(j)')
    BY <1>4, <1>6, <1>9, ServedGrow DEF t
  <2> QED
    BY <2>1 DEF ApiInv
<1> QED
  BY <1>1, <1>2, <1>11, <1>12, <1>13 DEF ApiInv

(* The stages in which a request only goes on.                             *)
LEMMA GoOnKeeps ==
    ASSUME ApiInv, NEW t \in Api!Tries, NEW stage, Api!GoOn(t, stage),
           UNCHANGED <<intent, valid, created>>,
           \/ sent[t].at = "unsent" /\ stage = "cors" /\ intent[t[1]] # Api!Nothing
           \/ sent[t].at = "cors" /\ stage = "limit"
           \/ sent[t].at = "limit" /\ stage = "auth"
           \/ sent[t].at = "bind" /\ stage = "handle"
    PROVE  ApiInv'
<1> DEFINE q == [at |-> stage, user |-> sent[t].user, status |-> sent[t].status,
                 refused |-> sent[t].refused, served |-> sent[t].served,
                 proven |-> sent[t].proven]
<1>1. Moved(t, q)
  BY GoOnMoves DEF ApiInv
<1>2. sent[t] \in TryType /\ TryOK(sent[t], intent[t[1]])
  BY DEF ApiInv
<1>3. /\ q.at = stage /\ q.user = sent[t].user /\ q.status = sent[t].status
      /\ q.refused = sent[t].refused /\ q.served = sent[t].served /\ q.proven = sent[t].proven
      /\ q \in TryType
  BY <1>2 DEF TryType, Api!Stages
<1>4. PICK p : p = q
  OBVIOUS
<1> HIDE DEF q
<1>5. Moved(t, p) /\ TryOK(p, intent[t[1]])
  BY <1>1, <1>2, <1>3, <1>4 DEF TryOK, Known, Answers
<1> QED
  BY <1>5, MoveKeeps DEF ApiInv, Made

(* A refusal in front of the handler: with 401 only where the document     *)
(* wants a user and none was found.                                        *)
LEMMA RefuseKeeps ==
    ASSUME ApiInv, NEW t \in Api!Tries, NEW code, Api!Refuse(t, code),
           UNCHANGED <<intent, valid, created>>,
           sent[t].at \in {"limit", "validate", "bind", "handle"},
           code \in {"validation", "unauthorized", "not_found", "rate_limited"},
           code = "unauthorized" => intent[t[1]].op \in Api!Secured /\ sent[t].user = NoValue
                                    /\ sent[t].at \in {"validate", "handle"}
    PROVE  ApiInv'
<1>1. Api!StatusFromCode[code] \in {400, 401, 404, 429}
      /\ (Api!StatusFromCode[code] = 401 => code = "unauthorized")
  BY Statuses
<1> DEFINE q == [at |-> "done", user |-> sent[t].user, status |-> Api!StatusFromCode[code],
                 refused |-> TRUE, served |-> sent[t].served, proven |-> sent[t].proven]
<1>2. Moved(t, q)
  BY <1>1, RefuseMoves DEF ApiInv
<1>3. sent[t] \in TryType /\ TryOK(sent[t], intent[t[1]])
  BY DEF ApiInv
<1>4. /\ q.at = "done" /\ q.user = sent[t].user /\ q.status = Api!StatusFromCode[code]
      /\ q.refused = TRUE /\ q.served = sent[t].served /\ q.proven = sent[t].proven
      /\ q \in TryType
  BY <1>1, <1>3 DEF TryType, Api!Stages
<1>5. PICK p : p = q
  OBVIOUS
<1> HIDE DEF q
<1>6. intent[t[1]] # Api!Nothing
  BY <1>3 DEF TryOK
<1>7. code = "unauthorized" => sent[t].proven = FALSE
  BY <1>3 DEF TryOK, Known, TryType
<1>8. Moved(t, p) /\ TryOK(p, intent[t[1]])
  BY <1>1, <1>2, <1>3, <1>4, <1>5, <1>6, <1>7 DEF TryOK, Known, Answers
<1> QED
  BY <1>8, MoveKeeps DEF ApiInv, Made

(* An answer of the service, which may have made something.                *)
LEMMA ServedKeeps ==
    ASSUME ApiInv, NEW t \in Api!Tries, NEW status \in {200, 400, 401, 404, 409, 500},
           Api!Served(t, status), sent[t].at = "handle", UNCHANGED <<intent, valid>>,
           created' \in [Intents -> Nat],
           \A i \in Intents : created'[i] \in {created[i], IF i = t[1] THEN created[i] + 1 ELSE created[i]}
    PROVE  ApiInv'
<1> DEFINE q == [at |-> "done", user |-> sent[t].user, status |-> status,
                 refused |-> sent[t].refused, served |-> TRUE, proven |-> sent[t].proven]
<1>1. Moved(t, q)
  BY ServedMoves DEF ApiInv
<1>2. sent[t] \in TryType /\ TryOK(sent[t], intent[t[1]])
  BY DEF ApiInv
<1>3. /\ q.at = "done" /\ q.user = sent[t].user /\ q.status = status
      /\ q.refused = sent[t].refused /\ q.served = TRUE /\ q.proven = sent[t].proven
      /\ q \in TryType
  BY <1>2 DEF TryType, Api!Stages
<1> HIDE DEF q
<1>4. PICK p : p = q
  OBVIOUS
<1>5. Moved(t, p) /\ TryOK(p, intent[t[1]]) /\ p.served = TRUE
  BY <1>1, <1>2, <1>3, <1>4 DEF TryOK, Known, Answers
<1>6. intent' = intent /\ valid' \in SUBSET Users /\ sent[t].at # "done"
  BY DEF ApiInv
<1>7. Made(t, p)
  BY <1>5 DEF Made
<1> QED
  BY <1>5, <1>6, <1>7, MoveKeeps

(* The answer to a preflight request.                                      *)
LEMMA WriteKeeps ==
    ASSUME ApiInv, NEW t \in Api!Tries, Api!Write(t, 204), sent[t].at = "cors",
           UNCHANGED <<intent, valid, created>>
    PROVE  ApiInv'
<1> DEFINE q == [at |-> "done", user |-> sent[t].user, status |-> 204,
                 refused |-> sent[t].refused, served |-> sent[t].served,
                 proven |-> sent[t].proven]
<1>1. sent[t] \in TryType /\ TryOK(sent[t], intent[t[1]])
  BY DEF ApiInv
<1>2. Moved(t, q)
  BY WriteMoves DEF ApiInv
<1>3. /\ q.at = "done" /\ q.user = sent[t].user /\ q.status = 204
      /\ q.refused = sent[t].refused /\ q.served = sent[t].served /\ q.proven = sent[t].proven
      /\ q \in TryType
  BY <1>1 DEF TryType, Api!Stages
<1> HIDE DEF q
<1>4. PICK p : p = q
  OBVIOUS
<1>5. Moved(t, p) /\ TryOK(p, intent[t[1]])
  BY <1>1, <1>2, <1>3, <1>4 DEF TryOK, Known, Answers
<1> QED
  BY <1>5, MoveKeeps DEF ApiInv, Made

(* No operation both wants a user and does not.                            *)
LEMMA PublicOrSecured == \A op \in Api!Public : op \notin Api!Secured
BY DEF Api!Public, Api!Secured

(* Nothing was asked yet.                                                  *)
LEMMA ApiBegins == Api!Init => ApiInv
<1> SUFFICES ASSUME Api!Init PROVE ApiInv
  OBVIOUS
<1>1. intent = [i \in Intents |-> Api!Nothing] /\ valid \in SUBSET Users
      /\ sent = [t \in Api!Tries |-> Api!Unsent] /\ created = [i \in Intents |-> 0]
  BY DEF Api!Init
<1>2. Api!Unsent \in TryType /\ \A a : TryOK(Api!Unsent, a)
  BY DEF Api!Unsent, TryType, TryOK, Known, Answers, Api!Stages
<1>3. \A t \in Api!Tries : t[1] \in Intents
  BY DEF Api!Tries
<1>4. \A i \in Intents : Cardinality(ServedTries(i)) \in Nat
  <2> SUFFICES ASSUME NEW i \in Intents PROVE Cardinality(ServedTries(i)) \in Nat
    OBVIOUS
  <2>1. IsFiniteSet(1..MaxTries) /\ ServedTries(i) \in SUBSET (1..MaxTries)
    BY FS_Interval, ApiAssumption DEF Api!TriesAssumption, ServedTries
  <2> QED
    BY <2>1, FS_Subset, FS_CardinalityType
<1> QED
  BY <1>1, <1>2, <1>3, <1>4 DEF ApiInv, AskType

(* AuthOptional knows a user exactly when the token is valid.              *)
LEMMA AuthKeeps ==
    ASSUME ApiInv, NEW t \in Api!Tries, Api!AuthOptional(t)
    PROVE  ApiInv'
<1>1. sent[t] \in TryType /\ TryOK(sent[t], intent[t[1]]) /\ sent[t].at = "auth"
      /\ UNCHANGED <<intent, valid, created>>
  BY DEF ApiInv, Api!AuthOptional
<1> DEFINE ok == intent[t[1]].token \in valid
           user == IF ok THEN intent[t[1]].token ELSE NoValue
<1>2. sent' = [sent EXCEPT ![t].at = "validate", ![t].proven = ok, ![t].user = user]
  BY DEF Api!AuthOptional, Api!Asked
<1>3. /\ ok \in BOOLEAN /\ user \in Users \cup {NoValue} /\ user \in {NoValue, intent[t[1]].token}
      /\ ok => user # NoValue
  BY ApiAssumption DEF Api!NoneAssumption, ApiInv
<1> HIDE DEF ok, user
<1>4. PICK b : b = ok
  OBVIOUS
<1>5. PICK u : u = user
  OBVIOUS
<1> DEFINE q == [at |-> "validate", user |-> u, status |-> sent[t].status,
                 refused |-> sent[t].refused, served |-> sent[t].served, proven |-> b]
<1>6. Moved(t, q)
  <2>1. Finds(t, b, u)
    BY <1>2, <1>4, <1>5 DEF Finds
  <2> QED
    <3>1. b \in BOOLEAN
      BY <1>3, <1>4
    <3>2. u \in Users \cup {NoValue} /\ sent \in [Api!Tries -> TryType]
      BY <1>3, <1>5 DEF ApiInv
    <3> QED
      BY <2>1, <3>1, <3>2, AuthMoves
<1>7. /\ q.at = "validate" /\ q.user = u /\ q.status = sent[t].status
      /\ q.refused = sent[t].refused /\ q.served = sent[t].served /\ q.proven = b
      /\ q \in TryType
  BY <1>1, <1>3, <1>4, <1>5 DEF TryType, Api!Stages
<1> HIDE DEF q
<1>8. PICK p : p = q
  OBVIOUS
<1>9. p.proven = TRUE => p.user # NoValue
  BY <1>3, <1>4, <1>5, <1>7, <1>8
<1>10. Moved(t, p) /\ TryOK(p, intent[t[1]])
  BY <1>1, <1>3, <1>5, <1>6, <1>7, <1>8, <1>9 DEF TryOK, Known, Answers
<1> QED
  BY <1>1, <1>10, MoveKeeps DEF ApiInv, Made

(* The validator lets a request pass with a user, if it wants one.         *)
LEMMA ValidateKeeps ==
    ASSUME ApiInv, NEW t \in Api!Tries, Api!Validate(t)
    PROVE  ApiInv'
<1> DEFINE a == intent[t[1]]
<1>1. sent[t] \in TryType /\ TryOK(sent[t], a) /\ sent[t].at = "validate"
      /\ UNCHANGED <<intent, valid, created>>
  BY DEF ApiInv, Api!Validate
<1>2. CASE a.op = "nowhere" /\ Api!Refuse(t, "not_found")
  BY <1>1, <1>2, RefuseKeeps
<1>3. CASE a.op \in Api!Secured /\ ~Api!Identified(t) /\ Api!Refuse(t, "unauthorized")
  <2>1. sent[t].user = NoValue
    BY <1>3 DEF Api!Identified
  <2> QED
    BY <1>1, <1>3, <2>1, RefuseKeeps
<1>4. CASE Api!Refuse(t, "validation")
  BY <1>1, <1>4, RefuseKeeps
<1>5. CASE /\ a.op \in Api!Secured => Api!Identified(t)
           /\ sent' = [sent EXCEPT ![t].at = "bind",
                         ![t].user = IF a.op \in Api!Secured THEN a.token ELSE sent[t].user]
  <2> DEFINE user == IF a.op \in Api!Secured THEN a.token ELSE sent[t].user
  <2>1. a # Api!Nothing /\ a \in AskType
    <3>1. t[1] \in Intents
      BY DEF Api!Tries
    <3> QED
      BY <1>1, <3>1 DEF TryOK, ApiInv
  <2>2. a.token \in Users \cup {NoValue}
    BY <2>1 DEF AskType
  <2>3. a.op \in Api!Secured => a.token # NoValue
    <3>1. sent[t].user # NoValue => a.token # NoValue
      BY <1>1 DEF TryOK, Known
    <3>2. a.token \in valid => a.token # NoValue
      BY ApiAssumption DEF Api!NoneAssumption, ApiInv
    <3> QED
      BY <1>5, <3>1, <3>2 DEF Api!Identified, Api!Asked
  <2>4. /\ user \in Users \cup {NoValue} /\ user \in {NoValue, a.token}
        /\ a.op \in Api!Secured => user # NoValue
    BY <1>1, <2>2, <2>3 DEF TryOK, Known, TryType
  <2>5. sent' = [sent EXCEPT ![t].at = "bind", ![t].user = user]
    BY <1>5
  <2> HIDE DEF user, a
  <2>6. PICK u : u = user
    OBVIOUS
  <2> DEFINE q == [at |-> "bind", user |-> u, status |-> sent[t].status,
                   refused |-> sent[t].refused, served |-> sent[t].served,
                   proven |-> sent[t].proven]
  <2>7. Moved(t, q)
    <3>1. Confirms(t, u)
      BY <2>5, <2>6 DEF Confirms
    <3> QED
      <4>1. u \in Users \cup {NoValue} /\ sent \in [Api!Tries -> TryType]
        BY <2>4, <2>6 DEF ApiInv
      <4> QED
        BY <3>1, <4>1, ValidMoves
  <2>8. /\ q.at = "bind" /\ q.user = u /\ q.status = sent[t].status
        /\ q.refused = sent[t].refused /\ q.served = sent[t].served /\ q.proven = sent[t].proven
        /\ q \in TryType
    BY <1>1, <2>4, <2>6 DEF TryType, Api!Stages
  <2> HIDE DEF q
  <2>9. PICK p : p = q
    OBVIOUS
  <2>10. Moved(t, p) /\ TryOK(p, a)
    BY <1>1, <2>1, <2>4, <2>6, <2>7, <2>8, <2>9 DEF TryOK, Known, Answers
  <2> QED
    BY <1>1, <2>10, MoveKeeps DEF ApiInv, Made, a
<1>6. CASE /\ a.op \in Api!Public \/ (a.op \in Api!Secured /\ Api!Identified(t))
           /\ a.shape # "schema"
           /\ sent' = [sent EXCEPT ![t].at = "bind",
                         ![t].user = IF a.op \in Api!Secured THEN a.token ELSE @]
  <2>1. a.op \in Api!Secured => Api!Identified(t)
    BY <1>6, PublicOrSecured
  <2>2. sent' = [sent EXCEPT ![t].at = "bind",
                   ![t].user = IF a.op \in Api!Secured THEN a.token ELSE sent[t].user]
    BY <1>1, <1>6 DEF ApiInv, TryType
  <2> QED
    BY <1>5, <2>1, <2>2
<1> QED
  BY <1>2, <1>3, <1>4, <1>6 DEF Api!Validate, Api!Asked

(* The handler serves what it has a user for, or refuses.                  *)
LEMMA HandlerKeeps ==
    ASSUME ApiInv, NEW t \in Api!Tries,
           Api!HandlerRefuses(t) \/ Api!HandlerSucceeds(t) \/ Api!HandlerFails(t)
    PROVE  ApiInv'
<1> DEFINE a == intent[t[1]]
<1>1. t[1] \in Intents /\ created \in [Intents -> Nat]
  BY DEF Api!Tries, ApiInv
<1>2. CASE Api!HandlerRefuses(t)
  <2>1. sent[t].at = "handle" /\ TryOK(sent[t], a)
    BY <1>2 DEF Api!HandlerRefuses, ApiInv
  <2>2. a.op \in Api!Secured => sent[t].user # NoValue
    BY <2>1 DEF TryOK, Known
  <2>3. Api!Refuse(t, "validation") /\ UNCHANGED <<intent, valid, created>>
    BY <1>2, <2>2 DEF Api!HandlerRefuses, Api!Asked
  <2> QED
    BY <2>1, <2>3, RefuseKeeps
<1>3. CASE Api!HandlerSucceeds(t)
  <2>1. PICK status \in {200, 500} : Api!Served(t, status)
    BY <1>3 DEF Api!HandlerSucceeds
  <2>2. created' = [created EXCEPT ![t[1]] = created[t[1]]
                                    + (IF a.op \in Api!Creates THEN 1 ELSE 0)]
    BY <1>3 DEF Api!HandlerSucceeds, Api!Asked
  <2>3. PICK k \in {0, 1} : created' = [created EXCEPT ![t[1]] = created[t[1]] + k]
    BY <2>2
  <2>4. /\ created' \in [Intents -> Nat]
        /\ \A i \in Intents : created'[i] \in {created[i], IF i = t[1] THEN created[i] + 1 ELSE created[i]}
    BY <1>1, <2>3
  <2>5. sent[t].at = "handle" /\ UNCHANGED <<intent, valid>>
    BY <1>3 DEF Api!HandlerSucceeds
  <2> QED
    BY <2>1, <2>4, <2>5, ServedKeeps
<1>4. CASE Api!HandlerFails(t)
  <2>1. PICK code \in Api!ErrorsOf(a.op) : Api!Served(t, Api!StatusFromCode[code])
    BY <1>4 DEF Api!HandlerFails, Api!Asked
  <2>2. Api!StatusFromCode[code] \in {400, 401, 404, 409, 500}
    BY <2>1, ErrorStatuses
  <2>3. sent[t].at = "handle" /\ UNCHANGED <<intent, valid>> /\ created' = created
    BY <1>4 DEF Api!HandlerFails
  <2>4. PICK status : status = Api!StatusFromCode[code]
    OBVIOUS
  <2>5. \A i \in Intents : created'[i] \in {created[i], IF i = t[1] THEN created[i] + 1 ELSE created[i]}
    BY <2>3
  <2> QED
    BY <1>1, <2>1, <2>2, <2>3, <2>4, <2>5, ServedKeeps
<1> QED
  BY <1>2, <1>3, <1>4

(* Every step of the chain keeps the invariant.                            *)
LEMMA ApiKeeps ==
    ASSUME ApiInv, [Api!Next]_apiVars
    PROVE  ApiInv'
<1>1. CASE UNCHANGED apiVars
  BY <1>1 DEF apiVars, ApiInv, ServedTries
<1>2. ASSUME NEW i \in Intents, NEW op \in Api!Operations,
             NEW token \in Users \cup {NoValue}, NEW shape \in Api!Shapes,
             Api!Send(i, op, token, shape)
      PROVE  ApiInv'
  BY <1>2, SendKeeps
<1>3. ASSUME NEW i \in Intents, NEW n \in 2..MaxTries, Api!Resend(i, n)
      PROVE  ApiInv'
  <2>1. n \in 1..MaxTries /\ n - 1 \in 1..MaxTries
    BY ApiAssumption DEF Api!TriesAssumption
  <2>2. PICK t : t = <<i, n>>
    OBVIOUS
  <2>3. t \in Api!Tries /\ <<i, n - 1>> \in Api!Tries /\ t[1] = i
    BY <2>1, <2>2 DEF Api!Tries
  <2>4. sent[t].at = "unsent" /\ Api!GoOn(t, "cors") /\ UNCHANGED <<intent, valid, created>>
    BY <1>3, <2>2 DEF Api!Resend
  <2>5. intent[i] # Api!Nothing
    BY <1>3, <2>3 DEF Api!Resend, ApiInv, TryOK
  <2> QED
    BY <2>3, <2>4, <2>5, GoOnKeeps
<1>4. ASSUME NEW u \in Users, Api!TokenExpires(u)
      PROVE  ApiInv'
  BY <1>4 DEF Api!TokenExpires, ApiInv, ServedTries
<1>5. ASSUME NEW t \in Api!Tries, Api!CORS(t) PROVE ApiInv'
  <2>1. sent[t].at = "cors" /\ UNCHANGED <<intent, valid, created>>
    BY <1>5 DEF Api!CORS
  <2>2. CASE Api!GoOn(t, "limit")
    BY <2>1, <2>2, GoOnKeeps
  <2>3. CASE Api!Write(t, 204)
    BY <2>1, <2>3, WriteKeeps
  <2> QED
    BY <1>5, <2>2, <2>3 DEF Api!CORS
<1>6. ASSUME NEW t \in Api!Tries, Api!RateLimit(t) PROVE ApiInv'
  <2>1. sent[t].at = "limit" /\ UNCHANGED <<intent, valid, created>>
    BY <1>6 DEF Api!RateLimit
  <2>2. CASE Api!GoOn(t, "auth")
    BY <2>1, <2>2, GoOnKeeps
  <2>3. CASE Api!Refuse(t, "rate_limited")
    BY <2>1, <2>3, RefuseKeeps
  <2> QED
    BY <1>6, <2>2, <2>3 DEF Api!RateLimit
<1>7. ASSUME NEW t \in Api!Tries, Api!Bind(t) PROVE ApiInv'
  <2>1. sent[t].at = "bind" /\ UNCHANGED <<intent, valid, created>>
    BY <1>7 DEF Api!Bind
  <2>2. CASE Api!GoOn(t, "handle")
    BY <2>1, <2>2, GoOnKeeps
  <2>3. CASE Api!Refuse(t, "validation")
    BY <2>1, <2>3, RefuseKeeps
  <2> QED
    BY <1>7, <2>2, <2>3 DEF Api!Bind
<1> QED
  BY <1>1, <1>2, <1>3, <1>4, <1>5, <1>6, <1>7, AuthKeeps, ValidateKeeps, HandlerKeeps DEF Api!Next

(* What RefusalsAgree says of a state.                                     *)
LEMMA ApiAgrees == ApiInv => RefusalsAgree
<1> SUFFICES ASSUME ApiInv, NEW t \in Api!Tries
             PROVE  /\ ~(sent[t].refused /\ sent[t].served)
                    /\ sent[t].proven /\ sent[t].refused => sent[t].status # 401
                    /\ sent[t].refused /\ sent[t].status = 401 => intent[t[1]].op \in Api!Secured
  BY DEF RefusalsAgree, Api!RefusedIsNotServed, Api!ValidTokenSuffices,
         Api!StaleTokenDoesNotHurt, Api!Asked
<1>1. sent[t] \in TryType /\ Answers(sent[t], intent[t[1]])
  BY DEF ApiInv, TryOK
<1>2. /\ sent[t].refused = TRUE \/ sent[t].refused = FALSE
      /\ sent[t].served = TRUE \/ sent[t].served = FALSE
      /\ sent[t].proven = TRUE \/ sent[t].proven = FALSE
  BY <1>1 DEF TryType
<1> QED
  BY <1>1, <1>2 DEF Answers

(* The types of the chain: nothing is made more often than it is asked for. *)
LEMMA ApiTyped == ApiInv => Api!TypeOK
<1> SUFFICES ASSUME ApiInv PROVE Api!TypeOK
  OBVIOUS
<1>1. intent \in [Intents -> {Api!Nothing} \cup
                    [op : Api!Operations, token : Users \cup {NoValue}, shape : Api!Shapes]]
      /\ valid \subseteq Users
  BY DEF ApiInv, AskType
<1>2. ASSUME NEW t \in Api!Tries
      PROVE  /\ sent[t].at \in Api!Stages
             /\ sent[t].user \in Users \cup {NoValue}
             /\ sent[t].status \in {0, 200, 204, 400, 401, 403, 404, 409, 429, 500}
             /\ sent[t].at = "done" => sent[t].status # 0
             /\ sent[t].refused \in BOOLEAN /\ sent[t].served \in BOOLEAN
             /\ sent[t].proven \in BOOLEAN
  <2>1. sent[t] \in TryType /\ Answers(sent[t], intent[t[1]])
    BY DEF ApiInv, TryOK
  <2> QED
    BY <2>1 DEF TryType, Answers
<1>3. ASSUME NEW i \in Intents PROVE created[i] \in 0..MaxTries
  <2>1. MaxTries \in Nat /\ IsFiniteSet(1..MaxTries) /\ Cardinality(1..MaxTries) = MaxTries
    BY FS_Interval, ApiAssumption DEF Api!TriesAssumption
  <2>2. ServedTries(i) \in SUBSET (1..MaxTries)
    BY DEF ServedTries
  <2>3. Cardinality(ServedTries(i)) \in Nat /\ Cardinality(ServedTries(i)) <= MaxTries
    BY <2>1, <2>2, FS_Subset, FS_CardinalityType
  <2>4. created[i] \in Nat /\ created[i] <= Cardinality(ServedTries(i))
    BY DEF ApiInv
  <2> QED
    BY <2>1, <2>3, <2>4
<1>4. created \in [Intents -> 0..MaxTries]
  BY <1>3 DEF ApiInv
<1> QED
  BY <1>1, <1>2, <1>4 DEF Api!TypeOK

-----------------------------------------------------------------------------
(* The buckets.                                                            *)

EntryType == [limiter : Limiters \cup {NoValue}, lastSeen : 0..MaxTime]
AskerType == [pc : {"idle", "get", "allow"}, client : Clients \cup {NoValue},
              clock : 0..MaxTime, limiter : Limiters \cup {NoValue}]

BucketTypes ==
    /\ now \in 0..MaxTime /\ lastCleanup \in 0..MaxTime
    /\ clients \in [Clients -> EntryType]
    /\ bucket \in [Limiters -> 0..Burst] /\ fair \in [Clients -> 0..Burst]
    /\ limited \in [Slots -> AskerType]

(* No two clients have one limiter.                                        *)
OwnLimiters ==
    \A c, d \in Clients : clients[c].limiter = clients[d].limiter
                             => c = d \/ clients[c].limiter = NoValue

(* A clock is read at most MaxStall before its token is asked for, and the *)
(* limiter that a request holds is still that of its client: an entry that *)
(* was used so lately is not dropped.                                      *)
Asker(r) ==
    /\ limited[r].pc = "idle" => limited[r].limiter = NoValue
    /\ limited[r].pc # "idle" => /\ limited[r].client \in Clients
                                 /\ limited[r].clock <= now
                                 /\ now <= limited[r].clock + MaxStall
    /\ limited[r].pc = "get" => limited[r].limiter = NoValue
    /\ limited[r].pc = "allow" =>
          /\ limited[r].limiter # NoValue
          /\ clients[limited[r].client].limiter = limited[r].limiter
          /\ limited[r].clock <= clients[limited[r].client].lastSeen + MaxStall

(* What is filled in so long.                                              *)
Refill(n) == Rate * n

(* The bucket of an entry holds what one that is never dropped would, and  *)
(* grows from two times MaxStall after lastSeen on, when the last of its   *)
(* requests is over; a client without an entry would have a full one.      *)
Entry(c) ==
    /\ clients[c].limiter = NoValue => fair[c] = Burst
    /\ clients[c].limiter # NoValue =>
          /\ bucket[clients[c].limiter] = fair[c]
          /\ \/ now <= clients[c].lastSeen + 2 * MaxStall
             \/ fair[c] = Burst
             \/ fair[c] >= Refill(now - (clients[c].lastSeen + 2 * MaxStall))
          /\ clients[c].lastSeen <= now
          /\ lastCleanup <= clients[c].lastSeen + EntryTTL

BucketInv ==
    /\ BucketTypes /\ OwnLimiters /\ lastCleanup <= now
    /\ \A r \in Slots : Asker(r)
    /\ \A c \in Clients : Entry(c)

(* The constants.                                                          *)
LEMMA BucketConstants ==
    /\ Rate \in Nat \ {0} /\ Burst \in Nat \ {0} /\ MaxTime \in Nat
    /\ EntryTTL \in Nat /\ MaxStall \in Nat /\ EntryTTL > 2 * MaxStall /\ MaxTime > EntryTTL
    /\ Refill(EntryTTL + 1 - 2 * MaxStall) >= Burst
    /\ NoValue \notin Limiters
BY BucketAssumption DEF Bucket!LimitAssumption, Bucket!LimiterAssumption,
       Bucket!TTLAssumption, Bucket!TimeAssumption, Refill

(* A bucket gains Rate for each unit of time.                              *)
LEMMA RefillSteps ==
    /\ \A n \in Nat : Refill(n) \in Nat /\ Refill(n + 1) = Refill(n) + Rate
    /\ \A m, n \in Nat : m <= n => Refill(m) <= Refill(n)
    /\ Refill(1) = Rate /\ Refill(0) = 0
<1>1. Rate \in Nat
  BY BucketConstants
<1>2. \A n \in Nat : Rate * n \in Nat /\ Rate * (n + 1) = Rate * n + Rate
  BY <1>1
<1>3. ASSUME NEW m \in Nat, NEW n \in Nat, m <= n
      PROVE  Rate * m <= Rate * n
  <2>1. n - m \in Nat
    BY <1>3
  <2>2. Rate * n = Rate * m + Rate * (n - m)
    BY <1>1, <2>1
  <2>3. Rate * m \in Nat /\ Rate * (n - m) \in Nat
    BY <1>2, <2>1
  <2> QED
    BY <2>2, <2>3
<1> QED
  BY <1>1, <1>2, <1>3 DEF Refill

(* There is a limiter that nobody can reach.                               *)
LEMMA LimiterLeft ==
    ASSUME BucketTypes
    PROVE  \E l \in Limiters : Bucket!Unreachable(l)
<1> SUFFICES ASSUME \A l \in Limiters : ~Bucket!Unreachable(l) PROVE FALSE
  OBVIOUS
<1> DEFINE Kept == {clients[c].limiter : c \in Clients}
           Held == {limited[r].limiter : r \in Slots}
<1>1. /\ IsFiniteSet(Clients) /\ IsFiniteSet(Slots) /\ IsFiniteSet(Limiters)
      /\ Cardinality(Limiters) > Cardinality(Clients) + Cardinality(Slots)
  BY BucketAssumption, Zenon
  DEF Bucket!LimiterAssumption, Bucket!IsFiniteSet, IsFiniteSet, Bucket!Cardinality, Cardinality
<1>2. IsFiniteSet(Kept) /\ Cardinality(Kept) <= Cardinality(Clients)
  <2> DEFINE f == [c \in Clients |-> clients[c].limiter]
  <2>1. f \in Surjection(Clients, Kept)
    BY DEF Surjection
  <2> QED
    BY <1>1, <2>1, FS_Surjection
<1>3. IsFiniteSet(Held) /\ Cardinality(Held) <= Cardinality(Slots)
  <2> DEFINE f == [r \in Slots |-> limited[r].limiter]
  <2>1. f \in Surjection(Slots, Held)
    BY DEF Surjection
  <2> QED
    BY <1>1, <2>1, FS_Surjection
<1>4. Limiters \in SUBSET (Kept \cup Held)
  BY DEF Bucket!Unreachable
<1> HIDE DEF Kept, Held
<1>5. /\ IsFiniteSet(Kept \cup Held)
      /\ Cardinality(Kept \cup Held) = Cardinality(Kept) + Cardinality(Held)
                                        - Cardinality(Kept \cap Held)
  BY <1>2, <1>3, FS_Union
<1>6. Cardinality(Limiters) <= Cardinality(Kept \cup Held)
  BY <1>4, <1>5, FS_Subset
<1>7. IsFiniteSet(Kept \cap Held)
  <2>1. Kept \cap Held \in SUBSET Kept
    OBVIOUS
  <2> QED
    BY <1>2, <2>1, FS_Subset
<1>8. /\ Cardinality(Clients) \in Nat /\ Cardinality(Slots) \in Nat
      /\ Cardinality(Limiters) \in Nat /\ Cardinality(Kept) \in Nat
      /\ Cardinality(Held) \in Nat /\ Cardinality(Kept \cap Held) \in Nat
  BY <1>1, <1>2, <1>3, <1>7, FS_CardinalityType
<1> QED
  BY <1>1, <1>2, <1>3, <1>5, <1>6, <1>8

(* The limiter that a request gets.                                        *)
LEMMA LimiterSeen ==
    ASSUME BucketTypes, NEW c \in Clients, NEW clock
    PROVE  /\ Bucket!Seen(c, clock) = [limiter |-> Bucket!Seen(c, clock).limiter,
                                       lastSeen |-> clock]
           /\ Bucket!Seen(c, clock).limiter \in Limiters
           /\ \/ /\ clients[c].limiter # NoValue
                 /\ Bucket!Seen(c, clock).limiter = clients[c].limiter
              \/ /\ clients[c].limiter = NoValue
                 /\ Bucket!Unreachable(Bucket!Seen(c, clock).limiter)
<1> DEFINE new == CHOOSE l \in Limiters : Bucket!Unreachable(l)
<1>1. new \in Limiters /\ Bucket!Unreachable(new)
  BY LimiterLeft, Zenon
<1>2. Bucket!Seen(c, clock) =
         [limiter |-> IF clients[c].limiter = NoValue THEN new ELSE clients[c].limiter,
          lastSeen |-> clock]
  BY DEF Bucket!Seen
<1> HIDE DEF new
<1>3. clients[c].limiter \in Limiters \cup {NoValue}
  BY DEF BucketTypes, EntryType
<1> QED
  BY <1>1, <1>2, <1>3

(* The server starts with no clients.                                      *)
LEMMA BucketBegins == Bucket!Init => BucketInv
<1> SUFFICES ASSUME Bucket!Init PROVE BucketInv
  OBVIOUS
<1> USE BucketConstants
<1>1. /\ now = EntryTTL + 1 /\ lastCleanup = 0
      /\ clients = [c \in Clients |-> [limiter |-> NoValue, lastSeen |-> 0]]
      /\ bucket = [l \in Limiters |-> 0] /\ fair = [c \in Clients |-> Burst]
      /\ limited = [r \in Slots |->
                       [pc |-> "idle", client |-> NoValue, clock |-> 0, limiter |-> NoValue]]
  BY DEF Bucket!Init, Bucket!NoEntry, Bucket!Idle
<1>2. BucketTypes
  BY <1>1 DEF BucketTypes, EntryType, AskerType
<1>3. OwnLimiters
  BY <1>1 DEF OwnLimiters
<1>4. \A r \in Slots : Asker(r)
  BY <1>1 DEF Asker
<1>5. \A c \in Clients : Entry(c)
  BY <1>1 DEF Entry
<1> QED
  BY <1>1, <1>2, <1>3, <1>4, <1>5 DEF BucketInv

(* A request reads the clock.                                              *)
LEMMA ClockKeeps ==
    ASSUME BucketInv, NEW r \in Slots, NEW c \in Clients, Bucket!RateLimit(r, c)
    PROVE  BucketInv'
<1> USE BucketConstants
<1> DEFINE q == [pc |-> "get", client |-> c, clock |-> now, limiter |-> NoValue]
<1>1. limited' = [limited EXCEPT ![r] = q]
  <2> DEFINE e == [Bucket!Idle EXCEPT !.pc = "get", !.client = c, !.clock = now]
  <2>1. e \in AskerType
    <3>1. Bucket!Idle \in AskerType
      BY DEF Bucket!Idle, AskerType
    <3>2. now \in 0..MaxTime
      BY DEF BucketInv, BucketTypes
    <3> QED
      BY <3>1, <3>2 DEF AskerType
  <2>2. e.pc = "get" /\ e.client = c /\ e.clock = now /\ e.limiter = NoValue
    BY DEF Bucket!Idle
  <2>3. limited' = [limited EXCEPT ![r] = e]
    BY DEF Bucket!RateLimit
  <2> HIDE DEF e
  <2>4. e = q
    BY <2>1, <2>2 DEF AskerType
  <2> QED
    BY <2>3, <2>4
<1>2. UNCHANGED <<now, clients, lastCleanup, bucket, fair>>
  BY DEF Bucket!RateLimit
<1>3. q \in AskerType
  BY DEF BucketInv, BucketTypes, AskerType
<1>4. \A u \in Slots : limited'[u] = IF u = r THEN q ELSE limited[u]
  BY <1>1 DEF BucketInv, BucketTypes
<1>5. BucketTypes'
  BY <1>1, <1>2, <1>3 DEF BucketInv, BucketTypes
<1>6. \A u \in Slots : Asker(u)'
  <2> SUFFICES ASSUME NEW u \in Slots PROVE Asker(u)'
    OBVIOUS
  <2>1. CASE u = r
    <3>1. limited'[u].pc = "get" /\ limited'[u].client = c /\ limited'[u].clock = now
          /\ limited'[u].limiter = NoValue
      BY <1>4, <2>1
    <3> QED
      BY <1>2, <3>1 DEF Asker, BucketInv, BucketTypes
  <2>2. CASE u # r
    BY <1>2, <1>4, <2>2 DEF Asker, BucketInv
  <2> QED
    BY <2>1, <2>2
<1>7. OwnLimiters' /\ \A d \in Clients : Entry(d)'
  BY <1>2 DEF OwnLimiters, Entry, BucketInv
<1> QED
  BY <1>2, <1>5, <1>6, <1>7 DEF BucketInv

(* A request ends: nobody asks in its slot any more.                       *)
LEMMA AskerEnds ==
    ASSUME BucketInv, NEW r \in Slots, limited' = [limited EXCEPT ![r] = Bucket!Idle],
           UNCHANGED <<now, clients>>
    PROVE  /\ limited' \in [Slots -> AskerType]
           /\ \A u \in Slots : Asker(u)'
<1> USE BucketConstants
<1> DEFINE q == [pc |-> "idle", client |-> NoValue, clock |-> 0, limiter |-> NoValue]
<1>1. limited' = [limited EXCEPT ![r] = q] /\ q \in AskerType
  BY DEF Bucket!Idle, AskerType
<1>2. \A u \in Slots : limited'[u] = IF u = r THEN q ELSE limited[u]
  BY <1>1 DEF BucketInv, BucketTypes
<1>3. \A u \in Slots : Asker(u)'
  BY <1>2 DEF Asker, BucketInv
<1> QED
  BY <1>1, <1>3 DEF BucketInv, BucketTypes

(* A token is taken from the bucket of the client, and from no other: at a *)
(* time that is at most two times MaxStall after lastSeen.                 *)
LEMMA AllowKeeps ==
    ASSUME BucketInv, NEW r \in Slots, Bucket!Allow(r)
    PROVE  /\ BucketInv'
           /\ fair' # fair
<1> USE BucketConstants
<1> DEFINE c == limited[r].client
           l == limited[r].limiter
<1>1. /\ c \in Clients /\ l # NoValue /\ clients[c].limiter = l
      /\ limited[r].clock <= clients[c].lastSeen + MaxStall /\ now <= limited[r].clock + MaxStall
  BY DEF Bucket!Allow, BucketInv, Asker
<1>2. l \in Limiters /\ bucket[l] > 0 /\ bucket[l] = fair[c]
      /\ bucket[l] \in 0..Burst /\ fair[c] \in 0..Burst
  BY <1>1 DEF Bucket!Allow, BucketInv, BucketTypes, Entry, EntryType
<1>3. /\ bucket' = [bucket EXCEPT ![l] = bucket[l] - 1]
      /\ fair' = [fair EXCEPT ![c] = fair[c] - 1]
      /\ limited' = [limited EXCEPT ![r] = Bucket!Idle]
      /\ UNCHANGED <<now, clients, lastCleanup>>
  BY DEF Bucket!Allow
<1>4. now <= clients[c].lastSeen + 2 * MaxStall
  <2>1. limited[r].clock \in Nat /\ now \in Nat /\ clients[c].lastSeen \in Nat
    BY <1>1 DEF BucketInv, BucketTypes, AskerType, EntryType
  <2> QED
    BY <1>1, <2>1
<1> HIDE DEF c, l
<1>5. BucketTypes'
  <2>1. bucket' \in [Limiters -> 0..Burst] /\ fair' \in [Clients -> 0..Burst]
    BY <1>1, <1>2, <1>3 DEF BucketInv, BucketTypes
  <2> QED
    BY <1>3, <2>1, AskerEnds DEF BucketInv, BucketTypes
<1>6. ASSUME NEW d \in Clients PROVE Entry(d)'
  <2>1. CASE d = c
    <3>1. bucket'[l] = bucket[l] - 1 /\ fair'[c] = fair[c] - 1
      BY <1>1, <1>2, <1>3 DEF BucketInv, BucketTypes
    <3>2. Entry(c)
      BY <1>1 DEF BucketInv
    <3> QED
      BY <1>1, <1>2, <1>3, <1>4, <2>1, <3>1, <3>2 DEF Entry
  <2>2. CASE d # c
    <3>1. clients[d].limiter # l
      BY <1>1, <2>2 DEF BucketInv, OwnLimiters
    <3>2. fair'[d] = fair[d] /\ bucket'[clients[d].limiter] = bucket[clients[d].limiter]
      BY <1>3, <2>2, <3>1 DEF BucketInv, BucketTypes
    <3> QED
      BY <1>3, <3>2 DEF Entry, BucketInv
  <2> QED
    BY <2>1, <2>2
<1>7. OwnLimiters' /\ lastCleanup' <= now'
  BY <1>3 DEF OwnLimiters, BucketInv
<1>8. fair'[c] # fair[c]
  BY <1>1, <1>2, <1>3 DEF BucketInv, BucketTypes
<1> QED
  BY <1>3, <1>5, <1>6, <1>7, <1>8, AskerEnds DEF BucketInv

(* Nothing is taken.                                                       *)
LEMMA TooManyKeeps ==
    ASSUME BucketInv, NEW r \in Slots, Bucket!TooManyRequests(r)
    PROVE  BucketInv'
<1>1. /\ limited' = [limited EXCEPT ![r] = Bucket!Idle]
      /\ UNCHANGED <<now, clients, lastCleanup, bucket, fair>>
  BY DEF Bucket!TooManyRequests
<1>2. limited' \in [Slots -> AskerType] /\ \A u \in Slots : Asker(u)'
  BY <1>1, AskerEnds
<1> QED
  BY <1>1, <1>2 DEF BucketInv, BucketTypes, OwnLimiters, Entry

(* Time fills both buckets of a client alike.                              *)
LEMMA TickKeeps ==
    ASSUME BucketInv, Bucket!Tick
    PROVE  BucketInv'
<1> USE BucketConstants
<1>1. /\ now < MaxTime /\ now' = now + 1 /\ now \in Nat
      /\ bucket' = [l \in Limiters |-> IF Bucket!Unreachable(l) THEN 0
                                       ELSE Bucket!Refilled(bucket[l])]
      /\ fair' = [c \in Clients |-> Bucket!Refilled(fair[c])]
      /\ UNCHANGED <<clients, lastCleanup, limited>>
  BY DEF Bucket!Tick, BucketInv, BucketTypes
<1>2. \A n \in 0..Burst : /\ Bucket!Refilled(n) \in 0..Burst
                          /\ Bucket!Refilled(n) = Burst \/ Bucket!Refilled(n) = n + Rate
                          /\ Bucket!Refilled(Burst) = Burst
  BY DEF Bucket!Refilled
<1>3. BucketTypes'
  <2>1. bucket' \in [Limiters -> 0..Burst] /\ fair' \in [Clients -> 0..Burst]
    BY <1>1, <1>2 DEF BucketInv, BucketTypes
  <2>2. now' \in 0..MaxTime
    BY <1>1
  <2> QED
    BY <1>1, <2>1, <2>2 DEF BucketInv, BucketTypes
<1>4. ASSUME NEW r \in Slots PROVE Asker(r)'
  <2>1. limited[r].clock \in Nat
    BY DEF BucketInv, BucketTypes, AskerType
  <2>2. limited[r].pc # "idle" => now - limited[r].clock < MaxStall
    BY DEF Bucket!Tick
  <2> QED
    BY <1>1, <2>1, <2>2 DEF BucketInv, Asker
<1>5. ASSUME NEW c \in Clients PROVE Entry(c)'
  <2> DEFINE l == clients[c].limiter
             seen == clients[c].lastSeen
  <2>1. seen \in Nat /\ l \in Limiters \cup {NoValue} /\ fair[c] \in 0..Burst /\ Entry(c)
    BY DEF BucketInv, BucketTypes, EntryType
  <2>2. fair'[c] = Bucket!Refilled(fair[c])
    BY <1>1
  <2>3. CASE l = NoValue
    BY <1>1, <1>2, <2>1, <2>2, <2>3 DEF Entry
  <2>4. CASE l # NoValue
    <3>1. ~Bucket!Unreachable(l)
      BY DEF Bucket!Unreachable
    <3>2. bucket'[l] = fair'[c]
      BY <1>1, <2>1, <2>2, <2>4, <3>1 DEF Entry
    <3>3. \/ now' <= seen + 2 * MaxStall
          \/ fair'[c] = Burst
          \/ fair'[c] >= Refill(now' - (seen + 2 * MaxStall))
      <4>1. CASE now < seen + 2 * MaxStall
        BY <1>1, <2>1, <4>1
      <4>2. CASE now = seen + 2 * MaxStall
        <5>1. now' - (seen + 2 * MaxStall) = 1
          BY <1>1, <2>1, <4>2
        <5> QED
          BY <1>2, <2>1, <2>2, <5>1, RefillSteps
      <4>3. CASE fair[c] = Burst
        BY <1>2, <2>2, <4>3
      <4>4. CASE now > seen + 2 * MaxStall /\ fair[c] >= Refill(now - (seen + 2 * MaxStall))
        <5> DEFINE n == now - (seen + 2 * MaxStall)
        <5>1. n \in Nat /\ now' - (seen + 2 * MaxStall) = n + 1
          BY <1>1, <2>1, <4>4
        <5>2. fair[c] >= Refill(n)
          BY <4>4
        <5> HIDE DEF n
        <5>3. Refill(n + 1) = Refill(n) + Rate /\ Refill(n) \in Nat
          BY <5>1, RefillSteps
        <5> QED
          BY <1>2, <2>1, <2>2, <5>1, <5>2, <5>3
      <4> QED
        BY <1>1, <2>1, <2>4, <4>1, <4>2, <4>3, <4>4 DEF Entry
    <3>4. seen <= now'
      BY <1>1, <2>1, <2>4 DEF Entry
    <3> QED
      BY <1>1, <2>1, <2>4, <3>2, <3>3, <3>4 DEF Entry
  <2> QED
    BY <2>3, <2>4
<1>6. OwnLimiters' /\ lastCleanup' <= now'
  BY <1>1 DEF OwnLimiters, BucketInv, BucketTypes
<1> QED
  BY <1>3, <1>4, <1>5, <1>6 DEF BucketInv

(* What Get writes: the entry of the client, which is not dropped, with a  *)
(* limiter of its own; and the others stay or go.                          *)
LEMMA GetWrites ==
    ASSUME BucketInv, NEW r \in Slots, Bucket!Get(r)
    PROVE  LET c == limited[r].client
               k == limited[r].clock
               l == Bucket!Seen(c, k).limiter
           IN  /\ c \in Clients /\ l \in Limiters
               /\ clients' \in [Clients -> EntryType]
               /\ clients'[c] = [limiter |-> l, lastSeen |-> k]
               /\ \A d \in Clients : d # c =>
                     \/ clients'[d] = clients[d]
                     \/ /\ clients'[d] = [limiter |-> NoValue, lastSeen |-> 0]
                        /\ k > clients[d].lastSeen + EntryTTL
               /\ k > lastCleanup + EntryTTL =>
                     \A d \in Clients : clients'[d].limiter # NoValue =>
                         k <= clients'[d].lastSeen + EntryTTL
               /\ bucket' = IF l = clients[c].limiter THEN bucket ELSE [bucket EXCEPT ![l] = Burst]
               /\ limited' = [limited EXCEPT ![r] = [pc |-> "allow", client |-> c, clock |-> k,
                                                     limiter |-> l]]
               /\ lastCleanup' = IF k > lastCleanup + EntryTTL THEN k ELSE lastCleanup
               /\ UNCHANGED <<now, fair>>
<1> USE BucketConstants
<1> DEFINE c == limited[r].client
           k == limited[r].clock
           e == Bucket!Seen(c, k)
           l == e.limiter
           seen == [clients EXCEPT ![c] = e]
           none == [limiter |-> NoValue, lastSeen |-> 0]
<1>1. c \in Clients /\ k \in 0..MaxTime
  BY DEF Bucket!Get, BucketInv, BucketTypes, Asker, AskerType
<1>2. e = [limiter |-> l, lastSeen |-> k] /\ l \in Limiters
  BY <1>1, LimiterSeen DEF BucketInv
<1>3. /\ clients' = Bucket!Cleaned(seen, k) /\ lastCleanup' = Bucket!CleanedAt(k)
      /\ bucket' = IF l = clients[c].limiter THEN bucket ELSE [bucket EXCEPT ![l] = Burst]
      /\ UNCHANGED <<now, fair>>
  BY DEF Bucket!Get
<1>4. limited' = [limited EXCEPT ![r].pc = "allow", ![r].limiter = l]
  BY DEF Bucket!Get
<1>5. limited' = [limited EXCEPT ![r] = [pc |-> "allow", client |-> c, clock |-> k, limiter |-> l]]
  <2> DEFINE q == [limited[r] EXCEPT !.pc = "allow", !.limiter = l]
  <2>1. limited[r] \in AskerType
    BY DEF BucketInv, BucketTypes
  <2>2. PICK m : m = l
    OBVIOUS
  <2>3. limited' = [limited EXCEPT ![r] = [limited[r] EXCEPT !.pc = "allow", !.limiter = m]]
    BY <1>4, <2>2
  <2>4. PICK a : a = limited[r]
    OBVIOUS
  <2>5. [a EXCEPT !.pc = "allow", !.limiter = m]
        = [pc |-> "allow", client |-> a.client, clock |-> a.clock, limiter |-> m]
    <3> DEFINE b == [a EXCEPT !.pc = "allow", !.limiter = m]
    <3>1. b \in AskerType
      BY <1>2, <2>1, <2>2, <2>4 DEF AskerType
    <3>2. b.pc = "allow" /\ b.client = a.client /\ b.clock = a.clock /\ b.limiter = m
      BY <2>1, <2>4 DEF AskerType
    <3> HIDE DEF b
    <3>3. b = [pc |-> b.pc, client |-> b.client, clock |-> b.clock, limiter |-> b.limiter]
      BY <3>1 DEF AskerType
    <3> QED
      BY <3>2, <3>3 DEF b
  <2> QED
    BY <2>2, <2>3, <2>4, <2>5
<1> HIDE DEF c, k, e, l
<1>6. \A m, n \in Nat : Bucket!Older(m, n) > EntryTTL <=> n > m + EntryTTL
  BY DEF Bucket!Older
<1>7. /\ \A d \in Clients : clients[d] \in EntryType
      /\ \A d \in Clients : clients[d].lastSeen \in Nat /\ clients[d].lastSeen \in 0..MaxTime
      /\ lastCleanup \in Nat /\ k \in Nat
  BY <1>1 DEF BucketInv, BucketTypes, EntryType
<1>8. \A d \in Clients : seen[d] = IF d = c THEN [limiter |-> l, lastSeen |-> k] ELSE clients[d]
  BY <1>1, <1>2 DEF BucketInv, BucketTypes
<1>9. \A d \in Clients : seen[d].lastSeen \in Nat /\ seen[d] \in EntryType
  BY <1>1, <1>2, <1>7, <1>8 DEF EntryType
<1> HIDE DEF seen
<1>10. seen \in [Clients -> EntryType]
  <2>1. seen = [d \in Clients |-> seen[d]]
    BY DEF seen, BucketInv, BucketTypes
  <2> QED
    BY <1>9, <2>1
<1>11. CASE k > lastCleanup + EntryTTL
  <2>1. clients' = [d \in Clients |-> IF Bucket!Older(seen[d].lastSeen, k) > EntryTTL
                                      THEN none ELSE seen[d]]
    BY <1>3, <1>6, <1>7, <1>11 DEF Bucket!Cleaned, Bucket!NoEntry
  <2>2. \A d \in Clients : clients'[d] = IF k > seen[d].lastSeen + EntryTTL THEN none ELSE seen[d]
    BY <1>6, <1>7, <1>9, <2>1
  <2>3. none \in EntryType
    BY DEF EntryType
  <2>4. clients' \in [Clients -> EntryType]
    BY <1>9, <2>1, <2>3
  <2>5. clients'[c] = [limiter |-> l, lastSeen |-> k]
    BY <1>1, <1>7, <1>8, <2>2
  <2>6. lastCleanup' = k
    BY <1>3, <1>6, <1>7, <1>11 DEF Bucket!CleanedAt
  <2>7. \A d \in Clients : d # c => \/ clients'[d] = clients[d]
                                    \/ clients'[d] = none /\ k > clients[d].lastSeen + EntryTTL
    BY <1>8, <2>2
  <2>8. \A d \in Clients : clients'[d].limiter # NoValue => k <= clients'[d].lastSeen + EntryTTL
    BY <1>7, <1>9, <2>2
  <2> QED
    BY <1>1, <1>2, <1>3, <1>5, <1>11, <2>4, <2>5, <2>6, <2>7, <2>8 DEF c, k, e, l
<1>12. CASE ~(k > lastCleanup + EntryTTL)
  <2>1. clients' = seen /\ lastCleanup' = lastCleanup
    BY <1>3, <1>6, <1>7, <1>12 DEF Bucket!Cleaned, Bucket!CleanedAt
  <2> QED
    BY <1>1, <1>2, <1>3, <1>5, <1>8, <1>10, <1>12, <2>1 DEF c, k, e, l
<1> QED
  BY <1>11, <1>12

(* An entry that is dropped has not been used for EntryTTL: a bucket that  *)
(* is never dropped would be full, and no request holds its limiter.       *)
LEMMA DroppedIsFull ==
    ASSUME BucketInv, NEW d \in Clients, NEW k \in 0..MaxTime, k <= now,
           k > clients[d].lastSeen + EntryTTL
    PROVE  /\ fair[d] = Burst
           /\ \A u \in Slots : limited[u].pc = "allow" => limited[u].client # d
<1> USE BucketConstants
<1> DEFINE seen == clients[d].lastSeen
<1>1. seen \in Nat /\ now \in Nat /\ k \in Nat /\ fair[d] \in 0..Burst /\ Entry(d)
  BY DEF BucketInv, BucketTypes, EntryType
<1> DEFINE n == now - (seen + 2 * MaxStall)
           m == EntryTTL + 1 - 2 * MaxStall
<1>2. n \in Nat /\ m \in Nat /\ m <= n /\ now > seen + 2 * MaxStall
  BY <1>1
<1>3. Refill(n) >= Burst
  <2> HIDE DEF n
  <2>1. Refill(m) >= Burst
    OBVIOUS
  <2> HIDE DEF m
  <2>2. Refill(m) <= Refill(n) /\ Refill(m) \in Nat /\ Refill(n) \in Nat
    BY <1>2, RefillSteps
  <2> QED
    BY <2>1, <2>2
<1>4. fair[d] = Burst
  <2>1. \/ now <= seen + 2 * MaxStall
        \/ fair[d] = Burst
        \/ fair[d] >= Refill(n)
    BY <1>1 DEF Entry
  <2>2. Refill(n) \in Nat
    BY <1>2, RefillSteps
  <2> HIDE DEF n
  <2> QED
    BY <1>1, <1>2, <1>3, <2>1, <2>2
<1>5. ASSUME NEW u \in Slots, limited[u].pc = "allow", limited[u].client = d
      PROVE  FALSE
  <2>1. /\ limited[u].clock <= seen + MaxStall /\ now <= limited[u].clock + MaxStall
        /\ limited[u].clock \in Nat
    BY <1>5 DEF BucketInv, Asker, BucketTypes, AskerType
  <2> QED
    BY <1>1, <2>1
<1> QED
  BY <1>4, <1>5

(* A request takes its limiter.  If it makes one, nobody has that one, and *)
(* it is as full as a bucket that was never dropped would be.              *)
LEMMA GetKeeps ==
    ASSUME BucketInv, NEW r \in Slots, Bucket!Get(r)
    PROVE  BucketInv'
<1> USE BucketConstants
<1> DEFINE c == limited[r].client
           k == limited[r].clock
           l == Bucket!Seen(c, k).limiter
           q == [pc |-> "allow", client |-> c, clock |-> k, limiter |-> l]
<1>1. /\ c \in Clients /\ l \in Limiters
      /\ clients' \in [Clients -> EntryType]
      /\ clients'[c] = [limiter |-> l, lastSeen |-> k]
      /\ \A d \in Clients : d # c =>
            \/ clients'[d] = clients[d]
            \/ /\ clients'[d] = [limiter |-> NoValue, lastSeen |-> 0]
               /\ k > clients[d].lastSeen + EntryTTL
      /\ k > lastCleanup + EntryTTL =>
            \A d \in Clients : clients'[d].limiter # NoValue =>
                k <= clients'[d].lastSeen + EntryTTL
      /\ bucket' = IF l = clients[c].limiter THEN bucket ELSE [bucket EXCEPT ![l] = Burst]
      /\ limited' = [limited EXCEPT ![r] = q]
      /\ lastCleanup' = IF k > lastCleanup + EntryTTL THEN k ELSE lastCleanup
      /\ now' = now /\ fair' = fair
  BY GetWrites
<1>2. /\ k \in 0..MaxTime /\ k \in Nat /\ k <= now /\ now <= k + MaxStall /\ now \in Nat
      /\ lastCleanup \in Nat /\ lastCleanup <= now /\ lastCleanup \in 0..MaxTime
  BY DEF Bucket!Get, BucketInv, BucketTypes, Asker, AskerType
<1>3. \/ clients[c].limiter # NoValue /\ l = clients[c].limiter
      \/ clients[c].limiter = NoValue /\ Bucket!Unreachable(l)
  BY <1>1, LimiterSeen DEF BucketInv
<1>4. ASSUME NEW d \in Clients, d # c PROVE clients[d].limiter # l
  <2>1. clients[c].limiter # NoValue => clients[c].limiter # clients[d].limiter
    BY <1>1, <1>4 DEF BucketInv, OwnLimiters
  <2> QED
    BY <1>3, <2>1 DEF Bucket!Unreachable
<1>5. /\ bucket' \in [Limiters -> 0..Burst] /\ bucket'[l] = fair[c]
      /\ \A m \in Limiters : m # l => bucket'[m] = bucket[m]
  <2>1. bucket \in [Limiters -> 0..Burst] /\ Entry(c)
    BY <1>1 DEF BucketInv, BucketTypes
  <2>2. CASE clients[c].limiter # NoValue /\ l = clients[c].limiter
    BY <1>1, <2>1, <2>2 DEF Entry
  <2>3. CASE clients[c].limiter = NoValue
    <3>1. bucket' = [bucket EXCEPT ![l] = Burst]
      BY <1>1, <2>3
    <3>2. fair[c] = Burst
      BY <2>1, <2>3 DEF Entry
    <3> QED
      BY <1>1, <2>1, <3>1, <3>2
  <2> QED
    BY <1>3, <2>2, <2>3
<1> HIDE DEF l
<1>6. q \in AskerType /\ limited \in [Slots -> AskerType]
  BY <1>1, <1>2 DEF AskerType, BucketInv, BucketTypes
<1>7. BucketTypes'
  BY <1>1, <1>2, <1>5, <1>6 DEF BucketInv, BucketTypes
<1> HIDE DEF c, k
<1>8. \A d \in Clients : d # c =>
          \/ clients'[d].limiter = clients[d].limiter /\ clients'[d].lastSeen = clients[d].lastSeen
          \/ clients'[d].limiter = NoValue /\ k > clients[d].lastSeen + EntryTTL
  BY <1>1
<1>9. OwnLimiters'
  <2> SUFFICES ASSUME NEW d \in Clients, NEW f \in Clients, d # f,
                      clients'[d].limiter = clients'[f].limiter
               PROVE  clients'[d].limiter = NoValue
    BY DEF OwnLimiters
  <2>1. clients'[c].limiter = l /\ l # NoValue
    BY <1>1
  <2> QED
    BY <1>4, <1>8, <2>1 DEF BucketInv, OwnLimiters
<1>10. ASSUME NEW u \in Slots PROVE Asker(u)'
  <2>1. CASE u = r
    <3>1. /\ limited'[u].pc = "allow" /\ limited'[u].client = c
          /\ limited'[u].clock = k /\ limited'[u].limiter = l
      BY <1>1, <1>6, <2>1
    <3>2. clients'[c].limiter = l /\ clients'[c].lastSeen = k
      BY <1>1
    <3> QED
      BY <1>1, <1>2, <3>1, <3>2 DEF Asker
  <2>2. CASE u # r
    <3>1. limited'[u] = limited[u] /\ Asker(u) /\ limited[u].clock \in Nat
      BY <1>1, <1>6, <2>2 DEF BucketInv, BucketTypes, AskerType
    <3>2. CASE limited[u].pc # "allow"
      BY <1>1, <3>1, <3>2 DEF Asker
    <3>3. CASE limited[u].pc = "allow" /\ limited[u].client = c
      <4>1. clients'[c].limiter = l /\ clients'[c].lastSeen = k
        BY <1>1
      <4>2. clients[c].limiter = l /\ limited[u].limiter = l
        BY <1>3, <3>1, <3>3 DEF Asker
      <4>3. limited[u].clock <= now /\ now <= limited[u].clock + MaxStall
        BY <3>1, <3>3 DEF Asker
      <4> QED
        BY <1>1, <1>2, <3>1, <3>3, <4>1, <4>2, <4>3 DEF Asker
    <3>4. CASE limited[u].pc = "allow" /\ limited[u].client # c
      <4> DEFINE d == limited[u].client
      <4>1. d \in Clients
        BY <3>1, <3>4 DEF Asker
      <4>2. ~(k > clients[d].lastSeen + EntryTTL)
        BY <1>2, <3>4, <4>1, DroppedIsFull
      <4>3. clients'[d].limiter = clients[d].limiter /\ clients'[d].lastSeen = clients[d].lastSeen
        BY <1>8, <3>4, <4>1, <4>2
      <4> QED
        BY <1>1, <3>1, <3>4, <4>3 DEF Asker
    <3> QED
      BY <3>2, <3>3, <3>4
  <2> QED
    BY <2>1, <2>2
<1>11. ASSUME NEW d \in Clients PROVE Entry(d)'
  <2>1. CASE d = c
    <3>1. clients'[c].limiter = l /\ clients'[c].lastSeen = k /\ l # NoValue
      BY <1>1
    <3>2. now' <= k + 2 * MaxStall /\ k <= now' /\ lastCleanup' <= k + EntryTTL
      BY <1>1, <1>2
    <3> QED
      BY <1>1, <1>5, <2>1, <3>1, <3>2 DEF Entry
  <2>2. CASE d # c
    <3>1. clients[d].lastSeen \in Nat /\ Entry(d) /\ clients[d].limiter \in Limiters \cup {NoValue}
      BY DEF BucketInv, BucketTypes, EntryType
    <3>2. CASE clients'[d].limiter = NoValue /\ k > clients[d].lastSeen + EntryTTL
      <4>1. fair[d] = Burst
        BY <1>2, <3>2, DroppedIsFull
      <4> QED
        BY <1>1, <3>2, <4>1 DEF Entry
    <3>3. CASE clients'[d].limiter = clients[d].limiter /\ clients'[d].lastSeen = clients[d].lastSeen
      <4>1. CASE clients[d].limiter = NoValue
        BY <1>1, <3>1, <3>3, <4>1 DEF Entry
      <4>2. CASE clients[d].limiter # NoValue
        <5>1. bucket'[clients[d].limiter] = bucket[clients[d].limiter]
          BY <1>4, <1>5, <2>2, <3>1, <4>2
        <5>2. lastCleanup' <= clients[d].lastSeen + EntryTTL
          BY <1>1, <3>1, <3>3, <4>2 DEF Entry
        <5> QED
          BY <1>1, <3>1, <3>3, <4>2, <5>1, <5>2 DEF Entry
      <4> QED
        BY <4>1, <4>2
    <3> QED
      BY <1>8, <2>2, <3>2, <3>3
  <2> QED
    BY <2>1, <2>2
<1>12. lastCleanup' <= now'
  BY <1>1, <1>2
<1> QED
  BY <1>7, <1>9, <1>10, <1>11, <1>12 DEF BucketInv

(* Every step of the limiter keeps the invariant.                          *)
LEMMA BucketKeeps ==
    ASSUME BucketInv, [Bucket!Next]_bucketVars
    PROVE  BucketInv'
<1>1. CASE UNCHANGED bucketVars
  BY <1>1 DEF bucketVars, BucketInv, BucketTypes, OwnLimiters, Asker, Entry
<1> QED
  BY <1>1, ClockKeeps, GetKeeps, AllowKeeps, TooManyKeeps, TickKeeps DEF Bucket!Next

(* What OwnBucket says of a step: a request is refused for want of a token *)
(* only when the bucket of its own would be empty too, and what is in the  *)
(* map after a cleanup was used lately.                                    *)
LEMMA BucketSteps ==
    ASSUME BucketInv, [Bucket!Next]_bucketVars
    PROVE  /\ [\A r \in Slots :
                 (limited[r].pc = "allow" /\ limited'[r].pc = "idle" /\ fair' = fair)
                    => fair[limited[r].client] = 0]_bucketVars
           /\ [\A r \in Slots :
                 (limited[r].pc = "get" /\ limited'[r].pc = "allow") =>
                    \A c \in Clients : clients'[c].limiter # NoValue
                        => Bucket!Older(clients'[c].lastSeen, limited[r].clock)
                             <= 2 * EntryTTL]_bucketVars
<1> SUFFICES ASSUME Bucket!Next
             PROVE  \A r \in Slots :
                      /\ (limited[r].pc = "allow" /\ limited'[r].pc = "idle" /\ fair' = fair)
                            => fair[limited[r].client] = 0
                      /\ (limited[r].pc = "get" /\ limited'[r].pc = "allow") =>
                            \A c \in Clients : clients'[c].limiter # NoValue
                                => Bucket!Older(clients'[c].lastSeen, limited[r].clock)
                                     <= 2 * EntryTTL
  OBVIOUS
<1> USE BucketConstants
<1>1. CASE limited' = limited
  BY <1>1
<1>2. CASE Bucket!Tick
  BY <1>1, <1>2 DEF Bucket!Tick
<1>3. ASSUME NEW u \in Slots, NEW c \in Clients, Bucket!RateLimit(u, c),
             NEW r \in Slots
      PROVE  limited'[r] = limited[r] \/ limited[r].pc = "idle"
  BY <1>3 DEF Bucket!RateLimit, BucketInv, BucketTypes
<1>4. ASSUME NEW u \in Slots, Bucket!Allow(u) \/ Bucket!TooManyRequests(u),
             NEW r \in Slots
      PROVE  /\ limited'[r].pc = "allow" => limited[r].pc = "allow"
             /\ limited[r].pc = "allow" /\ limited'[r].pc = "idle" => r = u
  <2>1. limited' = [limited EXCEPT ![u] = Bucket!Idle] /\ Bucket!Idle.pc = "idle"
    BY <1>4 DEF Bucket!Allow, Bucket!TooManyRequests, Bucket!Idle
  <2> QED
    BY <2>1 DEF BucketInv, BucketTypes
<1>5. ASSUME NEW u \in Slots, Bucket!TooManyRequests(u)
      PROVE  fair[limited[u].client] = 0
  <2>1. bucket[limited[u].limiter] = 0 /\ limited[u].pc = "allow"
    BY <1>5 DEF Bucket!TooManyRequests
  <2>2. Asker(u)
    BY DEF BucketInv
  <2>3. limited[u].client \in Clients /\ Entry(limited[u].client)
    BY <2>1, <2>2 DEF BucketInv, Asker
  <2> QED
    BY <2>1, <2>2, <2>3 DEF Asker, Entry
<1>6. ASSUME NEW u \in Slots, Bucket!Get(u), NEW r \in Slots
      PROVE  /\ limited[r].pc = "allow" => limited'[r].pc = "allow"
             /\ limited[r].pc = "get" /\ limited'[r].pc = "allow" => r = u
  <2>1. \E q : limited' = [limited EXCEPT ![u] = q] /\ q.pc = "allow"
    <3> DEFINE k == limited[u].clock
               l == Bucket!Seen(limited[u].client, k).limiter
               q == [pc |-> "allow", client |-> limited[u].client, clock |-> k, limiter |-> l]
    <3>1. limited' = [limited EXCEPT ![u] = q]
      BY <1>6, GetWrites
    <3>2. q.pc = "allow"
      OBVIOUS
    <3> QED
      BY <3>1, <3>2
  <2> QED
    BY <1>6, <2>1 DEF BucketInv, BucketTypes
<1>7. ASSUME NEW u \in Slots, Bucket!Get(u), NEW c \in Clients, clients'[c].limiter # NoValue
      PROVE  Bucket!Older(clients'[c].lastSeen, limited[u].clock) <= 2 * EntryTTL
  <2> DEFINE k == limited[u].clock
             seen == clients'[c].lastSeen
  <2>1. k \in Nat /\ lastCleanup \in Nat /\ seen \in Nat
    <3>1. clients' \in [Clients -> EntryType]
      BY <1>7, GetWrites
    <3> QED
      BY <3>1 DEF BucketInv, BucketTypes, EntryType, AskerType
  <2>2. BucketInv'
    BY <1>7, GetKeeps
  <2>3. lastCleanup' \in Nat /\ lastCleanup' <= seen + EntryTTL
    BY <1>7, <2>2 DEF BucketInv, BucketTypes, Entry
  <2>4. k <= lastCleanup' + EntryTTL
    <3>1. lastCleanup' = IF k > lastCleanup + EntryTTL THEN k ELSE lastCleanup
      BY <1>7, GetWrites
    <3> QED
      BY <2>1, <3>1
  <2>5. PICK m \in Nat, n \in Nat, o \in Nat : m = seen /\ n = lastCleanup' /\ o = k
    BY <2>1, <2>3
  <2>6. n <= m + EntryTTL /\ o <= n + EntryTTL
    BY <2>3, <2>4, <2>5
  <2> HIDE DEF k, seen
  <2>7. Bucket!Older(m, o) <= 2 * EntryTTL
    BY <2>6 DEF Bucket!Older
  <2> QED
    BY <2>5, <2>7 DEF k, seen
<1>8. ASSUME NEW u \in Slots, Bucket!Allow(u) PROVE fair' # fair
  BY <1>8, AllowKeeps
<1>9. ASSUME NEW u \in Slots, NEW c \in Clients, Bucket!RateLimit(u, c), NEW r \in Slots
      PROVE  limited[r].pc = "idle" => limited'[r].pc # "allow"
  <2>1. limited' = [limited EXCEPT ![u] = [Bucket!Idle EXCEPT !.pc = "get", !.client = c,
                                                              !.clock = now]]
    BY <1>9 DEF Bucket!RateLimit
  <2>2. [Bucket!Idle EXCEPT !.pc = "get", !.client = c, !.clock = now].pc = "get"
    BY DEF Bucket!Idle
  <2> QED
    BY <2>1, <2>2 DEF BucketInv, BucketTypes
<1> QED
  BY <1>2, <1>3, <1>4, <1>5, <1>6, <1>7, <1>8, <1>9 DEF Bucket!Next

(* The types of the limiter.                                               *)
LEMMA BucketTyped == BucketInv => Bucket!TypeOK
<1> SUFFICES ASSUME BucketInv PROVE Bucket!TypeOK
  OBVIOUS
<1>1. /\ clients \in [Clients -> [limiter : Limiters \cup {NoValue}, lastSeen : 0..MaxTime]]
      /\ limited \in [Slots -> [pc : {"idle", "get", "allow"}, client : Clients \cup {NoValue},
                                clock : 0..MaxTime, limiter : Limiters \cup {NoValue}]]
  BY DEF BucketInv, BucketTypes, EntryType, AskerType
<1>2. \A r \in Slots : limited[r].pc = "allow" => limited[r].limiter # NoValue
  BY DEF BucketInv, Asker
<1> QED
  BY <1>1, <1>2 DEF Bucket!TypeOK, BucketInv, BucketTypes, OwnLimiters

-----------------------------------------------------------------------------
(* The whole: each part keeps its own invariant, whichever moves.          *)
ServingInv == part \in {"process", "buckets", "api"} /\ IInv /\ BucketInv /\ ApiInv

(* A step moves one part by a step of its own.                             *)
LEMMA PartsStep ==
    ASSUME [ServingNext]_servingVars
    PROVE  UNCHANGED part /\ [Next]_vars /\ [Bucket!Next]_bucketVars /\ [Api!Next]_apiVars
BY DEF ServingNext, servingVars

(* The inductive invariant, for every value of the constants.              *)
THEOREM ServingHolds == ServingSpec => []ServingInv
<1>1. ServingInit => ServingInv
  BY InitInductive, BucketBegins, ApiBegins DEF ServingInit, ServingInv
<1>2. ServingInv /\ [ServingNext]_servingVars => ServingInv'
  BY PartsStep, StepKeeps, BucketKeeps, ApiKeeps DEF ServingInv
<1> QED
  BY <1>1, <1>2, PTL DEF ServingSpec

(* The variables of all parts have their types; in particular no more than *)
(* MaxTries resources are made for an intent.                              *)
THEOREM ServingTyped == ServingSpec => []TypesOK
<1>1. ServingInv => TypesOK
  BY BucketTyped, ApiTyped DEF ServingInv, TypesOK, IInv
<1> QED
  BY <1>1, ServingHolds, PTL

(* The behaviours of what serves requests are behaviours of the process,   *)
(* so that what is proved of Server holds of them.                         *)
THEOREM ServingIsProcess == ServingSpec => Spec
<1>1. ServingInit => Init
  BY DEF ServingInit
<1>2. [ServingNext]_servingVars => [Next]_vars
  BY PartsStep
<1> QED
  BY <1>1, <1>2, PTL DEF ServingSpec, Spec

(* A client gets what one bucket of its own would give it, however many    *)
(* requests wait for the mutex with clocks that they read before, in       *)
(* whatever order, and however many limiters come and go; and what is idle *)
(* is dropped (limiterStore.get).                                          *)
THEOREM BucketsAreOwn == ServingSpec => OwnBucket
<1>1. ServingInv => Bucket!NeverLooser
  BY DEF ServingInv, BucketInv, BucketTypes, Bucket!NeverLooser
<1>2. ServingInv /\ [ServingNext]_servingVars =>
        /\ [\A r \in Slots :
              (limited[r].pc = "allow" /\ limited'[r].pc = "idle" /\ fair' = fair)
                 => fair[limited[r].client] = 0]_bucketVars
        /\ [\A r \in Slots :
              (limited[r].pc = "get" /\ limited'[r].pc = "allow") =>
                 \A c \in Clients : clients'[c].limiter # NoValue
                     => Bucket!Older(clients'[c].lastSeen, limited[r].clock)
                          <= 2 * EntryTTL]_bucketVars
  BY PartsStep, BucketSteps DEF ServingInv
<1>3. ServingSpec => []Bucket!NeverLooser
  BY <1>1, ServingHolds, PTL
<1>4. ServingSpec => Bucket!NeverStricter /\ Bucket!IdleEntriesGo
  BY <1>2, ServingHolds, PTL
  DEF ServingSpec, Bucket!NeverStricter, Bucket!IdleEntriesGo, Bucket!vars, bucketVars
<1> QED
  BY <1>3, <1>4 DEF OwnBucket

(* Whatever the operation, the token and the shape of a request are, and   *)
(* whenever tokens run out: who is refused is not served, a token that was *)
(* valid when its request came is not refused later, and a stale one does  *)
(* no harm where none is needed (AuthOptional, authFunc, response.Write).  *)
THEOREM RefusalsAreAgreed == ServingSpec => []RefusalsAgree
<1>1. ServingInv => RefusalsAgree
  BY ApiAgrees DEF ServingInv
<1> QED
  BY <1>1, ServingHolds, PTL

=============================================================================
