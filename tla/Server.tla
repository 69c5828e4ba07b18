------------------------------- MODULE Server -------------------------------
(***************************************************************************)
(* The life of the API process: the resources RunWithConfig opens one      *)
(* after the other, the listener in a goroutine of its own, the requests   *)
(* it serves, and the end, by a signal or by an error, whose deferred      *)
(* calls close what was opened.                                            *)
(***************************************************************************)
EXTENDS Integers, Sequences, FiniteSets

CONSTANT Requests   \* the requests that may come, each once

VARIABLES
    pc,        \* where RunWithConfig is
    steps,     \* how many steps of the start have succeeded
    pool,      \* the PostgreSQL pool: "none", "open", "closing", "closed"
    redis,     \* the Redis client
    listener,  \* ListenAndServe: "none", "running", "ended" once errCh has its error
    cause,     \* why the process ends: NotYet, "start", "listen", "signal"
    waited,    \* Shutdown has given up waiting
    handler    \* where each request is, as below

vars == <<pc, steps, pool, redis, listener, cause, waited, handler>>

NotYet == "none"

(* Without a connection; on one that is accepted or kept alive; in its     *)
(* handler; in a transaction, and in one that never ends; answered; cut.   *)
Places == {NotYet, "open", "runs", "tx", "stuck", "done", "cut"}

(* What the start needs, in its order.                                     *)
Start == <<"config", "postgres", "redis", "email", "auth", "storage", "avatars", "sessions">>

TypeOK ==
    /\ pc \in {"start", "listen", "notify", "select", "shutdown", "answer", "redis", "pool",
              "exited", "killed"}
    /\ steps \in 0..Len(Start)
    /\ pool \in {NotYet, "open", "closing", "closed"}
    /\ redis \in {NotYet, "open", "closed"}
    /\ listener \in {NotYet, "running", "ended"}
    /\ cause \in {NotYet, "start", "listen", "signal"}
    /\ waited \in BOOLEAN
    /\ handler \in [Requests -> Places]
    /\ pc = "start" => listener = NotYet
    /\ pc \in {"redis", "pool", "exited"} => cause # NotYet

Init ==
    /\ pc = "start" /\ steps = 0
    /\ pool = NotYet /\ redis = NotYet /\ listener = NotYet
    /\ cause = NotYet /\ waited = FALSE
    /\ handler = [r \in Requests |-> NotYet]

Stuck == {r \in Requests : handler[r] = "stuck"}
Running == {r \in Requests : handler[r] \in {"runs", "tx", "stuck"}}
Connected == {r \in Requests : handler[r] = "open"} \cup Running
Opened(resource) == \E i \in 1..steps : Start[i] = resource

-----------------------------------------------------------------------------
(* The start.  A constructor that fails closes what it has opened itself,  *)
(* and the deferred calls close the rest.                                  *)

StartStep ==
    /\ pc = "start" /\ steps < Len(Start)
    /\ steps' = steps + 1
    /\ pool' = IF Start[steps'] = "postgres" THEN "open" ELSE pool
    /\ redis' = IF Start[steps'] = "redis" THEN "open" ELSE redis
    /\ pc' = IF steps' = Len(Start) THEN "listen" ELSE pc
    /\ UNCHANGED <<listener, cause, waited, handler>>

(* A plausible bug: the end of a start that failed does not close the pool. *)
StartFailsLeaving ==
    /\ pc = "start"
    /\ cause' = "start"
    /\ pc' = "exited"
    /\ UNCHANGED <<steps, pool, redis, listener, waited, handler>>

StartFails ==
    /\ pc = "start"
    /\ cause' = "start"
    /\ pc' = IF Opened("redis") THEN "redis" ELSE IF Opened("postgres") THEN "pool" ELSE "exited"
    /\ UNCHANGED <<steps, pool, redis, listener, waited, handler>>

Listen ==
    /\ pc = "listen"
    /\ listener' = "running"
    /\ pc' = "notify"
    /\ UNCHANGED <<steps, pool, redis, cause, waited, handler>>

Notify ==
    /\ pc = "notify"
    /\ pc' = "select"
    /\ UNCHANGED <<steps, pool, redis, listener, cause, waited, handler>>

(* The address is taken, or Accept fails for good.                         *)
ListenFails ==
    /\ listener = "running" /\ pc \in {"notify", "select"}
    /\ listener' = "ended"
    /\ UNCHANGED <<pc, steps, pool, redis, cause, waited, handler>>

-----------------------------------------------------------------------------
(* The end.  A signal ends the wait of the main goroutine, once Notify-    *)
(* Context has taken signals over and until its stop; at other times it    *)
(* kills the process.                                                      *)

Signal ==
    /\ pc = "select"
    /\ cause' = "signal"
    /\ pc' = "shutdown"
    /\ UNCHANGED <<steps, pool, redis, listener, waited, handler>>

Kill ==
    /\ pc \in {"start", "listen", "notify", "redis", "pool"}
    /\ pc' = "killed"
    /\ handler' = [r \in Requests |-> IF r \in Connected THEN "cut" ELSE handler[r]]
    /\ listener' = "ended"
    /\ UNCHANGED <<steps, pool, redis, cause, waited>>

ReturnError ==
    /\ pc = "select" /\ listener = "ended"
    /\ cause' = "listen"
    /\ pc' = "redis"
    /\ UNCHANGED <<steps, pool, redis, listener, waited, handler>>

(* Shutdown closes the listener at once, and then waits for the handlers   *)
(* and for the connections on which a request may still be under way.      *)
Shutdown ==
    /\ pc = "shutdown"
    /\ listener' = "ended"
    /\ pc' = "answer"
    /\ UNCHANGED <<steps, pool, redis, cause, waited, handler>>

(* A plausible bug: srv.Close, which does not wait. *)
AnsweredAtOnce ==
    /\ pc = "answer"
    /\ pc' = "redis"
    /\ UNCHANGED <<steps, pool, redis, listener, cause, waited, handler>>

Answered ==
    /\ pc = "answer" /\ Connected = {}
    /\ pc' = "redis"
    /\ UNCHANGED <<steps, pool, redis, listener, cause, waited, handler>>

(* A plausible bug: Shutdown with the context of Background alone, which   *)
(* only ends when the handlers do.                                         *)
GiveUpWhenDone ==
    /\ pc = "answer" /\ Connected = {}
    /\ pc' = "redis"
    /\ UNCHANGED <<steps, pool, redis, listener, cause, waited, handler>>

(* The ten seconds of shutdownCtx.                                         *)
GiveUp ==
    /\ pc = "answer" /\ Connected # {}
    /\ waited' = TRUE
    /\ pc' = "redis"
    /\ UNCHANGED <<steps, pool, redis, listener, cause, handler>>

CloseRedis ==
    /\ pc = "redis"
    /\ redis' = "closed"
    /\ pc' = "pool"
    /\ UNCHANGED <<steps, pool, listener, cause, waited, handler>>

(* A plausible bug: the pool is not closed, the process just ends. *)
ClosePoolForgotten ==
    /\ pc = "pool"
    /\ pc' = "exited"
    /\ handler' = [r \in Requests |-> IF r \in Connected THEN "cut" ELSE handler[r]]
    /\ UNCHANGED <<steps, pool, redis, listener, cause, waited>>

(* Close refuses new connections, and waits for those that are out.        *)
ClosePool ==
    /\ pc = "pool" /\ pool = "open"
    /\ pool' = "closing"
    /\ UNCHANGED <<pc, steps, redis, listener, cause, waited, handler>>

Exit ==
    /\ pc = "pool" /\ pool = "closing"
    /\ \A r \in Requests : handler[r] \notin {"tx", "stuck"}
    /\ pool' = "closed"
    /\ pc' = "exited"
    /\ handler' = [r \in Requests |-> IF r \in Connected THEN "cut" ELSE handler[r]]
    /\ UNCHANGED <<steps, redis, listener, cause, waited>>

-----------------------------------------------------------------------------
(* The requests.  Nobody cancels their contexts at the end, and those that *)
(* come on a connection that is there need the listener no more.           *)

Accept(r) ==
    /\ listener = "running" /\ handler[r] = NotYet
    /\ handler' = [handler EXCEPT ![r] = "open"]
    /\ UNCHANGED <<pc, steps, pool, redis, listener, cause, waited>>

(* The client leaves, IdleTimeout passes, or Shutdown finds it idle.       *)
Disconnect(r) ==
    /\ handler[r] = "open"
    /\ handler' = [handler EXCEPT ![r] = NotYet]
    /\ UNCHANGED <<pc, steps, pool, redis, listener, cause, waited>>

Serve(r) ==
    /\ handler[r] = "open"
    /\ handler' = [handler EXCEPT ![r] = "runs"]
    /\ UNCHANGED <<pc, steps, pool, redis, listener, cause, waited>>

BeginTx(r) ==
    /\ handler[r] = "runs" /\ pool = "open"
    /\ handler' = [handler EXCEPT ![r] = "tx"]
    /\ UNCHANGED <<pc, steps, pool, redis, listener, cause, waited>>

EndTx(r) ==
    /\ handler[r] = "tx"
    /\ handler' = [handler EXCEPT ![r] = "runs"]
    /\ UNCHANGED <<pc, steps, pool, redis, listener, cause, waited>>

(* A transaction that never ends: it asks the object store, without a      *)
(* timeout and without its context, or waits for a second connection that  *)
(* nobody gives back.                                                      *)
Hang(r) ==
    /\ handler[r] = "tx"
    /\ handler' = [handler EXCEPT ![r] = "stuck"]
    /\ UNCHANGED <<pc, steps, pool, redis, listener, cause, waited>>

Respond(r) ==
    /\ handler[r] = "runs"
    /\ handler' = [handler EXCEPT ![r] = "done"]
    /\ UNCHANGED <<pc, steps, pool, redis, listener, cause, waited>>

End == Shutdown \/ Answered \/ GiveUp \/ CloseRedis \/ ClosePool \/ Exit

Next ==
    \/ StartStep \/ StartFails \/ Listen \/ Notify \/ ListenFails
    \/ Signal \/ Kill \/ ReturnError
    \/ End
    \/ \E r \in Requests :
          \/ Accept(r) \/ Disconnect(r) \/ Serve(r) \/ Respond(r)
          \/ BeginTx(r) \/ EndTx(r) \/ Hang(r)

Spec == Init /\ [][Next]_vars

-----------------------------------------------------------------------------
(* The resources outlive the requests: while a handler runs, Redis and the *)
(* pool are there, unless Shutdown has given up on it or the listener has  *)
(* failed, in which case nobody waits (RunWithConfig's deferred calls).    *)
ResourcesOutliveRequests ==
    Running # {} /\ pc # "killed" =>
        (redis = "open" /\ pool = "open") \/ waited \/ cause = "listen"

(* No transaction is cut by an orderly end, however it came about: the     *)
(* pool waits for the connections that are out (pool.Close).               *)
TransactionsEnd ==
    [][\A r \in Requests :
         handler[r] \in {"tx", "stuck"} /\ pc' # "killed"
            => handler'[r] \in {"tx", "stuck", "runs"}]_vars

(* Whatever fails, and wherever, an orderly end leaves nothing open.       *)
NothingLeftOpen ==
    pc = "exited" => pool \in {NotYet, "closed"} /\ redis \in {NotYet, "closed"}

(* What was opened is closed, and not before the requests are done.        *)
ClosedInOrder == ResourcesOutliveRequests /\ NothingLeftOpen

Ended == pc \in {"exited", "killed"}

(* After a signal or an error of the listener the process ends, even if    *)
(* handlers never do (the timeout of Shutdown), unless one of them hangs   *)
(* in a transaction: for its connection Close waits (app.go:91).           *)
StopEnds ==
    /\ (pc = "shutdown") ~> (Ended \/ Stuck # {})
    /\ (pc = "select" /\ listener = "ended") ~> (Ended \/ Stuck # {})

(* After a signal the process ends.  The comment at the timeout says that  *)
(* it keeps the end from getting stuck (app.go:232); Close has no timeout. *)
StopAlwaysEnds == (pc = "shutdown") ~> Ended
=============================================================================
