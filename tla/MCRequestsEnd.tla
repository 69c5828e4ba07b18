--------------------------- MODULE MCRequestsEnd ---------------------------
(* What must happen in the end: the requests of publishing, of tokens and   *)
(* of reactions get their locks and are answered, codes expire, and the     *)
(* process ends when it is told to.  These parts share no state here, so    *)
(* one behaviour moves one of them and leaves the others where they began;  *)
(* the fairness of a part asks nothing where it does not move.              *)
EXTENDS PublishSession, TLC

CONSTANTS
    Tokens, Emails, Passwords, MaxExpired,
    Issued,     \* the tokens that are live at first
    Users, Works, Types, MaxNotes,
    Codes, CodeTTL, CooldownTTL, LockTTL, MaxAttempts, MaxWrong, RedisFails

VARIABLES
    part,                                           \* the part that moves
    tokenStatus, purpose, email, expired, password, tokenLock, mailLock, tokenReq,
    author, count, reactions, enabled, notified, unread, keyLock, rowLock, reactReq,
    store, issued, delivered, accepted, wrong, codeReq,
    pc, steps, pool, redis, listener, cause, waited, handler

Token == INSTANCE ActionToken WITH
    status <- tokenStatus, rowLock <- tokenLock, req <- tokenReq
Reaction == INSTANCE Reactions WITH Uploads <- Works, req <- reactReq
Code == INSTANCE AuthCode WITH req <- codeReq
Process == INSTANCE Server

ASSUME Token!NoneAssumption /\ Token!BoundAssumption
ASSUME IssuedAssumption == Issued \in SUBSET Tokens \ {{}}
ASSUME Reaction!BoundAssumption /\ Reaction!NoneAssumption
ASSUME Code!TTLAssumption /\ Code!LimitAssumption /\ Code!FaultAssumption

-----------------------------------------------------------------------------
tokenVars == <<tokenStatus, purpose, email, expired, password, tokenLock, mailLock, tokenReq>>
reactVars == <<author, count, reactions, enabled, notified, unread, keyLock, rowLock, reactReq>>
codeVars == <<store, issued, delivered, accepted, wrong, codeReq>>
processVars == <<pc, steps, pool, redis, listener, cause, waited, handler>>

SomeKey == CHOOSE k \in Reaction!Keys : TRUE

(* Two calls at a time have each issued a token for an address, and neither *)
(* has seen that of the other: both are live.  One of them may be expired;  *)
(* a token that expires later is refused in the same way.                   *)
IssuedInit ==
    /\ tokenStatus = [t \in Tokens |-> IF t \in Issued THEN "live" ELSE "none"]
    /\ purpose = [t \in Tokens |-> IF t \in Issued THEN "signup" ELSE None]
    /\ \E e \in Emails : email = [t \in Tokens |-> IF t \in Issued THEN e ELSE None]
    /\ expired \in {{}, {CHOOSE t \in Issued : TRUE}}
    /\ password = [e \in Emails |-> None]
    /\ tokenLock = [t \in Tokens |-> None]
    /\ mailLock = [e \in Emails |-> None]
    /\ tokenReq = [r \in Requests |-> Token!Idle]

EndInit ==
    /\ Init /\ IssuedInit /\ Reaction!Init /\ Code!Init /\ Process!Init
    /\ part \in {"publishing", "tokens", "reactions", "codes", "process"}
    /\ part # "tokens" => expired = {}
    /\ part # "reactions" => reactReq = [r \in Requests |-> Reaction!Idle(SomeKey)]

(* A step of one part leaves the others alone. *)
Publishing(A) ==
    part = "publishing" /\ A /\ UNCHANGED <<part, tokenVars, reactVars, codeVars, processVars>>
Signing(A) ==
    part = "tokens" /\ A /\ UNCHANGED <<part, vars, reactVars, codeVars, processVars>>
Reacting(A) ==
    part = "reactions" /\ A /\ UNCHANGED <<part, vars, tokenVars, codeVars, processVars>>
Coding(A) ==
    part = "codes" /\ A /\ UNCHANGED <<part, vars, tokenVars, reactVars, processVars>>
Serving(A) ==
    part = "process" /\ A /\ UNCHANGED <<part, vars, tokenVars, reactVars, codeVars>>

EndNext ==
    \/ Publishing(Next) \/ Signing(Token!Next) \/ Reacting(Reaction!Next)
    \/ Coding(Code!Next) \/ Serving(Process!Next)

endVars == <<part, vars, tokenVars, reactVars, codeVars, processVars>>

(* The fairness of every part, where at most one has a step enabled: a      *)
(* transaction that waits for a row or a connection gets it in its turn     *)
(* (PostgreSQL and the pool queue their waiters), a call that was begun     *)
(* runs on, and so do the main goroutine and the clock of Redis.  Of a      *)
(* handler only a transaction that does not hang is sure to end.            *)
Gets(r) ==
    Publishing(Waits(r)) \/ Signing(Token!Waits(r)) \/ Reacting(Reaction!Step(r))
RunsOn(r) ==
    \/ Publishing(Step(r)) \/ Signing(Token!Step(r)) \/ Coding(Code!Step(r))
    \/ Serving(Process!EndTx(r))
GoesOn == Coding(Code!Tick) \/ Serving(Process!End \/ Process!ReturnError)

Fairness ==
    /\ \A r \in Requests :
          /\ SF_endVars(Gets(r))
          /\ WF_endVars(RunsOn(r))
    /\ WF_endVars(GoesOn)

EndSpec == EndInit /\ [][EndNext]_endVars /\ Fairness

-----------------------------------------------------------------------------
(* Nobody who locks the rows of tokens, in the order a scan meets them, or   *)
(* a reaction and then its work, waits for ever for someone who waits too    *)
(* (SignupService.VerifyCode, ReactionService.React).                        *)
LocksEnd == Token!CallsEnd /\ Reaction!RequestsEnd

(* Whatever fails, a code does not stay for ever: it has a time to live,     *)
(* even if nobody verifies it and its deletion fails (SendCode).             *)
CodesExpire == Code!CodesExpire

(* After a signal or an error of the listener the process ends, even if      *)
(* handlers never do, unless one hangs in a transaction (RunWithConfig).     *)
StopEnds == Process!StopEnds
=============================================================================
