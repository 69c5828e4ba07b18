------------------------------ MODULE AuthCode ------------------------------
(***************************************************************************)
(* The verification code of one purpose and one email: sending one, and    *)
(* verifying one, as the sequences of Redis calls they are.  Every call is *)
(* atomic; between two calls of a request other requests may run, keys may *)
(* expire, and the server may stop.  Purposes and emails do not share      *)
(* keys, so one pair is enough.                                            *)
(***************************************************************************)
EXTENDS Integers, FiniteSets

CONSTANTS
    Requests,     \* slots for the calls of SendCode and VerifyCode in progress
    Codes,        \* the codes that are generated, each at most once
    CodeTTL,      \* CodeService.CodeTTL, in ticks
    CooldownTTL,  \* CodeService.CooldownTTL
    LockTTL,      \* CodeService.LockTTL
    MaxAttempts,  \* CodeService.MaxAttempts
    MaxWrong,     \* bound on failed comparisons and on their counter
    RedisFails,   \* whether a Redis call may fail
    None          \* no value; also a code that was never generated

TTLAssumption ==
    /\ CodeTTL \in Nat \ {0} /\ CooldownTTL \in Nat \ {0} /\ LockTTL \in Nat \ {0}
    /\ CodeTTL <= LockTTL
LimitAssumption == MaxAttempts \in Nat \ {0} /\ MaxWrong \in Nat
FaultAssumption == RedisFails \in BOOLEAN
CodeAssumption == None \notin Codes \cup Nat

VARIABLES
    store,      \* the Redis keys of the pair: value and time to live
    issued,     \* the codes generated so far
    delivered,  \* the codes whose mail the SMTP server has accepted
    accepted,   \* the codes that VerifyCode has answered true for
    wrong,      \* failed comparisons since a send forgot the attempts before it
    req         \* the calls in progress

vars == <<store, issued, delivered, accepted, wrong, req>>

Keys == {"code", "cooldown", "attempt", "lock"}

(* A time to live counts down to 0, the absence of the key; INCR creates a  *)
(* key without one.                                                        *)
Forever == -1
Absent == [val |-> None, ttl |-> 0]

(* pc names the next call.  n is what INCR returned.                       *)
SendSteps == {"store", "clear", "mail", "undo"}
VerifySteps == {"get", "incr", "expire", "setlock", "consume"}
NoRequest == [pc |-> "idle", code |-> None, n |-> 0]

TypeOK ==
    /\ \A k \in Keys :
          /\ store[k].val \in Codes \cup {None} \cup Nat
          /\ store[k].ttl \in Nat \cup {Forever}
          /\ store[k].val = None <=> store[k].ttl = 0
    /\ store["code"].val \in issued \cup {None}
    /\ store["code"].ttl \in 0..CodeTTL
    /\ store["cooldown"].ttl \in 0..CooldownTTL
    /\ store["lock"].ttl \in 0..LockTTL
    /\ delivered \subseteq issued /\ issued \subseteq Codes
    /\ accepted \subseteq issued
    /\ wrong \in 0..MaxWrong
    /\ \A r \in Requests :
          /\ req[r].pc \in {"idle"} \cup SendSteps \cup VerifySteps
          /\ req[r].code \in Codes \cup {None}
          /\ req[r].n \in Nat

Init ==
    /\ store = [k \in Keys |-> Absent]
    /\ issued = {} /\ delivered = {} /\ accepted = {}
    /\ wrong = 0
    /\ req = [r \in Requests |-> NoRequest]

-----------------------------------------------------------------------------
(* The Redis commands of AuthCodeStore.                                    *)

Exists(k) == store[k].ttl # 0
Get(k) == store[k].val
Set(k, v, t) == store' = [store EXCEPT ![k] = [val |-> v, ttl |-> t]]
SetNX(k, t) == ~Exists(k) /\ Set(k, 1, t)
Del(ks) == store' = [k \in Keys |-> IF k \in ks THEN Absent ELSE store[k]]

IncrResult(k) == IF Exists(k) THEN Get(k) + 1 ELSE 1
Incr(k) == Set(k, IncrResult(k), IF Exists(k) THEN store[k].ttl ELSE Forever)
Expire(k, t) == IF Exists(k) THEN Set(k, Get(k), t) ELSE UNCHANGED store

(* A command whose error the service ignores.                              *)
Ignoring(command) == command \/ (RedisFails /\ UNCHANGED store)

GoTo(r, pc) == req' = [req EXCEPT ![r].pc = pc]
End(r) == req' = [req EXCEPT ![r] = NoRequest]

(* An error that ends the call, a cancelled request, or the end of the     *)
(* server: what was written stays.                                         *)
Stop(r) ==
    /\ RedisFails
    /\ req[r].pc # "idle"
    /\ End(r)
    /\ UNCHANGED <<store, issued, delivered, accepted, wrong>>

-----------------------------------------------------------------------------
(* SendCode.  While the cooldown lasts it returns without an effect.       *)

SendBegins(r) ==
    /\ req[r].pc = "idle"
    /\ SetNX("cooldown", CooldownTTL)
    /\ \E c \in Codes \ issued :
          /\ issued' = issued \cup {c}
          /\ req' = [req EXCEPT ![r] = [pc |-> "store", code |-> c, n |-> 0]]
    /\ UNCHANGED <<delivered, accepted, wrong>>

(* A plausible bug: the code is stored without a time to live. *)
SendStoresForLong(r) ==
    /\ req[r].pc = "store"
    /\ Set("code", req[r].code, Forever)
    /\ GoTo(r, "clear")
    /\ UNCHANGED <<issued, delivered, accepted, wrong>>

SendStores(r) ==
    /\ req[r].pc = "store"
    /\ Set("code", req[r].code, CodeTTL)
    /\ GoTo(r, "clear")
    /\ UNCHANGED <<issued, delivered, accepted, wrong>>

SendClears(r) ==
    /\ req[r].pc = "clear"
    /\ Ignoring(Del({"attempt", "lock"}))
    /\ wrong' = 0
    /\ GoTo(r, "mail")
    /\ UNCHANGED <<issued, delivered, accepted>>

(* SMTPSender.send: the server accepts the message when its data end, and  *)
(* the QUIT that follows may still fail.                                   *)
SendMails(r) ==
    /\ req[r].pc = "mail"
    /\ \/ delivered' = delivered \cup {req[r].code} /\ End(r)
       \/ delivered' \in {delivered, delivered \cup {req[r].code}} /\ GoTo(r, "undo")
    /\ UNCHANGED <<store, issued, accepted, wrong>>

SendUndoes(r) ==
    /\ req[r].pc = "undo"
    /\ Ignoring(Del({"code", "cooldown"}))
    /\ End(r)
    /\ UNCHANGED <<issued, delivered, accepted, wrong>>

-----------------------------------------------------------------------------
(* VerifyCode, with a code that was generated or with another.             *)

VerifyBegins(r, c) ==
    /\ req[r].pc = "idle"
    /\ ~Exists("lock")
    /\ req' = [req EXCEPT ![r] = [pc |-> "get", code |-> c, n |-> 0]]
    /\ UNCHANGED <<store, issued, delivered, accepted, wrong>>

(* A send has stored its code and not yet forgotten the attempts at the    *)
(* one before.                                                             *)
Replacing == \E q \in Requests : req[q].pc = "clear"

VerifyCompares(r) ==
    /\ req[r].pc = "get"
    /\ \/ ~Exists("code") /\ End(r) /\ UNCHANGED wrong
       \/ /\ Exists("code") /\ Get("code") = req[r].code
          /\ GoTo(r, "consume") /\ UNCHANGED wrong
       \/ /\ Exists("code") /\ Get("code") # req[r].code
          /\ wrong < MaxWrong /\ IncrResult("attempt") <= MaxWrong
          /\ wrong' = wrong + (IF Replacing THEN 0 ELSE 1)
          /\ GoTo(r, "incr")
    /\ UNCHANGED <<store, issued, delivered, accepted>>

(* A plausible bug: the limit is off by one. *)
AfterCountLate(r, n, pc) ==
    IF pc = "incr" /\ n = 1 THEN req' = [req EXCEPT ![r].pc = "expire", ![r].n = n]
    ELSE IF n > MaxAttempts THEN GoTo(r, "setlock") ELSE End(r)

(* A plausible bug: the lock is set first, and the counter never expires.  *)
AfterCountForEver(r, n, pc) ==
    IF n >= MaxAttempts THEN GoTo(r, "setlock") ELSE End(r)

(* The first failed attempt starts the clock of the counter, and then, as  *)
(* any other, it may be the one that locks.                                *)
AfterCount(r, n, pc) ==
    IF pc = "incr" /\ n = 1 THEN req' = [req EXCEPT ![r].pc = "expire", ![r].n = n]
    ELSE IF n >= MaxAttempts THEN GoTo(r, "setlock") ELSE End(r)

VerifyCounts(r) ==
    /\ req[r].pc = "incr"
    /\ \/ Incr("attempt") /\ AfterCount(r, IncrResult("attempt"), "incr")
       \/ RedisFails /\ UNCHANGED store /\ End(r)
    /\ UNCHANGED <<issued, delivered, accepted, wrong>>

VerifyExpires(r) ==
    /\ req[r].pc = "expire"
    /\ Ignoring(Expire("attempt", CodeTTL))
    /\ AfterCount(r, req[r].n, "expire")
    /\ UNCHANGED <<issued, delivered, accepted, wrong>>

(* A plausible bug: the lock is set without a time to live. *)
VerifyLocksForGood(r) ==
    /\ req[r].pc = "setlock"
    /\ Ignoring(Set("lock", 1, Forever))
    /\ End(r)
    /\ UNCHANGED <<issued, delivered, accepted, wrong>>

VerifyLocks(r) ==
    /\ req[r].pc = "setlock"
    /\ Ignoring(Set("lock", 1, LockTTL))
    /\ End(r)
    /\ UNCHANGED <<issued, delivered, accepted, wrong>>

(* A plausible bug: the code stays when the attempts are forgotten. *)
VerifySucceedsKeepingCode(r) ==
    /\ req[r].pc = "consume"
    /\ Ignoring(Del({"attempt", "lock"}))
    /\ accepted' = accepted \cup {req[r].code}
    /\ End(r)
    /\ UNCHANGED <<issued, delivered, wrong>>

VerifySucceeds(r) ==
    /\ req[r].pc = "consume"
    /\ Ignoring(Del({"code", "attempt", "lock"}))
    /\ accepted' = accepted \cup {req[r].code}
    /\ End(r)
    /\ UNCHANGED <<issued, delivered, wrong>>

-----------------------------------------------------------------------------

Tick ==
    /\ \E k \in Keys : store[k].ttl > 0
    /\ store' = [k \in Keys |->
         CASE store[k].ttl > 1 -> [store[k] EXCEPT !.ttl = @ - 1]
           [] store[k].ttl = 1 -> Absent
           [] OTHER -> store[k]]
    /\ UNCHANGED <<issued, delivered, accepted, wrong, req>>

Step(r) ==
    \/ SendStores(r) \/ SendClears(r) \/ SendMails(r) \/ SendUndoes(r)
    \/ VerifyCompares(r) \/ VerifyCounts(r) \/ VerifyExpires(r) \/ VerifyLocks(r)
    \/ VerifySucceeds(r)

Next ==
    \/ \E r \in Requests : SendBegins(r) \/ Step(r) \/ Stop(r)
    \/ \E r \in Requests, c \in Codes \cup {None} : VerifyBegins(r, c)
    \/ Tick

Spec == Init /\ [][Next]_vars

-----------------------------------------------------------------------------
(* Without failures of Redis.                                              *)

(* Wrong guesses of a code are bounded by MaxAttempts, up to the requests  *)
(* that passed the check of the lock before it was set, and also over the  *)
(* expiry of counter and lock (VerifyCode).  Guesses made while a send     *)
(* replaces the code are not among them: it forgets them.                  *)
GuessesBounded == wrong <= MaxAttempts - 1 + Cardinality(Requests)

(* Once VerifyCode has accepted a code, that code is gone for good: no     *)
(* interleaving with a send or another verification brings it back.        *)
AcceptedIsGone == \A c \in accepted : store["code"].val # c

(* Without failures of Redis.  Only VerifyCode's INCR may leave a counter  *)
(* that does not expire, and only until its EXPIRE: at rest every key has  *)
(* a time to live.                                                         *)
CounterExpires ==
    store["attempt"].ttl = Forever =>
        \E r \in Requests : req[r].pc = "expire"

(* Whatever fails: a code does not stay for ever, even if nobody verifies  *)
(* it and its deletion fails (SendCode gives it a time to live).           *)
CodesExpire ==
    \A c \in Codes : (c \in issued) ~> [](store["code"].val # c)

(* A code that was mailed works until it expires, a newer one replaces it, *)
(* it is used, or wrong guesses lock it: nothing else deletes it.  The     *)
(* mail says "Your 6-digit verification code is" (smtp_sender.go:78).      *)
MailedCodeStands ==
    [][\A c \in delivered :
         (store["code"].val = c /\ store'["code"].val # c) =>
            \/ store["code"].ttl = 1 /\ store'["code"].ttl = 0
            \/ store'["code"].val \in Codes
            \/ c \in accepted']_vars
=============================================================================
