---------------------------- MODULE ActionToken ----------------------------
(***************************************************************************)
(* Email action sessions ("tokens") and the accounts they are for: the     *)
(* second and third step of signing up and of resetting a password, once   *)
(* CodeService.VerifyCode has accepted the code.  VerifyCode runs two      *)
(* statements of their own; Complete runs one transaction, each statement  *)
(* of which may wait for another transaction.  Writes appear at commit.    *)
(***************************************************************************)
EXTENDS Integers, FiniteSets

CONSTANTS
    Requests,   \* slots for the calls in progress
    Tokens,     \* rows of email_action_sessions, by their token
    Emails,
    Passwords,
    MaxExpired, \* bound on the tokens that expire
    None        \* no value

ASSUME NoneAssumption ==
    /\ None \notin Requests /\ None \notin Emails /\ None \notin Passwords
    /\ None \notin {"signup", "reset"}
ASSUME RequestsAssumption == IsFiniteSet(Requests)
ASSUME BoundAssumption == MaxExpired \in Nat

Purposes == {"signup", "reset"}

VARIABLES
    status,     \* "none" without a row, "live" while used_at is null, "used"
    purpose,    \* the columns of the same name
    email,
    expired,    \* the tokens whose expires_at has passed
    password,   \* user_email_identities: password_hash by email; None without a row
    rowLock,    \* who holds the row lock of a token
    mailLock,   \* who has inserted or updated the identity of an email, uncommitted
    req         \* the calls in progress

vars == <<status, purpose, email, expired, password, rowLock, mailLock, req>>
columns == <<status, purpose, email, expired, password>>

(* For VerifyCode: rows, those its UPDATE has found.  For Complete: token,  *)
(* and late, which has it if it was expired when its transaction began.    *)
Idle == [pc |-> "idle", purpose |-> None, email |-> None, token |-> None,
         pw |-> None, rows |-> {}, late |-> {}]

TypeOK ==
    /\ status \in [Tokens -> {"none", "live", "used"}]
    /\ purpose \in [Tokens -> Purposes \cup {None}]
    /\ email \in [Tokens -> Emails \cup {None}]
    /\ \A t \in Tokens : status[t] # "none" => purpose[t] # None /\ email[t] # None
    /\ expired \subseteq Tokens
    /\ password \in [Emails -> Passwords \cup {None}]
    /\ rowLock \in [Tokens -> Requests \cup {None}]
    /\ mailLock \in [Emails -> Requests \cup {None}]
    /\ req \in [Requests ->
         [pc : {"idle", "scan", "invalidate", "create", "select", "identity", "mark"},
          purpose : Purposes \cup {None}, email : Emails \cup {None},
          token : Tokens \cup {None}, pw : Passwords \cup {None},
          rows : SUBSET Tokens, late : SUBSET Tokens]]

Init ==
    /\ status = [t \in Tokens |-> "none"]
    /\ purpose = [t \in Tokens |-> None]
    /\ email = [t \in Tokens |-> None]
    /\ expired = {}
    /\ password = [e \in Emails |-> None]
    /\ rowLock = [t \in Tokens |-> None]
    /\ mailLock = [e \in Emails |-> None]
    /\ req = [r \in Requests |-> Idle]

GoTo(r, pc) == req' = [req EXCEPT ![r].pc = pc]

(* The end of a statement of its own, or of a transaction.                 *)
Release(r) ==
    /\ rowLock' = [t \in Tokens |-> IF rowLock[t] = r THEN None ELSE rowLock[t]]
    /\ mailLock' = [e \in Emails |-> IF mailLock[e] = r THEN None ELSE mailLock[e]]

-----------------------------------------------------------------------------
(* VerifyCode, its code accepted.  A reset needs an account.               *)

(* The bound of the model: a token is left for every call that issues one. *)
TokenLeft ==
    Cardinality({q \in Requests : req[q].pc \in {"scan", "invalidate", "create"}})
        < Cardinality({t \in Tokens : status[t] = "none"})

VerifyCode(r, p, e) ==
    /\ req[r].pc = "idle"
    /\ TokenLeft
    /\ p = "reset" => password[e] # None
    /\ req' = [req EXCEPT ![r] = [Idle EXCEPT !.pc = "scan", !.purpose = p, !.email = e]]
    /\ UNCHANGED <<columns, rowLock, mailLock>>

(* InvalidateEmailActionSessionsByEmailPurpose.  The UPDATE sees the rows   *)
(* of its snapshot, locks them one by one, waiting for each, and skips one *)
(* that was used meanwhile.                                                *)
Scan(r) ==
    /\ req[r].pc = "scan"
    /\ req' = [req EXCEPT ![r].pc = "invalidate",
                          ![r].rows = {t \in Tokens : /\ status[t] = "live"
                                                      /\ purpose[t] = req[r].purpose
                                                      /\ email[t] = req[r].email}]
    /\ UNCHANGED <<columns, rowLock, mailLock>>

LockRow(r, t) ==
    /\ req[r].pc = "invalidate"
    /\ t \in req[r].rows /\ status[t] = "live" /\ rowLock[t] = None
    /\ rowLock' = [rowLock EXCEPT ![t] = r]
    /\ UNCHANGED <<columns, mailLock, req>>

(* A plausible bug: FOR UPDATE SKIP LOCKED, so as not to wait. *)
InvalidateUnlocked(r) ==
    /\ req[r].pc = "invalidate"
    /\ status' = [t \in Tokens |->
         IF t \in req[r].rows /\ rowLock[t] \in {r, None} THEN "used" ELSE status[t]]
    /\ GoTo(r, "create")
    /\ Release(r)
    /\ UNCHANGED <<purpose, email, expired, password>>

Invalidate(r) ==
    /\ req[r].pc = "invalidate"
    /\ \A t \in req[r].rows : status[t] = "used" \/ rowLock[t] = r
    /\ status' = [t \in Tokens |-> IF t \in req[r].rows THEN "used" ELSE status[t]]
    /\ GoTo(r, "create")
    /\ Release(r)
    /\ UNCHANGED <<purpose, email, expired, password>>

CreateEmailActionSession(r) ==
    /\ req[r].pc = "create"
    /\ \E t \in Tokens :
          /\ status[t] = "none"
          /\ status' = [status EXCEPT ![t] = "live"]
          /\ purpose' = [purpose EXCEPT ![t] = req[r].purpose]
          /\ email' = [email EXCEPT ![t] = req[r].email]
    /\ req' = [req EXCEPT ![r] = Idle]
    /\ UNCHANGED <<expired, password, rowLock, mailLock>>

-----------------------------------------------------------------------------
(* Complete: RegisterUserWithSignupToken and ResetPasswordWithResetToken.  *)
(* now() is the time of the transaction's begin.                           *)

Complete(r, p, t, pw) ==
    /\ req[r].pc = "idle"
    /\ status[t] # "none"
    /\ req' = [req EXCEPT ![r] = [Idle EXCEPT !.pc = "select", !.purpose = p,
                                  !.token = t, !.pw = pw, !.late = expired \cap {t}]]
    /\ UNCHANGED <<columns, rowLock, mailLock>>

(* GetEmailActionSessionByHashForUpdate.                                   *)
SelectForUpdate(r) ==
    LET t == req[r].token IN
    /\ req[r].pc = "select"
    /\ status[t] = "live" /\ t \notin req[r].late
    /\ rowLock[t] = None
    /\ purpose[t] = req[r].purpose
    /\ rowLock' = [rowLock EXCEPT ![t] = r]
    /\ req' = [req EXCEPT ![r].pc = "identity", ![r].email = email[t]]
    /\ UNCHANGED <<columns, mailLock>>

(* Sign-up inserts the identity, under the unique index of its email; a    *)
(* reset updates it.  Both wait for whoever did either and not yet ended.  *)
WriteIdentity(r) ==
    /\ req[r].pc = "identity"
    /\ mailLock[req[r].email] = None
    /\ (password[req[r].email] = None) <=> (req[r].purpose = "signup")
    /\ mailLock' = [mailLock EXCEPT ![req[r].email] = r]
    /\ GoTo(r, "mark")
    /\ UNCHANGED <<columns, rowLock>>

(* A plausible bug: the session is not marked as used. *)
FinishKeepingToken(r) ==
    /\ req[r].pc = "mark"
    /\ password' = [password EXCEPT ![req[r].email] = req[r].pw]
    /\ req' = [req EXCEPT ![r] = Idle]
    /\ Release(r)
    /\ UNCHANGED <<status, purpose, email, expired>>

(* MarkEmailActionSessionUsed and the commit.                              *)
Finish(r) ==
    /\ req[r].pc = "mark"
    /\ status[req[r].token] = "live"
    /\ status' = [status EXCEPT ![req[r].token] = "used"]
    /\ password' = [password EXCEPT ![req[r].email] = req[r].pw]
    /\ req' = [req EXCEPT ![r] = Idle]
    /\ Release(r)
    /\ UNCHANGED <<purpose, email, expired>>

(* A plausible bug: an error path that does not roll back. *)
RefuseWithoutRollback(r) ==
    /\ \/ /\ req[r].pc = "select"
          /\ LET t == req[r].token IN
                \/ status[t] = "used" \/ t \in req[r].late
                \/ rowLock[t] = None /\ purpose[t] # req[r].purpose
       \/ /\ req[r].pc = "identity"
          /\ mailLock[req[r].email] = None
          /\ (password[req[r].email] # None) <=> (req[r].purpose = "signup")
    /\ req' = [req EXCEPT ![r] = Idle]
    /\ UNCHANGED <<columns, rowLock, mailLock>>

(* The errors of Complete: not found, and conflict.  The transaction is     *)
(* rolled back; an uncommitted identity has to be waited for first.        *)
Refuse(r) ==
    /\ \/ /\ req[r].pc = "select"
          /\ LET t == req[r].token IN
                \/ status[t] = "used" \/ t \in req[r].late
                \/ rowLock[t] = None /\ purpose[t] # req[r].purpose
       \/ /\ req[r].pc = "identity"
          /\ mailLock[req[r].email] = None
          /\ (password[req[r].email] # None) <=> (req[r].purpose = "signup")
    /\ req' = [req EXCEPT ![r] = Idle]
    /\ Release(r)
    /\ UNCHANGED columns

(* Who holds what r has to wait for.  An UPDATE may have begun with any of  *)
(* its rows, so it waits when none of those left is free.                  *)
WaitsFor(r) ==
    LET left == {t \in req[r].rows : status[t] = "live" /\ rowLock[t] # r}
    IN  {q \in Requests :
            \/ /\ req[r].pc = "invalidate"
               /\ q \in {rowLock[t] : t \in left} /\ None \notin {rowLock[t] : t \in left}
            \/ req[r].pc = "select" /\ rowLock[req[r].token] = q
            \/ req[r].pc = "identity" /\ mailLock[req[r].email] = q}

(* Whatever holds all that r waits for, and all that these wait for, and   *)
(* so on, holds r.                                                         *)
InCircle(r) ==
    \A S \in SUBSET Requests :
        (WaitsFor(r) \subseteq S /\ \A q \in S : WaitsFor(q) \subseteq S) => r \in S

(* A plausible bug: the error ends the call, and not its transaction. *)
DetectDeadlockKeepingRows(r) ==
    /\ InCircle(r)
    /\ req' = [req EXCEPT ![r] = Idle]
    /\ UNCHANGED <<columns, rowLock, mailLock>>

(* PostgreSQL aborts one of those who wait for each other, whose caller    *)
(* gets an error.                                                          *)
DetectDeadlock(r) ==
    /\ InCircle(r)
    /\ req' = [req EXCEPT ![r] = Idle]
    /\ Release(r)
    /\ UNCHANGED columns

(* A cancelled request, a lost connection, the end of the server.          *)
Crash(r) ==
    /\ req[r].pc # "idle"
    /\ req' = [req EXCEPT ![r] = Idle]
    /\ Release(r)
    /\ UNCHANGED columns

Expire(t) ==
    /\ status[t] # "none" /\ t \notin expired
    /\ Cardinality(expired) < MaxExpired
    /\ expired' = expired \cup {t}
    /\ UNCHANGED <<status, purpose, email, password, rowLock, mailLock, req>>

-----------------------------------------------------------------------------

Step(r) ==
    \/ Scan(r) \/ Invalidate(r) \/ CreateEmailActionSession(r)
    \/ Finish(r) \/ DetectDeadlock(r)

(* The steps that may have to wait for a lock. *)
Waits(r) ==
    \/ \E t \in Tokens : LockRow(r, t)
    \/ SelectForUpdate(r) \/ WriteIdentity(r) \/ Refuse(r)

Next ==
    \/ \E r \in Requests :
          \/ Step(r) \/ Waits(r) \/ Crash(r)
          \/ \E p \in Purposes, e \in Emails : VerifyCode(r, p, e)
          \/ \E p \in Purposes, t \in Tokens, pw \in Passwords : Complete(r, p, t, pw)
    \/ \E t \in Tokens : Expire(t)

Spec == Init /\ [][Next]_vars

-----------------------------------------------------------------------------
(* Accounts is implemented by the committed rows.                          *)
Promise == INSTANCE Accounts
ImplementsAccounts == Promise!Spec

(* A token that existed when a newer one was being issued no longer works: *)
(* the tokens that the UPDATE of VerifyCode has found are used before the  *)
(* new one is there, whoever held their rows (signup_service.go:43-46).    *)
OlderTokensRetired ==
    \A r \in Requests : req[r].pc = "create" =>
        \A t \in req[r].rows : status[t] = "used"

(* The UPDATE and the INSERT of VerifyCode are not one transaction, so     *)
(* calls may each issue a token and leave them all live: but never more    *)
(* than there are calls at a time.                                         *)
LiveTokensBounded ==
    \A p \in Purposes, e \in Emails :
        Cardinality({t \in Tokens : status[t] = "live" /\ purpose[t] = p /\ email[t] = e})
            <= Cardinality(Requests)

(* Nobody waits for ever, whichever order the rows are locked in: two      *)
(* calls that retire the same tokens may each hold a row the other needs,  *)
(* and then PostgreSQL ends one of them (signup_service.go:43).            *)
CallsEnd == \A r \in Requests : (req[r].pc # "idle") ~> (req[r].pc = "idle")
=============================================================================
