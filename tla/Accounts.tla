------------------------------ MODULE Accounts ------------------------------
(***************************************************************************)
(* What signing up and resetting a password promise.  Whoever proved to    *)
(* read an email's mail gets a token for one purpose; a token serves once, *)
(* and completing an action uses the token and changes the account in one  *)
(* step.  An email has one account, and it is never taken away.            *)
(***************************************************************************)
CONSTANTS Tokens, Emails, Passwords, None

VARIABLES
    status,    \* of a token: "none", "live" or "used"
    purpose,   \* what a token is for
    email,     \* whose token it is
    password   \* of the account of an email; None without an account

vars == <<status, purpose, email, password>>

Init ==
    /\ status = [t \in Tokens |-> "none"]
    /\ purpose = [t \in Tokens |-> None]
    /\ email = [t \in Tokens |-> None]
    /\ password = [e \in Emails |-> None]

Issue(t, p, e) ==
    /\ status[t] = "none"
    /\ status' = [status EXCEPT ![t] = "live"]
    /\ purpose' = [purpose EXCEPT ![t] = p]
    /\ email' = [email EXCEPT ![t] = e]
    /\ UNCHANGED password

(* Tokens of one purpose and one email lose their value.                   *)
Retire(p, e) ==
    /\ \E S \in SUBSET {t \in Tokens : purpose[t] = p /\ email[t] = e} :
          status' = [t \in Tokens |-> IF t \in S THEN "used" ELSE status[t]]
    /\ UNCHANGED <<purpose, email, password>>

Use(t, p, pw) ==
    /\ status[t] = "live" /\ purpose[t] = p
    /\ status' = [status EXCEPT ![t] = "used"]
    /\ password' = [password EXCEPT ![email[t]] = pw]
    /\ UNCHANGED <<purpose, email>>

SignUp(t, pw) == Use(t, "signup", pw) /\ password[email[t]] = None
Reset(t, pw) == Use(t, "reset", pw) /\ password[email[t]] # None

Next ==
    \/ \E t \in Tokens, p \in {"signup", "reset"}, e \in Emails : Issue(t, p, e)
    \/ \E p \in {"signup", "reset"}, e \in Emails : Retire(p, e)
    \/ \E t \in Tokens, pw \in Passwords : SignUp(t, pw) \/ Reset(t, pw)

Spec == Init /\ [][Next]_vars
=============================================================================
