----------------------------- MODULE MCAccounts -----------------------------
(* How users get into their accounts: the tokens of sign-up and reset       *)
(* (ActionToken, which implements Accounts), and the codes by mail before   *)
(* them (AuthCode).  They share no state, the code is in Redis and the      *)
(* token in PostgreSQL, so one behaviour moves one of them and leaves the   *)
(* other where it began: all behaviours of each are explored.               *)
EXTENDS ActionToken, TLC

CONSTANTS
    Codes, CodeTTL, CooldownTTL, LockTTL, MaxAttempts, MaxWrong, RedisFails

VARIABLES
    part,                                           \* the part that moves
    store, issued, delivered, accepted, wrong, call

Mailed == INSTANCE AuthCode WITH req <- call

ASSUME LimitsAssumption == Mailed!TTLAssumption /\ Mailed!LimitAssumption
ASSUME CodesAssumption == Mailed!FaultAssumption /\ Mailed!CodeAssumption

-----------------------------------------------------------------------------
codeVars == <<store, issued, delivered, accepted, wrong, call>>

AccountsInit == Init /\ Mailed!Init /\ part \in {"tokens", "codes"}

AccountsNext ==
    /\ UNCHANGED part
    /\ \/ part = "tokens" /\ Next /\ UNCHANGED codeVars
       \/ part = "codes" /\ Mailed!Next /\ UNCHANGED vars

AccountsSpec == AccountsInit /\ [][AccountsNext]_<<part, vars, codeVars>>

Symmetry ==
    Permutations(Requests) \cup Permutations(Tokens) \cup Permutations(Emails)
        \cup Permutations(Passwords)

-----------------------------------------------------------------------------
TypesOK == TypeOK /\ Mailed!TypeOK

(* Of the tokens of an address, those that were there when a new one was    *)
(* being issued are retired, and the live ones are no more than the calls   *)
(* that may issue one at the same time (VerifyCode).                        *)
TokensRetired == OlderTokensRetired /\ LiveTokensBounded

(* Wrong guesses of a code are bounded, also over the expiry of counter and *)
(* lock, the counter does expire, and a code that VerifyCode has accepted   *)
(* is gone for good.                                                        *)
CodesLimited ==
    Mailed!GuessesBounded /\ Mailed!CounterExpires /\ Mailed!AcceptedIsGone
=============================================================================
