--------------------------- MODULE AccountsProofs ---------------------------
(***************************************************************************)
(* What holds of tokens and accounts, and of codes, for any number of      *)
(* requests, tokens, addresses and codes and any limits.                   *)
(***************************************************************************)
EXTENDS MCAccounts, FiniteSetTheorems, TLAPS

-----------------------------------------------------------------------------
(* The inductive invariant of the tokens: what each call relies on.        *)

Call ==
    [pc : {"idle", "scan", "invalidate", "create", "select", "identity", "mark"},
     purpose : Purposes \cup {None}, email : Emails \cup {None},
     token : Tokens \cup {None}, pw : Passwords \cup {None},
     rows : SUBSET Tokens, late : SUBSET Tokens]

(* What a call has been given, and what its statements have found so far.  *)
Knows(r) ==
    /\ req[r].pc \in {"scan", "invalidate", "create"} =>
          req[r].purpose \in Purposes /\ req[r].email \in Emails
    /\ req[r].pc \in {"invalidate", "create"} =>
          \A t \in req[r].rows :
              /\ status[t] # "none"
              /\ purpose[t] = req[r].purpose /\ email[t] = req[r].email
    /\ req[r].pc \in {"select", "identity", "mark"} =>
          req[r].token \in Tokens /\ req[r].pw \in Passwords /\ req[r].purpose \in Purposes

(* From SELECT ... FOR UPDATE on, the row is as Complete has read it.      *)
HoldsToken(r) ==
    req[r].pc \in {"identity", "mark"} =>
        /\ rowLock[req[r].token] = r
        /\ status[req[r].token] = "live"
        /\ purpose[req[r].token] = req[r].purpose /\ email[req[r].token] = req[r].email

(* From its write on, the account is there or not, as Complete needs it.   *)
HoldsMail(r) ==
    req[r].pc = "mark" =>
        /\ mailLock[req[r].email] = r
        /\ (password[req[r].email] = None) <=> (req[r].purpose = "signup")

RowsRetired(r) == req[r].pc = "create" => \A t \in req[r].rows : status[t] = "used"

CallInv(r) == Knows(r) /\ HoldsToken(r) /\ HoldsMail(r) /\ RowsRetired(r)

TokenInv == TypeOK /\ \A r \in Requests : CallInv(r)

(* Live tokens of an address have been issued by different slots, and what *)
(* a slot issued before its scan is among the rows of this scan.           *)
Live(p, e) == {t \in Tokens : status[t] = "live" /\ purpose[t] = p /\ email[t] = e}
Issuing(r, p, e) ==
    req[r].pc \in {"invalidate", "create"} /\ req[r].purpose = p /\ req[r].email = e
Issuers(p, e) ==
    {f \in [Live(p, e) -> Requests] :
        /\ \A t, u \in Live(p, e) : f[t] = f[u] => t = u
        /\ \A t \in Live(p, e) : Issuing(f[t], p, e) => t \in req[f[t]].rows}
IssuedApart == \A p \in Purposes, e \in Emails : Issuers(p, e) # {}

-----------------------------------------------------------------------------
(* Lemmas on the parts of a step.                                          *)

(* A step of one call changes the entry of that call alone.                *)
LEMMA CallStep ==
  ASSUME TypeOK, NEW r \in Requests, NEW c \in Call, req' = [req EXCEPT ![r] = c]
  PROVE  /\ req' \in [Requests -> Call]
         /\ req'[r] = c
         /\ \A q \in Requests \ {r} : req'[q] = req[q]
  BY DEF TypeOK, Call

(* An idle slot is a call like any other, and so is one that moves on.     *)
LEMMA IdleIsCall == Idle \in Call /\ Idle.pc = "idle"
  BY DEF Idle, Call

LEMMA CallMoves ==
  ASSUME NEW c \in Call,
         NEW pc \in {"idle", "scan", "invalidate", "create", "select", "identity", "mark"},
         NEW e \in Emails \cup {None}, NEW S \in SUBSET Tokens
  PROVE  /\ [c EXCEPT !.pc = pc] \in Call
         /\ [c EXCEPT !.pc = pc, !.email = e] \in Call
         /\ [c EXCEPT !.pc = pc, !.rows = S] \in Call
  BY ZenonT(40) DEF Call

(* The end of a statement or of a transaction frees what its call held,    *)
(* and nothing of any other call.                                          *)
LEMMA ReleaseKeepsOthers ==
  ASSUME TypeOK, NEW r \in Requests, Release(r)
  PROVE  /\ rowLock' \in [Tokens -> Requests \cup {None}]
         /\ mailLock' \in [Emails -> Requests \cup {None}]
         /\ \A t \in Tokens, q \in Requests \ {r} : rowLock[t] = q => rowLock'[t] = q
         /\ \A e \in Emails, q \in Requests \ {r} : mailLock[e] = q => mailLock'[e] = q
  BY DEF TypeOK, Release

(* A call that holds a row names a token and an address.                   *)
LEMMA HolderNames ==
  ASSUME TokenInv, NEW r \in Requests, req[r].pc \in {"identity", "mark"}
  PROVE  /\ req[r].token \in Tokens /\ req[r].email \in Emails
         /\ req[r].pw \in Passwords /\ req[r].purpose \in Purposes
         /\ rowLock[req[r].token] = r /\ status[req[r].token] = "live"
         /\ purpose[req[r].token] = req[r].purpose /\ email[req[r].token] = req[r].email
  BY DEF TokenInv, CallInv, Knows, HoldsToken, TypeOK

(* What the other calls rely on survives a step that leaves their rows and *)
(* their addresses alone and takes no row away.                            *)
LEMMA OthersKeep ==
  ASSUME TokenInv, NEW r, NEW q \in Requests \ {r}, req'[q] = req[q],
         \A t \in Tokens : status[t] # "none" =>
            status'[t] # "none" /\ purpose'[t] = purpose[t] /\ email'[t] = email[t],
         \A t \in Tokens : status[t] = "used" => status'[t] = "used",
         \A t \in Tokens : rowLock[t] = q =>
            rowLock'[t] = q /\ (status[t] = "live" => status'[t] = "live"),
         \A e \in Emails : mailLock[e] = q =>
            mailLock'[e] = q /\ (password'[e] = None <=> password[e] = None)
  PROVE  CallInv(q)'
  <1>1. CallInv(q) /\ req[q].rows \subseteq Tokens
    BY DEF TokenInv, TypeOK
  <1>2. Knows(q)'
    BY <1>1 DEF CallInv, Knows
  <1>3. RowsRetired(q)'
    BY <1>1 DEF CallInv, RowsRetired
  <1>4. HoldsToken(q)' /\ HoldsMail(q)'
    <2>1. CASE req[q].pc \in {"identity", "mark"}
      BY <1>1, <2>1, HolderNames DEF CallInv, HoldsToken, HoldsMail
    <2>2. CASE req[q].pc \notin {"identity", "mark"}
      BY <2>2 DEF HoldsToken, HoldsMail
    <2>3. QED
      BY <2>1, <2>2
  <1>5. QED
    BY <1>2, <1>3, <1>4 DEF CallInv

-----------------------------------------------------------------------------
(* One lemma for each action.                                              *)

LEMMA VerifyCodeInv ==
  ASSUME TokenInv, NEW r \in Requests, NEW p \in Purposes, NEW e \in Emails,
         VerifyCode(r, p, e)
  PROVE  TokenInv'
  <1> DEFINE c == [Idle EXCEPT !.pc = "scan", !.purpose = p, !.email = e]
  <1>1. c \in Call /\ c.pc = "scan" /\ c.purpose = p /\ c.email = e
    BY DEF Idle, Call
  <1> HIDE DEF c
  <1>2. /\ req' \in [Requests -> Call] /\ req'[r] = c
        /\ \A q \in Requests \ {r} : req'[q] = req[q]
    BY <1>1, CallStep DEF VerifyCode, TokenInv, c
  <1>3. TypeOK'
    BY <1>2 DEF TokenInv, TypeOK, VerifyCode, columns, Call
  <1>4. CallInv(r)'
    BY <1>1, <1>2 DEF CallInv, Knows, HoldsToken, HoldsMail, RowsRetired
  <1>5. \A q \in Requests \ {r} : CallInv(q)'
    BY <1>2, OthersKeep DEF VerifyCode, columns
  <1>6. QED
    BY <1>3, <1>4, <1>5 DEF TokenInv

LEMMA ScanInv ==
  ASSUME TokenInv, NEW r \in Requests, Scan(r)
  PROVE  TokenInv'
  <1> DEFINE S == {t \in Tokens : /\ status[t] = "live"
                                  /\ purpose[t] = req[r].purpose
                                  /\ email[t] = req[r].email}
             c == [req[r] EXCEPT !.pc = "invalidate", !.rows = S]
  <1>1. req[r] \in Call /\ S \in SUBSET Tokens /\ None \in Emails \cup {None}
    BY DEF TokenInv, TypeOK, Call
  <1>2. c \in Call
    BY <1>1, CallMoves
  <1>3. /\ c.pc = "invalidate" /\ c.rows = S
        /\ c.purpose = req[r].purpose /\ c.email = req[r].email
    BY <1>1 DEF Call
  <1>4. req' = [req EXCEPT ![r] = c]
    BY DEF Scan
  <1> HIDE DEF c
  <1>5. /\ req' \in [Requests -> Call] /\ req'[r] = c
        /\ \A q \in Requests \ {r} : req'[q] = req[q]
    BY <1>2, <1>4, CallStep DEF TokenInv
  <1>6. TypeOK'
    BY <1>5 DEF TokenInv, TypeOK, Scan, columns, Call
  <1>7. CallInv(r)'
    BY ZenonT(40), <1>3, <1>5 DEF TokenInv, Scan, columns, CallInv, Knows, HoldsToken, HoldsMail, RowsRetired
  <1>8. \A q \in Requests \ {r} : CallInv(q)'
    BY <1>5, OthersKeep DEF Scan, columns
  <1>9. QED
    BY <1>6, <1>7, <1>8 DEF TokenInv

LEMMA LockRowInv ==
  ASSUME TokenInv, NEW r \in Requests, NEW t \in Tokens, LockRow(r, t)
  PROVE  TokenInv'
  <1>1. TypeOK'
    BY DEF TokenInv, TypeOK, LockRow, columns
  <1>2. \A u \in Tokens, q \in Requests : rowLock[u] = q => rowLock'[u] = q
    BY NoneAssumption DEF TokenInv, TypeOK, LockRow
  <1>3. ASSUME NEW q \in Requests PROVE CallInv(q)'
    <2>1. CallInv(q)
      BY DEF TokenInv
    <2>2. HoldsToken(q)'
      BY <1>2, HolderNames, <2>1 DEF LockRow, columns, CallInv, HoldsToken
    <2>3. QED
      BY <2>1, <2>2 DEF LockRow, columns, CallInv, Knows, HoldsMail, RowsRetired
  <1>4. QED
    BY <1>1, <1>3 DEF TokenInv

LEMMA InvalidateInv ==
  ASSUME TokenInv, NEW r \in Requests, Invalidate(r)
  PROVE  TokenInv'
  <1> DEFINE c == [req[r] EXCEPT !.pc = "create"]
  <1>1. req[r] \in Call /\ None \in Emails \cup {None} /\ {} \in SUBSET Tokens
    BY DEF TokenInv, TypeOK, Call
  <1>2. c \in Call
    BY <1>1, CallMoves
  <1>3. /\ c.pc = "create" /\ c.rows = req[r].rows /\ c.rows \subseteq Tokens
        /\ c.purpose = req[r].purpose /\ c.email = req[r].email
    BY <1>1 DEF Call
  <1>4. req' = [req EXCEPT ![r] = c]
    BY DEF Invalidate, GoTo
  <1> HIDE DEF c
  <1>5. /\ req' \in [Requests -> Call] /\ req'[r] = c
        /\ \A q \in Requests \ {r} : req'[q] = req[q]
    BY <1>2, <1>4, CallStep DEF TokenInv
  <1>6. /\ status' \in [Tokens -> {"none", "live", "used"}]
        /\ \A t \in Tokens : t \in req[r].rows => status[t] # "none" /\ status'[t] = "used"
        /\ \A t \in Tokens : t \notin req[r].rows => status'[t] = status[t]
    BY DEF TokenInv, CallInv, Knows, TypeOK, Invalidate
  <1>7. TypeOK'
    BY <1>5, <1>6, ReleaseKeepsOthers DEF TokenInv, TypeOK, Invalidate, Call
  <1>8. CallInv(r)'
    BY <1>3, <1>5, <1>6 DEF TokenInv, Invalidate, CallInv, Knows, HoldsToken, HoldsMail, RowsRetired
  <1>9. ASSUME NEW q \in Requests \ {r} PROVE CallInv(q)'
    <2>1. \A t \in Tokens : rowLock[t] = q => rowLock'[t] = q
      BY ReleaseKeepsOthers DEF TokenInv, Invalidate
    <2>2. \A t \in Tokens : rowLock[t] = q /\ status[t] = "live" => status'[t] = "live"
      BY <1>6 DEF Invalidate
    <2>3. \A e \in Emails : mailLock[e] = q => mailLock'[e] = q
      BY ReleaseKeepsOthers DEF TokenInv, Invalidate
    <2>4. QED
      BY <1>5, <1>6, <2>1, <2>2, <2>3, OthersKeep DEF Invalidate
  <1>10. QED
    BY <1>7, <1>8, <1>9 DEF TokenInv

LEMMA CreateInv ==
  ASSUME TokenInv, NEW r \in Requests, CreateEmailActionSession(r)
  PROVE  TokenInv'
  <1>1. PICK t \in Tokens :
           /\ status[t] = "none"
           /\ status' = [status EXCEPT ![t] = "live"]
           /\ purpose' = [purpose EXCEPT ![t] = req[r].purpose]
           /\ email' = [email EXCEPT ![t] = req[r].email]
    BY DEF CreateEmailActionSession
  <1>2. /\ req' \in [Requests -> Call] /\ req'[r] = Idle
        /\ \A q \in Requests \ {r} : req'[q] = req[q]
    BY IdleIsCall, CallStep DEF TokenInv, CreateEmailActionSession
  <1>3. req[r].purpose \in Purposes /\ req[r].email \in Emails
    BY DEF TokenInv, CallInv, Knows, CreateEmailActionSession
  <1>4. \A u \in Tokens : u # t =>
           status'[u] = status[u] /\ purpose'[u] = purpose[u] /\ email'[u] = email[u]
    BY <1>1 DEF TokenInv, TypeOK
  <1>5. status'[t] = "live" /\ purpose'[t] = req[r].purpose /\ email'[t] = req[r].email
    BY <1>1 DEF TokenInv, TypeOK
  <1>6. TypeOK'
    <2>1. /\ status' \in [Tokens -> {"none", "live", "used"}]
          /\ purpose' \in [Tokens -> Purposes \cup {None}]
          /\ email' \in [Tokens -> Emails \cup {None}]
      BY <1>1, <1>3 DEF TokenInv, TypeOK
    <2>2. \A u \in Tokens : status'[u] # "none" => purpose'[u] # None /\ email'[u] # None
      BY <1>3, <1>4, <1>5, NoneAssumption DEF TokenInv, TypeOK, Purposes
    <2>3. QED
      BY <1>2, <2>1, <2>2 DEF TokenInv, TypeOK, CreateEmailActionSession, Call
  <1>7. CallInv(r)'
    BY <1>2, IdleIsCall DEF CallInv, Knows, HoldsToken, HoldsMail, RowsRetired
  <1>8. \A q \in Requests \ {r} : CallInv(q)'
    BY <1>1, <1>2, <1>4, OthersKeep DEF CreateEmailActionSession
  <1>9. QED
    BY <1>6, <1>7, <1>8 DEF TokenInv

LEMMA CompleteInv ==
  ASSUME TokenInv, NEW r \in Requests, NEW p \in Purposes, NEW t \in Tokens,
         NEW pw \in Passwords, Complete(r, p, t, pw)
  PROVE  TokenInv'
  <1> DEFINE c == [Idle EXCEPT !.pc = "select", !.purpose = p,
                               !.token = t, !.pw = pw, !.late = expired \cap {t}]
  <1>1. /\ c \in Call /\ c.pc = "select" /\ c.purpose = p
        /\ c.token = t /\ c.pw = pw
    BY DEF Idle, Call, TokenInv, TypeOK
  <1> HIDE DEF c
  <1>2. /\ req' \in [Requests -> Call] /\ req'[r] = c
        /\ \A q \in Requests \ {r} : req'[q] = req[q]
    BY <1>1, CallStep DEF Complete, TokenInv, c
  <1>3. TypeOK'
    BY <1>2 DEF TokenInv, TypeOK, Complete, columns, Call
  <1>4. CallInv(r)'
    BY <1>1, <1>2 DEF CallInv, Knows, HoldsToken, HoldsMail, RowsRetired
  <1>5. \A q \in Requests \ {r} : CallInv(q)'
    BY <1>2, OthersKeep DEF Complete, columns
  <1>6. QED
    BY <1>3, <1>4, <1>5 DEF TokenInv

LEMMA SelectForUpdateInv ==
  ASSUME TokenInv, NEW r \in Requests, SelectForUpdate(r)
  PROVE  TokenInv'
  <1> DEFINE t == req[r].token
             c == [req[r] EXCEPT !.pc = "identity", !.email = email[t]]
  <1>1. /\ req[r] \in Call /\ t \in Tokens /\ {} \in SUBSET Tokens
        /\ email[t] \in Emails \cup {None}
        /\ req[r].pw \in Passwords /\ req[r].purpose \in Purposes
    BY DEF TokenInv, TypeOK, Call, CallInv, Knows, SelectForUpdate
  <1>2. c \in Call
    BY <1>1, CallMoves
  <1>3. /\ c.pc = "identity" /\ c.token = t /\ c.email = email[t]
        /\ c.purpose = req[r].purpose /\ c.pw = req[r].pw
    BY <1>1 DEF Call
  <1>4. req' = [req EXCEPT ![r] = c]
    BY DEF SelectForUpdate
  <1> HIDE DEF c
  <1>5. /\ req' \in [Requests -> Call] /\ req'[r] = c
        /\ \A q \in Requests \ {r} : req'[q] = req[q]
    BY <1>2, <1>4, CallStep DEF TokenInv
  <1>6. TypeOK'
    BY <1>1, <1>5 DEF TokenInv, TypeOK, SelectForUpdate, columns, Call
  <1>7. rowLock'[t] = r /\ \A u \in Tokens : u # t => rowLock'[u] = rowLock[u]
    BY <1>1 DEF SelectForUpdate, TokenInv, TypeOK
  <1>8. CallInv(r)'
    BY <1>1, <1>3, <1>5, <1>7
       DEF SelectForUpdate, columns, CallInv, Knows, HoldsToken, HoldsMail, RowsRetired
  <1>9. \A q \in Requests \ {r} : CallInv(q)'
    BY SMTT(30), <1>5, <1>7, OthersKeep, NoneAssumption DEF SelectForUpdate, columns
  <1>10. QED
    BY <1>6, <1>8, <1>9 DEF TokenInv

LEMMA WriteIdentityInv ==
  ASSUME TokenInv, NEW r \in Requests, WriteIdentity(r)
  PROVE  TokenInv'
  <1> DEFINE e == req[r].email
             c == [req[r] EXCEPT !.pc = "mark"]
  <1>1. /\ req[r] \in Call /\ e \in Emails /\ {} \in SUBSET Tokens
        /\ None \in Emails \cup {None}
    BY HolderNames DEF TokenInv, TypeOK, Call, WriteIdentity
  <1>2. c \in Call
    BY <1>1, CallMoves
  <1>3. /\ c.pc = "mark" /\ c.token = req[r].token /\ c.email = e
        /\ c.purpose = req[r].purpose /\ c.pw = req[r].pw
    BY <1>1 DEF Call
  <1>4. req' = [req EXCEPT ![r] = c]
    BY DEF WriteIdentity, GoTo
  <1> HIDE DEF c
  <1>5. /\ req' \in [Requests -> Call] /\ req'[r] = c
        /\ \A q \in Requests \ {r} : req'[q] = req[q]
    BY <1>2, <1>4, CallStep DEF TokenInv
  <1>6. TypeOK'
    BY <1>1, <1>5 DEF TokenInv, TypeOK, WriteIdentity, columns, Call
  <1>7. mailLock'[e] = r /\ \A f \in Emails : f # e => mailLock'[f] = mailLock[f]
    BY <1>1 DEF WriteIdentity, TokenInv, TypeOK
  <1>8. CallInv(r)'
    <2>1. Knows(r) /\ HoldsToken(r)
      BY DEF TokenInv, CallInv
    <2>2. QED
      BY <1>3, <1>5, <1>7, <2>1
         DEF WriteIdentity, columns, CallInv, Knows, HoldsToken, HoldsMail, RowsRetired
  <1>9. \A q \in Requests \ {r} : CallInv(q)'
    BY <1>5, <1>7, OthersKeep, NoneAssumption DEF WriteIdentity, columns
  <1>10. QED
    BY <1>6, <1>8, <1>9 DEF TokenInv

LEMMA FinishInv ==
  ASSUME TokenInv, NEW r \in Requests, Finish(r)
  PROVE  TokenInv'
  <1> DEFINE t == req[r].token
             e == req[r].email
  <1>1. /\ t \in Tokens /\ e \in Emails /\ req[r].pw \in Passwords
        /\ rowLock[t] = r /\ mailLock[e] = r /\ status[t] = "live"
    BY HolderNames DEF Finish, TokenInv, CallInv, HoldsMail
  <1>2. /\ req' \in [Requests -> Call] /\ req'[r] = Idle
        /\ \A q \in Requests \ {r} : req'[q] = req[q]
    BY IdleIsCall, CallStep DEF TokenInv, Finish
  <1>3. /\ status' \in [Tokens -> {"none", "live", "used"}]
        /\ status'[t] = "used" /\ \A u \in Tokens : u # t => status'[u] = status[u]
        /\ password' \in [Emails -> Passwords \cup {None}]
        /\ \A f \in Emails : f # e => password'[f] = password[f]
    BY <1>1 DEF TokenInv, TypeOK, Finish
  <1>4. TypeOK'
    BY <1>1, <1>2, <1>3, ReleaseKeepsOthers DEF TokenInv, TypeOK, Finish, Call
  <1>5. CallInv(r)'
    BY <1>2, IdleIsCall DEF CallInv, Knows, HoldsToken, HoldsMail, RowsRetired
  <1>6. ASSUME NEW q \in Requests \ {r} PROVE CallInv(q)'
    <2>1. \A u \in Tokens : rowLock[u] = q => u # t /\ rowLock'[u] = q
      BY <1>1, ReleaseKeepsOthers DEF TokenInv, Finish
    <2>2. \A f \in Emails : mailLock[f] = q => f # e /\ mailLock'[f] = q
      BY <1>1, ReleaseKeepsOthers DEF TokenInv, Finish
    <2>3. QED
      BY <1>1, <1>2, <1>3, <2>1, <2>2, OthersKeep DEF Finish
  <1>7. QED
    BY <1>4, <1>5, <1>6 DEF TokenInv

(* Refuse, DetectDeadlock and Crash: a call ends and nothing is committed. *)
LEMMA RollbackInv ==
  ASSUME TokenInv, NEW r \in Requests, req' = [req EXCEPT ![r] = Idle],
         Release(r), UNCHANGED columns
  PROVE  TokenInv'
  <1>1. /\ req' \in [Requests -> Call] /\ req'[r] = Idle
        /\ \A q \in Requests \ {r} : req'[q] = req[q]
    BY IdleIsCall, CallStep DEF TokenInv
  <1>2. TypeOK'
    BY <1>1, ReleaseKeepsOthers DEF TokenInv, TypeOK, columns, Call
  <1>3. CallInv(r)'
    BY <1>1, IdleIsCall DEF CallInv, Knows, HoldsToken, HoldsMail, RowsRetired
  <1>4. ASSUME NEW q \in Requests \ {r} PROVE CallInv(q)'
    <2>1. /\ \A t \in Tokens : rowLock[t] = q => rowLock'[t] = q
          /\ \A e \in Emails : mailLock[e] = q => mailLock'[e] = q
      BY ReleaseKeepsOthers DEF TokenInv
    <2>2. QED
      BY <1>1, <2>1, OthersKeep DEF columns
  <1>5. QED
    BY <1>2, <1>3, <1>4 DEF TokenInv

LEMMA ExpireInv ==
  ASSUME TokenInv, NEW t \in Tokens, Expire(t)
  PROVE  TokenInv'
  <1>1. TypeOK'
    BY DEF TokenInv, TypeOK, Expire
  <1>2. \A r \in Requests : CallInv(r)'
    BY DEF TokenInv, Expire, CallInv, Knows, HoldsToken, HoldsMail, RowsRetired
  <1>3. QED
    BY <1>1, <1>2 DEF TokenInv

LEMMA TokenInvStep == TokenInv /\ [Next]_vars => TokenInv'
  <1> SUFFICES ASSUME TokenInv, [Next]_vars PROVE TokenInv'
    OBVIOUS
  <1>1. ASSUME NEW r \in Requests, Step(r) PROVE TokenInv'
    BY <1>1, ScanInv, InvalidateInv, CreateInv, FinishInv, RollbackInv DEF Step, DetectDeadlock
  <1>2. ASSUME NEW r \in Requests, Waits(r) PROVE TokenInv'
    BY <1>2, LockRowInv, SelectForUpdateInv, WriteIdentityInv, RollbackInv DEF Waits, Refuse
  <1>3. ASSUME NEW r \in Requests, Crash(r) PROVE TokenInv'
    BY <1>3, RollbackInv DEF Crash
  <1>4. ASSUME NEW r \in Requests, NEW p \in Purposes, NEW e \in Emails, VerifyCode(r, p, e)
        PROVE  TokenInv'
    BY <1>4, VerifyCodeInv
  <1>5. ASSUME NEW r \in Requests, NEW p \in Purposes, NEW t \in Tokens,
               NEW pw \in Passwords, Complete(r, p, t, pw)
        PROVE  TokenInv'
    BY <1>5, CompleteInv
  <1>6. ASSUME NEW t \in Tokens, Expire(t) PROVE TokenInv'
    BY <1>6, ExpireInv
  <1>7. CASE UNCHANGED vars
    BY <1>7 DEF vars, TokenInv, TypeOK, CallInv, Knows, HoldsToken, HoldsMail, RowsRetired
  <1>8. QED
    BY <1>1, <1>2, <1>3, <1>4, <1>5, <1>6, <1>7 DEF Next

LEMMA TokenInvInit == Init => TokenInv
  <1> SUFFICES ASSUME Init PROVE TokenInv
    OBVIOUS
  <1>1. \A r \in Requests : req[r] = Idle /\ req[r].pc = "idle"
    BY IdleIsCall DEF Init
  <1>2. TypeOK
    BY IdleIsCall DEF Init, TypeOK, Call
  <1>3. \A r \in Requests : CallInv(r)
    BY <1>1 DEF CallInv, Knows, HoldsToken, HoldsMail, RowsRetired
  <1>4. QED
    BY <1>2, <1>3 DEF TokenInv

-----------------------------------------------------------------------------
(* The live tokens of an address, and the slots that issued them.          *)

(* A step that issues no token of the address keeps the map from tokens to *)
(* slots, if a scan finds all of them.                                     *)
LEMMA IssuersKept ==
  ASSUME NEW p, NEW e, Issuers(p, e) # {}, Live(p, e)' \subseteq Live(p, e),
         \A r \in Requests : Issuing(r, p, e)' =>
            \/ Live(p, e)' \subseteq req'[r].rows
            \/ Issuing(r, p, e) /\ req'[r].rows = req[r].rows
  PROVE  Issuers(p, e)' # {}
  <1>1. PICK f \in [Live(p, e) -> Requests] :
           /\ \A t, u \in Live(p, e) : f[t] = f[u] => t = u
           /\ \A t \in Live(p, e) : Issuing(f[t], p, e) => t \in req[f[t]].rows
    BY DEF Issuers
  <1>2. PICK g : g \in [Live(p, e)' -> Requests] /\ \A t \in Live(p, e)' : g[t] = f[t]
    <2>1. WITNESS [t \in Live(p, e)' |-> f[t]]
    <2>2. QED
      BY <1>1
  <1>3. \A t, u \in Live(p, e)' : g[t] = g[u] => t = u
    BY <1>1, <1>2
  <1>4. ASSUME NEW t \in Live(p, e)', Issuing(g[t], p, e)' PROVE t \in req'[g[t]].rows
    <2>1. t \in Live(p, e) /\ g[t] = f[t] /\ f[t] \in Requests
      BY <1>1, <1>2
    <2>2. \/ Live(p, e)' \subseteq req'[f[t]].rows
          \/ Issuing(f[t], p, e) /\ req'[f[t]].rows = req[f[t]].rows
      BY <1>4, <2>1 DEF Issuing
    <2>3. QED
      BY <1>1, <2>1, <2>2
  <1>5. g \in Issuers(p, e)'
    BY <1>2, <1>3, <1>4 DEF Issuers
  <1>6. QED
    BY <1>5

(* A slot that inserts a token has retired those that it issued before.    *)
LEMMA IssuersExtended ==
  ASSUME TokenInv, NEW r \in Requests, NEW t \in Tokens,
         NEW p, p = req[r].purpose, NEW e, e = req[r].email,
         req[r].pc = "create", status[t] = "none",
         status' = [status EXCEPT ![t] = "live"],
         purpose' = [purpose EXCEPT ![t] = p],
         email' = [email EXCEPT ![t] = e],
         req' = [req EXCEPT ![r] = Idle],
         Issuers(p, e) # {}
  PROVE  Issuers(p, e)' # {}
  <1>1. PICK f \in [Live(p, e) -> Requests] :
           /\ \A u, v \in Live(p, e) : f[u] = f[v] => u = v
           /\ \A u \in Live(p, e) : Issuing(f[u], p, e) => u \in req[f[u]].rows
    BY DEF Issuers
  <1>2. Live(p, e)' = Live(p, e) \cup {t} /\ t \notin Live(p, e)
    BY DEF Live, TokenInv, TypeOK
  <1>3. \A u \in Live(p, e) : f[u] # r
    <2>1. \A u \in Live(p, e) : status[u] = "live"
      BY DEF Live
    <2>2. Issuing(r, p, e) /\ \A u \in req[r].rows : status[u] = "used"
      BY DEF Issuing, TokenInv, CallInv, RowsRetired
    <2>3. QED
      BY <1>1, <2>1, <2>2
  <1>4. PICK g : /\ g \in [Live(p, e) \cup {t} -> Requests] /\ g[t] = r
                 /\ \A u \in Live(p, e) : g[u] = f[u]
    <2>1. WITNESS [u \in Live(p, e) \cup {t} |-> IF u = t THEN r ELSE f[u]]
    <2>2. QED
      BY <1>1, <1>2
  <1>5. \A u, v \in Live(p, e)' : g[u] = g[v] => u = v
    BY <1>1, <1>2, <1>3, <1>4
  <1>6. req'[r].pc = "idle" /\ \A q \in Requests \ {r} : req'[q] = req[q]
    BY CallStep, IdleIsCall DEF TokenInv
  <1>7. ASSUME NEW u \in Live(p, e)', Issuing(g[u], p, e)' PROVE u \in req'[g[u]].rows
    <2>1. g[u] # r
      BY <1>6, <1>7 DEF Issuing
    <2>2. u \in Live(p, e) /\ g[u] = f[u] /\ f[u] \in Requests \ {r}
      BY <1>1, <1>2, <1>3, <1>4, <2>1
    <2>3. Issuing(f[u], p, e) /\ req'[f[u]] = req[f[u]]
      BY <1>6, <1>7, <2>2 DEF Issuing
    <2>4. QED
      BY <1>1, <2>2, <2>3
  <1>8. g \in Issuers(p, e)'
    BY <1>2, <1>4, <1>5, <1>7 DEF Issuers
  <1>9. QED
    BY <1>8

LEMMA IssuedApartStep ==
  ASSUME TokenInv, IssuedApart, [Next]_vars
  PROVE  IssuedApart'
  <1> SUFFICES ASSUME NEW p \in Purposes, NEW e \in Emails PROVE Issuers(p, e)' # {}
    BY DEF IssuedApart
  <1>1. Issuers(p, e) # {}
    BY DEF IssuedApart
  <1>2. CASE UNCHANGED vars
    <2>1. Live(p, e)' = Live(p, e) /\ \A r \in Requests : Issuing(r, p, e)' <=> Issuing(r, p, e)
      BY <1>2 DEF vars, Live, Issuing
    <2>2. QED
      BY <1>1, <1>2, <2>1, IssuersKept DEF vars
  <1>3. ASSUME NEW r \in Requests, Scan(r) PROVE Issuers(p, e)' # {}
    <2>1. Live(p, e)' = Live(p, e)
      BY <1>3 DEF Scan, columns, Live
    <2>2. Issuing(r, p, e)' => Live(p, e)' \subseteq req'[r].rows
      BY <1>3 DEF Scan, columns, Live, Issuing, TokenInv, TypeOK
    <2>3. \A q \in Requests \ {r} : req'[q] = req[q]
      BY <1>3 DEF Scan, TokenInv, TypeOK
    <2>4. QED
      BY <1>1, <2>1, <2>2, <2>3, IssuersKept DEF Issuing
  <1>4. ASSUME NEW r \in Requests, Invalidate(r) PROVE Issuers(p, e)' # {}
    <2>1. Live(p, e)' \subseteq Live(p, e)
      BY <1>4 DEF Invalidate, Live
    <2>2. /\ req'[r].purpose = req[r].purpose /\ req'[r].email = req[r].email
          /\ req'[r].rows = req[r].rows
          /\ \A q \in Requests \ {r} : req'[q] = req[q]
      BY <1>4 DEF Invalidate, GoTo, TokenInv, TypeOK
    <2>3. QED
      BY <1>1, <1>4, <2>1, <2>2, IssuersKept DEF Invalidate, Issuing
  <1>5. ASSUME NEW r \in Requests, CreateEmailActionSession(r) PROVE Issuers(p, e)' # {}
    <2>1. PICK t \in Tokens :
             /\ status[t] = "none"
             /\ status' = [status EXCEPT ![t] = "live"]
             /\ purpose' = [purpose EXCEPT ![t] = req[r].purpose]
             /\ email' = [email EXCEPT ![t] = req[r].email]
      BY <1>5 DEF CreateEmailActionSession
    <2>2. req' = [req EXCEPT ![r] = Idle] /\ req[r].pc = "create"
      BY <1>5 DEF CreateEmailActionSession
    <2>3. CASE p = req[r].purpose /\ e = req[r].email
      BY <1>1, <2>1, <2>2, <2>3, IssuersExtended
    <2>4. CASE ~(p = req[r].purpose /\ e = req[r].email)
      <3>1. Live(p, e)' \subseteq Live(p, e)
        BY <2>1, <2>4 DEF Live, TokenInv, TypeOK
      <3>2. req'[r].pc = "idle" /\ \A q \in Requests \ {r} : req'[q] = req[q]
        BY <2>2, CallStep, IdleIsCall DEF TokenInv
      <3>3. QED
        BY <1>1, <3>1, <3>2, IssuersKept DEF Issuing
    <2>5. QED
      BY <2>3, <2>4
  (* Every other step of a call leaves it outside of VerifyCode's UPDATE   *)
  (* and INSERT, and makes no token live.                                  *)
  <1>6. ASSUME NEW r \in Requests, NEW c \in Call, req' = [req EXCEPT ![r] = c],
               c.pc \notin {"invalidate", "create"}, Live(p, e)' \subseteq Live(p, e)
        PROVE  Issuers(p, e)' # {}
    <2>1. req'[r] = c /\ \A q \in Requests \ {r} : req'[q] = req[q]
      BY <1>6, CallStep DEF TokenInv
    <2>2. QED
      BY <1>1, <1>6, <2>1, IssuersKept DEF Issuing
  <1>7. UNCHANGED columns => Live(p, e)' = Live(p, e)
    BY DEF columns, Live
  <1>8. ASSUME NEW r \in Requests, Waits(r) PROVE Issuers(p, e)' # {}
    <2>1. CASE \E t \in Tokens : LockRow(r, t)
      BY <1>1, <1>7, <2>1, IssuersKept DEF LockRow, Issuing
    <2>2. CASE SelectForUpdate(r)
      <3>1. \A q \in Requests \ {r} : req'[q] = req[q]
        BY <2>2 DEF SelectForUpdate, TokenInv, TypeOK
      <3>2. req'[r].pc = "identity"
        BY <2>2 DEF SelectForUpdate, TokenInv, TypeOK
      <3>3. QED
        <4>1. Live(p, e)' \subseteq Live(p, e)
          BY <1>7, <2>2 DEF SelectForUpdate
        <4>2. QED
          BY <1>1, <3>1, <3>2, <4>1, IssuersKept DEF Issuing
    <2>3. CASE WriteIdentity(r)
      <3>1. req'[r].pc = "mark" /\ \A q \in Requests \ {r} : req'[q] = req[q]
        BY <2>3 DEF WriteIdentity, GoTo, TokenInv, TypeOK
      <3>2. QED
        BY <1>1, <1>7, <2>3, <3>1, IssuersKept DEF WriteIdentity, Issuing
    <2>4. CASE Refuse(r)
      BY <1>6, <1>7, <2>4, IdleIsCall DEF Refuse
    <2>5. QED
      BY <1>8, <2>1, <2>2, <2>3, <2>4 DEF Waits
  <1>9. ASSUME NEW r \in Requests, Finish(r) PROVE Issuers(p, e)' # {}
    <2>1. Live(p, e)' \subseteq Live(p, e)
      BY <1>9 DEF Finish, Live, TokenInv, TypeOK
    <2>2. QED
      BY <1>6, <1>9, <2>1, IdleIsCall DEF Finish
  <1>10. ASSUME NEW r \in Requests, Crash(r) \/ DetectDeadlock(r) PROVE Issuers(p, e)' # {}
    BY <1>6, <1>7, <1>10, IdleIsCall DEF Crash, DetectDeadlock
  <1>11. ASSUME NEW r \in Requests, NEW o \in Purposes, NEW f \in Emails, VerifyCode(r, o, f)
         PROVE  Issuers(p, e)' # {}
    <2>1. [Idle EXCEPT !.pc = "scan", !.purpose = o, !.email = f] \in Call
      BY DEF Idle, Call
    <2>2. QED
      BY <1>6, <1>7, <1>11, <2>1, IdleIsCall DEF VerifyCode, Idle
  <1>12. ASSUME NEW r \in Requests, NEW o \in Purposes, NEW t \in Tokens,
                NEW pw \in Passwords, Complete(r, o, t, pw)
         PROVE  Issuers(p, e)' # {}
    <2>1. [Idle EXCEPT !.pc = "select", !.purpose = o, !.token = t,
                       !.pw = pw, !.late = expired \cap {t}] \in Call
      BY DEF Idle, Call, TokenInv, TypeOK
    <2>2. QED
      BY <1>6, <1>7, <1>12, <2>1, IdleIsCall DEF Complete, Idle
  <1>13. ASSUME NEW t \in Tokens, Expire(t) PROVE Issuers(p, e)' # {}
    BY <1>1, <1>13, IssuersKept DEF Expire, Live, Issuing
  <1>14. QED
    BY <1>2, <1>3, <1>4, <1>5, <1>8, <1>9, <1>10, <1>11, <1>12, <1>13 DEF Next, Step

LEMMA IssuedApartInit == ASSUME Init PROVE IssuedApart
  <1>1. \A p, e : Live(p, e) = {}
    BY DEF Init, Live
  <1>2. \A p, e : [t \in {} |-> None] \in Issuers(p, e)
    BY <1>1 DEF Issuers
  <1>3. QED
    BY <1>2 DEF IssuedApart

(* Tokens that different slots have issued are no more than the slots.     *)
LEMMA ApartIsBounded == IssuedApart => LiveTokensBounded
  <1> SUFFICES ASSUME IssuedApart, NEW p \in Purposes, NEW e \in Emails
               PROVE  Cardinality(Live(p, e)) <= Cardinality(Requests)
    BY DEF LiveTokensBounded, Live
  <1>1. PICK f : f \in Issuers(p, e)
    BY DEF IssuedApart
  <1>2. f \in Injection(Live(p, e), Requests)
    BY <1>1 DEF Issuers, Injection, IsInjective
  <1>3. QED
    BY <1>2, FS_Injection, RequestsAssumption

-----------------------------------------------------------------------------
(* The committed rows implement Accounts.                                  *)

(* Completing an action: the token of the transaction is used, and the     *)
(* account of its address is new, or has a new password, as it asks for.   *)
LEMMA FinishUses ==
  ASSUME TokenInv, NEW r \in Requests, Finish(r)
  PROVE  Promise!Next
  <1> DEFINE t == req[r].token
             e == req[r].email
             pw == req[r].pw
  <1>1. /\ t \in Tokens /\ pw \in Passwords /\ req[r].purpose \in Purposes
        /\ status[t] = "live" /\ purpose[t] = req[r].purpose /\ email[t] = e
        /\ (password[e] = None) <=> (req[r].purpose = "signup")
    BY HolderNames DEF Finish, TokenInv, CallInv, HoldsMail
  <1>2. Promise!Use(t, req[r].purpose, pw)
    BY <1>1 DEF Finish, Promise!Use
  <1>3. Promise!SignUp(t, pw) \/ Promise!Reset(t, pw)
    BY <1>1, <1>2 DEF Promise!SignUp, Promise!Reset, Purposes
  <1>4. QED
    BY <1>1, <1>3 DEF Promise!Next

(* Each step of the calls is a step of Accounts, or changes none of its    *)
(* variables.                                                              *)
LEMMA StepImplements == TokenInv /\ [Next]_vars => [Promise!Next]_(Promise!vars)
  <1> SUFFICES ASSUME TokenInv, [Next]_vars PROVE Promise!Next \/ UNCHANGED Promise!vars
    OBVIOUS
  <1>1. ASSUME NEW r \in Requests, Invalidate(r) PROVE Promise!Next
    <2> DEFINE p == req[r].purpose
               e == req[r].email
    <2>1. /\ p \in Purposes /\ e \in Emails
          /\ req[r].rows \in SUBSET {t \in Tokens : purpose[t] = p /\ email[t] = e}
      BY <1>1 DEF Invalidate, TokenInv, TypeOK, CallInv, Knows
    <2>2. Promise!Retire(p, e)
      BY <1>1, <2>1 DEF Invalidate, Promise!Retire
    <2>3. QED
      BY <2>1, <2>2 DEF Promise!Next, Purposes
  <1>2. ASSUME NEW r \in Requests, CreateEmailActionSession(r) PROVE Promise!Next
    <2>1. req[r].purpose \in Purposes /\ req[r].email \in Emails
      BY <1>2 DEF CreateEmailActionSession, TokenInv, CallInv, Knows
    <2>2. \E t \in Tokens : Promise!Issue(t, req[r].purpose, req[r].email)
      BY <1>2 DEF CreateEmailActionSession, Promise!Issue
    <2>3. QED
      BY <2>1, <2>2 DEF Promise!Next, Purposes
  <1>3. ASSUME NEW r \in Requests, Scan(r) \/ Waits(r) \/ Crash(r) \/ DetectDeadlock(r)
        PROVE  UNCHANGED Promise!vars
    BY <1>3 DEF Scan, Waits, LockRow, SelectForUpdate, WriteIdentity, Refuse, Crash,
                DetectDeadlock, columns, Promise!vars
  <1>4. ASSUME NEW r \in Requests, Step(r) PROVE Promise!Next \/ UNCHANGED Promise!vars
    BY <1>1, <1>2, <1>3, <1>4, FinishUses DEF Step
  <1>5. ASSUME NEW r \in Requests, NEW p \in Purposes, NEW e \in Emails, VerifyCode(r, p, e)
        PROVE  UNCHANGED Promise!vars
    BY <1>5 DEF VerifyCode, columns, Promise!vars
  <1>6. ASSUME NEW r \in Requests, NEW p \in Purposes, NEW t \in Tokens,
               NEW pw \in Passwords, Complete(r, p, t, pw)
        PROVE  UNCHANGED Promise!vars
    BY <1>6 DEF Complete, columns, Promise!vars
  <1>7. ASSUME NEW t \in Tokens, Expire(t) PROVE UNCHANGED Promise!vars
    BY <1>7 DEF Expire, Promise!vars
  <1>8. CASE UNCHANGED vars
    BY <1>8 DEF vars, Promise!vars
  <1>9. QED
    BY <1>3, <1>4, <1>5, <1>6, <1>7, <1>8 DEF Next

-----------------------------------------------------------------------------
(* The behaviours of MCAccounts move the tokens as ActionToken says.       *)

LEMMA TokensAreActionTokens == AccountsSpec => Spec
  <1>1. AccountsInit => Init
    BY DEF AccountsInit
  <1>2. [AccountsNext]_<<part, vars, codeVars>> => [Next]_vars
    BY DEF AccountsNext
  <1>3. QED
    BY <1>1, <1>2, PTL DEF AccountsSpec, Spec

(* The invariant of the tokens, whatever calls come, end or crash.         *)
THEOREM TokensHold == Spec => [](TokenInv /\ IssuedApart)
  <1>1. Init => TokenInv /\ IssuedApart
    BY TokenInvInit, IssuedApartInit
  <1>2. TokenInv /\ IssuedApart /\ [Next]_vars => (TokenInv /\ IssuedApart)'
    BY TokenInvStep, IssuedApartStep
  <1>3. QED
    BY <1>1, <1>2, PTL DEF Spec

(* Of the tokens of an address, those that were there when a newer one was *)
(* being issued no longer work, and the live ones are no more than the     *)
(* calls in progress at a time (CodeService.VerifyCode).                   *)
THEOREM OnlyNewTokensLive == AccountsSpec => []TokensRetired
  <1>1. TokenInv /\ IssuedApart => TokensRetired
    BY ApartIsBounded
       DEF TokensRetired, OlderTokensRetired, TokenInv, CallInv, RowsRetired
  <1>2. QED
    BY <1>1, TokensAreActionTokens, TokensHold, PTL

(* Signing up and resetting a password keep what Accounts promises: a      *)
(* token serves once and for its purpose, and using it changes the account *)
(* in the same step (RegisterUserWithSignupToken,                          *)
(* ResetPasswordWithResetToken).                                           *)
THEOREM TokensImplementAccounts == AccountsSpec => ImplementsAccounts
  <1>1. Init => Promise!Init
    BY DEF Init, Promise!Init
  <1>2. Spec => Promise!Spec
    BY <1>1, StepImplements, TokensHold, PTL DEF Spec, Promise!Spec
  <1>3. QED
    BY <1>2, TokensAreActionTokens, PTL DEF ImplementsAccounts

-----------------------------------------------------------------------------
(* The inductive invariant of the codes.                                   *)

Pcs == {"idle"} \cup Mailed!SendSteps \cup Mailed!VerifySteps
Entry == [val : Codes \cup {None} \cup Nat, ttl : Nat \cup {Mailed!Forever}]
MailCall == [pc : Pcs, code : Codes \cup {None}, n : Nat]

(* The types, and that a send and an accepted verification have a code     *)
(* that was generated.                                                     *)
StoreOK ==
    /\ store \in [Mailed!Keys -> Entry]
    /\ \A k \in Mailed!Keys : store[k].val = None <=> store[k].ttl = 0
    /\ store["code"].val \in issued \cup {None}
    /\ store["code"].ttl \in 0..CodeTTL
    /\ store["cooldown"].ttl \in 0..CooldownTTL
    /\ store["lock"].ttl \in 0..LockTTL
    /\ Mailed!Exists("attempt") => store["attempt"].val \in Nat

CallsOK ==
    /\ call \in [Requests -> MailCall]
    /\ \A r \in Requests :
          call[r].pc \in Mailed!SendSteps \cup {"consume"} => call[r].code \in issued

SetsOK ==
    /\ issued \subseteq Codes /\ delivered \subseteq issued /\ accepted \subseteq issued
    /\ wrong \in 0..MaxWrong

CodeTypes == StoreOK /\ CallsOK /\ SetsOK

(* A code that was not yet stored is nowhere else.                         *)
UnstoredApart ==
    \A r \in Requests : call[r].pc = "store" =>
        /\ call[r].code \notin accepted /\ call[r].code # store["code"].val
        /\ \A q \in Requests : q # r /\ call[q].pc \in {"store", "consume"} =>
              call[q].code # call[r].code

(* While a code may be guessed, its counter and its lock outlive it.       *)
Guessable == Mailed!Exists("code") /\ ~Mailed!Replacing
Outlives(k) ==
    Mailed!Exists(k) =>
        store[k].ttl = Mailed!Forever \/ store[k].ttl >= store["code"].ttl

(* Every wrong guess has been counted or is about to be, and the count of   *)
(* those that are not late stays below the limit.                          *)
At(pcs) == {r \in Requests : call[r].pc \in pcs}
Late ==
    At({"incr", "setlock"}) \cup
        {r \in Requests : call[r].pc = "expire" /\ call[r].n >= MaxAttempts}
Counted == IF Mailed!Exists("attempt") THEN store["attempt"].val ELSE 0

GuessInv ==
    /\ Outlives("attempt") /\ Outlives("lock")
    /\ wrong <= Counted + Cardinality(At({"incr"}))
    /\ ~Mailed!Exists("lock") => wrong <= MaxAttempts - 1 + Cardinality(Late)
    /\ Mailed!Exists("lock") =>
          wrong + Cardinality(At({"get"})) <= MaxAttempts - 1 + Cardinality(Requests)

CodeInv ==
    /\ CodeTypes /\ UnstoredApart
    /\ Mailed!AcceptedIsGone /\ Mailed!CounterExpires /\ Mailed!GuessesBounded
    /\ Guessable => GuessInv

-----------------------------------------------------------------------------
(* Lemmas on the commands of Redis and on the calls.                       *)

LEMMA Limits ==
  /\ CodeTTL \in Nat \ {0} /\ CooldownTTL \in Nat \ {0} /\ LockTTL \in Nat \ {0}
  /\ CodeTTL <= LockTTL /\ MaxAttempts \in Nat \ {0} /\ MaxWrong \in Nat
  /\ None \notin Codes /\ None \notin Nat
  BY LimitsAssumption, CodesAssumption
     DEF Mailed!TTLAssumption, Mailed!LimitAssumption, Mailed!CodeAssumption

LEMMA TypesImplied == CodeTypes => Mailed!TypeOK
  BY DEF CodeTypes, StoreOK, CallsOK, SetsOK, Mailed!TypeOK, Mailed!Keys, Entry, MailCall,
         Pcs, Mailed!Exists

(* SET writes one key.                                                     *)
LEMMA SetWrites ==
  ASSUME StoreOK, NEW k \in Mailed!Keys, NEW v, NEW t, Mailed!Set(k, v, t)
  PROVE  /\ store'[k].val = v /\ store'[k].ttl = t
         /\ \A j \in Mailed!Keys \ {k} : store'[j] = store[j]
         /\ v \in Codes \cup Nat /\ t \in Nat \cup {Mailed!Forever} =>
              store' \in [Mailed!Keys -> Entry]
  BY DEF StoreOK, Mailed!Set, Entry

(* A written value of the right kind, with a time to live, keeps the types.*)
LEMMA SetTypes ==
  ASSUME StoreOK, NEW k \in Mailed!Keys, NEW v \in Codes \cup Nat,
         NEW t \in Nat \cup {Mailed!Forever}, t # 0, Mailed!Set(k, v, t),
         issued \subseteq issued',
         k = "code" => v \in issued /\ t = CodeTTL,
         k = "cooldown" => t = CooldownTTL, k = "lock" => t = LockTTL,
         k = "attempt" => v \in Nat
  PROVE  StoreOK'
  <1>1. /\ store'[k].val = v /\ store'[k].ttl = t
        /\ \A j \in Mailed!Keys \ {k} : store'[j] = store[j]
        /\ store' \in [Mailed!Keys -> Entry]
    BY SetWrites
  <1>2. \A j \in Mailed!Keys : store'[j].val = None <=> store'[j].ttl = 0
    BY <1>1, Limits DEF StoreOK
  <1>3. QED
    BY <1>1, <1>2, Limits DEF StoreOK, Mailed!Keys, Mailed!Exists

(* DEL makes its keys absent.                                              *)
LEMMA DelTypes ==
  ASSUME StoreOK, NEW ks \in SUBSET Mailed!Keys, Mailed!Del(ks), issued' = issued
  PROVE  /\ StoreOK'
         /\ \A k \in ks : store'[k].ttl = 0 /\ store'[k].val = None
         /\ \A k \in Mailed!Keys \ ks : store'[k] = store[k]
  <1>1. /\ \A k \in ks : store'[k].ttl = 0 /\ store'[k].val = None
        /\ \A k \in Mailed!Keys \ ks : store'[k] = store[k]
        /\ store' \in [Mailed!Keys -> Entry]
    BY DEF StoreOK, Mailed!Del, Mailed!Absent, Entry
  <1>2. \A j \in Mailed!Keys : store'[j].val = None <=> store'[j].ttl = 0
    BY <1>1 DEF StoreOK
  <1>3. QED
    BY <1>1, <1>2, Limits DEF StoreOK, Mailed!Keys, Mailed!Exists

(* A tick takes one from every time to live that counts down, and a key    *)
(* whose time is over is absent.                                           *)
LEMMA TickTypes ==
  ASSUME StoreOK, Mailed!Tick
  PROVE  /\ StoreOK'
         /\ \A k \in Mailed!Keys :
               \/ store[k].ttl > 1 /\ store'[k].ttl = store[k].ttl - 1
                                   /\ store'[k].val = store[k].val
               \/ store[k].ttl = 1 /\ store'[k].ttl = 0 /\ store'[k].val = None
               \/ store[k].ttl \in {0, Mailed!Forever} /\ store'[k] = store[k]
  <1>1. ASSUME NEW k \in Mailed!Keys
        PROVE  /\ store'[k] \in Entry
               /\ \/ store[k].ttl > 1 /\ store'[k].ttl = store[k].ttl - 1
                                      /\ store'[k].val = store[k].val
                  \/ store[k].ttl = 1 /\ store'[k].ttl = 0 /\ store'[k].val = None
                  \/ store[k].ttl \in {0, Mailed!Forever} /\ store'[k] = store[k]
    <2>1. store[k] \in Entry
      BY DEF StoreOK
    <2>2. store'[k] = CASE store[k].ttl > 1 -> [store[k] EXCEPT !.ttl = @ - 1]
                        [] store[k].ttl = 1 -> Mailed!Absent
                        [] OTHER -> store[k]
      BY DEF Mailed!Tick
    <2>3. CASE store[k].ttl > 1
      BY <2>1, <2>2, <2>3 DEF Entry, Mailed!Forever
    <2>4. CASE store[k].ttl = 1
      BY <2>1, <2>2, <2>4 DEF Entry, Mailed!Absent, Mailed!Forever
    <2>5. CASE ~(store[k].ttl > 1) /\ store[k].ttl # 1
      BY <2>1, <2>2, <2>5 DEF Entry, Mailed!Forever
    <2>6. QED
      BY <2>3, <2>4, <2>5
  <1>2. store' \in [Mailed!Keys -> Entry]
    BY <1>1 DEF Mailed!Tick
  <1>3. \A k \in Mailed!Keys : store'[k].val = None <=> store'[k].ttl = 0
    BY <1>1, Limits DEF StoreOK, Entry, Mailed!Forever
  <1>4. issued' = issued
    BY DEF Mailed!Tick
  <1>5. /\ store'["code"].val \in issued \cup {None}
        /\ store'["code"].ttl \in 0..CodeTTL /\ store'["cooldown"].ttl \in 0..CooldownTTL
        /\ store'["lock"].ttl \in 0..LockTTL
    BY <1>1, Limits DEF StoreOK, Mailed!Keys, Mailed!Forever
  <1>6. store'["attempt"].ttl # 0 => store'["attempt"].val \in Nat
    BY <1>1 DEF StoreOK, Mailed!Keys, Mailed!Exists, Mailed!Forever
  <1>7. QED
    BY <1>1, <1>2, <1>3, <1>4, <1>5, <1>6 DEF StoreOK, Mailed!Exists

(* A step of one call changes the entry of that call alone.                *)
LEMMA MailCallStep ==
  ASSUME CallsOK, NEW r \in Requests, NEW c \in MailCall, call' = [call EXCEPT ![r] = c],
         issued \subseteq issued',
         c.pc \in Mailed!SendSteps \cup {"consume"} => c.code \in issued'
  PROVE  /\ CallsOK'
         /\ call'[r] = c /\ \A q \in Requests \ {r} : call'[q] = call[q]
  BY DEF CallsOK

LEMMA MailCallMoves ==
  ASSUME NEW c \in MailCall, NEW pc \in Pcs
  PROVE  /\ [c EXCEPT !.pc = pc] \in MailCall
         /\ [c EXCEPT !.pc = pc].pc = pc /\ [c EXCEPT !.pc = pc].code = c.code
         /\ [c EXCEPT !.pc = pc].n = c.n
  BY DEF MailCall

LEMMA NoRequestIsCall ==
  Mailed!NoRequest \in MailCall /\ Mailed!NoRequest.pc = "idle"
  BY DEF Mailed!NoRequest, MailCall, Pcs

(* A call that goes on, and one that ends.                                 *)
LEMMA GoToTypes ==
  ASSUME CallsOK, NEW r \in Requests, NEW pc \in Pcs, Mailed!GoTo(r, pc),
         issued' = issued, pc \in Mailed!SendSteps \cup {"consume"} => call[r].code \in issued
  PROVE  /\ CallsOK'
         /\ call'[r].pc = pc /\ call'[r].code = call[r].code /\ call'[r].n = call[r].n
         /\ \A q \in Requests \ {r} : call'[q] = call[q]
  <1> DEFINE c == [call[r] EXCEPT !.pc = pc]
  <1>1. call[r] \in MailCall
    BY DEF CallsOK
  <1>2. c \in MailCall /\ c.pc = pc /\ c.code = call[r].code /\ c.n = call[r].n
    BY <1>1, MailCallMoves
  <1>3. call' = [call EXCEPT ![r] = c]
    BY DEF Mailed!GoTo
  <1> HIDE DEF c
  <1>4. QED
    BY <1>2, <1>3, MailCallStep

LEMMA EndTypes ==
  ASSUME CallsOK, NEW r \in Requests, Mailed!End(r), issued' = issued
  PROVE  /\ CallsOK'
         /\ call'[r].pc = "idle"
         /\ \A q \in Requests \ {r} : call'[q] = call[q]
  BY MailCallStep, NoRequestIsCall DEF Mailed!End, Mailed!SendSteps

(* After a count of n, the counter's first one gives it its time to live,  *)
(* and one that reaches the limit locks.                                   *)
LEMMA AfterCountTypes ==
  ASSUME CallsOK, NEW r \in Requests, NEW n \in Nat, NEW pc, Mailed!AfterCount(r, n, pc),
         issued' = issued
  PROVE  /\ CallsOK'
         /\ \/ pc = "incr" /\ n = 1 /\ call'[r].pc = "expire" /\ call'[r].n = n
            \/ ~(pc = "incr" /\ n = 1) /\ n >= MaxAttempts /\ call'[r].pc = "setlock"
            \/ ~(pc = "incr" /\ n = 1) /\ n < MaxAttempts /\ call'[r].pc = "idle"
         /\ \A q \in Requests \ {r} : call'[q] = call[q]
  <1>1. /\ {"expire", "setlock"} \subseteq Pcs
        /\ {"expire", "setlock"} \cap (Mailed!SendSteps \cup {"consume"}) = {}
    BY DEF Pcs, Mailed!SendSteps, Mailed!VerifySteps
  <1>2. CASE pc = "incr" /\ n = 1
    <2> DEFINE c == [call[r] EXCEPT !.pc = "expire", !.n = n]
    <2>1. c \in MailCall /\ c.pc = "expire" /\ c.n = n
      <3>1. call[r] \in MailCall /\ "expire" \in Pcs
        BY <1>1 DEF CallsOK
      <3>2. QED
        BY <3>1 DEF MailCall
    <2>2. call' = [call EXCEPT ![r] = c]
      BY <1>2 DEF Mailed!AfterCount
    <2> HIDE DEF c
    <2>3. QED
      BY <1>1, <1>2, <2>1, <2>2, MailCallStep
  <1>3. CASE ~(pc = "incr" /\ n = 1) /\ n >= MaxAttempts
    <2>1. Mailed!GoTo(r, "setlock")
      BY <1>3 DEF Mailed!AfterCount
    <2>2. QED
      BY <1>1, <1>3, <2>1, GoToTypes
  <1>4. CASE ~(pc = "incr" /\ n = 1) /\ ~(n >= MaxAttempts)
    <2>1. Mailed!End(r)
      BY <1>4 DEF Mailed!AfterCount
    <2>2. QED
      BY <1>4, <2>1, EndTypes, Limits
  <1>5. QED
    BY <1>2, <1>3, <1>4

LEMMA CountIsNat == StoreOK => Mailed!IncrResult("attempt") \in Nat /\ Counted \in Nat
  BY DEF StoreOK, Mailed!IncrResult, Mailed!Get, Counted

-----------------------------------------------------------------------------
(* The types, also when Redis fails: what each action does to the store    *)
(* and to the calls.                                                       *)

LEMMA SendBeginsTypes ==
  ASSUME CodeTypes, NEW r \in Requests, Mailed!SendBegins(r)
  PROVE  /\ CodeTypes'
         /\ call'[r].pc = "store" /\ call'[r].code \in Codes \ issued
         /\ \A q \in Requests \ {r} : call'[q] = call[q]
         /\ \A k \in Mailed!Keys \ {"cooldown"} : store'[k] = store[k]
         /\ UNCHANGED <<accepted, wrong>>
  <1>1. PICK c \in Codes \ issued :
           /\ issued' = issued \cup {c}
           /\ call' = [call EXCEPT ![r] = [pc |-> "store", code |-> c, n |-> 0]]
    BY DEF Mailed!SendBegins
  <1> DEFINE m == [pc |-> "store", code |-> c, n |-> 0]
  <1>2. m \in MailCall /\ m.pc = "store" /\ m.code = c
    BY DEF MailCall, Pcs, Mailed!SendSteps
  <1> HIDE DEF m
  <1>3. /\ CallsOK' /\ call'[r] = m /\ \A q \in Requests \ {r} : call'[q] = call[q]
    BY <1>1, <1>2, MailCallStep DEF CodeTypes, m
  <1>4. Mailed!Set("cooldown", 1, CooldownTTL) /\ "cooldown" \in Mailed!Keys
    BY DEF Mailed!SendBegins, Mailed!SetNX, Mailed!Keys
  <1>5. StoreOK' /\ \A k \in Mailed!Keys \ {"cooldown"} : store'[k] = store[k]
    BY <1>1, <1>4, SetTypes, SetWrites, Limits DEF CodeTypes
  <1>6. SetsOK'
    BY <1>1 DEF CodeTypes, SetsOK, Mailed!SendBegins
  <1>7. QED
    BY <1>2, <1>3, <1>5, <1>6 DEF CodeTypes, Mailed!SendBegins

LEMMA SendStoresTypes ==
  ASSUME CodeTypes, NEW r \in Requests, Mailed!SendStores(r)
  PROVE  /\ CodeTypes'
         /\ call'[r].pc = "clear"
         /\ \A q \in Requests \ {r} : call'[q] = call[q]
         /\ store'["code"].val = call[r].code
         /\ \A k \in Mailed!Keys \ {"code"} : store'[k] = store[k]
         /\ UNCHANGED <<issued, accepted, wrong>>
  <1>1. call[r].code \in issued /\ issued \subseteq Codes
    BY DEF CodeTypes, CallsOK, SetsOK, Mailed!SendStores, Mailed!SendSteps
  <1>2. "code" \in Mailed!Keys /\ "clear" \in Pcs
    BY DEF Mailed!Keys, Pcs, Mailed!SendSteps
  <1>3. /\ StoreOK' /\ store'["code"].val = call[r].code
        /\ \A k \in Mailed!Keys \ {"code"} : store'[k] = store[k]
    BY <1>1, <1>2, SetTypes, SetWrites, Limits DEF CodeTypes, Mailed!SendStores
  <1>4. /\ CallsOK' /\ call'[r].pc = "clear"
        /\ \A q \in Requests \ {r} : call'[q] = call[q]
    BY <1>1, <1>2, GoToTypes DEF CodeTypes, Mailed!SendStores
  <1>5. QED
    BY <1>3, <1>4 DEF CodeTypes, SetsOK, Mailed!SendStores

LEMMA SendClearsTypes ==
  ASSUME CodeTypes, NEW r \in Requests, Mailed!SendClears(r)
  PROVE  /\ CodeTypes'
         /\ call'[r].pc = "mail" /\ \A q \in Requests \ {r} : call'[q] = call[q]
         /\ store'["code"] = store["code"]
         /\ ~RedisFails => ~Mailed!Exists("attempt")' /\ ~Mailed!Exists("lock")'
         /\ wrong' = 0 /\ UNCHANGED <<issued, accepted>>
  <1>1. /\ StoreOK' /\ store'["code"] = store["code"]
        /\ ~RedisFails => store'["attempt"].ttl = 0 /\ store'["lock"].ttl = 0
    <2>1. CASE Mailed!Del({"attempt", "lock"})
      BY <2>1, DelTypes DEF CodeTypes, Mailed!SendClears, Mailed!Keys
    <2>2. CASE RedisFails /\ UNCHANGED store
      BY <2>2 DEF CodeTypes, StoreOK, Mailed!SendClears, Mailed!Exists
    <2>3. QED
      BY <2>1, <2>2 DEF Mailed!SendClears, Mailed!Ignoring
  <1>2. /\ CallsOK' /\ call'[r].pc = "mail"
        /\ \A q \in Requests \ {r} : call'[q] = call[q]
    <2>1. "mail" \in Pcs /\ call[r].code \in issued
      BY DEF Pcs, Mailed!SendSteps, CodeTypes, CallsOK, Mailed!SendClears
    <2>2. QED
      BY <2>1, GoToTypes DEF CodeTypes, Mailed!SendClears
  <1>3. QED
    BY <1>1, <1>2, Limits DEF CodeTypes, SetsOK, Mailed!SendClears, Mailed!Exists

LEMMA SendMailsTypes ==
  ASSUME CodeTypes, NEW r \in Requests, Mailed!SendMails(r)
  PROVE  /\ CodeTypes'
         /\ call'[r].pc \in {"idle", "undo"} /\ \A q \in Requests \ {r} : call'[q] = call[q]
         /\ UNCHANGED <<store, issued, accepted, wrong>>
  <1>1. call[r].code \in issued /\ "undo" \in Pcs
    BY DEF CodeTypes, CallsOK, Pcs, Mailed!SendMails, Mailed!SendSteps
  <1>2. /\ CallsOK' /\ call'[r].pc \in {"idle", "undo"}
        /\ \A q \in Requests \ {r} : call'[q] = call[q]
    BY <1>1, EndTypes, GoToTypes DEF CodeTypes, Mailed!SendMails
  <1>3. StoreOK' /\ SetsOK'
    BY <1>1 DEF CodeTypes, StoreOK, SetsOK, Mailed!SendMails, Mailed!Exists
  <1>4. QED
    BY <1>2, <1>3 DEF CodeTypes, Mailed!SendMails

LEMMA SendUndoesTypes ==
  ASSUME CodeTypes, NEW r \in Requests, Mailed!SendUndoes(r)
  PROVE  /\ CodeTypes'
         /\ call'[r].pc = "idle" /\ \A q \in Requests \ {r} : call'[q] = call[q]
         /\ ~RedisFails => store'["code"].ttl = 0 /\ store'["code"].val = None
         /\ store'["attempt"] = store["attempt"] /\ store'["lock"] = store["lock"]
         /\ UNCHANGED <<issued, accepted, wrong>>
  <1>1. /\ StoreOK'
        /\ ~RedisFails => store'["code"].ttl = 0 /\ store'["code"].val = None
        /\ store'["attempt"] = store["attempt"] /\ store'["lock"] = store["lock"]
    <2>1. CASE Mailed!Del({"code", "cooldown"})
      BY <2>1, DelTypes DEF CodeTypes, Mailed!SendUndoes, Mailed!Keys
    <2>2. CASE RedisFails /\ UNCHANGED store
      BY <2>2 DEF CodeTypes, StoreOK, Mailed!SendUndoes, Mailed!Exists
    <2>3. QED
      BY <2>1, <2>2 DEF Mailed!SendUndoes, Mailed!Ignoring
  <1>2. /\ CallsOK' /\ call'[r].pc = "idle"
        /\ \A q \in Requests \ {r} : call'[q] = call[q]
    BY EndTypes DEF CodeTypes, Mailed!SendUndoes
  <1>3. QED
    BY <1>1, <1>2 DEF CodeTypes, SetsOK, Mailed!SendUndoes

LEMMA VerifyBeginsTypes ==
  ASSUME CodeTypes, NEW r \in Requests, NEW c \in Codes \cup {None}, Mailed!VerifyBegins(r, c)
  PROVE  /\ CodeTypes'
         /\ ~Mailed!Exists("lock")
         /\ call'[r].pc = "get" /\ \A q \in Requests \ {r} : call'[q] = call[q]
         /\ UNCHANGED <<store, issued, accepted, wrong>>
  <1> DEFINE m == [pc |-> "get", code |-> c, n |-> 0]
  <1>1. m \in MailCall /\ m.pc = "get"
    BY DEF MailCall, Pcs, Mailed!VerifySteps
  <1>2. call' = [call EXCEPT ![r] = m]
    BY DEF Mailed!VerifyBegins
  <1> HIDE DEF m
  <1>3. /\ CallsOK' /\ call'[r].pc = "get" /\ \A q \in Requests \ {r} : call'[q] = call[q]
    BY <1>1, <1>2, MailCallStep DEF CodeTypes, Mailed!VerifyBegins, Mailed!SendSteps
  <1>4. QED
    BY <1>3 DEF CodeTypes, StoreOK, SetsOK, Mailed!VerifyBegins, Mailed!Exists

(* What VerifyCode finds: no code, its code, or another one.               *)
LEMMA VerifyComparesTypes ==
  ASSUME CodeTypes, NEW r \in Requests, Mailed!VerifyCompares(r)
  PROVE  /\ CodeTypes'
         /\ \A q \in Requests \ {r} : call'[q] = call[q]
         /\ \/ call'[r].pc = "idle" /\ wrong' = wrong
            \/ /\ call'[r].pc = "consume" /\ wrong' = wrong
               /\ call'[r].code = store["code"].val /\ Mailed!Exists("code")
            \/ /\ call'[r].pc = "incr"
               /\ wrong' = wrong + (IF Mailed!Replacing THEN 0 ELSE 1)
               /\ Mailed!Exists("code")
         /\ UNCHANGED <<store, issued, accepted>>
  <1>1. {"consume", "incr"} \subseteq Pcs /\ "incr" \notin Mailed!SendSteps \cup {"consume"}
    BY DEF Pcs, Mailed!VerifySteps, Mailed!SendSteps
  <1>2. wrong \in Nat
    BY Limits DEF CodeTypes, SetsOK
  <1>3. CASE Mailed!End(r) /\ UNCHANGED wrong
    BY <1>3, EndTypes DEF CodeTypes, StoreOK, SetsOK, Mailed!VerifyCompares, Mailed!Exists
  <1>4. CASE /\ Mailed!Exists("code") /\ Mailed!Get("code") = call[r].code
             /\ Mailed!GoTo(r, "consume") /\ UNCHANGED wrong
    <2>1. call[r].code = store["code"].val /\ call[r].code \in issued
      BY <1>4 DEF CodeTypes, StoreOK, Mailed!Exists, Mailed!Get, Mailed!Keys
    <2>2. /\ CallsOK' /\ call'[r].pc = "consume" /\ call'[r].code = call[r].code
          /\ \A q \in Requests \ {r} : call'[q] = call[q]
      BY <1>1, <1>4, <2>1, GoToTypes DEF CodeTypes, Mailed!VerifyCompares
    <2>3. QED
      BY <1>4, <2>1, <2>2 DEF CodeTypes, StoreOK, SetsOK, Mailed!VerifyCompares, Mailed!Exists
  <1>5. CASE /\ Mailed!Exists("code") /\ wrong < MaxWrong
             /\ wrong' = wrong + (IF Mailed!Replacing THEN 0 ELSE 1)
             /\ Mailed!GoTo(r, "incr")
    <2>1. /\ CallsOK' /\ call'[r].pc = "incr"
          /\ \A q \in Requests \ {r} : call'[q] = call[q]
      BY <1>1, <1>5, GoToTypes DEF CodeTypes, Mailed!VerifyCompares
    <2>2. wrong' \in 0..MaxWrong
      BY <1>2, <1>5, Limits
    <2>3. QED
      BY <1>5, <2>1, <2>2 DEF CodeTypes, StoreOK, SetsOK, Mailed!VerifyCompares, Mailed!Exists
  <1>6. QED
    BY <1>3, <1>4, <1>5 DEF Mailed!VerifyCompares

(* INCR, and what its result decides.                                      *)
LEMMA VerifyCountsTypes ==
  ASSUME CodeTypes, NEW r \in Requests, Mailed!VerifyCounts(r)
  PROVE  /\ CodeTypes'
         /\ \A q \in Requests \ {r} : call'[q] = call[q]
         /\ \A k \in Mailed!Keys \ {"attempt"} : store'[k] = store[k]
         /\ ~RedisFails =>
               /\ store'["attempt"].val = Counted + 1 /\ Counted' = Counted + 1
               /\ store'["attempt"].ttl = IF Mailed!Exists("attempt")
                                          THEN store["attempt"].ttl ELSE Mailed!Forever
               /\ \/ Counted = 0 /\ call'[r].pc = "expire" /\ call'[r].n = 1
                  \/ Counted # 0 /\ Counted + 1 >= MaxAttempts /\ call'[r].pc = "setlock"
                  \/ Counted # 0 /\ Counted + 1 < MaxAttempts /\ call'[r].pc = "idle"
         /\ UNCHANGED <<issued, accepted, wrong>>
  <1> DEFINE n == Mailed!IncrResult("attempt")
             t == IF Mailed!Exists("attempt") THEN store["attempt"].ttl ELSE Mailed!Forever
  <1>1. "attempt" \in Mailed!Keys /\ n \in Nat /\ n = Counted + 1 /\ Counted \in Nat
    BY CountIsNat DEF CodeTypes, Mailed!Keys, Mailed!IncrResult, Mailed!Get, Counted
  <1>2. t \in Nat \cup {Mailed!Forever} /\ t # 0
    BY <1>1 DEF CodeTypes, StoreOK, Entry, Mailed!Exists, Mailed!Forever
  <1>3. CASE Mailed!Incr("attempt") /\ Mailed!AfterCount(r, n, "incr")
    <2>1. Mailed!Set("attempt", n, t)
      BY <1>3 DEF Mailed!Incr
    <2> HIDE DEF n, t
    <2>2. /\ StoreOK'
          /\ store'["attempt"].val = n /\ store'["attempt"].ttl = t
          /\ \A k \in Mailed!Keys \ {"attempt"} : store'[k] = store[k]
      BY <1>1, <1>2, <2>1, SetTypes, SetWrites DEF CodeTypes, Mailed!VerifyCounts
    <2>3. Counted' = n
      BY <1>2, <2>2 DEF Counted, Mailed!Exists
    <2>4. /\ CallsOK'
          /\ \/ n = 1 /\ call'[r].pc = "expire" /\ call'[r].n = n
             \/ n # 1 /\ n >= MaxAttempts /\ call'[r].pc = "setlock"
             \/ n # 1 /\ n < MaxAttempts /\ call'[r].pc = "idle"
          /\ \A q \in Requests \ {r} : call'[q] = call[q]
      BY <1>1, <1>3, AfterCountTypes DEF CodeTypes, Mailed!VerifyCounts
    <2>5. SetsOK' /\ UNCHANGED <<issued, accepted, wrong>>
      BY DEF CodeTypes, SetsOK, Mailed!VerifyCounts
    <2>6. store'["attempt"].ttl = IF Mailed!Exists("attempt")
                                  THEN store["attempt"].ttl ELSE Mailed!Forever
      BY <2>2 DEF t
    <2>7. QED
      BY <1>1, <2>2, <2>3, <2>4, <2>5, <2>6 DEF CodeTypes
  <1>4. CASE RedisFails /\ UNCHANGED store /\ Mailed!End(r)
    BY <1>4, EndTypes DEF CodeTypes, StoreOK, SetsOK, Mailed!VerifyCounts, Mailed!Exists
  <1>5. QED
    BY <1>3, <1>4 DEF Mailed!VerifyCounts

LEMMA VerifyExpiresTypes ==
  ASSUME CodeTypes, NEW r \in Requests, Mailed!VerifyExpires(r)
  PROVE  /\ CodeTypes'
         /\ \A q \in Requests \ {r} : call'[q] = call[q]
         /\ \A k \in Mailed!Keys \ {"attempt"} : store'[k] = store[k]
         /\ Counted' = Counted
         /\ ~RedisFails =>
               (IF Mailed!Exists("attempt") THEN store'["attempt"].ttl = CodeTTL
                                            ELSE store'["attempt"].ttl = 0)
         /\ \/ call[r].n >= MaxAttempts /\ call'[r].pc = "setlock"
            \/ call[r].n < MaxAttempts /\ call'[r].pc = "idle"
         /\ UNCHANGED <<issued, accepted, wrong>>
  <1>1. /\ CallsOK'
        /\ \/ call[r].n >= MaxAttempts /\ call'[r].pc = "setlock"
           \/ call[r].n < MaxAttempts /\ call'[r].pc = "idle"
        /\ \A q \in Requests \ {r} : call'[q] = call[q]
    <2>1. call[r].n \in Nat
      BY DEF CodeTypes, CallsOK, MailCall
    <2>2. QED
      BY <2>1, AfterCountTypes DEF CodeTypes, Mailed!VerifyExpires
  <1>2. /\ StoreOK' /\ Counted' = Counted
        /\ \A k \in Mailed!Keys \ {"attempt"} : store'[k] = store[k]
        /\ ~RedisFails =>
               (IF Mailed!Exists("attempt") THEN store'["attempt"].ttl = CodeTTL
                                            ELSE store'["attempt"].ttl = 0)
    <2>1. CASE UNCHANGED store /\ (RedisFails \/ ~Mailed!Exists("attempt"))
      BY <2>1 DEF CodeTypes, StoreOK, Mailed!VerifyExpires, Mailed!Exists, Counted
    <2>2. CASE /\ Mailed!Exists("attempt")
               /\ Mailed!Set("attempt", store["attempt"].val, CodeTTL)
      <3>1. "attempt" \in Mailed!Keys /\ store["attempt"].val \in Nat
        BY <2>2 DEF CodeTypes, StoreOK, Mailed!Keys
      <3>2. /\ StoreOK' /\ store'["attempt"].val = store["attempt"].val
            /\ store'["attempt"].ttl = CodeTTL
            /\ \A k \in Mailed!Keys \ {"attempt"} : store'[k] = store[k]
        BY <2>2, <3>1, SetTypes, SetWrites, Limits DEF CodeTypes, Mailed!VerifyExpires
      <3>3. QED
        BY <2>2, <3>2, Limits DEF Counted, Mailed!Exists
    <2>3. QED
      BY <2>1, <2>2 DEF Mailed!VerifyExpires, Mailed!Ignoring, Mailed!Expire, Mailed!Get
  <1>3. QED
    BY <1>1, <1>2 DEF CodeTypes, SetsOK, Mailed!VerifyExpires

LEMMA VerifyLocksTypes ==
  ASSUME CodeTypes, NEW r \in Requests, Mailed!VerifyLocks(r)
  PROVE  /\ CodeTypes'
         /\ call'[r].pc = "idle" /\ \A q \in Requests \ {r} : call'[q] = call[q]
         /\ \A k \in Mailed!Keys \ {"lock"} : store'[k] = store[k]
         /\ ~RedisFails => store'["lock"].ttl = LockTTL
         /\ UNCHANGED <<issued, accepted, wrong>>
  <1>1. "lock" \in Mailed!Keys /\ 1 \in Nat
    BY DEF Mailed!Keys
  <1>2. /\ StoreOK' /\ \A k \in Mailed!Keys \ {"lock"} : store'[k] = store[k]
        /\ ~RedisFails => store'["lock"].ttl = LockTTL
    <2>1. CASE Mailed!Set("lock", 1, LockTTL)
      BY <1>1, <2>1, SetTypes, SetWrites, Limits DEF CodeTypes, Mailed!VerifyLocks
    <2>2. CASE RedisFails /\ UNCHANGED store
      BY <2>2 DEF CodeTypes, StoreOK, Mailed!VerifyLocks, Mailed!Exists
    <2>3. QED
      BY <2>1, <2>2 DEF Mailed!VerifyLocks, Mailed!Ignoring
  <1>3. /\ CallsOK' /\ call'[r].pc = "idle"
        /\ \A q \in Requests \ {r} : call'[q] = call[q]
    BY EndTypes DEF CodeTypes, Mailed!VerifyLocks
  <1>4. QED
    BY <1>2, <1>3 DEF CodeTypes, SetsOK, Mailed!VerifyLocks

LEMMA VerifySucceedsTypes ==
  ASSUME CodeTypes, NEW r \in Requests, Mailed!VerifySucceeds(r)
  PROVE  /\ CodeTypes'
         /\ call'[r].pc = "idle" /\ \A q \in Requests \ {r} : call'[q] = call[q]
         /\ accepted' = accepted \cup {call[r].code} /\ call[r].code \in issued
         /\ ~RedisFails =>
               \A k \in {"code", "attempt", "lock"} : store'[k].ttl = 0 /\ store'[k].val = None
         /\ UNCHANGED <<issued, wrong>>
  <1>1. call[r].code \in issued
    BY DEF CodeTypes, CallsOK, Mailed!VerifySucceeds
  <1>2. /\ StoreOK'
        /\ ~RedisFails =>
              \A k \in {"code", "attempt", "lock"} : store'[k].ttl = 0 /\ store'[k].val = None
    <2>1. CASE Mailed!Del({"code", "attempt", "lock"})
      BY <2>1, DelTypes DEF CodeTypes, Mailed!VerifySucceeds, Mailed!Keys
    <2>2. CASE RedisFails /\ UNCHANGED store
      BY <2>2 DEF CodeTypes, StoreOK, Mailed!VerifySucceeds, Mailed!Exists
    <2>3. QED
      BY <2>1, <2>2 DEF Mailed!VerifySucceeds, Mailed!Ignoring
  <1>3. /\ CallsOK' /\ call'[r].pc = "idle"
        /\ \A q \in Requests \ {r} : call'[q] = call[q]
    BY EndTypes DEF CodeTypes, Mailed!VerifySucceeds
  <1>4. QED
    BY <1>1, <1>2, <1>3 DEF CodeTypes, SetsOK, Mailed!VerifySucceeds

LEMMA CodeTypesStep == CodeTypes /\ [Mailed!Next]_(Mailed!vars) => CodeTypes'
  <1> SUFFICES ASSUME CodeTypes, [Mailed!Next]_(Mailed!vars) PROVE CodeTypes'
    OBVIOUS
  <1>1. ASSUME NEW r \in Requests, Mailed!Step(r) PROVE CodeTypes'
    BY <1>1, SendStoresTypes, SendClearsTypes, SendMailsTypes, SendUndoesTypes,
       VerifyComparesTypes, VerifyCountsTypes, VerifyExpiresTypes, VerifyLocksTypes,
       VerifySucceedsTypes DEF Mailed!Step
  <1>2. ASSUME NEW r \in Requests, Mailed!Stop(r) PROVE CodeTypes'
    BY <1>2, EndTypes DEF Mailed!Stop, CodeTypes, StoreOK, SetsOK, Mailed!Exists
  <1>3. CASE Mailed!Tick
    BY <1>3, TickTypes DEF Mailed!Tick, CodeTypes, CallsOK, SetsOK
  <1>4. CASE UNCHANGED Mailed!vars
    BY <1>4 DEF Mailed!vars, CodeTypes, StoreOK, CallsOK, SetsOK, Mailed!Exists
  <1>5. QED
    BY <1>1, <1>2, <1>3, <1>4, SendBeginsTypes, VerifyBeginsTypes DEF Mailed!Next

LEMMA CodeTypesInit == Mailed!Init => CodeTypes
  BY NoRequestIsCall, Limits
     DEF Mailed!Init, CodeTypes, StoreOK, CallsOK, SetsOK, Mailed!Keys, Mailed!Exists,
         Mailed!Absent, Entry, Mailed!SendSteps

-----------------------------------------------------------------------------
(* A code that was accepted does not come back.                            *)

(* A call that is neither about to store a code nor about to consume one   *)
(* cannot bring one back.                                                  *)
LEMMA ApartKept ==
  ASSUME CodeTypes, UnstoredApart, Mailed!AcceptedIsGone, NEW r \in Requests,
         \A q \in Requests \ {r} : call'[q] = call[q],
         call'[r] = call[r] \/ call'[r].pc \notin {"store", "consume"},
         store'["code"].val \in {store["code"].val, None}, accepted' = accepted
  PROVE  UnstoredApart' /\ Mailed!AcceptedIsGone'
  <1>1. \A q \in Requests : call'[q].pc \in {"store", "consume"} => call'[q] = call[q]
    OBVIOUS
  <1>2. \A q \in Requests : call[q].pc = "store" => call[q].code # None
    BY Limits DEF CodeTypes, CallsOK, SetsOK, Mailed!SendSteps
  <1>3. UnstoredApart'
    BY <1>1, <1>2 DEF UnstoredApart
  <1>4. None \notin accepted
    BY Limits DEF CodeTypes, SetsOK
  <1>5. QED
    BY <1>3, <1>4 DEF Mailed!AcceptedIsGone

LEMMA ApartStep ==
  ASSUME CodeTypes, UnstoredApart, Mailed!AcceptedIsGone, ~RedisFails,
         [Mailed!Next]_(Mailed!vars)
  PROVE  UnstoredApart' /\ Mailed!AcceptedIsGone'
  <1> USE DEF Mailed!Keys
  <1>1. ASSUME NEW r \in Requests, Mailed!SendBegins(r)
        PROVE  UnstoredApart' /\ Mailed!AcceptedIsGone'
    <2>1. /\ call'[r].pc = "store" /\ call'[r].code \in Codes \ issued
          /\ \A q \in Requests \ {r} : call'[q] = call[q]
          /\ store'["code"] = store["code"] /\ accepted' = accepted
      BY <1>1, SendBeginsTypes
    <2>2. /\ accepted \subseteq issued /\ store["code"].val \in issued \cup {None}
          /\ \A q \in Requests : call[q].pc \in {"store", "consume"} => call[q].code \in issued
      BY DEF CodeTypes, SetsOK, StoreOK, CallsOK, Mailed!SendSteps
    <2>3. UnstoredApart'
      BY <2>1, <2>2, Limits DEF UnstoredApart
    <2>4. QED
      BY <2>1, <2>3 DEF Mailed!AcceptedIsGone
  <1>2. ASSUME NEW r \in Requests, Mailed!SendStores(r)
        PROVE  UnstoredApart' /\ Mailed!AcceptedIsGone'
    <2>1. /\ call'[r].pc = "clear" /\ \A q \in Requests \ {r} : call'[q] = call[q]
          /\ store'["code"].val = call[r].code /\ accepted' = accepted
      BY <1>2, SendStoresTypes
    <2>2. call[r].pc = "store"
      BY <1>2 DEF Mailed!SendStores
    <2>3. UnstoredApart'
      BY <2>1, <2>2 DEF UnstoredApart
    <2>4. QED
      BY <2>1, <2>2, <2>3 DEF UnstoredApart, Mailed!AcceptedIsGone
  <1>3. ASSUME NEW r \in Requests, Mailed!SendClears(r) \/ Mailed!SendMails(r) \/ Mailed!SendUndoes(r)
        PROVE  UnstoredApart' /\ Mailed!AcceptedIsGone'
    BY <1>3, SendClearsTypes, SendMailsTypes, SendUndoesTypes, ApartKept
  <1>4. ASSUME NEW r \in Requests, Mailed!VerifyCompares(r)
        PROVE  UnstoredApart' /\ Mailed!AcceptedIsGone'
    <2>1. /\ \A q \in Requests \ {r} : call'[q] = call[q]
          /\ \/ call'[r].pc \in {"idle", "incr"}
             \/ call'[r].pc = "consume" /\ call'[r].code = store["code"].val
          /\ UNCHANGED <<store, accepted>>
      BY <1>4, VerifyComparesTypes
    <2>2. CASE call'[r].pc \in {"idle", "incr"}
      BY <2>1, <2>2, ApartKept
    <2>3. CASE call'[r].pc = "consume" /\ call'[r].code = store["code"].val
      BY <2>1, <2>3 DEF UnstoredApart, Mailed!AcceptedIsGone
    <2>4. QED
      BY <2>1, <2>2, <2>3
  <1>5. ASSUME NEW r \in Requests,
               Mailed!VerifyCounts(r) \/ Mailed!VerifyExpires(r) \/ Mailed!VerifyLocks(r)
        PROVE  UnstoredApart' /\ Mailed!AcceptedIsGone'
    <2>1. /\ \A q \in Requests \ {r} : call'[q] = call[q]
          /\ call'[r].pc \in {"idle", "expire", "setlock"}
          /\ store'["code"] = store["code"] /\ accepted' = accepted
      BY <1>5, VerifyCountsTypes, VerifyExpiresTypes, VerifyLocksTypes
    <2>2. QED
      BY <2>1, ApartKept
  <1>6. ASSUME NEW r \in Requests, Mailed!VerifySucceeds(r)
        PROVE  UnstoredApart' /\ Mailed!AcceptedIsGone'
    <2>1. /\ call'[r].pc = "idle" /\ \A q \in Requests \ {r} : call'[q] = call[q]
          /\ accepted' = accepted \cup {call[r].code} /\ call[r].code \in issued
          /\ store'["code"].val = None
      BY <1>6, VerifySucceedsTypes
    <2>2. call[r].pc = "consume"
      BY <1>6 DEF Mailed!VerifySucceeds
    <2>3. None \notin accepted' /\ None \notin issued
      BY <2>1, Limits DEF CodeTypes, SetsOK
    <2>4. \A q \in Requests : call[q].pc = "store" => call[q].code # None
      BY <2>3 DEF CodeTypes, CallsOK, Mailed!SendSteps
    <2>5. UnstoredApart'
      BY <2>1, <2>2, <2>4 DEF UnstoredApart
    <2>6. QED
      BY <2>1, <2>3, <2>5 DEF Mailed!AcceptedIsGone
  <1>7. ASSUME NEW r \in Requests, NEW c \in Codes \cup {None}, Mailed!VerifyBegins(r, c)
        PROVE  UnstoredApart' /\ Mailed!AcceptedIsGone'
    BY <1>7, VerifyBeginsTypes, ApartKept
  <1>8. CASE Mailed!Tick
    <2>1. store'["code"].val \in {store["code"].val, None}
      BY <1>8, TickTypes DEF CodeTypes
    <2>2. UNCHANGED <<accepted, call>>
      BY <1>8 DEF Mailed!Tick
    <2>3. \A q \in Requests : call[q].pc = "store" => call[q].code # None
      BY Limits DEF CodeTypes, CallsOK, SetsOK, Mailed!SendSteps
    <2>4. None \notin accepted
      BY Limits DEF CodeTypes, SetsOK
    <2>5. QED
      BY <2>1, <2>2, <2>3, <2>4 DEF UnstoredApart, Mailed!AcceptedIsGone
  <1>9. CASE UNCHANGED Mailed!vars
    BY <1>9 DEF Mailed!vars, UnstoredApart, Mailed!AcceptedIsGone
  <1>10. QED
    BY <1>1, <1>2, <1>3, <1>4, <1>5, <1>6, <1>7, <1>8, <1>9
       DEF Mailed!Next, Mailed!Step, Mailed!Stop

-----------------------------------------------------------------------------
(* A counter without a time to live is about to get one.                   *)

LEMMA CounterStep ==
  ASSUME CodeTypes, Mailed!CounterExpires, ~RedisFails, [Mailed!Next]_(Mailed!vars)
  PROVE  Mailed!CounterExpires'
  <1> USE DEF Mailed!Keys
  <1>1. ASSUME NEW r \in Requests, call[r].pc # "expire",
               \A q \in Requests \ {r} : call'[q] = call[q],
               store'["attempt"].ttl = Mailed!Forever => store["attempt"].ttl = Mailed!Forever
        PROVE  Mailed!CounterExpires'
    BY <1>1 DEF Mailed!CounterExpires
  <1>2. ASSUME NEW r \in Requests, Mailed!SendBegins(r) PROVE Mailed!CounterExpires'
    BY ZenonT(40), <1>1, <1>2, SendBeginsTypes DEF Mailed!SendBegins
  <1>3. ASSUME NEW r \in Requests, Mailed!SendStores(r) PROVE Mailed!CounterExpires'
    BY <1>1, <1>3, SendStoresTypes DEF Mailed!SendStores
  <1>4. ASSUME NEW r \in Requests, Mailed!SendClears(r) PROVE Mailed!CounterExpires'
    BY <1>4, SendClearsTypes DEF Mailed!CounterExpires, Mailed!Exists, Mailed!Forever
  <1>5. ASSUME NEW r \in Requests, Mailed!SendMails(r) PROVE Mailed!CounterExpires'
    BY <1>1, <1>5, SendMailsTypes DEF Mailed!SendMails
  <1>6. ASSUME NEW r \in Requests, Mailed!SendUndoes(r) PROVE Mailed!CounterExpires'
    BY <1>1, <1>6, SendUndoesTypes DEF Mailed!SendUndoes
  <1>7. ASSUME NEW r \in Requests, Mailed!VerifyCompares(r) PROVE Mailed!CounterExpires'
    BY <1>1, <1>7, VerifyComparesTypes DEF Mailed!VerifyCompares
  <1>8. ASSUME NEW r \in Requests, Mailed!VerifyCounts(r) PROVE Mailed!CounterExpires'
    <2>1. call[r].pc = "incr" /\ \A q \in Requests \ {r} : call'[q] = call[q]
      BY <1>8, VerifyCountsTypes DEF Mailed!VerifyCounts
    <2>2. CASE Mailed!Exists("attempt")
      BY <1>1, <1>8, <2>1, <2>2, VerifyCountsTypes
    <2>3. CASE ~Mailed!Exists("attempt")
      BY <1>8, <2>3, VerifyCountsTypes DEF Counted, Mailed!CounterExpires
    <2>4. QED
      BY <2>2, <2>3
  <1>9. ASSUME NEW r \in Requests, Mailed!VerifyExpires(r) PROVE Mailed!CounterExpires'
    BY <1>9, VerifyExpiresTypes, Limits DEF Mailed!CounterExpires, Mailed!Forever
  <1>10. ASSUME NEW r \in Requests, Mailed!VerifyLocks(r) PROVE Mailed!CounterExpires'
    BY <1>1, <1>10, VerifyLocksTypes DEF Mailed!VerifyLocks
  <1>11. ASSUME NEW r \in Requests, Mailed!VerifySucceeds(r) PROVE Mailed!CounterExpires'
    BY <1>11, VerifySucceedsTypes DEF Mailed!CounterExpires, Mailed!Forever
  <1>12. ASSUME NEW r \in Requests, NEW c \in Codes \cup {None}, Mailed!VerifyBegins(r, c)
         PROVE  Mailed!CounterExpires'
    BY <1>1, <1>12, VerifyBeginsTypes DEF Mailed!VerifyBegins
  <1>13. CASE Mailed!Tick
    <2>1. store'["attempt"].ttl = Mailed!Forever => store["attempt"].ttl = Mailed!Forever
      BY <1>13, TickTypes DEF CodeTypes, StoreOK, Entry, Mailed!Forever
    <2>2. QED
      BY <1>13, <2>1 DEF Mailed!Tick, Mailed!CounterExpires
  <1>14. CASE UNCHANGED Mailed!vars
    BY <1>14 DEF Mailed!vars, Mailed!CounterExpires
  <1>15. QED
    BY <1>2, <1>3, <1>4, <1>5, <1>6, <1>7, <1>8, <1>9, <1>10, <1>11, <1>12, <1>13, <1>14
       DEF Mailed!Next, Mailed!Step, Mailed!Stop

-----------------------------------------------------------------------------
(* The wrong guesses are bounded.                                          *)

(* Two sets of calls that differ in one call at most.                      *)
LEMMA OneMoves ==
  ASSUME NEW r \in Requests, NEW S \in SUBSET Requests, NEW T \in SUBSET Requests,
         \A q \in Requests \ {r} : q \in S <=> q \in T
  PROVE  /\ Cardinality(S) \in Nat /\ Cardinality(T) \in Nat
         /\ (r \in S <=> r \in T) => Cardinality(T) = Cardinality(S)
         /\ r \in S /\ r \notin T => Cardinality(T) = Cardinality(S) - 1
         /\ r \notin S /\ r \in T => Cardinality(T) = Cardinality(S) + 1
  <1>1. IsFiniteSet(S) /\ IsFiniteSet(T)
    BY FS_Subset, RequestsAssumption
  <1>2. (r \in S <=> r \in T) => T = S
    OBVIOUS
  <1>3. r \in S /\ r \notin T => T = S \ {r}
    OBVIOUS
  <1>4. r \notin S /\ r \in T => T = S \cup {r}
    OBVIOUS
  <1>5. Cardinality(S \ {r}) = IF r \in S THEN Cardinality(S) - 1 ELSE Cardinality(S)
    BY <1>1, FS_RemoveElement
  <1>6. Cardinality(S \cup {r}) = IF r \in S THEN Cardinality(S) ELSE Cardinality(S) + 1
    BY <1>1, FS_AddElement
  <1>7. QED
    BY <1>1, <1>2, <1>3, <1>4, <1>5, <1>6, FS_CardinalityType

LEMMA CallSets ==
  /\ \A S : At(S) \in SUBSET Requests
  /\ Late \in SUBSET Requests
  /\ Cardinality(Late) \in Nat /\ Cardinality(Requests) \in Nat
  /\ Cardinality(At({"get"})) \in Nat /\ Cardinality(At({"incr"})) \in Nat
  /\ Cardinality(Late) + Cardinality(At({"get"})) <= Cardinality(Requests)
  <1>1. (\A S : At(S) \in SUBSET Requests) /\ Late \in SUBSET Requests
    BY DEF At, Late
  <1>2. At({"get"}) \in SUBSET Requests /\ At({"incr"}) \in SUBSET Requests
    BY <1>1
  <1>3. /\ IsFiniteSet(Late) /\ IsFiniteSet(At({"get"})) /\ IsFiniteSet(At({"incr"}))
    BY <1>1, <1>2, FS_Subset, RequestsAssumption
  <1>4. Late \cap At({"get"}) = {}
    BY DEF Late, At
  <1>5. Cardinality(Late \cup At({"get"})) =
           Cardinality(Late) + Cardinality(At({"get"})) - Cardinality(Late \cap At({"get"}))
    BY <1>3, FS_Union
  <1>6. Late \cup At({"get"}) \in SUBSET Requests
    BY <1>1, <1>2
  <1>7. Cardinality(Late \cup At({"get"})) <= Cardinality(Requests)
    BY <1>6, FS_Subset, RequestsAssumption
  <1>8. Cardinality(Late \cap At({"get"})) = 0
    BY <1>4, FS_EmptySet
  <1>9. /\ Cardinality(Late) \in Nat /\ Cardinality(At({"get"})) \in Nat
        /\ Cardinality(At({"incr"})) \in Nat /\ Cardinality(Requests) \in Nat
    BY <1>3, FS_CardinalityType, RequestsAssumption
  <1>10. QED
    BY <1>1, <1>5, <1>7, <1>8, <1>9

(* How the counts change when one call moves.                              *)
LEMMA CountsMove ==
  ASSUME NEW r \in Requests, \A q \in Requests \ {r} : call'[q] = call[q]
  PROVE  /\ Cardinality(At({"incr"}))' = Cardinality(At({"incr"}))
              + (IF call'[r].pc = "incr" THEN 1 ELSE 0) - (IF call[r].pc = "incr" THEN 1 ELSE 0)
         /\ Cardinality(At({"get"}))' = Cardinality(At({"get"}))
              + (IF call'[r].pc = "get" THEN 1 ELSE 0) - (IF call[r].pc = "get" THEN 1 ELSE 0)
         /\ Cardinality(Late)' = Cardinality(Late)
              + (IF (r \in Late)' THEN 1 ELSE 0) - (IF r \in Late THEN 1 ELSE 0)
         /\ Cardinality(At({"incr"}))' \in Nat /\ Cardinality(At({"get"}))' \in Nat
         /\ Cardinality(Late)' \in Nat
  <1>1. /\ Late \in SUBSET Requests /\ Late' \in SUBSET Requests
        /\ \A q \in Requests \ {r} : q \in Late <=> q \in Late'
    BY DEF Late, At
  <1>2. /\ Cardinality(At({"incr"}))' = Cardinality(At({"incr"}))
             + (IF call'[r].pc = "incr" THEN 1 ELSE 0) - (IF call[r].pc = "incr" THEN 1 ELSE 0)
        /\ Cardinality(At({"incr"}))' \in Nat
    <2>1. /\ At({"incr"}) \in SUBSET Requests /\ At({"incr"})' \in SUBSET Requests
          /\ \A q \in Requests \ {r} : q \in At({"incr"}) <=> q \in At({"incr"})'
          /\ r \in At({"incr"}) <=> call[r].pc = "incr"
          /\ r \in At({"incr"})' <=> call'[r].pc = "incr"
      BY DEF At
    <2>2. /\ Cardinality(At({"incr"})) \in Nat /\ Cardinality(At({"incr"})') \in Nat
          /\ (r \in At({"incr"}) <=> r \in At({"incr"})') =>
                Cardinality(At({"incr"})') = Cardinality(At({"incr"}))
          /\ r \in At({"incr"}) /\ r \notin At({"incr"})' =>
                Cardinality(At({"incr"})') = Cardinality(At({"incr"})) - 1
          /\ r \notin At({"incr"}) /\ r \in At({"incr"})' =>
                Cardinality(At({"incr"})') = Cardinality(At({"incr"})) + 1
      BY <2>1, OneMoves
    <2>3. QED
      BY <2>1, <2>2
  <1>3. /\ Cardinality(At({"get"}))' = Cardinality(At({"get"}))
             + (IF call'[r].pc = "get" THEN 1 ELSE 0) - (IF call[r].pc = "get" THEN 1 ELSE 0)
        /\ Cardinality(At({"get"}))' \in Nat
    <2>1. /\ At({"get"}) \in SUBSET Requests /\ At({"get"})' \in SUBSET Requests
          /\ \A q \in Requests \ {r} : q \in At({"get"}) <=> q \in At({"get"})'
          /\ r \in At({"get"}) <=> call[r].pc = "get"
          /\ r \in At({"get"})' <=> call'[r].pc = "get"
      BY DEF At
    <2>2. /\ Cardinality(At({"get"})) \in Nat /\ Cardinality(At({"get"})') \in Nat
          /\ (r \in At({"get"}) <=> r \in At({"get"})') =>
                Cardinality(At({"get"})') = Cardinality(At({"get"}))
          /\ r \in At({"get"}) /\ r \notin At({"get"})' =>
                Cardinality(At({"get"})') = Cardinality(At({"get"})) - 1
          /\ r \notin At({"get"}) /\ r \in At({"get"})' =>
                Cardinality(At({"get"})') = Cardinality(At({"get"})) + 1
      BY <2>1, OneMoves
    <2>3. QED
      BY <2>1, <2>2
  <1>4. /\ Cardinality(Late)' = Cardinality(Late)
             + (IF r \in Late' THEN 1 ELSE 0) - (IF r \in Late THEN 1 ELSE 0)
        /\ Cardinality(Late)' \in Nat
    BY <1>1, OneMoves
  <1>5. QED
    BY <1>2, <1>3, <1>4

LEMMA LateIs ==
  ASSUME NEW r \in Requests
  PROVE  /\ r \in Late <=>
              call[r].pc \in {"incr", "setlock"} \/ (call[r].pc = "expire" /\ call[r].n >= MaxAttempts)
         /\ (r \in Late)' <=>
              call'[r].pc \in {"incr", "setlock"} \/ (call'[r].pc = "expire" /\ call'[r].n >= MaxAttempts)
  BY DEF Late, At

GuessesKept == (Guessable => GuessInv) /\ Mailed!GuessesBounded

(* The bound, with the cardinality as this module names it.                *)
LEMMA BoundIs ==
  /\ Mailed!GuessesBounded <=> wrong <= MaxAttempts - 1 + Cardinality(Requests)
  /\ Mailed!GuessesBounded' <=> wrong' <= MaxAttempts - 1 + Cardinality(Requests)
  <1>1. Mailed!Cardinality(Requests) = Cardinality(Requests)
    BY DEF Mailed!Cardinality, Cardinality
  <1>2. QED
    BY <1>1 DEF Mailed!GuessesBounded

(* A step that leaves no code to guess, or makes no guess, keeps the bound.*)
LEMMA NoGuess ==
  ASSUME CodeTypes, GuessesKept, wrong' = wrong \/ wrong' = 0, Guessable' => GuessInv'
  PROVE  GuessesKept'
  <1>1. Mailed!GuessesBounded'
    <2>1. MaxAttempts \in Nat \ {0} /\ Cardinality(Requests) \in Nat
      BY Limits, CallSets
    <2>2. QED
      BY <2>1, BoundIs DEF GuessesKept
  <1>2. QED
    BY <1>1 DEF GuessesKept

(* A step of a call that is not in the middle of a replacement, and leaves  *)
(* the code as it is, neither ends nor starts one.                         *)
LEMMA GuessableKept ==
  ASSUME NEW r \in Requests, \A q \in Requests \ {r} : call'[q] = call[q],
         call[r].pc # "clear", call'[r].pc # "clear", store'["code"].ttl = store["code"].ttl
  PROVE  Guessable' <=> Guessable
  <1>1. Mailed!Replacing' <=> Mailed!Replacing
    BY DEF Mailed!Replacing
  <1>2. QED
    BY <1>1 DEF Guessable, Mailed!Exists

(* Steps outside of the guesses: the store of code, counter and lock stays.*)
LEMMA IdleStepGuess ==
  ASSUME CodeTypes, GuessesKept, NEW r \in Requests,
         \A q \in Requests \ {r} : call'[q] = call[q],
         call[r].pc \in {"idle", "mail", "get", "consume"}, wrong' = wrong,
         call'[r].pc \in {"idle", "store", "undo", "consume"}
            \/ (call'[r].pc = "get" /\ ~Mailed!Exists("lock")),
         \A k \in {"code", "attempt", "lock"} : store'[k] = store[k]
  PROVE  GuessesKept'
  <1>1. Guessable' <=> Guessable
    BY GuessableKept
  <1>2. r \notin Late /\ ~(r \in Late)'
    BY LateIs
  <1>3. /\ Cardinality(At({"incr"}))' = Cardinality(At({"incr"}))
        /\ Cardinality(Late)' = Cardinality(Late)
        /\ Mailed!Exists("lock") => Cardinality(At({"get"}))' <= Cardinality(At({"get"}))
    BY <1>2, CountsMove, CallSets
  <1>4. /\ Counted' = Counted /\ (Mailed!Exists("lock")' <=> Mailed!Exists("lock"))
        /\ (Outlives("attempt")' <=> Outlives("attempt"))
        /\ (Outlives("lock")' <=> Outlives("lock"))
    BY DEF Counted, Mailed!Exists, Outlives
  <1>5. GuessInv => GuessInv'
    <2>1. /\ wrong \in Nat /\ MaxAttempts \in Nat /\ Cardinality(Requests) \in Nat
          /\ Cardinality(At({"get"})) \in Nat /\ Cardinality(At({"get"}))' \in Nat
      BY Limits, CallSets, CountsMove DEF CodeTypes, SetsOK
    <2>2. QED
      BY <1>3, <1>4, <2>1 DEF GuessInv
  <1>6. QED
    BY <1>1, <1>5, NoGuess DEF GuessesKept

LEMMA NoCodeGuess ==
  ASSUME CodeTypes, GuessesKept, wrong' = wrong, ~Guessable'
  PROVE  GuessesKept'
  BY NoGuess

LEMMA SendClearsGuess ==
  ASSUME CodeTypes, GuessesKept, ~RedisFails, NEW r \in Requests, Mailed!SendClears(r)
  PROVE  GuessesKept'
  <1>1. /\ wrong' = 0 /\ ~Mailed!Exists("attempt")' /\ ~Mailed!Exists("lock")'
        /\ \A q \in Requests \ {r} : call'[q] = call[q]
    BY SendClearsTypes
  <1>2. /\ Cardinality(At({"incr"}))' \in Nat /\ Cardinality(Late)' \in Nat
        /\ MaxAttempts \in Nat \ {0}
    BY <1>1, CountsMove, Limits
  <1>3. GuessInv'
    BY <1>1, <1>2 DEF GuessInv, Outlives, Counted
  <1>4. QED
    BY <1>1, <1>3, NoGuess

(* A wrong guess: it is about to be counted.                               *)
LEMMA VerifyComparesGuess ==
  ASSUME CodeTypes, GuessesKept, NEW r \in Requests, Mailed!VerifyCompares(r)
  PROVE  GuessesKept'
  <1>1. call[r].pc = "get" /\ CodeTypes'
    BY VerifyComparesTypes DEF Mailed!VerifyCompares
  <1>2. CASE call'[r].pc \in {"idle", "consume"} /\ wrong' = wrong
    BY <1>1, <1>2, VerifyComparesTypes, IdleStepGuess
  <1>3. CASE /\ call'[r].pc = "incr" /\ wrong' = wrong + (IF Mailed!Replacing THEN 0 ELSE 1)
             /\ Mailed!Exists("code")
    <2>1. /\ \A q \in Requests \ {r} : call'[q] = call[q]
          /\ store' = store
      BY VerifyComparesTypes
    <2>2. Guessable' <=> Guessable
      BY <1>1, <1>3, <2>1, GuessableKept
    <2>3. r \notin Late /\ (r \in Late)'
      BY <1>1, <1>3, LateIs
    <2>4. /\ Cardinality(At({"incr"}))' = Cardinality(At({"incr"})) + 1
          /\ Cardinality(At({"get"}))' = Cardinality(At({"get"})) - 1
          /\ Cardinality(Late)' = Cardinality(Late) + 1
      BY <1>1, <1>3, <2>1, <2>3, CountsMove, CallSets
    <2>5. /\ Counted' = Counted /\ (Mailed!Exists("lock")' <=> Mailed!Exists("lock"))
          /\ (Outlives("attempt")' <=> Outlives("attempt"))
          /\ (Outlives("lock")' <=> Outlives("lock"))
      BY <2>1 DEF Counted, Mailed!Exists, Outlives
    <2>6. /\ wrong \in Nat /\ MaxAttempts \in Nat \ {0} /\ Counted \in Nat
          /\ Cardinality(Requests) \in Nat /\ Cardinality(At({"get"})) \in Nat
          /\ Cardinality(At({"incr"})) \in Nat /\ Cardinality(Late) \in Nat
      BY Limits, CallSets, CountIsNat DEF CodeTypes, SetsOK
    <2>7. CASE Guessable
      <3>1. GuessInv /\ wrong' = wrong + 1
        BY <1>3, <2>7 DEF GuessesKept, Guessable
      <3>2. GuessInv'
        BY <2>4, <2>5, <2>6, <3>1 DEF GuessInv
      <3>3. Cardinality(At({"get"})) >= 1
        BY <2>1, <2>4, <2>6, CountsMove
      <3>4. wrong' <= MaxAttempts - 1 + Cardinality(Requests)
        BY <2>6, <3>1, <3>3, CallSets DEF GuessInv
      <3>5. QED
        BY <3>2, <3>4, BoundIs DEF GuessesKept
    <2>8. CASE ~Guessable
      <3>1. wrong' = wrong
        BY <1>3, <2>6, <2>8 DEF Guessable
      <3>2. QED
        BY <2>2, <2>8, <3>1, NoCodeGuess
    <2>9. QED
      BY <2>7, <2>8
  <1>4. QED
    BY <1>2, <1>3, VerifyComparesTypes

(* A counted guess is late until it has been judged; only a count below    *)
(* the limit lets it go.                                                   *)
LEMMA VerifyCountsGuess ==
  ASSUME CodeTypes, GuessesKept, ~RedisFails, NEW r \in Requests, Mailed!VerifyCounts(r)
  PROVE  GuessesKept'
  <1>1. /\ \A q \in Requests \ {r} : call'[q] = call[q]
        /\ store'["code"] = store["code"] /\ store'["lock"] = store["lock"]
        /\ Counted' = Counted + 1
        /\ store'["attempt"].ttl = IF Mailed!Exists("attempt")
                                   THEN store["attempt"].ttl ELSE Mailed!Forever
        /\ \/ Counted = 0 /\ call'[r].pc = "expire" /\ call'[r].n = 1
           \/ Counted # 0 /\ Counted + 1 >= MaxAttempts /\ call'[r].pc = "setlock"
           \/ Counted # 0 /\ Counted + 1 < MaxAttempts /\ call'[r].pc = "idle"
        /\ wrong' = wrong
    BY VerifyCountsTypes DEF Mailed!Keys
  <1>2. call[r].pc = "incr"
    BY DEF Mailed!VerifyCounts
  <1>3. Guessable' <=> Guessable
    BY <1>1, <1>2, GuessableKept
  <1>4. r \in Late /\ ((r \in Late)' <=> Counted + 1 >= MaxAttempts)
    BY <1>1, <1>2, LateIs, CountIsNat, Limits DEF CodeTypes
  <1>5. /\ Cardinality(At({"incr"}))' = Cardinality(At({"incr"})) - 1
        /\ Cardinality(At({"get"}))' = Cardinality(At({"get"}))
        /\ Cardinality(Late)' = Cardinality(Late) - (IF Counted + 1 >= MaxAttempts THEN 0 ELSE 1)
        /\ Cardinality(At({"incr"}))' \in Nat /\ Cardinality(Late)' \in Nat
    BY <1>1, <1>2, <1>4, CountsMove, CallSets
  <1>6. /\ Mailed!Exists("lock")' <=> Mailed!Exists("lock")
        /\ Outlives("attempt") => Outlives("attempt")'
        /\ Outlives("lock") => Outlives("lock")'
    BY <1>1 DEF Mailed!Exists, Outlives
  <1>7. At({"incr"})' \in SUBSET Late'
    BY DEF At, Late
  <1>8. Cardinality(At({"incr"}))' <= Cardinality(Late)'
    <2>1. IsFiniteSet(Late')
      <3>1. Late' \in SUBSET Requests
        BY DEF Late, At
      <3>2. QED
        BY <3>1, FS_Subset, RequestsAssumption
    <2>2. QED
      BY <1>7, <2>1, FS_Subset
  <1>9. /\ wrong \in Nat /\ MaxAttempts \in Nat \ {0} /\ Counted \in Nat
        /\ Cardinality(Requests) \in Nat /\ Cardinality(At({"get"})) \in Nat
        /\ Cardinality(At({"incr"})) \in Nat /\ Cardinality(Late) \in Nat
    BY Limits, CallSets, CountIsNat DEF CodeTypes, SetsOK
  <1>10. GuessInv => GuessInv'
    <2> SUFFICES ASSUME GuessInv PROVE GuessInv'
      OBVIOUS
    <2>1. wrong' <= Counted' + Cardinality(At({"incr"}))'
      BY <1>1, <1>5, <1>9 DEF GuessInv
    <2>2. ~Mailed!Exists("lock")' => wrong' <= MaxAttempts - 1 + Cardinality(Late)'
      <3>1. CASE Counted + 1 >= MaxAttempts
        BY <1>1, <1>5, <1>6, <1>9, <3>1 DEF GuessInv
      <3>2. CASE Counted + 1 < MaxAttempts
        BY <1>1, <1>5, <1>8, <1>9, <2>1, <3>2
      <3>3. QED
        BY <1>9, <3>1, <3>2
    <2>3. Mailed!Exists("lock")' =>
             wrong' + Cardinality(At({"get"}))' <= MaxAttempts - 1 + Cardinality(Requests)
      BY <1>1, <1>5, <1>6 DEF GuessInv
    <2>4. QED
      BY <1>6, <2>1, <2>2, <2>3 DEF GuessInv
  <1>11. QED
    BY <1>1, <1>3, <1>10, NoGuess DEF GuessesKept

LEMMA VerifyExpiresGuess ==
  ASSUME CodeTypes, GuessesKept, ~RedisFails, NEW r \in Requests, Mailed!VerifyExpires(r)
  PROVE  GuessesKept'
  <1>1. /\ \A q \in Requests \ {r} : call'[q] = call[q]
        /\ store'["code"] = store["code"] /\ store'["lock"] = store["lock"]
        /\ Counted' = Counted /\ wrong' = wrong
        /\ IF Mailed!Exists("attempt") THEN store'["attempt"].ttl = CodeTTL
                                       ELSE store'["attempt"].ttl = 0
        /\ \/ call[r].n >= MaxAttempts /\ call'[r].pc = "setlock"
           \/ call[r].n < MaxAttempts /\ call'[r].pc = "idle"
    BY VerifyExpiresTypes DEF Mailed!Keys
  <1>2. call[r].pc = "expire" /\ call[r].n \in Nat
    BY DEF Mailed!VerifyExpires, CodeTypes, CallsOK, MailCall
  <1>3. Guessable' <=> Guessable
    BY <1>1, <1>2, GuessableKept
  <1>4. (r \in Late) <=> (r \in Late)'
    BY <1>1, <1>2, LateIs, Limits
  <1>5. /\ Cardinality(At({"incr"}))' = Cardinality(At({"incr"}))
        /\ Cardinality(At({"get"}))' = Cardinality(At({"get"}))
        /\ Cardinality(Late)' = Cardinality(Late)
    BY <1>1, <1>2, <1>4, CountsMove, CallSets
  <1>6. /\ Mailed!Exists("lock")' <=> Mailed!Exists("lock")
        /\ Outlives("lock") => Outlives("lock")'
    BY <1>1 DEF Mailed!Exists, Outlives
  <1>7. Outlives("attempt")'
    <2>1. store["code"].ttl <= CodeTTL
      BY Limits DEF CodeTypes, StoreOK
    <2>2. QED
      BY <1>1, <2>1 DEF Mailed!Exists, Outlives
  <1>8. GuessInv => GuessInv'
    BY <1>1, <1>5, <1>6, <1>7 DEF GuessInv
  <1>9. QED
    BY <1>1, <1>3, <1>8, NoGuess DEF GuessesKept

(* Once locked, only the calls that have passed the check may still guess. *)
LEMMA VerifyLocksGuess ==
  ASSUME CodeTypes, GuessesKept, ~RedisFails, NEW r \in Requests, Mailed!VerifyLocks(r)
  PROVE  GuessesKept'
  <1>1. /\ call'[r].pc = "idle" /\ \A q \in Requests \ {r} : call'[q] = call[q]
        /\ store'["code"] = store["code"] /\ store'["attempt"] = store["attempt"]
        /\ store'["lock"].ttl = LockTTL /\ wrong' = wrong
    BY VerifyLocksTypes DEF Mailed!Keys
  <1>2. call[r].pc = "setlock"
    BY DEF Mailed!VerifyLocks
  <1>3. Guessable' <=> Guessable
    BY <1>1, <1>2, GuessableKept
  <1>4. /\ Cardinality(At({"incr"}))' = Cardinality(At({"incr"}))
        /\ Cardinality(At({"get"}))' = Cardinality(At({"get"}))
    BY <1>1, <1>2, CountsMove, CallSets
  <1>5. /\ Counted' = Counted /\ Mailed!Exists("lock")'
        /\ Outlives("attempt") => Outlives("attempt")'
    BY <1>1, Limits DEF Mailed!Exists, Outlives, Counted
  <1>6. Outlives("lock")'
    <2>1. store["code"].ttl <= LockTTL
      BY Limits DEF CodeTypes, StoreOK
    <2>2. QED
      BY <1>1, <2>1 DEF Mailed!Exists, Outlives
  <1>7. GuessInv => GuessInv'
    <2> SUFFICES ASSUME GuessInv PROVE GuessInv'
      OBVIOUS
    <2>1. /\ wrong \in Nat /\ MaxAttempts \in Nat \ {0}
          /\ Cardinality(Requests) \in Nat /\ Cardinality(At({"get"})) \in Nat
          /\ Cardinality(Late) \in Nat
          /\ Cardinality(Late) + Cardinality(At({"get"})) <= Cardinality(Requests)
      BY Limits, CallSets DEF CodeTypes, SetsOK
    <2>2. wrong + Cardinality(At({"get"})) <= MaxAttempts - 1 + Cardinality(Requests)
      BY <2>1 DEF GuessInv
    <2>3. QED
      BY <1>1, <1>4, <1>5, <1>6, <2>2 DEF GuessInv
  <1>8. QED
    BY <1>1, <1>3, <1>7, NoGuess DEF GuessesKept

(* Counter and lock do not expire before the code does.                    *)
LEMMA TickGuess ==
  ASSUME CodeTypes, GuessesKept, Mailed!Tick
  PROVE  GuessesKept'
  <1>1. /\ call' = call /\ wrong' = wrong
        /\ \A k \in Mailed!Keys : store[k].ttl \in Nat \cup {Mailed!Forever}
        /\ \A k \in Mailed!Keys :
               \/ store[k].ttl > 1 /\ store'[k].ttl = store[k].ttl - 1
                                   /\ store'[k].val = store[k].val
               \/ store[k].ttl = 1 /\ store'[k].ttl = 0 /\ store'[k].val = None
               \/ store[k].ttl \in {0, Mailed!Forever} /\ store'[k] = store[k]
    BY TickTypes DEF CodeTypes, StoreOK, Entry, Mailed!Tick
  <1>2. ASSUME Guessable' PROVE GuessInv'
    <2>1. store'["code"].ttl # 0
      BY <1>2 DEF Guessable, Mailed!Exists
    <2>2. store["code"].ttl > 1 /\ store'["code"].ttl = store["code"].ttl - 1
      BY <1>1, <2>1, Limits DEF CodeTypes, StoreOK, Mailed!Keys, Mailed!Forever
    <2>3. Guessable
      BY <1>1, <1>2, <2>2 DEF Guessable, Mailed!Exists, Mailed!Replacing
    <2>4. GuessInv
      BY <2>3 DEF GuessesKept
    <2>5. ASSUME NEW k \in {"attempt", "lock"}
          PROVE  /\ Outlives(k)' /\ (Mailed!Exists(k)' <=> Mailed!Exists(k))
                 /\ Mailed!Exists(k) => store'[k].val = store[k].val
      <3>1. Outlives(k) /\ k \in Mailed!Keys
        BY <2>4 DEF GuessInv, Mailed!Keys
      <3>2. /\ store[k].ttl \in Nat \cup {-1} /\ store["code"].ttl \in Nat
            /\ \/ store[k].ttl > 1 /\ store'[k].ttl = store[k].ttl - 1
                                    /\ store'[k].val = store[k].val
               \/ store[k].ttl = 1 /\ store'[k].ttl = 0 /\ store'[k].val = None
               \/ store[k].ttl \in {0, -1} /\ store'[k] = store[k]
        BY <1>1, <3>1, Limits DEF CodeTypes, StoreOK, Mailed!Forever
      <3>3. store[k].ttl = 0 \/ store[k].ttl = -1 \/ store[k].ttl >= store["code"].ttl
        BY <3>1 DEF Outlives, Mailed!Exists, Mailed!Forever
      <3>4. /\ store'[k].ttl = 0 \/ store'[k].ttl = -1 \/ store'[k].ttl >= store'["code"].ttl
            /\ store'[k].ttl # 0 <=> store[k].ttl # 0
            /\ store[k].ttl # 0 => store'[k].val = store[k].val
        BY <2>2, <3>2, <3>3
      <3>5. QED
        BY <3>4 DEF Outlives, Mailed!Exists, Mailed!Forever
    <2>6. /\ Mailed!Exists("attempt")' <=> Mailed!Exists("attempt")
          /\ Mailed!Exists("attempt") => store'["attempt"].val = store["attempt"].val
          /\ Mailed!Exists("lock")' <=> Mailed!Exists("lock")
          /\ Outlives("attempt")' /\ Outlives("lock")'
      BY <2>5
    <2>7. Counted' = Counted
      BY <2>6 DEF Counted
    <2>8. At({"incr"})' = At({"incr"}) /\ At({"get"})' = At({"get"}) /\ Late' = Late
      BY <1>1 DEF At, Late
    <2>9. QED
      BY <1>1, <2>4, <2>6, <2>7, <2>8 DEF GuessInv
  <1>3. QED
    BY <1>1, <1>2, NoGuess

LEMMA GuessStep ==
  ASSUME CodeTypes, GuessesKept, ~RedisFails, [Mailed!Next]_(Mailed!vars)
  PROVE  GuessesKept'
  <1> USE DEF Mailed!Keys
  <1>1. ASSUME NEW r \in Requests, Mailed!SendBegins(r) PROVE GuessesKept'
    BY <1>1, SendBeginsTypes, IdleStepGuess DEF Mailed!SendBegins
  <1>2. ASSUME NEW r \in Requests, Mailed!SendStores(r) PROVE GuessesKept'
    BY <1>2, SendStoresTypes, NoCodeGuess DEF Guessable, Mailed!Replacing
  <1>3. ASSUME NEW r \in Requests, Mailed!SendMails(r) PROVE GuessesKept'
    BY <1>3, SendMailsTypes, IdleStepGuess DEF Mailed!SendMails
  <1>4. ASSUME NEW r \in Requests, Mailed!SendUndoes(r) PROVE GuessesKept'
    BY <1>4, SendUndoesTypes, NoCodeGuess DEF Guessable, Mailed!Exists
  <1>5. ASSUME NEW r \in Requests, Mailed!VerifySucceeds(r) PROVE GuessesKept'
    BY <1>5, VerifySucceedsTypes, NoCodeGuess DEF Guessable, Mailed!Exists
  <1>6. ASSUME NEW r \in Requests, NEW c \in Codes \cup {None}, Mailed!VerifyBegins(r, c)
        PROVE  GuessesKept'
    BY <1>6, VerifyBeginsTypes, IdleStepGuess DEF Mailed!VerifyBegins
  <1>7. CASE UNCHANGED Mailed!vars
    BY <1>7 DEF Mailed!vars, GuessesKept, Guessable, GuessInv, Mailed!GuessesBounded,
                Mailed!Exists, Mailed!Replacing, Outlives, Counted, At, Late
  <1>8. QED
    BY <1>1, <1>2, <1>3, <1>4, <1>5, <1>6, <1>7, SendClearsGuess, VerifyComparesGuess,
       VerifyCountsGuess, VerifyExpiresGuess, VerifyLocksGuess, TickGuess
       DEF Mailed!Next, Mailed!Step, Mailed!Stop

-----------------------------------------------------------------------------
(* The behaviours of MCAccounts move the codes as AuthCode says.           *)

LEMMA CodesAreAuthCodes == AccountsSpec => Mailed!Spec
  <1>1. AccountsInit => Mailed!Init
    BY DEF AccountsInit
  <1>2. [AccountsNext]_<<part, vars, codeVars>> => [Mailed!Next]_(Mailed!vars)
    BY DEF AccountsNext, codeVars, Mailed!vars
  <1>3. QED
    BY <1>1, <1>2, PTL DEF AccountsSpec, Mailed!Spec

LEMMA CodeTypesHold == Mailed!Spec => []CodeTypes
  BY CodeTypesInit, CodeTypesStep, PTL DEF Mailed!Spec

LEMMA CodeInvInit == Mailed!Init => CodeInv
  <1> SUFFICES ASSUME Mailed!Init PROVE CodeInv
    OBVIOUS
  <1>1. /\ \A r \in Requests : call[r].pc = "idle"
        /\ \A k \in Mailed!Keys : store[k].ttl = 0
        /\ accepted = {} /\ wrong = 0
    BY DEF Mailed!Init, Mailed!NoRequest, Mailed!Absent
  <1>2. ~Guessable /\ Mailed!CounterExpires
    BY <1>1 DEF Guessable, Mailed!Exists, Mailed!CounterExpires, Mailed!Keys, Mailed!Forever
  <1>3. Mailed!GuessesBounded
    BY <1>1, Limits, CallSets, BoundIs
  <1>4. UnstoredApart /\ Mailed!AcceptedIsGone
    BY <1>1 DEF UnstoredApart, Mailed!AcceptedIsGone
  <1>5. QED
    BY <1>2, <1>3, <1>4, CodeTypesInit DEF CodeInv

(* As long as Redis answers (the service returns an error otherwise, and   *)
(* what it wrote stays): wrong guesses at a code are bounded by the limit  *)
(* and the calls in progress, also over the expiry of counter and lock,    *)
(* the counter does expire, and a code that VerifyCode has accepted is     *)
(* gone for good.                                                          *)
THEOREM CodesStayLimited ==
  ASSUME ~RedisFails
  PROVE  AccountsSpec => []CodesLimited
  <1>1. CodeInv /\ [Mailed!Next]_(Mailed!vars) => CodeInv'
    BY CodeTypesStep, ApartStep, CounterStep, GuessStep DEF CodeInv, GuessesKept
  <1>2. CodeInv => CodesLimited
    BY DEF CodeInv, CodesLimited
  <1>3. Mailed!Spec => []CodesLimited
    BY <1>1, <1>2, CodeInvInit, PTL DEF Mailed!Spec
  <1>4. QED
    BY <1>3, CodesAreAuthCodes, PTL

(* Tokens, accounts, codes and the calls in progress have their types,     *)
(* also when Redis fails.                                                  *)
THEOREM AccountsTyped == AccountsSpec => []TypesOK
  <1>1. TokenInv /\ CodeTypes => TypesOK
    BY TypesImplied DEF TypesOK, TokenInv
  <1>2. QED
    BY <1>1, TokensAreActionTokens, TokensHold, CodesAreAuthCodes, CodeTypesHold, PTL
=============================================================================
