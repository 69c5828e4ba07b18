---------------------------- MODULE AvatarUpload ----------------------------
(***************************************************************************)
(* Changing the avatar of a user: a session is opened, one image is        *)
(* presigned, uploaded by the client into the object store, and completed, *)
(* which makes it the avatar in the profile.                               *)
(*                                                                         *)
(* Presign and complete read the clock, wait for the row of the session    *)
(* (SELECT ... FOR UPDATE) and write in one transaction.  The error of an  *)
(* expired session rolls the transaction back; the handler then marks the  *)
(* session expired with a statement of its own, after the row was free for *)
(* others.  All sessions are those of one user: requests of others find no *)
(* row.                                                                    *)
(***************************************************************************)
EXTENDS Integers

CONSTANTS
    Requests,   \* slots for the HTTP requests in progress
    Sessions,   \* ids of avatar_upload_sessions rows, and of their images
    TTL,        \* avatarUploadSessionTTL, in ticks
    MaxTime,    \* bound on the clock
    None        \* SQL NULL

ASSUME NumbersAssumption == TTL \in Nat /\ MaxTime \in Nat
ASSUME IdsAssumption == None \notin Requests \cup Sessions

VARIABLES
    now,        \* the clock of the server
    status,     \* avatar_upload_sessions.status, "absent" before the INSERT
    expiresAt,  \* avatar_upload_sessions.expires_at
    image,      \* media_assets.status of the image of a session
    object,     \* what the object store holds under the image's key
    avatar,     \* user_profiles.current_avatar_asset_id
    lock,       \* which request's transaction holds the session row
    req         \* the requests in progress

vars == <<now, status, expiresAt, image, object, avatar, lock, req>>

Status == {"absent", "created", "presigned", "completed", "expired"}
Ops == {"presign", "complete"}

(* pc: waiting - in a transaction that waits for the row; locked - holds   *)
(* it; expiring - rolled back, about to mark the session expired.  at is   *)
(* the time the handler read first, row the status it read from the row.   *)
Request == [pc : {"idle", "waiting", "locked", "expiring"},
            op : Ops \cup {None}, session : Sessions \cup {None},
            at : 0..MaxTime, row : Status]
NoRequest == [pc |-> "idle", op |-> None, session |-> None, at |-> 0,
              row |-> "absent"]

TypeOK ==
    /\ now \in 0..MaxTime
    /\ status \in [Sessions -> Status]
    /\ expiresAt \in [Sessions -> 0..(MaxTime + TTL)]
    /\ image \in [Sessions -> {"none", "pending_upload", "uploaded"}]
    /\ object \in [Sessions -> {"absent", "bad", "good"}]
    /\ avatar \in Sessions \cup {None}
    /\ lock \in [Sessions -> Requests \cup {None}]
    /\ req \in [Requests -> Request]

Init ==
    /\ now = 0
    /\ status = [s \in Sessions |-> "absent"]
    /\ expiresAt = [s \in Sessions |-> 0]
    /\ image = [s \in Sessions |-> "none"]
    /\ object = [s \in Sessions |-> "absent"]
    /\ avatar = None
    /\ lock = [s \in Sessions |-> None]
    /\ req = [r \in Requests |-> NoRequest]

-----------------------------------------------------------------------------
(* Opening a session, and a request on it.                                 *)

(* A plausible bug: the time to live is added twice. *)
CreateTTLTwice(s) ==
    /\ status[s] = "absent"
    /\ status' = [status EXCEPT ![s] = "created"]
    /\ expiresAt' = [expiresAt EXCEPT ![s] = now + TTL + TTL]
    /\ UNCHANGED <<now, image, object, avatar, lock, req>>

Create(s) ==
    /\ status[s] = "absent"
    /\ status' = [status EXCEPT ![s] = "created"]
    /\ expiresAt' = [expiresAt EXCEPT ![s] = now + TTL]
    /\ UNCHANGED <<now, image, object, avatar, lock, req>>

Arrive(r, o, s) ==
    /\ req[r].pc = "idle"
    /\ status[s] # "absent"
    /\ req' = [req EXCEPT ![r] = [pc |-> "waiting", op |-> o, session |-> s,
                                  at |-> now, row |-> "absent"]]
    /\ UNCHANGED <<now, status, expiresAt, image, object, avatar, lock>>

LoadSession(r) ==
    /\ req[r].pc = "waiting"
    /\ lock[req[r].session] = None
    /\ lock' = [lock EXCEPT ![req[r].session] = r]
    /\ req' = [req EXCEPT ![r] = [@ EXCEPT !.pc = "locked",
                                           !.row = status[req[r].session]]]
    /\ UNCHANGED <<now, status, expiresAt, image, object, avatar>>

Unlock(r) == lock' = [s \in Sessions |-> IF lock[s] = r THEN None ELSE lock[s]]
End(r) == Unlock(r) /\ req' = [req EXCEPT ![r] = NoRequest]

(* Any other error, a lost connection, a cancelled request, a crash.       *)
Abort(r) ==
    /\ req[r].pc # "idle"
    /\ End(r)
    /\ UNCHANGED <<now, status, expiresAt, image, object, avatar>>

-----------------------------------------------------------------------------
(* The handlers, once they hold the row.                                   *)

Handles(r, o) == req[r].pc = "locked" /\ req[r].op = o

(* A plausible bug: the deadline is one tick early. *)
InTimeByATick(r) == req[r].at + 1 < expiresAt[req[r].session]

(* The session has not expired for a request that read the clock at `at`.  *)
InTime(r) == req[r].at < expiresAt[req[r].session]

PresignNew(r) ==
    LET s == req[r].session IN
    /\ Handles(r, "presign") /\ InTime(r)
    /\ req[r].row = "created"
    /\ image[s] = "none"
    /\ image' = [image EXCEPT ![s] = "pending_upload"]
    /\ status' = [status EXCEPT ![s] = "presigned"]
    /\ End(r)
    /\ UNCHANGED <<now, expiresAt, object, avatar>>

(* The same image is presigned again: nothing changes.                     *)
PresignAgain(r) ==
    LET s == req[r].session IN
    /\ Handles(r, "presign") /\ InTime(r)
    /\ req[r].row = "presigned"
    /\ image[s] = "pending_upload"
    /\ End(r)
    /\ UNCHANGED <<now, status, expiresAt, image, object, avatar>>

(* A plausible bug: the object is not looked up in the store. *)
UploadedAvatarAssumed(s) == image[s] \in {"pending_upload", "uploaded"}

UploadedAvatarAsset(s) ==
    /\ object[s] = "good"
    /\ image[s] \in {"pending_upload", "uploaded"}

(* Plausible bugs: a status that is not checked; a deadline that is not.    *)
CompletableAnyStatus(r) == InTime(r) /\ req[r].row \in {"presigned", "completed", "expired"}
CompletableLate(r) == req[r].row = "presigned"

Completable(r) == InTime(r) /\ req[r].row = "presigned"

Complete(r) ==
    LET s == req[r].session IN
    /\ Handles(r, "complete")
    /\ Completable(r)
    /\ UploadedAvatarAsset(s)
    /\ image' = [image EXCEPT ![s] = "uploaded"]
    /\ avatar' = s
    /\ status' = [status EXCEPT ![s] = "completed"]
    /\ End(r)
    /\ UNCHANGED <<now, expiresAt, object>>

(* Completing again succeeds and changes nothing, expired or not.          *)
CompleteAgain(r) ==
    /\ Handles(r, "complete")
    /\ req[r].row = "completed"
    /\ End(r)
    /\ UNCHANGED <<now, status, expiresAt, image, object, avatar>>

(* The transaction marks the session expired, and is rolled back by the    *)
(* error that follows; only the handler knows.                             *)
Expire(r) ==
    /\ req[r].pc = "locked"
    /\ ~InTime(r)
    /\ req[r].op = "complete" => req[r].row # "completed"
    /\ Unlock(r)
    /\ req' = [req EXCEPT ![r] = [@ EXCEPT !.pc = "expiring"]]
    /\ UNCHANGED <<now, status, expiresAt, image, object, avatar>>

(* expireAvatarSession: an UPDATE without a condition on the status, which *)
(* waits for whoever holds the row.                                        *)
ExpireAvatarSession(r) ==
    LET s == req[r].session IN
    /\ req[r].pc = "expiring"
    /\ lock[s] = None
    /\ status' = [status EXCEPT ![s] = "expired"]
    /\ End(r)
    /\ UNCHANGED <<now, expiresAt, image, object, avatar>>

-----------------------------------------------------------------------------

(* The client sends the file to the presigned target, once or more often.  *)
PutObject(s, content) ==
    /\ image[s] # "none"
    /\ object' = [object EXCEPT ![s] = content]
    /\ UNCHANGED <<now, status, expiresAt, image, avatar, lock, req>>

Tick ==
    /\ now < MaxTime
    /\ now' = now + 1
    /\ UNCHANGED <<status, expiresAt, image, object, avatar, lock, req>>

(* What a request does by itself once it arrived. *)
Step(r) ==
    \/ LoadSession(r)
    \/ PresignNew(r)
    \/ PresignAgain(r)
    \/ Complete(r)
    \/ CompleteAgain(r)
    \/ Expire(r)
    \/ ExpireAvatarSession(r)

Next ==
    \/ \E s \in Sessions : Create(s)
    \/ \E r \in Requests, o \in Ops, s \in Sessions : Arrive(r, o, s)
    \/ \E r \in Requests : Step(r) \/ Abort(r)
    \/ \E s \in Sessions, v \in {"bad", "good"} : PutObject(s, v)
    \/ Tick

Spec == Init /\ [][Next]_vars

-----------------------------------------------------------------------------
(* What must never go wrong.                                               *)

(* The avatar in the profile is an image of a session that was completed   *)
(* and that was seen in the object store (ensureUploadedAvatarAsset), and  *)
(* an image that counts as uploaded belongs to such a session, whatever    *)
(* other requests did to it in the meantime.                               *)
AvatarWasUploaded ==
    /\ avatar # None => image[avatar] = "uploaded"
    /\ \A s \in Sessions : image[s] = "uploaded" =>
          /\ status[s] \in {"completed", "expired"}
          /\ object[s] # "absent"

(* A session is only ever marked expired after its deadline, by a request  *)
(* that began after it (ensureAvatarSessionMutable and -Completable).      *)
ExpiredIsLate ==
    \A s \in Sessions : status[s] = "expired" => now >= expiresAt[s]

(* A session sets the avatar at most once: a retry of a completed request  *)
(* never brings back an image that another session has replaced, and a     *)
(* session that was marked expired never sets one (Complete).              *)
AvatarSetOnce ==
    [][avatar' # avatar =>
         /\ avatar' # None
         /\ status[avatar'] = "presigned"
         /\ status'[avatar'] = "completed"]_vars

(* Only a request that read the clock before the deadline gets an image    *)
(* into the profile or makes a session presigned or completed, even if it  *)
(* waited for the row until later.                                         *)
LateRequestsSetNothing ==
    [][\A s \in Sessions :
         status'[s] # status[s] /\ status'[s] \in {"presigned", "completed"} =>
            \E r \in Requests : /\ req[r].session = s
                                /\ req[r].pc = "locked"
                                /\ req'[r].pc = "idle"
                                /\ req[r].at < expiresAt[s]]_vars

(* A completed session stays completed                                     *)
(* (avatar_upload_flow_test.go:260 expects it after the session's deadline *)
(* and another request).                                                   *)
CompletedStays ==
    [][\A s \in Sessions : status[s] = "completed" => status'[s] = "completed"]_vars

-----------------------------------------------------------------------------
(* Why these hold: the strengthening that every step preserves.            *)

RequestsNameSessions ==
    \A r \in Requests : req[r].pc # "idle" =>
        /\ req[r].op \in Ops
        /\ req[r].session \in Sessions
        /\ status[req[r].session] # "absent"
        /\ req[r].at <= now

(* The holder of a row is alone, and the row is as it read it.             *)
RowsHeld ==
    \A r \in Requests : req[r].pc = "locked" =>
        /\ lock[req[r].session] = r
        /\ req[r].row = status[req[r].session]

ExpiringIsLate ==
    \A r \in Requests : req[r].pc = "expiring" =>
        expiresAt[req[r].session] <= req[r].at

IInv ==
    /\ TypeOK
    /\ RequestsNameSessions
    /\ RowsHeld
    /\ ExpiringIsLate
    /\ AvatarWasUploaded
    /\ ExpiredIsLate

=============================================================================
