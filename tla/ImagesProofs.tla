----------------------------- MODULE ImagesProofs -----------------------------
(***************************************************************************)
(* What holds of images outside of publishing: of avatar uploads, for any  *)
(* requests and sessions and all bounds; and of the life of any asset and  *)
(* of its variants, for any number of calls that read a row, lose its lock *)
(* and then write.                                                         *)
(***************************************************************************)
EXTENDS MCImages, TLAPS

-----------------------------------------------------------------------------
(* Avatar uploads.                                                         *)

(* What a request turns into along its way is well typed.                  *)
LEMMA NoRequestType == NoRequest \in Request
  BY NumbersAssumption DEF NoRequest, Request, Status

LEMMA HasReadType ==
  ASSUME NEW q \in Request, NEW st \in Status
  PROVE  [q EXCEPT !.pc = "locked", !.row = st] \in Request
  BY DEF Request

LEMMA RolledBackType ==
  ASSUME NEW q \in Request
  PROVE  [q EXCEPT !.pc = "expiring"] \in Request
  BY DEF Request

(* The end of a request leaves its locks and its slot free.                *)
LEMMA EndType ==
  ASSUME TypeOK, NEW r \in Requests, End(r)
  PROVE  /\ lock' \in [Sessions -> Requests \cup {None}]
         /\ req' \in [Requests -> Request]
         /\ req'[r].pc = "idle"
         /\ \A q \in Requests : q # r => req'[q] = req[q]
         /\ \A s \in Sessions, q \in Requests :
               q # r /\ lock[s] = q => lock'[s] = q
  BY NoRequestType DEF End, Unlock, TypeOK, NoRequest

-----------------------------------------------------------------------------
(* The requests in progress, and the rows they hold.                       *)

RequestInv == RequestsNameSessions /\ RowsHeld /\ ExpiringIsLate

(* A request that ends may have written its own row: the others neither    *)
(* hold that row nor lose what they know of theirs.                        *)
LEMMA EndRequestInv ==
  ASSUME TypeOK, RequestInv, NEW r \in Requests, End(r),
         now' = now, expiresAt' = expiresAt,
         \A s \in Sessions : status[s] # "absent" => status'[s] # "absent",
         \A s \in Sessions : status'[s] # status[s] => lock[s] \in {r, None}
  PROVE  RequestInv'
  <1>1. \A q \in Requests : q # r => req'[q] = req[q]
    BY EndType
  <1>2. req'[r].pc = "idle"
    BY EndType
  <1>3. RequestsNameSessions'
    BY <1>1, <1>2 DEF RequestInv, RequestsNameSessions
  <1>4. RowsHeld'
    <2>1. ASSUME NEW q \in Requests, req'[q].pc = "locked"
          PROVE  /\ lock'[req'[q].session] = q
                 /\ req'[q].row = status'[req'[q].session]
      <3>1. q # r /\ req'[q] = req[q]
        BY <1>1, <1>2, <2>1
      <3>2. req[q].session \in Sessions
        BY <2>1, <3>1 DEF RequestInv, RequestsNameSessions
      <3>3. lock[req[q].session] = q /\ req[q].row = status[req[q].session]
        BY <2>1, <3>1 DEF RequestInv, RowsHeld
      <3>4. lock'[req[q].session] = q
        BY <3>1, <3>2, <3>3, EndType
      <3>5. status'[req[q].session] = status[req[q].session]
        BY <3>1, <3>2, <3>3, IdsAssumption
      <3>6. QED
        BY <3>1, <3>3, <3>4, <3>5
    <2>2. QED
      BY <2>1 DEF RowsHeld
  <1>5. ExpiringIsLate'
    BY <1>1, <1>2 DEF RequestInv, ExpiringIsLate
  <1>6. QED
    BY <1>3, <1>4, <1>5 DEF RequestInv

(* What a handler knows that holds the row of its session.                 *)
LEMMA Holding ==
  ASSUME TypeOK, RequestInv, NEW r \in Requests, req[r].pc = "locked"
  PROVE  /\ req[r].session \in Sessions
         /\ lock[req[r].session] = r
         /\ req[r].row = status[req[r].session]
         /\ req[r].at \in Nat
  BY NumbersAssumption DEF RequestInv, RequestsNameSessions, RowsHeld, TypeOK, Request

-----------------------------------------------------------------------------
(* One lemma for each action that writes.                                  *)

LEMMA CreateIInv ==
  ASSUME IInv, NEW s \in Sessions, Create(s)
  PROVE  IInv'
  <1>1. now + TTL \in 0..(MaxTime + TTL)
    BY NumbersAssumption DEF IInv, TypeOK
  <1>2. TypeOK'
    BY <1>1 DEF Create, IInv, TypeOK, Status
  <1>3. \A r \in Requests : req[r].pc # "idle" =>
           req[r].session \in Sessions /\ req[r].session # s
    BY DEF Create, IInv, RequestsNameSessions
  <1>4. /\ \A t \in Sessions : t # s =>
              status'[t] = status[t] /\ expiresAt'[t] = expiresAt[t]
        /\ status'[s] = "created"
    BY DEF Create, IInv, TypeOK
  <1>5. RequestsNameSessions'
    BY <1>3, <1>4 DEF Create, IInv, RequestsNameSessions
  <1>6. RowsHeld' /\ ExpiringIsLate'
    BY <1>3, <1>4 DEF Create, IInv, RowsHeld, ExpiringIsLate
  <1>7. AvatarWasUploaded' /\ ExpiredIsLate'
    BY <1>4 DEF Create, IInv, AvatarWasUploaded, ExpiredIsLate
  <1>8. QED
    BY <1>2, <1>5, <1>6, <1>7 DEF IInv

LEMMA ArriveIInv ==
  ASSUME IInv, NEW r \in Requests, NEW o \in Ops, NEW s \in Sessions, Arrive(r, o, s)
  PROVE  IInv'
  <1> DEFINE new == [pc |-> "waiting", op |-> o, session |-> s, at |-> now,
                     row |-> "absent"]
  <1>1. new \in Request
    BY DEF IInv, TypeOK, Request, Status
  <1>2. req' = [req EXCEPT ![r] = new]
    BY DEF Arrive
  <1>3. TypeOK'
    BY <1>1, <1>2 DEF Arrive, IInv, TypeOK
  <1>4. req'[r] = new /\ \A q \in Requests : q # r => req'[q] = req[q]
    BY <1>2 DEF IInv, TypeOK
  <1>5. RequestsNameSessions'
    BY <1>4 DEF Arrive, IInv, RequestsNameSessions, TypeOK
  <1>6. RowsHeld' /\ ExpiringIsLate'
    BY <1>4 DEF Arrive, IInv, RowsHeld, ExpiringIsLate
  <1>7. AvatarWasUploaded' /\ ExpiredIsLate'
    BY DEF Arrive, IInv, AvatarWasUploaded, ExpiredIsLate
  <1>8. QED
    BY <1>3, <1>5, <1>6, <1>7 DEF IInv

LEMMA LoadSessionIInv ==
  ASSUME IInv, NEW r \in Requests, LoadSession(r)
  PROVE  IInv'
  <1> DEFINE s == req[r].session
  <1>1. s \in Sessions
    BY DEF LoadSession, IInv, RequestsNameSessions
  <1>2. [req[r] EXCEPT !.pc = "locked", !.row = status[s]] \in Request
    BY <1>1, HasReadType DEF IInv, TypeOK
  <1>3. TypeOK'
    BY <1>1, <1>2 DEF LoadSession, IInv, TypeOK
  <1>4. /\ req'[r] = [req[r] EXCEPT !.pc = "locked", !.row = status[s]]
        /\ \A q \in Requests : q # r => req'[q] = req[q]
    BY DEF LoadSession, IInv, TypeOK
  <1>5. /\ req'[r].pc = "locked" /\ req'[r].row = status[s]
        /\ req'[r].session = s /\ req'[r].op = req[r].op /\ req'[r].at = req[r].at
    BY <1>4 DEF IInv, TypeOK, Request
  <1>6. RequestsNameSessions'
    BY <1>4, <1>5 DEF LoadSession, IInv, RequestsNameSessions
  <1>7. RowsHeld'
    <2>1. ASSUME NEW q \in Requests, q # r, req[q].pc = "locked"
          PROVE  lock'[req[q].session] = q
      BY <2>1, <1>1, IdsAssumption DEF LoadSession, IInv, RowsHeld, TypeOK,
         RequestsNameSessions
    <2>2. lock'[s] = r
      BY <1>1 DEF LoadSession, IInv, TypeOK
    <2>3. QED
      BY <1>4, <1>5, <2>1, <2>2 DEF LoadSession, IInv, RowsHeld
  <1>8. ExpiringIsLate'
    BY <1>4, <1>5 DEF LoadSession, IInv, ExpiringIsLate
  <1>9. AvatarWasUploaded' /\ ExpiredIsLate'
    BY DEF LoadSession, IInv, AvatarWasUploaded, ExpiredIsLate
  <1>10. QED
    BY <1>3, <1>6, <1>7, <1>8, <1>9 DEF IInv

LEMMA PresignNewIInv ==
  ASSUME IInv, NEW r \in Requests, PresignNew(r)
  PROVE  IInv'
  <1> DEFINE s == req[r].session
  <1>1. TypeOK /\ RequestInv
    BY DEF IInv, RequestInv
  <1>2. s \in Sessions /\ lock[s] = r /\ status[s] = "created"
    BY <1>1, Holding DEF PresignNew, Handles
  <1>3. /\ image' = [image EXCEPT ![s] = "pending_upload"]
        /\ status' = [status EXCEPT ![s] = "presigned"]
        /\ image[s] = "none" /\ End(r)
        /\ UNCHANGED <<now, expiresAt, object, avatar>>
    BY DEF PresignNew
  <1>4. TypeOK'
    BY <1>1, <1>3, EndType DEF TypeOK, Status
  <1>5. /\ status'[s] = "presigned" /\ image'[s] = "pending_upload"
        /\ \A t \in Sessions : t # s => status'[t] = status[t] /\ image'[t] = image[t]
    BY <1>1, <1>2, <1>3 DEF TypeOK
  <1>6. RequestInv'
    BY <1>1, <1>2, <1>3, <1>5, EndRequestInv
  <1>7. AvatarWasUploaded' /\ ExpiredIsLate'
    BY <1>1, <1>2, <1>3, <1>5 DEF IInv, AvatarWasUploaded, ExpiredIsLate, TypeOK
  <1>8. QED
    BY <1>4, <1>6, <1>7 DEF IInv, RequestInv

LEMMA CompleteIInv ==
  ASSUME IInv, NEW r \in Requests, Complete(r)
  PROVE  IInv'
  <1> DEFINE s == req[r].session
  <1>1. TypeOK /\ RequestInv
    BY DEF IInv, RequestInv
  <1>2. s \in Sessions /\ lock[s] = r
    BY <1>1, Holding DEF Complete, Handles
  <1>3. /\ image' = [image EXCEPT ![s] = "uploaded"]
        /\ status' = [status EXCEPT ![s] = "completed"]
        /\ avatar' = s /\ object[s] = "good" /\ End(r)
        /\ UNCHANGED <<now, expiresAt, object>>
    BY DEF Complete, UploadedAvatarAsset
  <1>4. TypeOK'
    BY <1>1, <1>2, <1>3, EndType DEF TypeOK, Status
  <1>5. /\ status'[s] = "completed" /\ image'[s] = "uploaded"
        /\ \A t \in Sessions : t # s => status'[t] = status[t] /\ image'[t] = image[t]
    BY <1>1, <1>2, <1>3 DEF TypeOK
  <1>6. RequestInv'
    BY <1>1, <1>2, <1>3, <1>5, EndRequestInv
  <1>7. AvatarWasUploaded' /\ ExpiredIsLate'
    BY <1>1, <1>2, <1>3, <1>5 DEF IInv, AvatarWasUploaded, ExpiredIsLate
  <1>8. QED
    BY <1>4, <1>6, <1>7 DEF IInv, RequestInv

(* A request that ends without a write: presigned or completed again, or   *)
(* aborted.                                                                *)
LEMMA NoWriteIInv ==
  ASSUME IInv, NEW r \in Requests, PresignAgain(r) \/ CompleteAgain(r) \/ Abort(r)
  PROVE  IInv'
  <1>1. TypeOK /\ RequestInv
    BY DEF IInv, RequestInv
  <1>2. End(r) /\ UNCHANGED <<now, status, expiresAt, image, object, avatar>>
    BY DEF PresignAgain, CompleteAgain, Abort
  <1>3. TypeOK'
    BY <1>1, <1>2, EndType DEF TypeOK
  <1>4. RequestInv'
    BY <1>1, <1>2, EndRequestInv
  <1>5. AvatarWasUploaded' /\ ExpiredIsLate'
    BY <1>2 DEF IInv, AvatarWasUploaded, ExpiredIsLate
  <1>6. QED
    BY <1>3, <1>4, <1>5 DEF IInv, RequestInv

(* The rollback of an expired session: the row is free again, and the      *)
(* request knows that it was late.                                         *)
LEMMA ExpireIInv ==
  ASSUME IInv, NEW r \in Requests, Expire(r)
  PROVE  IInv'
  <1> DEFINE s == req[r].session
  <1>1. TypeOK /\ RequestInv
    BY DEF IInv, RequestInv
  <1>2. s \in Sessions /\ lock[s] = r /\ req[r].at \in Nat
    BY <1>1, Holding DEF Expire
  <1>3. expiresAt[s] <= req[r].at
    BY <1>1, <1>2, NumbersAssumption DEF Expire, InTime, TypeOK
  <1>4. [req[r] EXCEPT !.pc = "expiring"] \in Request
    BY <1>1, RolledBackType DEF TypeOK
  <1>5. TypeOK'
    BY <1>1, <1>4 DEF Expire, Unlock, TypeOK
  <1>6. /\ req'[r] = [req[r] EXCEPT !.pc = "expiring"]
        /\ \A q \in Requests : q # r => req'[q] = req[q]
    BY <1>1 DEF Expire, TypeOK
  <1>7. /\ req'[r].pc = "expiring" /\ req'[r].session = s
        /\ req'[r].op = req[r].op /\ req'[r].at = req[r].at
    BY <1>1, <1>6 DEF TypeOK, Request
  <1>8. RequestsNameSessions'
    BY <1>1, <1>6, <1>7 DEF Expire, RequestInv, RequestsNameSessions
  <1>9. RowsHeld'
    BY <1>1, <1>6, <1>7 DEF Expire, Unlock, RequestInv, RowsHeld, RequestsNameSessions
  <1>10. ExpiringIsLate'
    BY <1>1, <1>3, <1>6, <1>7 DEF Expire, RequestInv, ExpiringIsLate
  <1>11. AvatarWasUploaded' /\ ExpiredIsLate'
    BY DEF Expire, IInv, AvatarWasUploaded, ExpiredIsLate
  <1>12. QED
    BY <1>5, <1>8, <1>9, <1>10, <1>11 DEF IInv

(* The write of expired, whatever the status was.                          *)
LEMMA ExpireAvatarSessionIInv ==
  ASSUME IInv, NEW r \in Requests, ExpireAvatarSession(r)
  PROVE  IInv'
  <1> DEFINE s == req[r].session
  <1>1. TypeOK /\ RequestInv
    BY DEF IInv, RequestInv
  <1>2. s \in Sessions /\ req[r].at <= now /\ expiresAt[s] <= req[r].at
    BY <1>1 DEF ExpireAvatarSession, RequestInv, RequestsNameSessions, ExpiringIsLate
  <1>3. req[r].at \in Nat /\ now \in Nat /\ expiresAt[s] \in Nat
    BY <1>1, <1>2, NumbersAssumption DEF TypeOK, Request
  <1>4. now >= expiresAt[s]
    BY <1>2, <1>3
  <1>5. /\ status' = [status EXCEPT ![s] = "expired"] /\ lock[s] = None /\ End(r)
        /\ UNCHANGED <<now, expiresAt, image, object, avatar>>
    BY DEF ExpireAvatarSession
  <1>6. TypeOK'
    BY <1>1, <1>2, <1>5, EndType DEF TypeOK, Status
  <1>7. /\ status'[s] = "expired"
        /\ \A t \in Sessions : t # s => status'[t] = status[t]
    BY <1>1, <1>2, <1>5 DEF TypeOK
  <1>8. RequestInv'
    BY <1>1, <1>2, <1>5, <1>7, EndRequestInv
  <1>9. AvatarWasUploaded' /\ ExpiredIsLate'
    BY <1>4, <1>5, <1>7 DEF IInv, AvatarWasUploaded, ExpiredIsLate
  <1>10. QED
    BY <1>6, <1>8, <1>9 DEF IInv, RequestInv

(* The client, the clock and stuttering.                                   *)
LEMMA OtherIInv ==
  ASSUME IInv,
         \/ \E s \in Sessions, v \in {"bad", "good"} : PutObject(s, v)
         \/ Tick
         \/ UNCHANGED vars
  PROVE  IInv'
  <1>1. ASSUME NEW s \in Sessions, NEW v \in {"bad", "good"}, PutObject(s, v)
        PROVE  IInv'
    <2>1. TypeOK'
      BY <1>1 DEF PutObject, IInv, TypeOK
    <2>2. RequestsNameSessions' /\ RowsHeld' /\ ExpiringIsLate'
      BY <1>1 DEF PutObject, IInv, RequestsNameSessions, RowsHeld, ExpiringIsLate
    <2>3. AvatarWasUploaded' /\ ExpiredIsLate'
      BY <1>1 DEF PutObject, IInv, AvatarWasUploaded, ExpiredIsLate, TypeOK
    <2>4. QED
      BY <2>1, <2>2, <2>3 DEF IInv
  <1>2. CASE Tick
    <2>1. TypeOK'
      BY <1>2, NumbersAssumption DEF Tick, IInv, TypeOK
    <2>2. RequestsNameSessions' /\ RowsHeld' /\ ExpiringIsLate'
      <3>1. now \in Nat /\ \A r \in Requests : req[r].at \in Nat
        BY NumbersAssumption DEF IInv, TypeOK, Request
      <3>2. QED
        BY <1>2, <3>1 DEF Tick, IInv, RequestsNameSessions, RowsHeld, ExpiringIsLate
    <2>3. AvatarWasUploaded' /\ ExpiredIsLate'
      <3>1. now \in Nat /\ \A s \in Sessions : expiresAt[s] \in Nat
        BY NumbersAssumption DEF IInv, TypeOK
      <3>2. QED
        BY <1>2, <3>1 DEF Tick, IInv, AvatarWasUploaded, ExpiredIsLate
    <2>4. QED
      BY <2>1, <2>2, <2>3 DEF IInv
  <1>3. CASE UNCHANGED vars
    BY <1>3 DEF vars, IInv, TypeOK, RequestsNameSessions, RowsHeld, ExpiringIsLate,
       AvatarWasUploaded, ExpiredIsLate
  <1>4. QED
    BY <1>1, <1>2, <1>3

-----------------------------------------------------------------------------
(* The theorems.                                                           *)

LEMMA InitIInv == Init => IInv
  <1> SUFFICES ASSUME Init PROVE IInv
    OBVIOUS
  <1>1. TypeOK
    BY NumbersAssumption, NoRequestType DEF Init, TypeOK, Status
  <1>2. RequestsNameSessions /\ RowsHeld /\ ExpiringIsLate
    BY DEF Init, NoRequest, RequestsNameSessions, RowsHeld, ExpiringIsLate
  <1>3. AvatarWasUploaded /\ ExpiredIsLate
    BY DEF Init, AvatarWasUploaded, ExpiredIsLate
  <1>4. QED
    BY <1>1, <1>2, <1>3 DEF IInv

LEMMA NextIInv == IInv /\ [Next]_vars => IInv'
  <1> SUFFICES ASSUME IInv, [Next]_vars PROVE IInv'
    OBVIOUS
  <1>1. ASSUME NEW s \in Sessions, Create(s) PROVE IInv'
    BY <1>1, CreateIInv
  <1>2. ASSUME NEW r \in Requests, NEW o \in Ops, NEW s \in Sessions, Arrive(r, o, s)
        PROVE  IInv'
    BY <1>2, ArriveIInv
  <1>3. ASSUME NEW r \in Requests, Step(r) \/ Abort(r) PROVE IInv'
    BY <1>3, LoadSessionIInv, PresignNewIInv, CompleteIInv, NoWriteIInv, ExpireIInv,
       ExpireAvatarSessionIInv DEF Step
  <1>4. CASE \/ \E s \in Sessions, v \in {"bad", "good"} : PutObject(s, v)
             \/ Tick
             \/ UNCHANGED vars
    BY <1>4, OtherIInv
  <1>5. QED
    BY <1>1, <1>2, <1>3, <1>4 DEF Next

(* The invariant of the proofs holds in every reachable state.             *)
THEOREM Inductive == Spec => []IInv
  BY InitIInv, NextIInv, PTL DEF Spec

(* The variables have their types in every reachable state.                *)
THEOREM TypeCorrect == Spec => []TypeOK
  <1>1. IInv => TypeOK
    BY DEF IInv
  <1>2. QED
    BY <1>1, Inductive, PTL

(* The avatar is an image that was seen in the object store.               *)
THEOREM AvatarUploaded == Spec => []AvatarWasUploaded
  <1>1. IInv => AvatarWasUploaded
    BY DEF IInv
  <1>2. QED
    BY <1>1, Inductive, PTL

(* No session is marked expired before its deadline.                       *)
THEOREM ExpiredLate == Spec => []ExpiredIsLate
  <1>1. IInv => ExpiredIsLate
    BY DEF IInv
  <1>2. QED
    BY <1>1, Inductive, PTL

(* A session sets the avatar only in the step that completes it.           *)
THEOREM SetOnce == Spec => AvatarSetOnce
  <1>1. ASSUME IInv, Next, avatar' # avatar
        PROVE  /\ avatar' # None
               /\ status[avatar'] = "presigned"
               /\ status'[avatar'] = "completed"
    <2>1. PICK r \in Requests : Complete(r)
      BY <1>1 DEF Next, Create, Arrive, Step, LoadSession, PresignNew, PresignAgain,
         CompleteAgain, Expire, ExpireAvatarSession, Abort, PutObject, Tick
    <2>2. /\ req[r].session \in Sessions
          /\ req[r].row = status[req[r].session]
      BY <1>1, <2>1, Holding DEF IInv, RequestInv, Complete, Handles
    <2>3. /\ avatar' = req[r].session /\ req[r].row = "presigned"
          /\ status' = [status EXCEPT ![req[r].session] = "completed"]
      BY <2>1 DEF Complete, Completable
    <2>4. QED
      BY <1>1, <2>2, <2>3, IdsAssumption DEF IInv, TypeOK
  <1>2. IInv /\ [Next]_vars => [avatar' # avatar =>
           /\ avatar' # None
           /\ status[avatar'] = "presigned"
           /\ status'[avatar'] = "completed"]_vars
    BY <1>1 DEF vars
  <1>3. QED
    BY <1>2, Inductive, PTL DEF Spec, AvatarSetOnce

(* Only requests that began in time have an effect.                        *)
THEOREM LateSetNothing == Spec => LateRequestsSetNothing
  <1>1. ASSUME IInv, Next, NEW s \in Sessions,
               status'[s] # status[s], status'[s] \in {"presigned", "completed"}
        PROVE  \E r \in Requests : /\ req[r].session = s
                                   /\ req[r].pc = "locked"
                                   /\ req'[r].pc = "idle"
                                   /\ req[r].at < expiresAt[s]
    <2>1. PICK r \in Requests : PresignNew(r) \/ Complete(r)
      <3>1. \A t \in Sessions : ~Create(t)
        BY <1>1 DEF Create, IInv, TypeOK
      <3>2. \A r \in Requests : ~ExpireAvatarSession(r)
        BY <1>1 DEF ExpireAvatarSession, IInv, TypeOK
      <3>3. QED
        BY <1>1, <3>1, <3>2 DEF Next, Arrive, Step, LoadSession, PresignAgain,
           CompleteAgain, Expire, Abort, PutObject, Tick
    <2>2. req[r].session = s
      BY <1>1, <2>1 DEF PresignNew, Complete, IInv, TypeOK
    <2>3. req[r].pc = "locked" /\ InTime(r) /\ End(r)
      BY <2>1 DEF PresignNew, Complete, Handles, Completable
    <2>4. req'[r].pc = "idle"
      BY <1>1, <2>3, EndType DEF IInv
    <2>5. QED
      BY <2>2, <2>3, <2>4 DEF InTime
  <1>2. IInv /\ [Next]_vars => [\A s \in Sessions :
           status'[s] # status[s] /\ status'[s] \in {"presigned", "completed"} =>
              \E r \in Requests : /\ req[r].session = s
                                  /\ req[r].pc = "locked"
                                  /\ req'[r].pc = "idle"
                                  /\ req[r].at < expiresAt[s]]_vars
    BY <1>1 DEF vars
  <1>3. QED
    BY <1>2, Inductive, PTL DEF Spec, LateRequestsSetNothing

-----------------------------------------------------------------------------
(* The life of an asset.  A copy that a call decided on may be as old as   *)
(* you like; what makes the write safe is its WHERE clause, and that a     *)
(* size no longer changes once the asset has been uploaded.                *)

(* How many calls were told that they start the processing.                *)
WorkersCounted ==
    \A a \in Assets :
        /\ asset[a].status \in {"absent", "pending_upload", "uploaded"} => workers[a] = 0
        /\ asset[a].status \in {"processing", "ready", "failed"} => workers[a] = 1
        /\ workers[a] \in {0, 1}

(* A step later than the upload writes back the size that the asset has.   *)
CopiesKnowTheSize ==
    \A c \in Calls :
        (call[c].step = "asset" /\ call[c].next # "uploaded") =>
            /\ asset[call[c].of].status \notin {"absent", "pending_upload"}
            /\ call[c].size = asset[call[c].of].size

LifeInv == Life!TypeOK /\ WorkersCounted /\ CopiesKnowTheSize

-----------------------------------------------------------------------------
(* What a call has in hand, by the step it is about to take.               *)
LEMMA Copies ==
  ASSUME Life!TypeOK, NEW c \in Calls
  PROVE  /\ call[c].step \in {"idle", "asset", "variant", "delete"}
         /\ call[c].step = "asset" =>
              /\ call[c].of \in Assets
              /\ call[c].next \in {"uploaded", "processing", "ready", "failed"}
              /\ call[c].size \in Sizes \cup {0}
         /\ call[c].step = "variant" =>
              /\ call[c].of \in Assets \X Names
              /\ call[c].next \in {"processing", "ready", "failed"}
              /\ call[c].size \in Sizes \cup {0}
         /\ call[c].step = "delete" => call[c].of \in Assets
  <1>1. call[c] \in {Life!Idle} \cup Life!Pending
    BY DEF Life!TypeOK
  <1>2. CASE call[c] = Life!Idle
    BY <1>2 DEF Life!Idle
  <1>3. CASE call[c] \in Life!Pending
    BY <1>3 DEF Life!Pending, Life!AssetStep, Life!VariantStep, Life!NoSize
  <1>4. QED
    BY <1>1, <1>2, <1>3

(* The rows of assets and of variants.                                     *)
LEMMA Rows ==
  ASSUME Life!TypeOK
  PROVE  /\ \A a \in Assets :
              /\ asset[a] = [status |-> asset[a].status, size |-> asset[a].size]
              /\ asset[a].status \in Life!AssetStatus \cup {"absent"}
              /\ asset[a].size \in Sizes \cup {0}
         /\ \A v \in Assets \X Names :
              /\ variant[v] = [status |-> variant[v].status, size |-> variant[v].size]
              /\ variant[v].status \in Life!VariantStatus \cup {"absent"}
              /\ variant[v].size \in Sizes \cup {0}
  <1>1. ASSUME NEW a \in Assets
        PROVE  /\ asset[a] = [status |-> asset[a].status, size |-> asset[a].size]
               /\ asset[a].status \in Life!AssetStatus \cup {"absent"}
               /\ asset[a].size \in Sizes \cup {0}
    BY DEF Life!TypeOK, Life!Absent, Life!NoSize
  <1>2. ASSUME NEW v \in Assets \X Names
        PROVE  /\ variant[v] = [status |-> variant[v].status, size |-> variant[v].size]
               /\ variant[v].status \in Life!VariantStatus \cup {"absent"}
               /\ variant[v].size \in Sizes \cup {0}
    BY DEF Life!TypeOK, Life!Absent, Life!NoSize
  <1>3. QED
    BY <1>1, <1>2

(* The first states.                                                       *)
LEMMA LifeInit == Life!Init => LifeInv
  <1> SUFFICES ASSUME Life!Init PROVE LifeInv
    OBVIOUS
  <1>1. Life!TypeOK
    BY DEF Life!Init, Life!TypeOK
  <1>2. WorkersCounted
    BY DEF Life!Init, Life!Absent, WorkersCounted
  <1>3. CopiesKnowTheSize
    BY DEF Life!Init, Life!Idle, CopiesKnowTheSize
  <1>4. QED
    BY <1>1, <1>2, <1>3 DEF LifeInv

-----------------------------------------------------------------------------
(* What a step does to the status and the size of an asset, and to the     *)
(* status of a variant.                                                    *)
AssetFollows ==
    \A a \in Assets :
       LET old == asset[a].status  new == asset'[a].status IN
       \/ new = old
       \/ old = "absent" /\ new = "pending_upload"
       \/ new = "deleted" /\ old # "absent"
       \/ new \in DOMAIN Life!AssetStep /\ old = Life!AssetStep[new]
SizeFollows ==
    \A a \in Assets :
        asset'[a].size # asset[a].size => asset[a].status = "pending_upload"
VariantFollows ==
    \A v \in Assets \X Names :
       LET old == variant[v].status  new == variant'[v].status IN
       new \notin {old, "pending"} => old = Life!VariantStep[new]

(* A step that leaves the assets alone.                                    *)
LEMMA AssetsKept ==
  ASSUME asset' = asset
  PROVE  AssetFollows /\ SizeFollows
  BY DEF AssetFollows, SizeFollows

(* A step that leaves the variants alone.                                  *)
LEMMA VariantsKept ==
  ASSUME variant' = variant
  PROVE  VariantFollows
  BY DEF VariantFollows

(* Rows that are new.                                                      *)
LEMMA NewRows ==
  ASSUME LifeInv,
         \/ \E a \in Assets : Life!CreatePendingAsset(a)
         \/ \E v \in Assets \X Names : Life!UpsertVariant(v)
  PROVE  LifeInv' /\ AssetFollows /\ SizeFollows /\ VariantFollows
  <1>1. ASSUME NEW a \in Assets, Life!CreatePendingAsset(a)
        PROVE  LifeInv' /\ AssetFollows /\ SizeFollows /\ VariantFollows
    <2>1. /\ asset[a].status = "absent"
          /\ asset' = [asset EXCEPT ![a] = [status |-> "pending_upload", size |-> asset[a].size]]
          /\ UNCHANGED <<variant, call, workers>>
      <3>1. asset[a] = [status |-> "absent", size |-> Life!NoSize]
        BY <1>1 DEF Life!CreatePendingAsset, Life!Absent
      <3>2. [asset[a] EXCEPT !.status = "pending_upload"] =
            [status |-> "pending_upload", size |-> asset[a].size]
        BY <3>1
      <3>3. asset' = [asset EXCEPT ![a] = [asset[a] EXCEPT !.status = "pending_upload"]]
        BY <1>1 DEF Life!CreatePendingAsset
      <3>4. UNCHANGED <<variant, call, workers>> /\ asset[a].status = "absent"
        BY <1>1, <3>1 DEF Life!CreatePendingAsset
      <3>5. QED
        BY <3>2, <3>3, <3>4
    <2>2. \A b \in Assets :
            /\ b # a => asset'[b] = asset[b]
            /\ asset'[b].size = asset[b].size
            /\ asset'[a].status = "pending_upload"
      BY <2>1 DEF LifeInv, Life!TypeOK
    <2>3. Life!TypeOK'
      <3>1. asset[a].size \in Sizes \cup {Life!NoSize}
        BY Rows DEF LifeInv, Life!NoSize
      <3>2. QED
        BY <2>1, <3>1 DEF LifeInv, Life!TypeOK, Life!AssetStatus
    <2>4. WorkersCounted'
      BY <2>1, <2>2 DEF LifeInv, WorkersCounted
    <2>5. CopiesKnowTheSize'
      <3>1. ASSUME NEW c \in Calls, call[c].step = "asset"
            PROVE  call[c].of \in Assets
        BY <3>1, Copies DEF LifeInv
      <3>2. QED
        BY <2>1, <2>2, <3>1 DEF LifeInv, CopiesKnowTheSize
    <2>6. AssetFollows /\ SizeFollows
      BY <2>1, <2>2 DEF AssetFollows, SizeFollows
    <2>7. QED
      BY <2>1, <2>3, <2>4, <2>5, <2>6, VariantsKept DEF LifeInv
  <1>2. ASSUME NEW v \in Assets \X Names, Life!UpsertVariant(v)
        PROVE  LifeInv' /\ AssetFollows /\ SizeFollows /\ VariantFollows
    <2>1. /\ variant' = [variant EXCEPT ![v].status = "pending"]
          /\ UNCHANGED <<asset, call, workers>>
      BY <1>2 DEF Life!UpsertVariant
    <2>2. variant[v] = [status |-> variant[v].status, size |-> variant[v].size]
      BY Rows DEF LifeInv
    <2>3. [variant[v] EXCEPT !.status = "pending"] =
          [status |-> "pending", size |-> variant[v].size]
      BY <2>2
    <2>4. variant[v].size \in Sizes \cup {Life!NoSize}
      BY Rows DEF LifeInv, Life!NoSize
    <2>5. variant' \in [Assets \X Names -> {Life!Absent} \cup
                         [status : Life!VariantStatus, size : Sizes \cup {Life!NoSize}]]
      BY <2>1, <2>3, <2>4 DEF LifeInv, Life!TypeOK, Life!VariantStatus
    <2>6. LifeInv'
      BY <2>1, <2>5 DEF LifeInv, Life!TypeOK, WorkersCounted, CopiesKnowTheSize
    <2>7. VariantFollows
      <3>1. \A w \in Assets \X Names :
              variant'[w] = variant[w] \/ variant'[w].status = "pending"
        BY <2>1, <2>3 DEF LifeInv, Life!TypeOK
      <3>2. QED
        BY <3>1 DEF VariantFollows
    <2>8. QED
      BY <2>1, <2>6, <2>7, AssetsKept
  <1>3. QED
    BY <1>1, <1>2

(* A read, which may be of a row that others are about to move.            *)
LEMMA ReadsKept ==
  ASSUME LifeInv, NEW c \in Calls,
         \/ \E a \in Assets, next \in DOMAIN Life!AssetStep, s \in Sizes \cup {Life!NoSize} :
              Life!ReadAsset(c, a, next, s)
         \/ \E v \in Assets \X Names, next \in DOMAIN Life!VariantStep,
               s \in Sizes \cup {Life!NoSize} : Life!ReadVariant(c, v, next, s)
         \/ \E a \in Assets : Life!ReadToDelete(c, a)
  PROVE  LifeInv' /\ AssetFollows /\ SizeFollows /\ VariantFollows
  <1>1. UNCHANGED <<asset, variant, workers>>
    BY DEF Life!ReadAsset, Life!ReadVariant, Life!ReadToDelete
  <1>2. PICK p \in Life!Pending :
          /\ call' = [call EXCEPT ![c] = p]
          /\ (p.step = "asset" /\ p.next # "uploaded") =>
                /\ asset[p.of].status \notin {"absent", "pending_upload"}
                /\ p.size = asset[p.of].size
    <2>1. ASSUME NEW a \in Assets, NEW next \in DOMAIN Life!AssetStep,
                 NEW s \in Sizes \cup {Life!NoSize}, Life!ReadAsset(c, a, next, s)
          PROVE  \E p \in Life!Pending :
                   /\ call' = [call EXCEPT ![c] = p]
                   /\ (p.step = "asset" /\ p.next # "uploaded") =>
                         /\ asset[p.of].status \notin {"absent", "pending_upload"}
                         /\ p.size = asset[p.of].size
      <3> DEFINE z == IF next = "uploaded" THEN s ELSE asset[a].size
                 q == [step |-> "asset", of |-> a, next |-> next, size |-> z]
      <3>1. z \in Sizes \cup {Life!NoSize}
        BY Rows DEF LifeInv, Life!NoSize
      <3>2. q \in Life!Pending
        BY <3>1 DEF Life!Pending
      <3>3. call' = [call EXCEPT ![c] = q]
        BY <2>1 DEF Life!ReadAsset
      <3>4. next # "uploaded" => asset[a].status \in {"uploaded", "processing"}
        BY <2>1 DEF Life!ReadAsset, Life!AssetStep
      <3>5. QED
        BY <3>2, <3>3, <3>4
    <2>2. ASSUME NEW v \in Assets \X Names, NEW next \in DOMAIN Life!VariantStep,
                 NEW s \in Sizes \cup {Life!NoSize}, Life!ReadVariant(c, v, next, s)
          PROVE  \E p \in Life!Pending :
                   call' = [call EXCEPT ![c] = p] /\ p.step = "variant"
      <3> DEFINE z == IF next = "ready" THEN s ELSE variant[v].size
                 q == [step |-> "variant", of |-> v, next |-> next, size |-> z]
      <3>1. z \in Sizes \cup {Life!NoSize}
        BY Rows DEF LifeInv, Life!NoSize
      <3>2. q \in Life!Pending
        BY <3>1 DEF Life!Pending
      <3>3. call' = [call EXCEPT ![c] = q]
        BY <2>2 DEF Life!ReadVariant
      <3>4. QED
        BY <3>2, <3>3
    <2>3. ASSUME NEW a \in Assets, Life!ReadToDelete(c, a)
          PROVE  \E p \in Life!Pending :
                   call' = [call EXCEPT ![c] = p] /\ p.step = "delete"
      <3>1. [step |-> "delete", of |-> a] \in Life!Pending
        BY DEF Life!Pending
      <3>2. QED
        BY <2>3, <3>1 DEF Life!ReadToDelete
    <2>4. QED
      BY <2>1, <2>2, <2>3
  <1>3. Life!TypeOK'
    BY <1>1, <1>2 DEF LifeInv, Life!TypeOK
  <1>4. CopiesKnowTheSize'
    BY <1>1, <1>2 DEF LifeInv, Life!TypeOK, CopiesKnowTheSize
  <1>5. QED
    BY <1>1, <1>3, <1>4, AssetsKept, VariantsKept DEF LifeInv, WorkersCounted

(* The write of a step of an asset finds the row in the status that the    *)
(* step starts from, or changes nothing.                                   *)
LEMMA AssetWritten ==
  ASSUME LifeInv, NEW c \in Calls, Life!TransitionAssetStatus(c)
  PROVE  LifeInv' /\ AssetFollows /\ SizeFollows /\ VariantFollows
  <1> DEFINE p == call[c]
             won == Life!AssetMoves(asset[p.of], p)
             row == Life!Moved(asset[p.of], p)
  <1>1. /\ p.step = "asset" /\ variant' = variant
        /\ call' = [call EXCEPT ![c] = Life!Idle]
        /\ asset' = IF won THEN [asset EXCEPT ![p.of] = row] ELSE asset
        /\ workers' = IF won /\ p.next = "processing"
                      THEN [workers EXCEPT ![p.of] = @ + 1] ELSE workers
    BY DEF Life!TransitionAssetStatus
  <1>2. /\ p.of \in Assets /\ p.size \in Sizes \cup {0}
        /\ p.next \in {"uploaded", "processing", "ready", "failed"}
    BY <1>1, Copies DEF LifeInv
  <1>3. /\ call' \in [Calls -> {Life!Idle} \cup Life!Pending]
        /\ \A d \in Calls : d # c => call'[d] = call[d]
        /\ call'[c].step = "idle"
    BY <1>1 DEF LifeInv, Life!TypeOK, Life!Idle
  <1>4. VariantFollows
    BY <1>1, VariantsKept
  <1>5. \A d \in Calls : call[d].step = "asset" => call[d].of \in Assets
    BY Copies DEF LifeInv
  <1>6. CASE ~won
    <2>1. asset' = asset /\ workers' = workers
      BY <1>1, <1>6
    <2>2. CopiesKnowTheSize'
      BY <1>3, <2>1 DEF LifeInv, CopiesKnowTheSize
    <2>3. QED
      BY <1>1, <1>3, <1>4, <2>1, <2>2, AssetsKept
         DEF LifeInv, Life!TypeOK, WorkersCounted
  <1>7. CASE won
    <2>1. /\ asset[p.of].status = Life!AssetStep[p.next]
          /\ row.status = p.next
          /\ row = [status |-> p.next, size |-> row.size]
          /\ row.size = IF p.size = 0 THEN asset[p.of].size ELSE p.size
      BY <1>7 DEF Life!AssetMoves, Life!Moved, Life!Coalesce, Life!NoSize
    <2>2. row.size \in Sizes \cup {Life!NoSize}
      BY <1>2, <2>1, Rows DEF LifeInv, Life!NoSize
    <2>3. asset' = [asset EXCEPT ![p.of] = row]
      BY <1>1, <1>7
    <2>4. /\ asset'[p.of] = row
          /\ \A a \in Assets : a # p.of => asset'[a] = asset[a]
      BY <1>2, <2>3 DEF LifeInv, Life!TypeOK
    <2>5. row \in [status : Life!AssetStatus, size : Sizes \cup {Life!NoSize}]
      BY <1>2, <2>1, <2>2 DEF Life!AssetStatus
    <2>6. asset' \in [Assets -> {Life!Absent} \cup
                       [status : Life!AssetStatus, size : Sizes \cup {Life!NoSize}]]
      BY <1>2, <2>3, <2>5 DEF LifeInv, Life!TypeOK
    <2>7. row.size = asset[p.of].size \/ asset[p.of].status = "pending_upload"
      <3>1. CASE p.next = "uploaded"
        BY <2>1, <3>1 DEF Life!AssetStep
      <3>2. CASE p.next # "uploaded"
        BY <1>1, <2>1, <3>2 DEF LifeInv, CopiesKnowTheSize
      <3>3. QED
        BY <3>1, <3>2
    <2>8. AssetFollows
      <3>1. row.status \in DOMAIN Life!AssetStep
        BY <1>2, <2>1 DEF Life!AssetStep
      <3>2. asset[p.of].status = Life!AssetStep[row.status]
        BY <2>1
      <3>3. QED
        BY <2>4, <3>1, <3>2 DEF AssetFollows
    <2>9. SizeFollows
      BY <2>4, <2>7 DEF SizeFollows
    <2>10. WorkersCounted' /\ workers' \in [Assets -> Nat]
      <3>1. CASE p.next = "processing"
        <4>1. asset[p.of].status = "uploaded"
          BY <2>1, <3>1 DEF Life!AssetStep
        <4>2. workers[p.of] = 0
          BY <1>2, <4>1 DEF LifeInv, WorkersCounted
        <4>3. workers' = [workers EXCEPT ![p.of] = 1]
          BY <1>1, <1>7, <3>1, <4>2
        <4>4. workers' \in [Assets -> Nat]
          BY <4>3 DEF LifeInv, Life!TypeOK
        <4>5. WorkersCounted'
          BY <1>2, <2>1, <2>4, <3>1, <4>3 DEF LifeInv, Life!TypeOK, WorkersCounted
        <4>6. QED
          BY <4>4, <4>5
      <3>2. CASE p.next # "processing"
        <4>1. workers' = workers
          BY <1>1, <3>2
        <4>2. \/ p.next = "uploaded" /\ asset[p.of].status = "pending_upload"
              \/ p.next \in {"ready", "failed"} /\ asset[p.of].status = "processing"
          BY <1>2, <2>1, <3>2 DEF Life!AssetStep
        <4>3. QED
          BY <1>2, <2>1, <2>4, <4>1, <4>2 DEF LifeInv, Life!TypeOK, WorkersCounted
      <3>3. QED
        BY <3>1, <3>2
    <2>11. CopiesKnowTheSize'
      <3>1. ASSUME NEW d \in Calls, call'[d].step = "asset", call'[d].next # "uploaded"
            PROVE  /\ asset'[call'[d].of].status \notin {"absent", "pending_upload"}
                   /\ call'[d].size = asset'[call'[d].of].size
        <4>1. d # c /\ call'[d] = call[d]
          BY <1>3, <3>1
        <4>2. /\ asset[call[d].of].status \notin {"absent", "pending_upload"}
              /\ call[d].size = asset[call[d].of].size
          BY <3>1, <4>1 DEF LifeInv, CopiesKnowTheSize
        <4>3. CASE call[d].of = p.of
          BY <1>2, <2>1, <2>4, <2>7, <4>1, <4>2, <4>3
        <4>4. CASE call[d].of # p.of
          BY <1>5, <2>4, <3>1, <4>1, <4>2, <4>4
        <4>5. QED
          BY <4>3, <4>4
      <3>2. QED
        BY <3>1 DEF CopiesKnowTheSize
    <2>12. QED
      BY <1>1, <1>3, <1>4, <2>6, <2>8, <2>9, <2>10, <2>11 DEF LifeInv, Life!TypeOK
  <1>8. QED
    BY <1>6, <1>7

(* So does that of a step of a variant.                                    *)
LEMMA VariantWritten ==
  ASSUME LifeInv, NEW c \in Calls, Life!TransitionVariantStatus(c)
  PROVE  LifeInv' /\ AssetFollows /\ SizeFollows /\ VariantFollows
  <1> DEFINE p == call[c]
             row == Life!Moved(variant[p.of], p)
  <1>1. /\ p.step = "variant" /\ asset' = asset /\ workers' = workers
        /\ call' = [call EXCEPT ![c] = Life!Idle]
        /\ variant' = IF Life!VariantMoves(variant[p.of], p)
                      THEN [variant EXCEPT ![p.of] = row] ELSE variant
    BY DEF Life!TransitionVariantStatus
  <1>2. /\ p.of \in Assets \X Names /\ p.size \in Sizes \cup {0}
        /\ p.next \in {"processing", "ready", "failed"}
    BY <1>1, Copies DEF LifeInv
  <1>3. /\ call' \in [Calls -> {Life!Idle} \cup Life!Pending]
        /\ \A d \in Calls : d # c => call'[d] = call[d]
        /\ call'[c].step = "idle"
    BY <1>1 DEF LifeInv, Life!TypeOK, Life!Idle
  <1>4. /\ row.status = p.next
        /\ row \in [status : Life!VariantStatus, size : Sizes \cup {Life!NoSize}]
    <2>1. /\ row = [status |-> p.next, size |-> row.size] /\ row.status = p.next
          /\ row.size = IF p.size = 0 THEN variant[p.of].size ELSE p.size
      BY DEF Life!Moved, Life!Coalesce, Life!NoSize
    <2>2. row.size \in Sizes \cup {Life!NoSize}
      BY <1>2, <2>1, Rows DEF LifeInv, Life!NoSize
    <2>3. QED
      BY <1>2, <2>1, <2>2 DEF Life!VariantStatus
  <1>5. variant' \in [Assets \X Names -> {Life!Absent} \cup
                       [status : Life!VariantStatus, size : Sizes \cup {Life!NoSize}]]
    BY <1>1, <1>2, <1>4 DEF LifeInv, Life!TypeOK
  <1>6. VariantFollows
    <2>1. CASE Life!VariantMoves(variant[p.of], p)
      <3>1. variant[p.of].status = Life!VariantStep[p.next]
        BY <2>1 DEF Life!VariantMoves
      <3>2. /\ variant'[p.of].status = p.next
            /\ \A v \in Assets \X Names : v # p.of => variant'[v] = variant[v]
        BY <1>1, <1>2, <1>4, <2>1 DEF LifeInv, Life!TypeOK
      <3>3. QED
        BY <3>1, <3>2 DEF VariantFollows
    <2>2. CASE ~Life!VariantMoves(variant[p.of], p)
      BY <1>1, <2>2, VariantsKept
    <2>3. QED
      BY <2>1, <2>2
  <1>7. CopiesKnowTheSize'
    BY <1>1, <1>3 DEF LifeInv, CopiesKnowTheSize
  <1>8. QED
    BY <1>1, <1>3, <1>5, <1>6, <1>7, AssetsKept DEF LifeInv, Life!TypeOK, WorkersCounted

(* A deletion keeps the size and the count.                                *)
LEMMA AssetDeleted ==
  ASSUME LifeInv, NEW c \in Calls, Life!SoftDeleteAsset(c)
  PROVE  LifeInv' /\ AssetFollows /\ SizeFollows /\ VariantFollows
  <1> DEFINE a == call[c].of
             row == [status |-> "deleted", size |-> asset[a].size]
  <1>1. /\ call[c].step = "delete" /\ variant' = variant /\ workers' = workers
        /\ call' = [call EXCEPT ![c] = Life!Idle]
    BY DEF Life!SoftDeleteAsset
  <1>2. a \in Assets
    BY <1>1, Copies DEF LifeInv
  <1>3. /\ asset[a] = [status |-> asset[a].status, size |-> asset[a].size]
        /\ asset[a].size \in Sizes \cup {Life!NoSize}
    BY <1>2, Rows DEF LifeInv, Life!NoSize
  <1>4. Life!Deleted(asset[a]) = row
    BY <1>3 DEF Life!Deleted
  <1>5. asset' = IF Life!Visible(asset[a]) THEN [asset EXCEPT ![a] = row] ELSE asset
    BY <1>4 DEF Life!SoftDeleteAsset
  <1>6. /\ call' \in [Calls -> {Life!Idle} \cup Life!Pending]
        /\ \A d \in Calls : d # c => call'[d] = call[d]
        /\ call'[c].step = "idle"
    BY <1>1 DEF LifeInv, Life!TypeOK, Life!Idle
  <1>7. \A b \in Assets :
          \/ asset'[b] = asset[b]
          \/ /\ asset'[b].status = "deleted" /\ asset[b].status # "absent"
             /\ asset'[b].size = asset[b].size
    BY <1>2, <1>5 DEF LifeInv, Life!TypeOK, Life!Visible
  <1>8. asset' \in [Assets -> {Life!Absent} \cup
                     [status : Life!AssetStatus, size : Sizes \cup {Life!NoSize}]]
    <2>1. row \in [status : Life!AssetStatus, size : Sizes \cup {Life!NoSize}]
      BY <1>3 DEF Life!AssetStatus
    <2>2. QED
      BY <1>2, <1>5, <2>1 DEF LifeInv, Life!TypeOK
  <1>9. AssetFollows /\ SizeFollows
    BY <1>7 DEF AssetFollows, SizeFollows
  <1>10. WorkersCounted'
    BY <1>1, <1>7 DEF LifeInv, WorkersCounted
  <1>11. CopiesKnowTheSize'
    <2>1. ASSUME NEW d \in Calls, call'[d].step = "asset", call'[d].next # "uploaded"
          PROVE  /\ asset'[call'[d].of].status \notin {"absent", "pending_upload"}
                 /\ call'[d].size = asset'[call'[d].of].size
      <3>1. d # c /\ call'[d] = call[d]
        BY <1>6, <2>1
      <3>2. /\ asset[call[d].of].status \notin {"absent", "pending_upload"}
            /\ call[d].size = asset[call[d].of].size
        BY <2>1, <3>1 DEF LifeInv, CopiesKnowTheSize
      <3>3. call[d].of \in Assets
        BY <2>1, <3>1, Copies DEF LifeInv
      <3>4. QED
        BY <1>7, <3>1, <3>2, <3>3
    <2>2. QED
      BY <2>1 DEF CopiesKnowTheSize
  <1>12. QED
    BY <1>1, <1>6, <1>8, <1>9, <1>10, <1>11, VariantsKept DEF LifeInv, Life!TypeOK

-----------------------------------------------------------------------------
(* Every step of the composition.                                          *)
LEMMA LifeStep ==
  ASSUME LifeInv, [ImagesNext]_<<part, vars, lifeVars>>
  PROVE  /\ LifeInv'
         /\ AssetFollows \/ UNCHANGED Life!vars
         /\ SizeFollows \/ UNCHANGED Life!vars
         /\ VariantFollows \/ UNCHANGED Life!vars
  <1>1. CASE UNCHANGED lifeVars
    <2>1. UNCHANGED <<asset, variant, call, workers>>
      BY <1>1 DEF lifeVars
    <2>2. QED
      BY <2>1 DEF Life!vars, LifeInv, Life!TypeOK, WorkersCounted, CopiesKnowTheSize
  <1>2. CASE Life!Next
    BY <1>2, NewRows, ReadsKept, AssetWritten, VariantWritten, AssetDeleted
       DEF Life!Next
  <1>3. QED
    BY <1>1, <1>2 DEF ImagesNext

(* The inductive invariant holds of every reachable state.                 *)
THEOREM LifeHolds == ImagesSpec => []LifeInv
  <1>1. ImagesInit => LifeInv
    BY LifeInit DEF ImagesInit
  <1>2. LifeInv /\ [ImagesNext]_<<part, vars, lifeVars>> => LifeInv'
    BY LifeStep
  <1>3. QED
    BY <1>1, <1>2, PTL DEF ImagesSpec

(* No race of calls that read an asset or a variant before they move it    *)
(* skips, undoes or repeats a step, starts its processing twice or writes  *)
(* back a size, for any number of calls, assets and sizes                  *)
(* (LifecycleService).                                                     *)
THEOREM CallsFollow == ImagesSpec => LifecycleFollowed
  <1>1. LifeInv => Life!OneWorker
    BY DEF LifeInv, WorkersCounted, Life!OneWorker
  <1>2. LifeInv /\ [ImagesNext]_<<part, vars, lifeVars>> =>
          /\ AssetFollows \/ UNCHANGED Life!vars
          /\ SizeFollows \/ UNCHANGED Life!vars
          /\ VariantFollows \/ UNCHANGED Life!vars
    BY LifeStep
  <1>3. ImagesSpec => Life!AssetsFollowLifecycle
    BY <1>2, LifeHolds, PTL DEF ImagesSpec, Life!AssetsFollowLifecycle, AssetFollows
  <1>4. ImagesSpec => Life!SizeOfTheUpload
    BY <1>2, LifeHolds, PTL DEF ImagesSpec, Life!SizeOfTheUpload, SizeFollows
  <1>5. ImagesSpec => Life!VariantsFollowLifecycle
    BY <1>2, LifeHolds, PTL DEF ImagesSpec, Life!VariantsFollowLifecycle, VariantFollows
  <1>6. QED
    BY <1>1, <1>3, <1>4, <1>5, LifeHolds, PTL DEF LifecycleFollowed
===============================================================================
