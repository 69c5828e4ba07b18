------------------------ MODULE PublishSessionProofs ------------------------
(***************************************************************************)
(* Proofs about PublishSession, for every set of requests, sessions, items *)
(* and uploads and every value of the bounds.                              *)
(***************************************************************************)
EXTENDS PublishSession, FiniteSetTheorems, TLAPS

(* The recomputed count is a number: there are finitely many uploads. *)
LEMMA CountIsNat == ASSUME NEW d PROVE RecomputedCount(d) \in Nat
  <1>1. UploadsOn(d) \subseteq UploadIds
    BY DEF UploadsOn
  <1>2. IsFiniteSet(UploadsOn(d))
    BY <1>1, IdsAssumption, FS_Subset
  <1>3. Cardinality(UploadsOn(d)) \in Nat
    BY <1>2, FS_CardinalityType
  <1>4. QED
    BY <1>3 DEF RecomputedCount

(* A slot without a request is well typed.                                 *)
LEMMA NoRequestType == NoRequest \in Request
  BY NumbersAssumption DEF NoRequest, Request, NoAggregate, Aggregate, NoItem,
     Item, SessionStatus, ItemStatus

(* What a request turns into when it arrives, moves on or reads its row.   *)
LEMMA ArrivedType ==
  ASSUME NEW o \in Ops, NEW s \in Sessions, NEW t \in 0..MaxTime
  PROVE  [NoRequest EXCEPT !.pc = "arrived", !.op = o, !.session = s, !.at = t]
            \in Request
  BY NoRequestType DEF Request

LEMMA MovedOnType ==
  ASSUME NEW q \in Request, NEW p \in {"waiting", "checked"}
  PROVE  [q EXCEPT !.pc = p] \in Request
  BY DEF Request

LEMMA HasReadType ==
  ASSUME NEW q \in Request, NEW a \in Aggregate
  PROVE  [q EXCEPT !.pc = "locked", !.agg = a] \in Request
  BY DEF Request

LEMMA HasPersistedType ==
  ASSUME NEW q \in Request, NEW t \in 0..MaxTime, NEW n \in Nat
  PROVE  [q EXCEPT !.pc = "persisted", !.at = t, !.count = n] \in Request
  BY DEF Request

(* The end of a transaction resets the request and leaves no lock behind. *)
LEMMA EndTxType ==
  ASSUME TypeOK, NEW r \in Requests, EndTx(r)
  PROVE  /\ lock' \in [Sessions -> Requests \cup {None}]
         /\ req' \in [Requests -> Request]
  BY NoRequestType DEF EndTx, TypeOK

(* The initial state is well typed.                                        *)
LEMMA InitType == Init => TypeOK
  BY NumbersAssumption, SMTT(30) DEF Init, TypeOK, NoRequest, Request, NoAggregate,
     Aggregate, NoItem, Item, SessionStatus, ItemStatus, AssetStatus

(* New items and their assets are pending, the others are as they were.    *)
LEMMA PresignBatchType ==
  ASSUME TypeOK, NEW r \in Requests, req[r].session \in Sessions, PresignBatch(r)
  PROVE  TypeOK'
  <1> DEFINE s == req[r].session
             items == req[r].agg.items
  <1>0. PICK batch \in (SUBSET Clients) \ {{}} :
        \E audio \in [batch -> AudioChoices] :
          /\ item' = [item EXCEPT ![s] = [c \in Clients |->
                        IF c \in batch \ Existing(items)
                        THEN PendingItem(audio[c]) ELSE item[s][c]]]
          /\ asset' = [asset EXCEPT ![s] = [c \in Clients |->
                        IF c \in batch \ Existing(items)
                        THEN [k \in Kinds |->
                               IF k \in KindsOf(PendingItem(audio[c]))
                               THEN "pending_upload" ELSE "none"]
                        ELSE asset[s][c]]]
    BY DEF PresignBatch
  <1>1. PICK audio \in [batch -> AudioChoices] :
          /\ item' = [item EXCEPT ![s] = [c \in Clients |->
                        IF c \in batch \ Existing(items)
                        THEN PendingItem(audio[c]) ELSE item[s][c]]]
          /\ asset' = [asset EXCEPT ![s] = [c \in Clients |->
                        IF c \in batch \ Existing(items)
                        THEN [k \in Kinds |->
                               IF k \in KindsOf(PendingItem(audio[c]))
                               THEN "pending_upload" ELSE "none"]
                        ELSE asset[s][c]]]
    BY <1>0
  <1>2. item' \in [Sessions -> [Clients -> Item]]
    <2>1. \A b \in BOOLEAN : PendingItem(b) \in Item
      BY NumbersAssumption DEF PendingItem, NoItem, Item, ItemStatus
    <2>2. \A c \in batch : audio[c] \in BOOLEAN
      BY IdsAssumption
    <2>3. QED
      BY <1>1, <2>1, <2>2 DEF TypeOK
  <1>3. asset' \in [Sessions -> [Clients -> [Kinds -> AssetStatus]]]
    BY <1>1 DEF TypeOK, AssetStatus
  <1>4. EndTx(r) /\ UNCHANGED <<now, sessionVars, object, uploadVars, keywordStatus>>
    BY DEF PresignBatch
  <1>5. QED
    BY <1>2, <1>3, <1>4, EndTxType DEF TypeOK, sessionVars, uploadVars

(* Completed items keep the shape of an item, with an order in its bound.  *)
LEMMA CompleteBatchType ==
  ASSUME TypeOK, NEW r \in Requests, req[r].session \in Sessions, CompleteBatch(r)
  PROVE  TypeOK'
  <1> DEFINE s == req[r].session
             items == req[r].agg.items
  <1>1. PICK batch \in (SUBSET Existing(items)) \ {{}} :
        \E order \in [batch -> 1..MaxOrder], cover \in batch \cup {None} :
          /\ item' = [item EXCEPT ![s] =
                        CompletedItems(item[s], batch, order, cover)]
          /\ asset' = [asset EXCEPT ![s] = [c \in Clients |->
                        [k \in Kinds |->
                           IF c \in batch /\ k \in KindsOf(items[c])
                           THEN "uploaded" ELSE asset[s][c][k]]]]
    BY DEF CompleteBatch
  <1>2. PICK order \in [batch -> 1..MaxOrder], cover \in batch \cup {None} :
          /\ item' = [item EXCEPT ![s] =
                        CompletedItems(item[s], batch, order, cover)]
          /\ asset' = [asset EXCEPT ![s] = [c \in Clients |->
                        [k \in Kinds |->
                           IF c \in batch /\ k \in KindsOf(items[c])
                           THEN "uploaded" ELSE asset[s][c][k]]]]
    BY <1>1
  <1>3. CompletedItems(item[s], batch, order, cover) \in [Clients -> Item]
    <2>1. ASSUME NEW c \in Clients
          PROVE  CompletedItems(item[s], batch, order, cover)[c] \in Item
      <3>1. item[s][c] \in Item
        BY DEF TypeOK
      <3>2. CASE c \in batch
        <4>1. CompletedItems(item[s], batch, order, cover)[c]
                = CompletedItem(item[s][c], order[c], c = cover)
          BY <3>2 DEF CompletedItems
        <4>2. order[c] \in 0..MaxOrder
          BY <3>2, NumbersAssumption
        <4>3. QED
          BY <3>1, <4>1, <4>2 DEF CompletedItem, Item, ItemStatus
      <3>3. CASE c \notin batch
        <4>1. CompletedItems(item[s], batch, order, cover)[c]
                = [item[s][c] EXCEPT !.cover = @ /\ cover = None]
          BY <3>3 DEF CompletedItems
        <4>2. QED
          BY <3>1, <4>1 DEF Item
      <3>4. QED
        BY <3>2, <3>3
    <2>2. QED
      BY <2>1 DEF CompletedItems
  <1>4. item' \in [Sessions -> [Clients -> Item]]
    BY <1>2, <1>3 DEF TypeOK
  <1>5. asset' \in [Sessions -> [Clients -> [Kinds -> AssetStatus]]]
    BY <1>2 DEF TypeOK, AssetStatus
  <1>6. EndTx(r) /\ UNCHANGED <<now, sessionVars, object, uploadVars, keywordStatus>>
    BY DEF CompleteBatch
  <1>7. QED
    BY <1>4, <1>5, <1>6, EndTxType DEF TypeOK, sessionVars, uploadVars

(* The items a commit accepted have exactly one cover, which NewUpload     *)
(* then chooses.                                                           *)
LEMMA CommitHasCover ==
  ASSUME NEW items \in [Clients -> Item], CommitItems(items)
  PROVE  \E c \in Clients : c \in Covers(items)
  BY DEF CommitItems, Covers, Existing

(* The upload of accepted items is well typed.                             *)
LEMMA NewUploadType ==
  ASSUME NEW s \in Sessions, NEW items \in [Clients -> Item], CommitItems(items)
  PROVE  NewUpload(s, items) \in Upload
  <1>1. (CHOOSE c \in Clients : c \in Covers(items)) \in Clients
    BY CommitHasCover
  <1>2. [c \in Clients |-> items[c].order] \in [Clients -> 0..MaxOrder]
    BY DEF Item
  <1>3. QED
    BY <1>1, <1>2 DEF NewUpload, Upload

(* Publishing writes a well-typed upload and a count.                      *)
LEMMA PublishType ==
  ASSUME TypeOK, CommitsChecked,
         NEW r \in Requests, req[r].session \in Sessions, Publish(r)
  PROVE  TypeOK'
  <1> DEFINE s == req[r].session
             items == req[r].agg.items
  <1>1. PICK u \in UploadIds :
          /\ upload' = [upload EXCEPT ![u] = NewUpload(s, items)]
          /\ link' = [link EXCEPT ![s] = u]
    BY DEF Publish
  <1>2. items \in [Clients -> Item] /\ req[r].count \in Nat
    BY DEF TypeOK, Request, Aggregate
  <1>3. CommitItems(items)
    BY DEF Publish, CommitsChecked
  <1>4. upload' \in [UploadIds -> Upload \cup {None}]
    BY <1>1, <1>2, <1>3, NewUploadType DEF TypeOK
  <1>5. link' \in [Sessions -> UploadIds \cup {None}]
    BY <1>1 DEF TypeOK
  <1>6. status' \in [Sessions -> SessionStatus]
    BY DEF Publish, TypeOK, SessionStatus
  <1>7. stats' \in [Dates -> Nat]
    BY <1>2 DEF Publish, TypeOK
  <1>8. /\ EndTx(r)
        /\ UNCHANGED <<now, context, expiresAt, item, asset, object, keywordStatus>>
    BY DEF Publish, itemVars
  <1>9. QED
    BY <1>4, <1>5, <1>6, <1>7, <1>8, EndTxType DEF TypeOK

(* The steps that change a request and at most the lock of its row.        *)
LEMMA RequestStepType ==
  ASSUME TypeOK, RequestsNameSessions, NEW r \in Requests,
         \/ \E o \in Ops, s \in Sessions : Arrive(r, o, s)
         \/ Begin(r) \/ LockSession(r) \/ LookUpKeyword(r)
         \/ PersistUpload(r) \/ Rollback(r)
  PROVE  TypeOK'
  <1> USE DEF sessionVars, itemVars, uploadVars
  <1>1. ASSUME NEW o \in Ops, NEW s \in Sessions, Arrive(r, o, s)
        PROVE  TypeOK'
    <2> DEFINE t == IF o = "commit" THEN 0 ELSE now
    <2>1. t \in 0..MaxTime
      BY NumbersAssumption DEF TypeOK
    <2>2. [NoRequest EXCEPT !.pc = "arrived", !.op = o, !.session = s, !.at = t]
            \in Request
      BY <2>1, ArrivedType
    <2>3. req' \in [Requests -> Request]
      BY <1>1, <2>2 DEF Arrive, TypeOK
    <2>4. QED
      BY <1>1, <2>3 DEF Arrive, TypeOK
  <1>2. CASE Begin(r)
    <2>1. req' \in [Requests -> Request]
      BY <1>2, MovedOnType DEF Begin, TypeOK
    <2>2. QED
      BY <1>2, <2>1 DEF Begin, TypeOK
  <1>3. CASE LockSession(r)
    <2>1. req[r].session \in Sessions
      BY <1>3 DEF LockSession, RequestsNameSessions
    <2>2. [status |-> status[req[r].session], items |-> item[req[r].session]]
            \in Aggregate
      BY <2>1 DEF TypeOK, Aggregate
    <2>3. req' \in [Requests -> Request]
      BY <1>3, <2>2, HasReadType DEF LockSession, TypeOK
    <2>4. lock' \in [Sessions -> Requests \cup {None}]
      BY <1>3 DEF LockSession, TypeOK
    <2>5. QED
      BY <1>3, <2>3, <2>4 DEF LockSession, TypeOK
  <1>4. CASE LookUpKeyword(r)
    <2>1. req' \in [Requests -> Request]
      BY <1>4, MovedOnType DEF LookUpKeyword, TypeOK
    <2>2. QED
      BY <1>4, <2>1 DEF LookUpKeyword, TypeOK
  <1>5. CASE PersistUpload(r)
    <2>1. RecomputedCount(context[req[r].session]) \in Nat
      BY CountIsNat
    <2>2. req' \in [Requests -> Request]
      BY <1>5, <2>1, HasPersistedType DEF PersistUpload, TypeOK
    <2>3. QED
      BY <1>5, <2>2 DEF PersistUpload, TypeOK
  <1>6. CASE Rollback(r)
    BY <1>6, EndTxType DEF Rollback, TypeOK
  <1>7. QED
    BY <1>1, <1>2, <1>3, <1>4, <1>5, <1>6

(* The steps of the owner, the client and the clock.                       *)
LEMMA OtherStepType ==
  ASSUME TypeOK,
         \/ \E s \in Sessions, x \in Contexts : CreateSession(s, x)
         \/ \E s \in Sessions, c \in Clients, k \in Kinds, v \in {"bad", "good"} :
               PutObject(s, c, k, v)
         \/ \E k \in CustomKeywords, st \in {"active", "inactive"} :
               UpdateKeyword(k, st)
         \/ \E k \in CustomKeywords : DeleteKeyword(k)
         \/ Tick
         \/ UNCHANGED vars
  PROVE  TypeOK'
  <1> USE DEF sessionVars, itemVars, uploadVars
  <1>1. ASSUME NEW s \in Sessions, NEW x \in Contexts, CreateSession(s, x)
        PROVE  TypeOK'
    <2>1. now + TTL \in 0..(MaxTime + TTL)
      BY NumbersAssumption DEF TypeOK
    <2>2. QED
      BY <1>1, <2>1 DEF CreateSession, TypeOK, SessionStatus
  <1>2. ASSUME NEW s \in Sessions, NEW c \in Clients, NEW k \in Kinds,
               NEW v \in {"bad", "good"}, PutObject(s, c, k, v)
        PROVE  TypeOK'
    <2>1. object' \in [Sessions -> [Clients -> [Kinds -> {"absent", "bad", "good"}]]]
      BY <1>2 DEF PutObject, TypeOK
    <2>2. QED
      BY <1>2, <2>1 DEF PutObject, TypeOK
  <1>3. ASSUME NEW k \in CustomKeywords, NEW st \in {"active", "inactive"},
               UpdateKeyword(k, st)
        PROVE  TypeOK'
    BY <1>3 DEF UpdateKeyword, TypeOK
  <1>4. ASSUME NEW k \in CustomKeywords, DeleteKeyword(k)
        PROVE  TypeOK'
    BY <1>4 DEF DeleteKeyword, TypeOK
  <1>5. CASE Tick
    BY <1>5, NumbersAssumption DEF Tick, TypeOK
  <1>6. CASE UNCHANGED vars
    BY <1>6 DEF vars, TypeOK
  <1>7. QED
    BY <1>1, <1>2, <1>3, <1>4, <1>5, <1>6

-----------------------------------------------------------------------------
(* The requests in progress and the rows they hold.                        *)

Requesting == RequestsNameSessions /\ RowsHeldByOne /\ CommitsChecked

(* Two requests that hold the same row are one request.                    *)
LEMMA OneHolder ==
  ASSUME RowsHeldByOne, NEW q \in Requests, NEW r \in Requests,
         HoldsRow(q), HoldsRow(r), req[q].session = req[r].session
  PROVE  q = r
  BY DEF RowsHeldByOne

(* A transaction ends: no other request and no other row is disturbed.     *)
LEMMA EndTxRequesting ==
  ASSUME TypeOK, Requesting, NEW r \in Requests, EndTx(r),
         \A s \in Sessions : status[s] # "absent" => status'[s] # "absent"
  PROVE  Requesting'
  <1>1. \A q \in Requests : q # r => req'[q] = req[q]
    BY DEF EndTx, TypeOK
  <1>2. req'[r].pc = "idle"
    BY DEF EndTx, TypeOK, NoRequest
  <1>3. RequestsNameSessions'
    BY <1>1, <1>2 DEF Requesting, RequestsNameSessions
  <1>4. RowsHeldByOne'
    <2>1. ASSUME NEW q \in Requests, HoldsRow(q)'
          PROVE  lock'[req'[q].session] = q
      <3>1. q # r /\ HoldsRow(q)
        BY <1>1, <1>2, <2>1 DEF HoldsRow
      <3>2. req[q].session \in Sessions
        BY <3>1 DEF Requesting, RequestsNameSessions, HoldsRow
      <3>3. lock[req[q].session] = q
        BY <3>1 DEF Requesting, RowsHeldByOne
      <3>4. QED
        BY <1>1, <3>1, <3>2, <3>3 DEF EndTx
    <2>2. QED
      BY <2>1 DEF RowsHeldByOne, HoldsRow
  <1>5. CommitsChecked'
    BY <1>1, <1>2 DEF Requesting, CommitsChecked
  <1>6. QED
    BY <1>3, <1>4, <1>5 DEF Requesting

(* A request moves on; it may take the lock of its row, and no other.      *)
LEMMA MoveRequesting ==
  ASSUME Requesting, NEW r \in Requests, status' = status,
         \A q \in Requests : q # r => req'[q] = req[q],
         req'[r].op \in Ops, req'[r].session \in Sessions,
         status[req'[r].session] # "absent",
         HoldsRow(r)' => lock'[req'[r].session] = r,
         \A s \in Sessions : lock'[s] = lock[s] \/ lock[s] = None,
         req'[r].pc = "persisted" => /\ req'[r].agg.status = "created"
                                     /\ CommitItems(req'[r].agg.items)
  PROVE  Requesting'
  <1>1. RequestsNameSessions'
    BY DEF Requesting, RequestsNameSessions
  <1>2. RowsHeldByOne'
    <2>1. ASSUME NEW q \in Requests, HoldsRow(q)'
          PROVE  lock'[req'[q].session] = q
      <3>1. CASE q = r
        BY <2>1, <3>1
      <3>2. CASE q # r
        <4>1. HoldsRow(q)
          BY <2>1, <3>2 DEF HoldsRow
        <4>2. req[q].session \in Sessions /\ lock[req[q].session] = q
          BY <4>1 DEF Requesting, RequestsNameSessions, RowsHeldByOne, HoldsRow
        <4>3. lock'[req[q].session] = lock[req[q].session]
          BY <4>2, IdsAssumption
        <4>4. QED
          BY <3>2, <4>2, <4>3
      <3>3. QED
        BY <3>1, <3>2
    <2>2. QED
      BY <2>1 DEF RowsHeldByOne, HoldsRow
  <1>3. CommitsChecked'
    BY DEF Requesting, CommitsChecked
  <1>4. QED
    BY <1>1, <1>2, <1>3 DEF Requesting

(* The steps before a write, one by one.                                   *)
LEMMA RequestStepRequesting ==
  ASSUME TypeOK, Requesting, NEW r \in Requests,
         \/ \E o \in Ops, s \in Sessions : Arrive(r, o, s)
         \/ Begin(r) \/ LockSession(r) \/ LookUpKeyword(r) \/ PersistUpload(r)
  PROVE  Requesting'
  <1> USE DEF sessionVars
  <1>1. ASSUME NEW o \in Ops, NEW s \in Sessions, Arrive(r, o, s)
        PROVE  Requesting'
    <2>1. /\ req'[r].pc = "arrived" /\ req'[r].op = o /\ req'[r].session = s
          /\ \A q \in Requests : q # r => req'[q] = req[q]
      BY <1>1 DEF Arrive, TypeOK, NoRequest
    <2>2. status' = status /\ lock' = lock /\ status[s] # "absent"
      BY <1>1 DEF Arrive
    <2>3. QED
      BY <2>1, <2>2, MoveRequesting DEF HoldsRow
  <1>2. CASE Begin(r)
    <2>1. /\ req'[r].pc = "waiting"
          /\ req'[r].op = req[r].op /\ req'[r].session = req[r].session
          /\ \A q \in Requests : q # r => req'[q] = req[q]
      BY <1>2 DEF Begin, TypeOK, Request
    <2>2. status' = status /\ lock' = lock /\ req[r].pc # "idle"
      BY <1>2 DEF Begin
    <2>3. QED
      BY <2>1, <2>2, MoveRequesting DEF HoldsRow, Requesting, RequestsNameSessions
  <1>3. CASE LockSession(r)
    <2>1. /\ req'[r].pc = "locked"
          /\ req'[r].op = req[r].op /\ req'[r].session = req[r].session
          /\ \A q \in Requests : q # r => req'[q] = req[q]
      BY <1>3 DEF LockSession, TypeOK, Request
    <2>2. req[r].session \in Sessions
      BY <1>3 DEF LockSession, Requesting, RequestsNameSessions
    <2>3. /\ lock'[req[r].session] = r
          /\ \A s \in Sessions : lock'[s] = lock[s] \/ lock[s] = None
      BY <1>3, <2>2 DEF LockSession, TypeOK
    <2>4. status' = status /\ req[r].pc # "idle"
      BY <1>3 DEF LockSession
    <2>5. QED
      BY <2>1, <2>3, <2>4, MoveRequesting DEF Requesting, RequestsNameSessions
  <1>4. CASE LookUpKeyword(r)
    <2>1. /\ req'[r].pc = "checked"
          /\ req'[r].op = req[r].op /\ req'[r].session = req[r].session
          /\ \A q \in Requests : q # r => req'[q] = req[q]
      BY <1>4 DEF LookUpKeyword, TypeOK, Request
    <2>2. status' = status /\ lock' = lock /\ HoldsRow(r) /\ req[r].pc # "idle"
      BY <1>4 DEF LookUpKeyword, HoldsRow
    <2>3. QED
      BY <2>1, <2>2, MoveRequesting
         DEF Requesting, RequestsNameSessions, RowsHeldByOne
  <1>5. CASE PersistUpload(r)
    <2>1. /\ req'[r].pc = "persisted" /\ req'[r].agg = req[r].agg
          /\ req'[r].op = req[r].op /\ req'[r].session = req[r].session
          /\ \A q \in Requests : q # r => req'[q] = req[q]
      BY <1>5 DEF PersistUpload, TypeOK, Request
    <2>2. /\ status' = status /\ lock' = lock /\ HoldsRow(r) /\ req[r].pc # "idle"
          /\ req[r].agg.status = "created" /\ CommitItems(req[r].agg.items)
      BY <1>5 DEF PersistUpload, HoldsRow
    <2>3. QED
      BY <2>1, <2>2, MoveRequesting
         DEF Requesting, RequestsNameSessions, RowsHeldByOne
  <1>6. QED
    BY <1>1, <1>2, <1>3, <1>4, <1>5

-----------------------------------------------------------------------------
(* What a request read under the lock of its row stays current.            *)

(* The one holder of a row ends its transaction: what it wrote to the row  *)
(* no other request has read.                                              *)
LEMMA EndTxCurrent ==
  ASSUME TypeOK, Requesting, AggregateIsCurrent, NEW r \in Requests, HoldsRow(r),
         EndTx(r),
         \A s \in Sessions \ {req[r].session} :
            status'[s] = status[s] /\ item'[s] = item[s]
  PROVE  AggregateIsCurrent'
  <1>1. ASSUME NEW q \in Requests, HoldsRow(q)'
        PROVE  req'[q].agg = [status |-> status'[req'[q].session],
                              items |-> item'[req'[q].session]]
    <2>1. req'[r].pc = "idle"
      BY DEF EndTx, TypeOK, NoRequest
    <2>2. q # r /\ req'[q] = req[q]
      BY <1>1, <2>1 DEF HoldsRow, EndTx, TypeOK
    <2>3. HoldsRow(q)
      BY <1>1, <2>2 DEF HoldsRow
    <2>4. req[q].session \in Sessions \ {req[r].session}
      BY <2>2, <2>3, OneHolder DEF Requesting, RequestsNameSessions, HoldsRow
    <2>5. QED
      BY <2>2, <2>3, <2>4 DEF AggregateIsCurrent
  <1>2. QED
    BY <1>1 DEF AggregateIsCurrent, HoldsRow

(* A transaction that is rolled back changes no row.                       *)
LEMMA RollbackCurrent ==
  ASSUME TypeOK, AggregateIsCurrent, NEW r \in Requests, Rollback(r)
  PROVE  AggregateIsCurrent'
  <1>1. /\ req'[r].pc = "idle"
        /\ \A q \in Requests : q # r => req'[q] = req[q]
    BY DEF Rollback, EndTx, TypeOK, NoRequest
  <1>2. status' = status /\ item' = item
    BY DEF Rollback, sessionVars, itemVars
  <1>3. QED
    BY <1>1, <1>2 DEF AggregateIsCurrent, HoldsRow

(* Before it writes, a request reads its row or keeps what it read.        *)
LEMMA RequestStepCurrent ==
  ASSUME TypeOK, AggregateIsCurrent, NEW r \in Requests,
         \/ \E o \in Ops, s \in Sessions : Arrive(r, o, s)
         \/ Begin(r) \/ LockSession(r) \/ LookUpKeyword(r) \/ PersistUpload(r)
  PROVE  AggregateIsCurrent'
  <1>1. /\ status' = status /\ item' = item
        /\ \A q \in Requests : q # r => req'[q] = req[q]
    BY DEF Arrive, Begin, LockSession, LookUpKeyword, PersistUpload, TypeOK,
       sessionVars, itemVars
  <1>2. HoldsRow(r)' =>
          req'[r].agg = [status |-> status[req'[r].session],
                         items |-> item[req'[r].session]]
    <2>1. ASSUME NEW o \in Ops, NEW s \in Sessions, Arrive(r, o, s)
          PROVE  ~HoldsRow(r)'
      BY <2>1 DEF Arrive, HoldsRow, TypeOK, NoRequest
    <2>2. CASE Begin(r)
      BY <2>2 DEF Begin, HoldsRow, TypeOK, Request
    <2>3. CASE LockSession(r)
      BY <2>3 DEF LockSession, TypeOK, Request
    <2>4. CASE LookUpKeyword(r) \/ PersistUpload(r)
      <3>1. HoldsRow(r)
        BY <2>4 DEF HoldsRow, LookUpKeyword, PersistUpload
      <3>2. req'[r].agg = req[r].agg /\ req'[r].session = req[r].session
        BY <2>4 DEF LookUpKeyword, PersistUpload, TypeOK, Request
      <3>3. QED
        BY <3>1, <3>2 DEF AggregateIsCurrent
    <2>5. QED
      BY <2>1, <2>2, <2>3, <2>4
  <1>3. QED
    BY <1>1, <1>2 DEF AggregateIsCurrent, HoldsRow

-----------------------------------------------------------------------------
(* Sessions and uploads.                                                   *)

Linked == CommittedHasUpload /\ UploadMatchesSession

(* Only items of a session that is not committed change.                   *)
LEMMA ItemsLinked ==
  ASSUME Linked, NEW t \in Sessions, status[t] # "committed",
         upload \in [UploadIds -> Upload \cup {None}],
         UNCHANGED <<status, link, upload>>,
         \A s \in Sessions \ {t} : item'[s] = item[s]
  PROVE  Linked'
  <1>1. CommittedHasUpload'
    BY DEF Linked, CommittedHasUpload, Published
  <1>2. UploadMatchesSession'
    <2>1. ASSUME NEW u \in UploadIds, Published(u)
          PROVE  item'[upload[u].session] = item[upload[u].session]
      <3>1. upload[u].session \in Sessions
        BY <2>1 DEF Published, Upload
      <3>2. status[upload[u].session] = "committed"
        BY <2>1 DEF Linked, UploadMatchesSession
      <3>3. QED
        BY <3>1, <3>2
    <2>2. ASSUME NEW u \in UploadIds, Published(u)
          PROVE  LET s == upload[u].session IN
                 /\ status[s] = "committed" /\ link[s] = u
                 /\ upload[u] = NewUpload(s, item'[s])
                 /\ CommitItems(item'[s])
      BY <2>1, <2>2 DEF Linked, UploadMatchesSession
    <2>3. QED
      BY <2>2 DEF UploadMatchesSession, Published
  <1>3. QED
    BY <1>1, <1>2 DEF Linked

(* A new session names no upload and no upload names it.                   *)
LEMMA CreateSessionLinked ==
  ASSUME TypeOK, Linked, NEW s \in Sessions, NEW x \in Contexts, CreateSession(s, x)
  PROVE  Linked'
  <1>1. /\ status[s] = "absent" /\ status' = [status EXCEPT ![s] = "created"]
        /\ UNCHANGED <<link, item, upload>>
    BY DEF CreateSession
  <1>2. CommittedHasUpload'
    BY <1>1 DEF Linked, CommittedHasUpload, Published, TypeOK
  <1>3. UploadMatchesSession'
    <2>1. ASSUME NEW u \in UploadIds, Published(u)
          PROVE  status'[upload[u].session] = "committed"
      <3>1. upload[u].session \in Sessions
        BY <2>1 DEF Published, Upload, TypeOK
      <3>2. status[upload[u].session] = "committed"
        BY <2>1 DEF Linked, UploadMatchesSession
      <3>3. QED
        BY <1>1, <3>1, <3>2 DEF TypeOK
    <2>2. QED
      BY <1>1, <2>1 DEF Linked, UploadMatchesSession, Published
  <1>4. QED
    BY <1>2, <1>3 DEF Linked

(* The commit writes a new upload and the session that names it.           *)
LEMMA PublishLinked ==
  ASSUME TypeOK, Requesting, AggregateIsCurrent, Linked, NEW r \in Requests, Publish(r)
  PROVE  Linked'
  <1> DEFINE s == req[r].session
             new == NewUpload(s, item[s])
  <1>1. s \in Sessions
    BY DEF Publish, Requesting, RequestsNameSessions
  <1>2. /\ req[r].agg.items = item[s]
        /\ status[s] = "created"
        /\ CommitItems(item[s])
    <2>1. HoldsRow(r) /\ req[r].pc = "persisted"
      BY DEF Publish, HoldsRow
    <2>2. req[r].agg = [status |-> status[s], items |-> item[s]]
      BY <2>1 DEF AggregateIsCurrent
    <2>3. req[r].agg.status = "created" /\ CommitItems(req[r].agg.items)
      BY <2>1 DEF Requesting, CommitsChecked
    <2>4. req[r].agg.status = status[s] /\ req[r].agg.items = item[s]
      BY <2>2
    <2>5. QED
      BY <2>3, <2>4
  <1>3. PICK u \in UploadIds : /\ upload[u] = None
                              /\ upload' = [upload EXCEPT ![u] = new]
                              /\ link' = [link EXCEPT ![s] = u]
    BY <1>2 DEF Publish
  <1>4. status' = [status EXCEPT ![s] = "committed"] /\ item' = item
    BY DEF Publish, itemVars
  <1>5. new \in Upload /\ new.session = s /\ new # None
    <2>1. new \in Upload
      BY <1>1, <1>2, NewUploadType DEF TypeOK
    <2>2. QED
      BY <2>1, NoneAssumption DEF NewUpload
  <1>6. /\ upload'[u] = new
        /\ \A v \in UploadIds \ {u} : upload'[v] = upload[v]
        /\ status'[s] = "committed" /\ link'[s] = u
        /\ \A q \in Sessions \ {s} : status'[q] = status[q] /\ link'[q] = link[q]
    BY <1>1, <1>3, <1>4 DEF TypeOK
  <1>7. ASSUME NEW v \in UploadIds, v # u, Published(v)
        PROVE  upload[v].session \in Sessions \ {s}
    <2>1. upload[v].session \in Sessions
      BY <1>7 DEF Published, TypeOK, Upload
    <2>2. status[upload[v].session] = "committed"
      BY <1>7 DEF Linked, UploadMatchesSession
    <2>3. QED
      BY <1>2, <2>1, <2>2
  <1>8. CommittedHasUpload'
    <2>1. ASSUME NEW q \in Sessions
          PROVE  /\ (status'[q] = "committed") = (link'[q] # None)
                 /\ link'[q] # None => /\ upload'[link'[q]] # None
                                       /\ upload'[link'[q]].session = q
      <3>1. CASE q = s
        BY <1>3, <1>5, <1>6, <3>1, IdsAssumption
      <3>2. CASE q # s
        <4>1. /\ (status[q] = "committed") = (link[q] # None)
              /\ link[q] # None => Published(link[q]) /\ upload[link[q]].session = q
          BY DEF Linked, CommittedHasUpload
        <4>2. link[q] # None => link[q] \in UploadIds \ {u}
          BY <1>3, <4>1 DEF Published, TypeOK
        <4>3. QED
          BY <1>6, <3>2, <4>1, <4>2 DEF Published
      <3>3. QED
        BY <3>1, <3>2
    <2>2. QED
      BY <2>1 DEF CommittedHasUpload, Published
  <1>9. UploadMatchesSession'
    <2>1. ASSUME NEW v \in UploadIds, Published(v)'
          PROVE  LET q == upload'[v].session IN
                 /\ status'[q] = "committed" /\ link'[q] = v
                 /\ upload'[v] = NewUpload(q, item'[q])
                 /\ CommitItems(item'[q])
      <3>1. CASE v = u
        BY <1>2, <1>4, <1>5, <1>6, <3>1
      <3>2. CASE v # u
        <4>1. Published(v)
          BY <1>6, <2>1, <3>2 DEF Published
        <4>2. QED
          BY <1>4, <1>6, <1>7, <3>2, <4>1 DEF Linked, UploadMatchesSession
      <3>3. QED
        BY <3>1, <3>2
    <2>2. QED
      BY <2>1 DEF UploadMatchesSession, Published
  <1>10. QED
    BY <1>8, <1>9 DEF Linked

-----------------------------------------------------------------------------
(* The items of a session.                                                 *)

(* A new item has no order and is no cover.                                *)
LEMMA PresignBatchItems ==
  ASSUME TypeOK, ItemsConsistent, NEW r \in Requests, req[r].session \in Sessions,
         PresignBatch(r)
  PROVE  ItemsConsistent'
  <1> DEFINE s == req[r].session
  <1>1. ASSUME NEW c \in Clients
        PROVE  \/ item'[s][c] = item[s][c]
               \/ /\ item'[s][c].status # "uploaded" /\ item'[s][c].order = 0
                  /\ ~item'[s][c].cover
    <2>1. PICK batch \in (SUBSET Clients) \ {{}} :
          \E audio \in [batch -> AudioChoices] :
            item' = [item EXCEPT ![s] = [d \in Clients |->
                        IF d \in batch \ Existing(req[r].agg.items)
                        THEN PendingItem(audio[d]) ELSE item[s][d]]]
      BY DEF PresignBatch
    <2>2. PICK audio \in [batch -> AudioChoices] :
            item' = [item EXCEPT ![s] = [d \in Clients |->
                        IF d \in batch \ Existing(req[r].agg.items)
                        THEN PendingItem(audio[d]) ELSE item[s][d]]]
      BY <2>1
    <2>3. \/ item'[s][c] = item[s][c]
          \/ item'[s][c] = PendingItem(audio[c])
      BY <2>2 DEF TypeOK
    <2>4. QED
      BY <2>3 DEF PendingItem
  <1>2. \A q \in Sessions \ {s} : item'[q] = item[q]
    BY DEF PresignBatch, TypeOK
  <1>3. \A q \in Sessions, c \in Clients : item[q][c].order \in Nat
    BY NumbersAssumption DEF TypeOK, Item
  <1>4. QED
    BY SMTT(30), <1>1, <1>2, <1>3 DEF ItemsConsistent

(* Completed items get distinct orders that no other item has, and a new   *)
(* cover replaces the old one.                                             *)
LEMMA CompletedItemsConsistent ==
  ASSUME NEW items \in [Clients -> Item],
         NEW batch \in SUBSET Clients,
         NEW order \in [batch -> 1..MaxOrder], NEW cover \in batch \cup {None},
         \A c, d \in batch : c # d => order[c] # order[d],
         \A c \in batch, d \in Clients \ batch : items[d].order # order[c],
         \A c \in Clients : items[c].status # "uploaded" =>
            items[c].order = 0 /\ ~items[c].cover,
         \A c \in Clients, d \in Clients : c # d =>
            /\ ~(items[c].cover /\ items[d].cover)
            /\ items[c].order > 0 => items[c].order # items[d].order
  PROVE  LET new == CompletedItems(items, batch, order, cover) IN
         \A c \in Clients :
            /\ new[c].status # "uploaded" => new[c].order = 0 /\ ~new[c].cover
            /\ \A d \in Clients \ {c} :
                  /\ ~(new[c].cover /\ new[d].cover)
                  /\ new[c].order > 0 => new[c].order # new[d].order
  <1> DEFINE new == CompletedItems(items, batch, order, cover)
  <1>1. \A c \in batch : /\ new[c].status = "uploaded"
                         /\ new[c].order = order[c]
                         /\ new[c].cover => c = cover
    BY DEF CompletedItems, CompletedItem
  <1>2. \A c \in Clients \ batch : /\ new[c].status = items[c].status
                                   /\ new[c].order = items[c].order
                                   /\ new[c].cover => items[c].cover
                                   /\ new[c].cover => cover = None
    BY DEF CompletedItems, Item
  <1>3. None \notin Clients
    BY IdsAssumption
  <1>4. \A c \in Clients : new[c].status # "uploaded" => new[c].order = 0 /\ ~new[c].cover
    BY <1>1, <1>2
  <1>5. ASSUME NEW c \in Clients, NEW d \in Clients \ {c}
        PROVE  ~(new[c].cover /\ new[d].cover)
    <2>1. CASE c \in batch \/ d \in batch
      BY <1>1, <1>2, <1>3, <2>1
    <2>2. CASE c \notin batch /\ d \notin batch
      BY <1>2, <2>2
    <2>3. QED
      BY <2>1, <2>2
  <1>6. ASSUME NEW c \in Clients, NEW d \in Clients \ {c}, new[c].order > 0
        PROVE  new[c].order # new[d].order
    <2>1. CASE c \in batch
      BY <1>1, <1>2, <2>1
    <2>2. CASE c \notin batch
      BY <1>1, <1>2, <1>6, <2>2
    <2>3. QED
      BY <2>1, <2>2
  <1>7. QED
    BY <1>4, <1>5, <1>6

(* A batch whose orders are free keeps the items consistent.               *)
LEMMA CompleteBatchItems ==
  ASSUME TypeOK, AggregateIsCurrent, ItemsConsistent,
         NEW r \in Requests, req[r].session \in Sessions, CompleteBatch(r)
  PROVE  ItemsConsistent'
  <1> DEFINE s == req[r].session
  <1>1. PICK batch \in (SUBSET Existing(req[r].agg.items)) \ {{}} :
        \E order \in [batch -> 1..MaxOrder], cover \in batch \cup {None},
           position \in [batch -> 1..Cardinality(batch)] :
          /\ \A c, d \in batch :
                c # d => order[c] # order[d] /\ position[c] # position[d]
          /\ ~OrderTaken(item[s], batch, order, position)
          /\ item' = [item EXCEPT ![s] =
                        CompletedItems(item[s], batch, order, cover)]
    BY ZenonT(60) DEF CompleteBatch
  <1>2. PICK order \in [batch -> 1..MaxOrder], cover \in batch \cup {None},
             position \in [batch -> 1..Cardinality(batch)] :
          /\ \A c, d \in batch :
                c # d => order[c] # order[d] /\ position[c] # position[d]
          /\ ~OrderTaken(item[s], batch, order, position)
          /\ item' = [item EXCEPT ![s] =
                        CompletedItems(item[s], batch, order, cover)]
    BY <1>1
  <1>3. batch \in SUBSET Clients
    BY DEF Existing
  <1>4. item[s] \in [Clients -> Item]
    BY DEF TypeOK
  <1>5. ASSUME NEW c \in batch, NEW d \in Clients \ batch
        PROVE  item[s][d].order # order[c]
    <2>1. CASE d \in Existing(item[s])
      BY <1>2, <1>5, <2>1 DEF OrderTaken
    <2>2. CASE d \notin Existing(item[s])
      <3>1. item[s][d].status = "none"
        BY <2>2 DEF Existing
      <3>2. item[s][d].order = 0
        BY <3>1 DEF ItemsConsistent
      <3>3. order[c] \in 1..MaxOrder
        OBVIOUS
      <3>4. QED
        BY <3>2, <3>3, NumbersAssumption
    <2>3. QED
      BY <2>1, <2>2
  <1> DEFINE new == CompletedItems(item[s], batch, order, cover)
  <1>6. \A c \in Clients :
            /\ new[c].status # "uploaded" => new[c].order = 0 /\ ~new[c].cover
            /\ \A d \in Clients \ {c} :
                  /\ ~(new[c].cover /\ new[d].cover)
                  /\ new[c].order > 0 => new[c].order # new[d].order
    <2>1. \A c, d \in batch : c # d => order[c] # order[d]
      BY <1>2
    <2>2. \A c \in Clients : item[s][c].status # "uploaded" =>
            item[s][c].order = 0 /\ ~item[s][c].cover
      BY DEF ItemsConsistent
    <2>3. \A c \in Clients, d \in Clients : c # d =>
            /\ ~(item[s][c].cover /\ item[s][d].cover)
            /\ item[s][c].order > 0 => item[s][c].order # item[s][d].order
      BY DEF ItemsConsistent
    <2>4. QED
      BY <1>3, <1>4, <1>5, <2>1, <2>2, <2>3, CompletedItemsConsistent
  <1>7. item'[s] = new /\ \A q \in Sessions \ {s} : item'[q] = item[q]
    BY <1>2 DEF TypeOK
  <1>8. QED
    BY <1>6, <1>7 DEF ItemsConsistent

-----------------------------------------------------------------------------
(* The inductive invariant.                                                *)

(* Nothing is requested, opened or published initially.                    *)
LEMMA InitIInv == Init => IInv
  <1> SUFFICES ASSUME Init PROVE IInv
    OBVIOUS
  <1>1. TypeOK
    BY InitType
  <1>2. \A r \in Requests : req[r].pc = "idle"
    BY DEF Init, NoRequest
  <1>3. Requesting /\ AggregateIsCurrent
    BY <1>2 DEF Requesting, RequestsNameSessions, RowsHeldByOne, HoldsRow,
       CommitsChecked, AggregateIsCurrent
  <1>4. Linked
    BY DEF Init, Linked, CommittedHasUpload, UploadMatchesSession, Published
  <1>5. ItemsConsistent
    BY DEF Init, ItemsConsistent, NoItem
  <1>6. QED
    BY <1>1, <1>3, <1>4, <1>5 DEF IInv, Requesting, Linked

(* The steps that change no session, no upload and no request.             *)
LEMMA OutsideStep ==
  ASSUME IInv, UNCHANGED <<status, link, item, upload, lock, req>>, TypeOK'
  PROVE  IInv'
  BY DEF IInv, RequestsNameSessions, RowsHeldByOne, HoldsRow, AggregateIsCurrent,
     CommitsChecked, CommittedHasUpload, UploadMatchesSession, Published,
     ItemsConsistent

(* Opening a session touches no row that a request holds.                  *)
LEMMA CreateSessionIInv ==
  ASSUME IInv, NEW s \in Sessions, NEW x \in Contexts, CreateSession(s, x)
  PROVE  IInv'
  <1>1. TypeOK'
    BY OtherStepType DEF IInv
  <1>2. /\ status[s] = "absent" /\ status' = [status EXCEPT ![s] = "created"]
        /\ UNCHANGED <<item, lock, req>>
    BY DEF CreateSession
  <1>3. \A q \in Sessions : status[q] # "absent" => status'[q] = status[q]
    BY <1>2 DEF IInv, TypeOK
  <1>4. RequestsNameSessions'
    BY <1>2, <1>3 DEF IInv, RequestsNameSessions
  <1>5. RowsHeldByOne' /\ CommitsChecked'
    BY <1>2 DEF IInv, RowsHeldByOne, HoldsRow, CommitsChecked
  <1>6. AggregateIsCurrent'
    BY <1>2, <1>3 DEF IInv, AggregateIsCurrent, HoldsRow, RequestsNameSessions
  <1>7. Linked'
    BY CreateSessionLinked DEF IInv, Linked
  <1>8. ItemsConsistent'
    BY <1>2 DEF IInv, ItemsConsistent
  <1>9. QED
    BY <1>1, <1>4, <1>5, <1>6, <1>7, <1>8 DEF IInv, Linked

(* A request presigns, completes or publishes; it holds the row.           *)
LEMMA WriteIInv ==
  ASSUME IInv, NEW r \in Requests,
         PresignBatch(r) \/ CompleteBatch(r) \/ Publish(r)
  PROVE  IInv'
  <1> DEFINE s == req[r].session
  <1>1. /\ HoldsRow(r) /\ EndTx(r)
    BY DEF PresignBatch, CompleteBatch, Publish, HoldsRow
  <1>2. s \in Sessions /\ status[s] # "absent"
    BY <1>1 DEF IInv, RequestsNameSessions, HoldsRow
  <1>3. TypeOK'
    BY <1>2, PresignBatchType, CompleteBatchType, PublishType DEF IInv
  <1>4. CASE Publish(r)
    <2>1. /\ status' = [status EXCEPT ![s] = "committed"] /\ item' = item
      BY <1>4 DEF Publish, itemVars
    <2>2. /\ \A q \in Sessions : status[q] # "absent" => status'[q] # "absent"
          /\ \A q \in Sessions \ {s} : status'[q] = status[q] /\ item'[q] = item[q]
      BY <1>2, <2>1 DEF IInv, TypeOK
    <2>3. Requesting'
      BY <1>1, <2>2, EndTxRequesting DEF IInv, Requesting
    <2>4. AggregateIsCurrent'
      BY <1>1, <2>2, EndTxCurrent DEF IInv, Requesting
    <2>5. Linked'
      BY <1>4, PublishLinked DEF IInv, Requesting, Linked
    <2>6. ItemsConsistent'
      BY <2>1 DEF IInv, ItemsConsistent
    <2>7. QED
      BY <1>3, <2>3, <2>4, <2>5, <2>6 DEF IInv, Requesting, Linked
  <1>5. CASE PresignBatch(r) \/ CompleteBatch(r)
    <2>1. UNCHANGED <<status, link, upload>>
      BY ZenonT(40), <1>5 DEF PresignBatch, CompleteBatch, sessionVars, uploadVars
    <2>2. \A q \in Sessions \ {s} : item'[q] = item[q]
      BY ZenonT(40), <1>5 DEF PresignBatch, CompleteBatch, IInv, TypeOK
    <2>3. status[s] # "committed"
      <3>1. Mutable(req[r].agg, expiresAt[s], req[r].at)
        BY <1>5 DEF PresignBatch, CompleteBatch
      <3>2. req[r].agg = [status |-> status[s], items |-> item[s]]
        BY <1>1 DEF IInv, AggregateIsCurrent
      <3>3. req[r].agg.status = status[s]
        BY <3>2
      <3>4. QED
        BY <3>1, <3>3 DEF Mutable
    <2>4. Requesting'
      BY <1>1, <2>1, EndTxRequesting DEF IInv, Requesting
    <2>5. AggregateIsCurrent'
      BY <1>1, <2>1, <2>2, EndTxCurrent DEF IInv, Requesting
    <2>6. Linked'
      BY <1>2, <2>1, <2>2, <2>3, ItemsLinked DEF IInv, TypeOK, Linked
    <2>7. ItemsConsistent'
      BY <1>2, <1>5, PresignBatchItems, CompleteBatchItems DEF IInv
    <2>8. QED
      BY <1>3, <2>4, <2>5, <2>6, <2>7 DEF IInv, Requesting, Linked
  <1>6. QED
    BY <1>4, <1>5

(* Every step preserves the invariant.                                     *)
LEMMA NextIInv == IInv /\ [Next]_vars => IInv'
  <1> SUFFICES ASSUME IInv, [Next]_vars PROVE IInv'
    OBVIOUS
  <1>1. ASSUME NEW s \in Sessions, NEW x \in Contexts, CreateSession(s, x)
        PROVE  IInv'
    BY <1>1, CreateSessionIInv
  <1>2. ASSUME NEW r \in Requests,
               \/ \E o \in Ops, s \in Sessions : Arrive(r, o, s)
               \/ Begin(r) \/ LockSession(r) \/ LookUpKeyword(r) \/ PersistUpload(r)
        PROVE  IInv'
    <2>1. TypeOK'
      BY <1>2, RequestStepType DEF IInv
    <2>2. Requesting' /\ AggregateIsCurrent'
      BY <1>2, RequestStepRequesting, RequestStepCurrent DEF IInv, Requesting
    <2>3. UNCHANGED <<status, link, item, upload>>
      BY <1>2 DEF Arrive, Begin, LockSession, LookUpKeyword, PersistUpload,
         sessionVars, itemVars, uploadVars
    <2>4. Linked'
      BY <2>3 DEF IInv, Linked, CommittedHasUpload, UploadMatchesSession, Published
    <2>5. ItemsConsistent'
      BY <2>3 DEF IInv, ItemsConsistent
    <2>6. QED
      BY <2>1, <2>2, <2>4, <2>5 DEF IInv, Requesting, Linked
  <1>3. ASSUME NEW r \in Requests, Rollback(r)
        PROVE  IInv'
    <2>1. EndTx(r) /\ UNCHANGED <<status, link, item, upload>>
      BY <1>3 DEF Rollback, sessionVars, itemVars, uploadVars
    <2>2. TypeOK'
      BY <1>3, RequestStepType DEF IInv
    <2>3. Requesting'
      BY <2>1, EndTxRequesting DEF IInv, Requesting
    <2>4. AggregateIsCurrent'
      BY <1>3, RollbackCurrent DEF IInv
    <2>5. Linked'
      BY <2>1 DEF IInv, Linked, CommittedHasUpload, UploadMatchesSession, Published
    <2>6. ItemsConsistent'
      BY <2>1 DEF IInv, ItemsConsistent
    <2>7. QED
      BY <2>2, <2>3, <2>4, <2>5, <2>6 DEF IInv, Requesting, Linked
  <1>4. ASSUME NEW r \in Requests, PresignBatch(r) \/ CompleteBatch(r) \/ Publish(r)
        PROVE  IInv'
    BY <1>4, WriteIInv
  <1>5. ASSUME \/ \E s \in Sessions, c \in Clients, k \in Kinds, v \in {"bad", "good"} :
                    PutObject(s, c, k, v)
               \/ \E k \in CustomKeywords, st \in {"active", "inactive"} :
                    UpdateKeyword(k, st)
               \/ \E k \in CustomKeywords : DeleteKeyword(k)
               \/ Tick
               \/ UNCHANGED vars
        PROVE  IInv'
    <2>1. TypeOK'
      BY <1>5, OtherStepType DEF IInv
    <2>2. UNCHANGED <<status, link, item, upload, lock, req>>
      BY <1>5 DEF PutObject, UpdateKeyword, DeleteKeyword, Tick, vars,
         sessionVars, itemVars, uploadVars
    <2>3. QED
      BY <2>1, <2>2, OutsideStep
  <1>6. QED
    BY <1>1, <1>2, <1>3, <1>4, <1>5 DEF Next, Work

(* The inductive invariant holds in every reachable state.                 *)
THEOREM Inductive == Spec => []IInv
  BY InitIInv, NextIInv, PTL DEF Spec

(* The variables have their types in every reachable state.                *)
THEOREM TypeCorrect == Spec => []TypeOK
  BY Inductive, PTL DEF IInv

(* No session is published twice.                                          *)
THEOREM PublishedOnce == Spec => []OneUploadPerSession
  <1>1. IInv => OneUploadPerSession
    BY DEF IInv, OneUploadPerSession, UploadMatchesSession
  <1>2. QED
    BY <1>1, Inductive, PTL

(* The images of a work are those of its session, for ever.                *)
THEOREM UploadsMatch == Spec => []UploadMatchesSession
  BY Inductive, PTL DEF IInv

(* A request never decides on a stale row.                                 *)
THEOREM ReadsCurrent == Spec => []AggregateIsCurrent
  BY Inductive, PTL DEF IInv

(* Orders and covers are consistent at every time.                         *)
THEOREM ItemsAreConsistent == Spec => []ItemsConsistent
  BY Inductive, PTL DEF IInv

(* A committed session names its upload, and only a committed one does.    *)
THEOREM CommittedLinked == Spec => []CommittedHasUpload
  BY Inductive, PTL DEF IInv

-----------------------------------------------------------------------------
(* Committed sessions.                                                     *)

(* A committed session has an upload that no step can take.                *)
LEMMA CommittedUploadTaken ==
  ASSUME IInv, NEW s \in Sessions, status[s] = "committed"
  PROVE  link[s] \in UploadIds /\ upload[link[s]] # None
  BY DEF IInv, TypeOK, CommittedHasUpload, Published

(* A step leaves a committed session, its items and its upload alone.      *)
LEMMA CommittedStep ==
  ASSUME IInv, [Next]_vars, NEW s \in Sessions, status[s] = "committed"
  PROVE  /\ status'[s] = "committed"
         /\ link'[s] = link[s]
         /\ item'[s] = item[s]
         /\ upload'[link[s]] = upload[link[s]]
  <1>1. ASSUME NEW t \in Sessions, NEW x \in Contexts, CreateSession(t, x)
        PROVE  UNCHANGED <<link, item, upload>> /\ status'[s] = status[s]
    BY <1>1 DEF CreateSession, IInv, TypeOK
  <1>2. ASSUME NEW r \in Requests, PresignBatch(r) \/ CompleteBatch(r)
        PROVE  UNCHANGED <<status, link, upload>> /\ item'[s] = item[s]
    <2>1. HoldsRow(r)
      BY <1>2 DEF PresignBatch, CompleteBatch, HoldsRow
    <2>2. req[r].agg = [status |-> status[req[r].session],
                        items |-> item[req[r].session]]
      BY <2>1 DEF IInv, AggregateIsCurrent
    <2>3. req[r].agg.status = status[req[r].session]
      BY SMTT(30), <2>2
    <2>4. req[r].session # s
      BY <1>2, <2>3 DEF PresignBatch, CompleteBatch, Mutable
    <2>5. QED
      BY <1>2, <2>4 DEF PresignBatch, CompleteBatch, sessionVars, uploadVars,
         IInv, TypeOK
  <1>3. ASSUME NEW r \in Requests, Publish(r)
        PROVE  /\ status'[s] = "committed" /\ link'[s] = link[s]
               /\ item' = item /\ upload'[link[s]] = upload[link[s]]
    <2>1. HoldsRow(r) /\ req[r].pc = "persisted"
      BY <1>3 DEF Publish, HoldsRow
    <2>2. req[r].agg = [status |-> status[req[r].session],
                        items |-> item[req[r].session]]
      BY <2>1 DEF IInv, AggregateIsCurrent
    <2>3. req[r].agg.status = status[req[r].session]
      BY <2>2
    <2>4. req[r].session # s
      BY <2>1, <2>3 DEF IInv, CommitsChecked
    <2>5. PICK u \in UploadIds :
            /\ upload[u] = None
            /\ upload' = [upload EXCEPT ![u] = NewUpload(req[r].session, req[r].agg.items)]
            /\ link' = [link EXCEPT ![req[r].session] = u]
      BY <1>3 DEF Publish
    <2>6. link[s] \in UploadIds /\ link[s] # u
      BY <2>5, CommittedUploadTaken
    <2>7. status' = [status EXCEPT ![req[r].session] = "committed"] /\ item' = item
      BY <1>3 DEF Publish, itemVars
    <2>8. QED
      BY <2>4, <2>5, <2>6, <2>7 DEF IInv, TypeOK
  <1>4. ASSUME NEW r \in Requests,
               \/ \E o \in Ops, t \in Sessions : Arrive(r, o, t)
               \/ Begin(r) \/ LockSession(r) \/ LookUpKeyword(r)
               \/ PersistUpload(r) \/ Rollback(r)
        PROVE  UNCHANGED <<status, link, item, upload>>
    BY <1>4 DEF Arrive, Begin, LockSession, LookUpKeyword, PersistUpload, Rollback,
       sessionVars, itemVars, uploadVars
  <1>5. ASSUME \/ \E t \in Sessions, c \in Clients, k \in Kinds, v \in {"bad", "good"} :
                    PutObject(t, c, k, v)
               \/ \E k \in CustomKeywords, st \in {"active", "inactive"} :
                    UpdateKeyword(k, st)
               \/ \E k \in CustomKeywords : DeleteKeyword(k)
               \/ Tick
               \/ UNCHANGED vars
        PROVE  UNCHANGED <<status, link, item, upload>>
    BY <1>5 DEF PutObject, UpdateKeyword, DeleteKeyword, Tick, vars,
       sessionVars, itemVars, uploadVars
  <1>6. QED
    BY <1>1, <1>2, <1>3, <1>4, <1>5 DEF Next, Work

(* No request, however late or often sent, touches a committed session.    *)
THEOREM CommittedFinal == Spec => CommittedIsFinal
  <1>1. IInv /\ [Next]_vars =>
          [\A s \in Sessions : status[s] = "committed" =>
             /\ status'[s] = "committed"
             /\ link'[s] = link[s]
             /\ item'[s] = item[s]
             /\ upload'[link[s]] = upload[link[s]]]_vars
    BY CommittedStep
  <1>2. QED
    BY <1>1, Inductive, PTL DEF Spec, CommittedIsFinal

-----------------------------------------------------------------------------
(* Publishing implements Publication.                                      *)

(* What a commit accepts is an album.                                      *)
LEMMA CommitItemsAlbum ==
  ASSUME NEW s \in Sessions, NEW items \in [Clients -> Item], CommitItems(items),
         \A c \in Clients : items[c].status # "uploaded" => items[c].order = 0
  PROVE  [order |-> NewUpload(s, items).order, cover |-> NewUpload(s, items).cover]
            \in P!Albums
  <1> DEFINE order == [c \in Clients |-> items[c].order]
             cover == CHOOSE c \in Clients : c \in Covers(items)
             a == [order |-> order, cover |-> cover]
  <1>1. NewUpload(s, items).order = order /\ NewUpload(s, items).cover = cover
    BY DEF NewUpload
  <1>2. P!Images(order) = Existing(items)
    <2>1. ASSUME NEW c \in Clients
          PROVE  (order[c] > 0) <=> (items[c].status # "none")
      <3>1. CASE items[c].status = "none"
        BY <3>1
      <3>2. CASE items[c].status # "none"
        BY <3>2 DEF CommitItems, Existing
      <3>3. QED
        BY <3>1, <3>2
    <2>2. QED
      BY <2>1 DEF P!Images, Existing
  <1>3. cover \in Clients /\ cover \in Covers(items)
    BY CommitHasCover
  <1>4. cover \in P!Images(order)
    BY <1>2, <1>3 DEF Covers
  <1>5. \E n \in 1..MaxOrder : {order[c] : c \in P!Images(order)} = 1..n
    <2> DEFINE n == Cardinality(Existing(items))
    <2>1. {order[c] : c \in P!Images(order)} = {items[c].order : c \in Existing(items)}
      BY <1>2 DEF Existing
    <2>2. {order[c] : c \in P!Images(order)} = 1..n
      BY <2>1 DEF CommitItems
    <2>3. n \in Nat
      <3>1. Existing(items) \subseteq Clients
        BY DEF Existing
      <3>2. IsFiniteSet(Existing(items))
        BY <3>1, IdsAssumption, FS_Subset
      <3>3. QED
        BY <3>2, FS_CardinalityType
    <2>4. order[cover] \in 1..n /\ \A m \in 1..n : m \in 0..MaxOrder
      <3>1. \A c \in P!Images(order) : order[c] \in 0..MaxOrder
        BY DEF P!Images, Item
      <3>2. QED
        BY <1>4, <2>2, <3>1
    <2>5. n \in 1..MaxOrder
      BY <2>3, <2>4, NumbersAssumption
    <2>6. QED
      BY <2>2, <2>5
  <1>6. \A c, d \in P!Images(order) : c # d => order[c] # order[d]
    BY <1>2 DEF CommitItems, Existing
  <1>7. P!IsAlbum(a)
    BY <1>4, <1>5, <1>6 DEF P!IsAlbum
  <1>8. a \in [order : [Clients -> 0..MaxOrder], cover : Clients]
    BY <1>3 DEF Item
  <1>9. QED
    BY <1>1, <1>7, <1>8 DEF P!Albums

(* An album depends on its session's link and upload only.                 *)
LEMMA AlbumKept ==
  ASSUME NEW s \in Sessions, link'[s] = link[s],
         link[s] # None => upload'[link[s]] = upload[link[s]]
  PROVE  Album(s)' = Album(s)
  BY DEF Album

(* A commit publishes the album of its session.                            *)
LEMMA PublishStep ==
  ASSUME IInv, NEW r \in Requests, Publish(r)
  PROVE  P!Next
  <1>1. HoldsRow(r) /\ req[r].pc = "persisted"
    BY DEF Publish, HoldsRow
  <1>2. PICK s \in Sessions : s = req[r].session
    BY <1>1 DEF IInv, RequestsNameSessions
  <1> DEFINE items == req[r].agg.items
             new == NewUpload(s, items)
             a == [order |-> new.order, cover |-> new.cover]
  <1>3. req[r].agg = [status |-> status[s], items |-> item[s]]
    BY <1>1, <1>2 DEF IInv, AggregateIsCurrent
  <1>4. req[r].agg.status = status[s] /\ items = item[s]
    BY <1>3
  <1>5. CommitItems(items) /\ status[s] = "created"
    BY <1>1, <1>4 DEF IInv, CommitsChecked
  <1>6. link[s] = None
    BY <1>5 DEF IInv, CommittedHasUpload
  <1>7. a \in P!Albums
    BY <1>2, <1>4, <1>5, CommitItemsAlbum DEF IInv, TypeOK, ItemsConsistent
  <1>8. PICK u \in UploadIds : /\ upload[u] = None
                              /\ upload' = [upload EXCEPT ![u] = new]
                              /\ link' = [link EXCEPT ![s] = u]
    BY <1>2 DEF Publish
  <1>9. Album(s) = None
    BY <1>6 DEF Album
  <1>10. Album(s)' = a
    <2>1. link'[s] = u /\ u # None /\ upload'[u] = new
      BY <1>8, IdsAssumption DEF IInv, TypeOK
    <2>2. QED
      BY <2>1 DEF Album
  <1>11. ASSUME NEW q \in Sessions \ {s}
         PROVE  Album(q)' = Album(q)
    <2>1. link'[q] = link[q]
      BY <1>8 DEF IInv, TypeOK
    <2>2. link[q] # None => link[q] \in UploadIds \ {u}
      BY <1>8 DEF IInv, TypeOK, CommittedHasUpload, Published
    <2>3. link[q] # None => upload'[link[q]] = upload[link[q]]
      BY <1>8, <2>2 DEF IInv, TypeOK
    <2>4. QED
      BY <2>1, <2>3, AlbumKept
  <1>12. [q \in Sessions |-> Album(q)]'
            = [[q \in Sessions |-> Album(q)] EXCEPT ![s] = a]
    <2> DEFINE f == [q \in Sessions |-> Album(q)]
               g == [q \in Sessions |-> Album(q)']
    <2>1. g = [f EXCEPT ![s] = a]
      BY <1>10, <1>11
    <2>2. QED
      BY <2>1
  <1>13. P!PublishAlbum(s)
    BY <1>2, <1>7, <1>9, <1>12 DEF P!PublishAlbum
  <1>14. QED
    BY <1>2, <1>13 DEF P!Next

(* Every other step leaves the albums as they are.                         *)
LEMMA OtherStepsKeepAlbums ==
  ASSUME UNCHANGED <<link, upload>>
  PROVE  UNCHANGED [s \in Sessions |-> Album(s)]
  BY DEF Album

(* Publishing sessions is publishing albums, each at once and for good.    *)
THEOREM Refinement == Spec => ImplementsPublication
  <1>1. Init => P!Init
    BY DEF Init, P!Init, Album
  <1>2. IInv /\ [Next]_vars => [P!Next]_([s \in Sessions |-> Album(s)])
    <2> SUFFICES ASSUME IInv, [Next]_vars
                 PROVE  [P!Next]_([s \in Sessions |-> Album(s)])
      OBVIOUS
    <2>1. CASE \E r \in Requests : Publish(r)
      BY <2>1, PublishStep
    <2>2. CASE ~ \E r \in Requests : Publish(r)
      <3>1. UNCHANGED <<link, upload>>
        BY ZenonT(40), <2>2 DEF Next, Work, CreateSession, Arrive, Begin, LockSession,
           PresignBatch, CompleteBatch, LookUpKeyword, PersistUpload, Rollback,
           PutObject, UpdateKeyword, DeleteKeyword, Tick, vars,
           sessionVars, itemVars, uploadVars
      <3>2. QED
        BY ZenonT(40), <3>1, OtherStepsKeepAlbums
    <2>3. QED
      BY <2>1, <2>2
  <1>3. QED
    BY <1>1, <1>2, Inductive, PTL DEF Spec, ImplementsPublication, P!Spec

-----------------------------------------------------------------------------
(* Deadlines.                                                              *)

(* A commit that made its writes read the clock before the deadline.       *)
Timely ==
    \A r \in Requests : req[r].pc = "persisted" =>
        req[r].at < expiresAt[req[r].session]

(* A session keeps its context and its deadline from its INSERT on.        *)
LEMMA Frozen ==
  ASSUME IInv, [Next]_vars, NEW s \in Sessions, status[s] # "absent"
  PROVE  context'[s] = context[s] /\ expiresAt'[s] = expiresAt[s]
  <1>1. ASSUME NEW t \in Sessions, NEW x \in Contexts, CreateSession(t, x)
        PROVE  context'[s] = context[s] /\ expiresAt'[s] = expiresAt[s]
    BY <1>1 DEF CreateSession, IInv, TypeOK
  <1>2. CASE ~ \E t \in Sessions, x \in Contexts : CreateSession(t, x)
    <2>1. UNCHANGED <<context, expiresAt>>
      BY <1>2 DEF Next, Work, Arrive, Begin, LockSession, PresignBatch,
         CompleteBatch, LookUpKeyword, PersistUpload, Publish, Rollback,
         PutObject, UpdateKeyword, DeleteKeyword, Tick, vars, sessionVars
    <2>2. QED
      BY <2>1
  <1>3. QED
    BY <1>1, <1>2

(* A request that has made its writes made them in this step or earlier.   *)
LEMMA PersistedStep ==
  ASSUME IInv, [Next]_vars, NEW q \in Requests, req'[q].pc = "persisted"
  PROVE  req'[q] = req[q] \/ PersistUpload(q)
  <1>1. ASSUME NEW r \in Requests, EndTx(r)
        PROVE  req'[q] = req[q]
    <2>1. req'[r].pc = "idle" /\ \A p \in Requests : p # r => req'[p] = req[p]
      BY <1>1 DEF EndTx, IInv, TypeOK, NoRequest
    <2>2. QED
      BY <2>1
  <1>2. ASSUME NEW r \in Requests,
               \/ \E o \in Ops, s \in Sessions : Arrive(r, o, s)
               \/ Begin(r) \/ LockSession(r) \/ LookUpKeyword(r)
        PROVE  req'[q] = req[q]
    <2>1. ASSUME NEW o \in Ops, NEW s \in Sessions, Arrive(r, o, s)
          PROVE  req'[r].pc = "arrived"
      BY <2>1 DEF Arrive, IInv, TypeOK, NoRequest
    <2>2. ASSUME Begin(r) \/ LockSession(r) \/ LookUpKeyword(r)
          PROVE  req'[r].pc \in {"waiting", "locked", "checked"}
      BY <2>2 DEF Begin, LockSession, LookUpKeyword, IInv, TypeOK, Request
    <2>3. \A p \in Requests : p # r => req'[p] = req[p]
      BY <1>2 DEF Arrive, Begin, LockSession, LookUpKeyword, IInv, TypeOK
    <2>4. QED
      BY <1>2, <2>1, <2>2, <2>3
  <1>3. ASSUME NEW r \in Requests, PersistUpload(r)
        PROVE  req'[q] = req[q] \/ PersistUpload(q)
    BY <1>3 DEF PersistUpload, IInv, TypeOK
  <1>4. ASSUME NEW r \in Requests,
               PresignBatch(r) \/ CompleteBatch(r) \/ Publish(r) \/ Rollback(r)
        PROVE  req'[q] = req[q]
    BY <1>1, <1>4 DEF PresignBatch, CompleteBatch, Publish, Rollback
  <1>5. ASSUME \/ \E s \in Sessions, x \in Contexts : CreateSession(s, x)
               \/ \E t \in Sessions, c \in Clients, k \in Kinds, v \in {"bad", "good"} :
                    PutObject(t, c, k, v)
               \/ \E k \in CustomKeywords, st \in {"active", "inactive"} :
                    UpdateKeyword(k, st)
               \/ \E k \in CustomKeywords : DeleteKeyword(k)
               \/ Tick
               \/ UNCHANGED vars
        PROVE  req'[q] = req[q]
    BY <1>5 DEF CreateSession, PutObject, UpdateKeyword, DeleteKeyword, Tick, vars
  <1>6. QED
    BY <1>2, <1>3, <1>4, <1>5 DEF Next, Work

(* The moment a commit keeps stays before the deadline.                    *)
LEMMA TimelyStep == IInv /\ Timely /\ [Next]_vars => Timely'
  <1> SUFFICES ASSUME IInv, Timely, [Next]_vars,
                      NEW q \in Requests, req'[q].pc = "persisted"
               PROVE  req'[q].at < expiresAt'[req'[q].session]
    BY DEF Timely
  <1>1. req'[q].session = req[q].session /\ req[q].pc # "idle"
    <2>1. CASE req'[q] = req[q]
      BY <2>1
    <2>2. CASE PersistUpload(q)
      BY <2>2 DEF PersistUpload, IInv, TypeOK, Request
    <2>3. QED
      BY <2>1, <2>2, PersistedStep
  <1>2. req[q].session \in Sessions /\ status[req[q].session] # "absent"
    BY <1>1 DEF IInv, RequestsNameSessions
  <1>3. expiresAt'[req[q].session] = expiresAt[req[q].session]
    BY <1>2, Frozen
  <1>4. req'[q].at < expiresAt[req[q].session]
    <2>1. CASE req'[q] = req[q]
      BY <2>1 DEF Timely
    <2>2. CASE PersistUpload(q)
      <3>1. now < expiresAt[req[q].session]
        BY <2>2 DEF PersistUpload, Mutable
      <3>2. req'[q].at = now
        BY <2>2 DEF PersistUpload, IInv, TypeOK, Request
      <3>3. QED
        BY <3>1, <3>2
    <2>3. QED
      BY <2>1, <2>2, PersistedStep
  <1>5. QED
    BY <1>1, <1>3, <1>4

(* What writes to a row that is there: a request that holds it, ends with  *)
(* this step and read the clock before the deadline.                       *)
LEMMA LateStep ==
  ASSUME IInv, Timely, [Next]_vars, NEW s \in Sessions
  PROVE  \/ status[s] = "absent"
         \/ status'[s] = status[s] /\ item'[s] = item[s]
         \/ \E r \in Requests : /\ HoldsRow(r)
                                /\ req'[r].pc = "idle"
                                /\ req[r].session = s
                                /\ req[r].at < expiresAt[s]
  <1>1. ASSUME NEW t \in Sessions, NEW x \in Contexts, CreateSession(t, x)
        PROVE  item' = item /\ (status[s] = "absent" \/ status'[s] = status[s])
    BY <1>1 DEF CreateSession, IInv, TypeOK
  <1>2. ASSUME NEW r \in Requests, PresignBatch(r) \/ CompleteBatch(r) \/ Publish(r)
        PROVE  \/ status'[s] = status[s] /\ item'[s] = item[s]
               \/ /\ HoldsRow(r) /\ req'[r].pc = "idle"
                  /\ req[r].session = s /\ req[r].at < expiresAt[s]
    <2>1. HoldsRow(r) /\ req'[r].pc = "idle"
      BY <1>2 DEF PresignBatch, CompleteBatch, Publish, HoldsRow, EndTx,
         IInv, TypeOK, NoRequest
    <2>2. CASE req[r].session = s
      <3>1. CASE PresignBatch(r) \/ CompleteBatch(r)
        BY <2>1, <2>2, <3>1 DEF PresignBatch, CompleteBatch, Mutable
      <3>2. CASE Publish(r)
        BY <2>1, <2>2, <3>2 DEF Publish, Timely
      <3>3. QED
        BY <1>2, <3>1, <3>2
    <2>3. CASE req[r].session # s
      BY <1>2, <2>3 DEF PresignBatch, CompleteBatch, Publish, sessionVars,
         itemVars, IInv, TypeOK
    <2>4. QED
      BY <2>2, <2>1, <2>3
  <1>3. ASSUME NEW r \in Requests,
               \/ \E o \in Ops, t \in Sessions : Arrive(r, o, t)
               \/ Begin(r) \/ LockSession(r) \/ LookUpKeyword(r)
               \/ PersistUpload(r) \/ Rollback(r)
        PROVE  UNCHANGED <<status, item>>
    BY <1>3 DEF Arrive, Begin, LockSession, LookUpKeyword, PersistUpload, Rollback,
       sessionVars, itemVars
  <1>4. ASSUME \/ \E t \in Sessions, c \in Clients, k \in Kinds, v \in {"bad", "good"} :
                    PutObject(t, c, k, v)
               \/ \E k \in CustomKeywords, st \in {"active", "inactive"} :
                    UpdateKeyword(k, st)
               \/ \E k \in CustomKeywords : DeleteKeyword(k)
               \/ Tick
               \/ UNCHANGED vars
        PROVE  UNCHANGED <<status, item>>
    BY <1>4 DEF PutObject, UpdateKeyword, DeleteKeyword, Tick, vars,
       sessionVars, itemVars
  <1>5. QED
    BY <1>1, <1>2, <1>3, <1>4 DEF Next, Work

(* A request that read the clock at or after the deadline changes nothing, *)
(* however long it waited for the row.                                     *)
THEOREM LateChangesNothing == Spec => LateRequestsChangeNothing
  <1>1. Init => Timely
    BY DEF Init, Timely, NoRequest
  <1>2. IInv /\ Timely /\ [Next]_vars =>
          [\A s \in Sessions :
             \/ status[s] = "absent"
             \/ status'[s] = status[s] /\ item'[s] = item[s]
             \/ \E r \in Requests : /\ HoldsRow(r)
                                    /\ req'[r].pc = "idle"
                                    /\ req[r].session = s
                                    /\ req[r].at < expiresAt[s]]_vars
    BY LateStep
  <1>3. QED
    BY <1>1, <1>2, TimelyStep, Inductive, PTL DEF Spec, LateRequestsChangeNothing

-----------------------------------------------------------------------------
(* Statistics.                                                             *)

(* The count a commit computed misses at most the uploads that others      *)
(* published since: with its own upload it is never too high.              *)
CountsKnown ==
    \A r \in Requests : req[r].pc = "persisted" =>
        req[r].count <= RecomputedCount(context[req[r].session])

(* The uploads of a date are finitely many.                                *)
LEMMA UploadsFinite ==
  ASSUME NEW d
  PROVE  /\ UploadsOn(d) \subseteq UploadIds
         /\ IsFiniteSet(UploadsOn(d))
         /\ Cardinality(UploadsOn(d)) \in Nat
  <1>1. UploadsOn(d) \subseteq UploadIds
    BY DEF UploadsOn
  <1>2. IsFiniteSet(UploadsOn(d))
    BY <1>1, IdsAssumption, FS_Subset
  <1>3. QED
    BY <1>1, <1>2, FS_CardinalityType

(* A published upload is never changed, and its session's date neither.    *)
LEMMA UploadKept ==
  ASSUME IInv, [Next]_vars, NEW u \in UploadIds, upload[u] # None
  PROVE  /\ upload'[u] = upload[u]
         /\ context'[upload[u].session] = context[upload[u].session]
  <1>1. upload'[u] = upload[u]
    <2>1. ASSUME NEW r \in Requests, Publish(r)
          PROVE  upload'[u] = upload[u]
      BY <2>1 DEF Publish, IInv, TypeOK
    <2>2. CASE ~ \E r \in Requests : Publish(r)
      <3>1. upload' = upload
        BY <2>2 DEF Next, Work, CreateSession, Arrive, Begin, LockSession,
           PresignBatch, CompleteBatch, LookUpKeyword, PersistUpload, Rollback,
           PutObject, UpdateKeyword, DeleteKeyword, Tick, vars, uploadVars
      <3>2. QED
        BY ZenonT(40), <3>1
    <2>3. QED
      BY <2>1, <2>2
  <1>2. upload[u].session \in Sessions /\ status[upload[u].session] = "committed"
    BY DEF IInv, TypeOK, Upload, UploadMatchesSession, Published
  <1>3. QED
    BY <1>1, <1>2, Frozen

(* The uploads of a date only become more.                                 *)
LEMMA UploadsGrow ==
  ASSUME IInv, [Next]_vars, NEW d
  PROVE  /\ UploadsOn(d) \subseteq UploadsOn(d)'
         /\ Cardinality(UploadsOn(d)) <= Cardinality(UploadsOn(d)')
         /\ Cardinality(UploadsOn(d)') \in Nat
  <1>1. UploadsOn(d) \subseteq UploadsOn(d)'
    <2>1. ASSUME NEW u \in UploadsOn(d)
          PROVE  u \in UploadsOn(d)'
      <3>1. u \in UploadIds /\ upload[u] # None /\ context[upload[u].session] = d
        BY DEF UploadsOn
      <3>2. upload'[u] # None /\ context'[upload'[u].session] = d
        BY <3>1, UploadKept
      <3>3. QED
        BY <3>1, <3>2 DEF UploadsOn
    <2>2. QED
      BY <2>1
  <1>2. UploadsOn(d)' \subseteq UploadIds
    BY DEF UploadsOn
  <1>3. IsFiniteSet(UploadsOn(d)')
    BY <1>2, IdsAssumption, FS_Subset
  <1>4. QED
    BY <1>1, <1>3, FS_Subset, FS_CardinalityType

(* A commit that publishes adds one upload to its date.                    *)
LEMMA PublishAddsOne ==
  ASSUME IInv, NEW r \in Requests, Publish(r),
         NEW d, d = context[req[r].session]
  PROVE  Cardinality(UploadsOn(d)') = RecomputedCount(d)
  <1> DEFINE s == req[r].session
             new == NewUpload(s, req[r].agg.items)
  <1>1. PICK u \in UploadIds : /\ upload[u] = None
                              /\ upload' = [upload EXCEPT ![u] = new]
    BY DEF Publish
  <1>2. context' = context
    BY DEF Publish
  <1>3. /\ upload'[u] = new /\ new # None /\ new.session = s
        /\ \A v \in UploadIds \ {u} : upload'[v] = upload[v]
    <2>1. s \in Sessions /\ CommitItems(req[r].agg.items)
      BY DEF Publish, IInv, RequestsNameSessions, CommitsChecked
    <2>2. req[r].agg.items \in [Clients -> Item]
      BY DEF IInv, TypeOK, Request, Aggregate
    <2>3. new \in Upload
      BY <2>1, <2>2, NewUploadType
    <2>4. new.session = s
      BY DEF NewUpload
    <2>5. QED
      BY <1>1, <2>3, <2>4, NoneAssumption DEF IInv, TypeOK
  <1>4. UploadsOn(d)' = UploadsOn(d) \cup {u}
    <2>1. \A v \in UploadIds : (upload'[v] # None /\ context[upload'[v].session] = d)
             <=> (v = u \/ (upload[v] # None /\ context[upload[v].session] = d))
      BY <1>3
    <2>2. QED
      BY <1>2, <2>1 DEF UploadsOn
  <1>5. u \notin UploadsOn(d)
    BY <1>1 DEF UploadsOn
  <1>6. QED
    BY <1>4, <1>5, UploadsFinite, FS_AddElement DEF RecomputedCount

(* Others can only publish more before a commit's count is written.        *)
LEMMA CountsKnownStep == IInv /\ CountsKnown /\ [Next]_vars => CountsKnown'
  <1> SUFFICES ASSUME IInv, CountsKnown, [Next]_vars,
                      NEW q \in Requests, req'[q].pc = "persisted"
               PROVE  req'[q].count <= RecomputedCount(context[req[q].session])'
    BY DEF CountsKnown
  <1>1. PICK d : d = context[req[q].session]
    OBVIOUS
  <1>2. /\ req'[q].session = req[q].session /\ req[q].pc # "idle"
        /\ req'[q].count \in Nat
        /\ req'[q].count <= RecomputedCount(d)
    <2>1. CASE req'[q] = req[q]
      BY <1>1, <2>1 DEF CountsKnown, IInv, TypeOK, Request
    <2>2. CASE PersistUpload(q)
      <3>1. /\ req'[q].session = req[q].session /\ req[q].pc # "idle"
            /\ req'[q].count = RecomputedCount(d)
        BY <1>1, <2>2 DEF PersistUpload, IInv, TypeOK, Request
      <3>2. QED
        BY <3>1, CountIsNat
    <2>3. QED
      BY <2>1, <2>2, PersistedStep
  <1>3. context'[req'[q].session] = d
    <2>1. req[q].session \in Sessions /\ status[req[q].session] # "absent"
      BY <1>2 DEF IInv, RequestsNameSessions
    <2>2. QED
      BY <1>1, <1>2, <2>1, Frozen
  <1>4. RecomputedCount(d) <= RecomputedCount(d)' /\ RecomputedCount(d)' \in Nat
    BY UploadsGrow, UploadsFinite DEF RecomputedCount
  <1>5. RecomputedCount(context[req[q].session])' = RecomputedCount(d)'
    BY <1>3
  <1>6. QED
    BY <1>2, <1>4, <1>5, CountIsNat

(* Every step keeps the statistics at or below the number of uploads.      *)
LEMMA StatsStep ==
  IInv /\ CountsKnown /\ StatsNeverOvercount /\ [Next]_vars => StatsNeverOvercount'
  <1> SUFFICES ASSUME IInv, CountsKnown, StatsNeverOvercount, [Next]_vars,
                      NEW d \in Dates
               PROVE  stats'[d] <= Cardinality(UploadsOn(d)')
    BY DEF StatsNeverOvercount
  <1>1. stats[d] \in Nat /\ stats[d] <= Cardinality(UploadsOn(d)')
    <2>1. stats[d] \in Nat /\ stats[d] <= Cardinality(UploadsOn(d))
      BY DEF IInv, TypeOK, StatsNeverOvercount
    <2>2. QED
      BY <2>1, UploadsGrow, UploadsFinite
  <1>2. ASSUME NEW r \in Requests, Publish(r)
        PROVE  stats'[d] <= Cardinality(UploadsOn(d)')
    <2>1. CASE d = context[req[r].session]
      <3>1. stats'[d] = req[r].count /\ req[r].count <= RecomputedCount(d)
        BY <1>2, <2>1 DEF Publish, CountsKnown
      <3>2. QED
        BY <1>2, <2>1, <3>1, PublishAddsOne
    <2>2. CASE d # context[req[r].session]
      <3>1. stats'[d] = stats[d]
        BY <1>2, <2>2 DEF Publish
      <3>2. QED
        BY <1>1, <3>1
    <2>3. QED
      BY <2>1, <2>2
  <1>3. CASE ~ \E r \in Requests : Publish(r)
    <2>1. stats' = stats
      BY <1>3 DEF Next, Work, CreateSession, Arrive, Begin, LockSession,
         PresignBatch, CompleteBatch, LookUpKeyword, PersistUpload, Rollback,
         PutObject, UpdateKeyword, DeleteKeyword, Tick, vars, uploadVars
    <2>2. QED
      BY ZenonT(40), <1>1, <2>1
  <1>4. QED
    BY <1>2, <1>3

(* No statistics count an upload that is not there, though commits write   *)
(* counts they computed before they waited for the row.                    *)
THEOREM StatsBounded == Spec => []StatsNeverOvercount
  <1>1. Init => CountsKnown /\ StatsNeverOvercount
    <2> SUFFICES ASSUME Init PROVE CountsKnown /\ StatsNeverOvercount
      OBVIOUS
    <2>1. CountsKnown
      BY DEF Init, CountsKnown, NoRequest
    <2>2. StatsNeverOvercount
      BY UploadsFinite DEF Init, StatsNeverOvercount
    <2>3. QED
      BY <2>1, <2>2
  <1>2. QED
    BY <1>1, CountsKnownStep, StatsStep, Inductive, PTL DEF Spec

-----------------------------------------------------------------------------
(* The files of an item.                                                   *)

(* Items, assets and objects that stay as they are, or objects that are    *)
(* written, keep the files in agreement.                                   *)
LEMMA FilesKept ==
  ASSUME FilesAgreeWithItem, UNCHANGED <<item, asset>>,
         \A s \in Sessions, c \in Clients, k \in Kinds :
            object[s][c][k] # "absent" => object'[s][c][k] # "absent"
  PROVE  FilesAgreeWithItem'
  BY DEF FilesAgreeWithItem, Existing, KindsOf, Kinds

(* A new item is pending and so are its assets.                            *)
LEMMA PresignBatchFiles ==
  ASSUME IInv, FilesAgreeWithItem, NEW r \in Requests, PresignBatch(r)
  PROVE  FilesAgreeWithItem'
  <1> DEFINE s == req[r].session
             items == req[r].agg.items
  <1>1. s \in Sessions
    BY DEF PresignBatch, IInv, RequestsNameSessions
  <1>2. PICK batch \in (SUBSET Clients) \ {{}} :
        \E audio \in [batch -> AudioChoices] :
          /\ item' = [item EXCEPT ![s] = [c \in Clients |->
                        IF c \in batch \ Existing(items)
                        THEN PendingItem(audio[c]) ELSE item[s][c]]]
          /\ asset' = [asset EXCEPT ![s] = [c \in Clients |->
                        IF c \in batch \ Existing(items)
                        THEN [k \in Kinds |->
                               IF k \in KindsOf(PendingItem(audio[c]))
                               THEN "pending_upload" ELSE "none"]
                        ELSE asset[s][c]]]
    BY DEF PresignBatch
  <1>3. PICK audio \in [batch -> AudioChoices] :
          /\ item' = [item EXCEPT ![s] = [c \in Clients |->
                        IF c \in batch \ Existing(items)
                        THEN PendingItem(audio[c]) ELSE item[s][c]]]
          /\ asset' = [asset EXCEPT ![s] = [c \in Clients |->
                        IF c \in batch \ Existing(items)
                        THEN [k \in Kinds |->
                               IF k \in KindsOf(PendingItem(audio[c]))
                               THEN "pending_upload" ELSE "none"]
                        ELSE asset[s][c]]]
    BY <1>2
  <1>4. object' = object
    BY DEF PresignBatch
  <1> SUFFICES ASSUME NEW q \in Sessions, NEW c \in Clients,
                      item'[q][c].status # "none",
                      NEW k \in KindsOf(item'[q][c])
               PROVE  /\ asset'[q][c][k] = item'[q][c].status
                      /\ item'[q][c].status = "uploaded" =>
                            object'[q][c][k] # "absent"
    BY DEF FilesAgreeWithItem, Existing
  <1>5. CASE q = s /\ c \in batch \ Existing(items)
    <2>1. item'[q][c] = PendingItem(audio[c])
      BY <1>1, <1>3, <1>5 DEF IInv, TypeOK
    <2>2. asset'[q][c] = [j \in Kinds |-> IF j \in KindsOf(PendingItem(audio[c]))
                                          THEN "pending_upload" ELSE "none"]
      BY <1>1, <1>3, <1>5 DEF IInv, TypeOK
    <2>3. item'[q][c].status = "pending_upload"
      BY <2>1 DEF PendingItem
    <2>4. k \in Kinds
      BY DEF KindsOf, Kinds
    <2>5. asset'[q][c][k] = "pending_upload"
      BY <2>1, <2>2, <2>4
    <2>6. QED
      BY <2>3, <2>5
  <1>6. CASE ~(q = s /\ c \in batch \ Existing(items))
    <2>1. item'[q][c] = item[q][c] /\ asset'[q][c] = asset[q][c]
      BY <1>1, <1>3, <1>6 DEF IInv, TypeOK
    <2>2. c \in Existing(item[q]) /\ k \in KindsOf(item[q][c])
      BY <2>1 DEF Existing
    <2>3. QED
      BY <1>4, <2>1, <2>2 DEF FilesAgreeWithItem
  <1>7. QED
    BY <1>5, <1>6

(* What completing marks as uploaded was seen in the object store.         *)
LEMMA CompleteBatchFiles ==
  ASSUME IInv, FilesAgreeWithItem, NEW r \in Requests, CompleteBatch(r)
  PROVE  FilesAgreeWithItem'
  <1> DEFINE s == req[r].session
             items == req[r].agg.items
  <1>1. s \in Sessions /\ items = item[s]
    <2>1. HoldsRow(r) /\ req[r].pc # "idle"
      BY DEF CompleteBatch, HoldsRow
    <2>2. req[r].agg = [status |-> status[s], items |-> item[s]]
      BY <2>1 DEF IInv, AggregateIsCurrent
    <2>3. QED
      BY <2>1, <2>2 DEF IInv, RequestsNameSessions
  <1>2. PICK batch \in (SUBSET Existing(items)) \ {{}} :
        \E order \in [batch -> 1..MaxOrder], cover \in batch \cup {None} :
          /\ \A c \in batch : \A k \in KindsOf(items[c]) : OwnedAssetUploaded(s, c, k)
          /\ item' = [item EXCEPT ![s] =
                        CompletedItems(item[s], batch, order, cover)]
          /\ asset' = [asset EXCEPT ![s] = [c \in Clients |->
                        [k \in Kinds |->
                           IF c \in batch /\ k \in KindsOf(items[c])
                           THEN "uploaded" ELSE asset[s][c][k]]]]
    BY DEF CompleteBatch
  <1>3. PICK order \in [batch -> 1..MaxOrder], cover \in batch \cup {None} :
          /\ \A c \in batch : \A k \in KindsOf(items[c]) : OwnedAssetUploaded(s, c, k)
          /\ item' = [item EXCEPT ![s] =
                        CompletedItems(item[s], batch, order, cover)]
          /\ asset' = [asset EXCEPT ![s] = [c \in Clients |->
                        [k \in Kinds |->
                           IF c \in batch /\ k \in KindsOf(items[c])
                           THEN "uploaded" ELSE asset[s][c][k]]]]
    BY <1>2
  <1>4. object' = object
    BY DEF CompleteBatch
  <1> SUFFICES ASSUME NEW q \in Sessions, NEW c \in Clients,
                      item'[q][c].status # "none",
                      NEW k \in KindsOf(item'[q][c])
               PROVE  /\ asset'[q][c][k] = item'[q][c].status
                      /\ item'[q][c].status = "uploaded" =>
                            object'[q][c][k] # "absent"
    BY DEF FilesAgreeWithItem, Existing
  <1>5. k \in Kinds
    BY DEF KindsOf, Kinds
  <1>6. CASE q = s /\ c \in batch
    <2>1. item'[q][c] = CompletedItem(item[s][c], order[c], c = cover)
      BY <1>1, <1>3, <1>6 DEF IInv, TypeOK, CompletedItems
    <2>2. item'[q][c].status = "uploaded" /\ item'[q][c].audio = items[c].audio
      BY <1>1, <2>1 DEF CompletedItem
    <2>3. k \in KindsOf(items[c])
      BY <2>2 DEF KindsOf
    <2>4. asset'[q][c][k] = "uploaded"
      BY <1>1, <1>3, <1>5, <1>6, <2>3 DEF IInv, TypeOK
    <2>5. object[q][c][k] # "absent"
      BY <1>3, <1>6, <2>3 DEF OwnedAssetUploaded
    <2>6. QED
      BY <1>4, <2>2, <2>4, <2>5
  <1>7. CASE ~(q = s /\ c \in batch)
    <2>1. /\ item'[q][c].status = item[q][c].status
          /\ item'[q][c].audio = item[q][c].audio
      <3>1. CASE q = s
        <4>1. item'[q][c] = [item[s][c] EXCEPT !.cover = @ /\ cover = None]
          BY <1>1, <1>3, <1>7, <3>1 DEF IInv, TypeOK, CompletedItems
        <4>2. item[s][c] \in Item
          BY <1>1 DEF IInv, TypeOK
        <4>3. QED
          BY <3>1, <4>1, <4>2 DEF Item
      <3>2. CASE q # s
        BY <1>1, <1>3, <3>2 DEF IInv, TypeOK
      <3>3. QED
        BY <3>1, <3>2
    <2>2. c \in Existing(item[q]) /\ k \in KindsOf(item[q][c])
      BY <2>1 DEF Existing, KindsOf
    <2>3. asset'[q][c][k] = asset[q][c][k]
      BY <1>1, <1>3, <1>5, <1>7 DEF IInv, TypeOK
    <2>4. QED
      BY <1>4, <2>1, <2>2, <2>3 DEF FilesAgreeWithItem
  <1>8. QED
    BY <1>6, <1>7

(* Every step keeps items, assets and objects in agreement.                *)
LEMMA FilesStep == IInv /\ FilesAgreeWithItem /\ [Next]_vars => FilesAgreeWithItem'
  <1> SUFFICES ASSUME IInv, FilesAgreeWithItem, [Next]_vars
               PROVE  FilesAgreeWithItem'
    OBVIOUS
  <1>1. ASSUME NEW r \in Requests, PresignBatch(r) \/ CompleteBatch(r)
        PROVE  FilesAgreeWithItem'
    BY <1>1, PresignBatchFiles, CompleteBatchFiles
  <1>2. ASSUME NEW s \in Sessions, NEW c \in Clients, NEW k \in Kinds,
               NEW v \in {"bad", "good"}, PutObject(s, c, k, v)
        PROVE  FilesAgreeWithItem'
    <2>1. UNCHANGED <<item, asset>>
      BY <1>2 DEF PutObject, itemVars
    <2>2. \A t \in Sessions, d \in Clients, j \in Kinds :
            object'[t][d][j] = v \/ object'[t][d][j] = object[t][d][j]
      BY SMTT(30), <1>2 DEF PutObject, IInv, TypeOK
    <2>3. QED
      BY <2>1, <2>2, FilesKept
  <1>3. CASE /\ ~ \E r \in Requests : PresignBatch(r) \/ CompleteBatch(r)
             /\ ~ \E s \in Sessions, c \in Clients, k \in Kinds,
                     v \in {"bad", "good"} : PutObject(s, c, k, v)
    <2>1. UNCHANGED <<item, asset, object>>
      BY <1>3 DEF Next, Work, CreateSession, Arrive, Begin, LockSession,
         LookUpKeyword, PersistUpload, Publish, Rollback, UpdateKeyword,
         DeleteKeyword, Tick, vars, itemVars
    <2>2. QED
      BY ZenonT(40), <2>1, FilesKept
  <1>4. QED
    BY <1>1, <1>2, <1>3

(* No work shows an image that never arrived in the object store.          *)
THEOREM FilesAgree == Spec => []FilesAgreeWithItem
  <1>1. Init => FilesAgreeWithItem
    BY DEF Init, FilesAgreeWithItem, Existing, NoItem
  <1>2. QED
    BY <1>1, FilesStep, Inductive, PTL DEF Spec

=============================================================================
