--------------------------- MODULE PublishSession ---------------------------
(***************************************************************************)
(* Publishing images: a session is opened, images are presigned, uploaded  *)
(* by the client straight into the object store, completed, and the        *)
(* session is committed into one work upload.                              *)
(*                                                                         *)
(* Every request runs the steps of its handler: it reads the clock, gets a *)
(* pool connection and begins a READ COMMITTED transaction, waits for the  *)
(* row lock of the session (SELECT ... FOR UPDATE), reads the aggregate    *)
(* and then writes.  The writes of a transaction are private until it      *)
(* commits, so they take effect in its last step.  The body of a request   *)
(* is first looked at when the lock is held, so it is chosen there.        *)
(*                                                                         *)
(* Every request is made by the owner of the session: the queries filter   *)
(* by owner_user_id, and a request of anyone else finds no row.            *)
(***************************************************************************)
EXTENDS Integers, FiniteSets

CONSTANTS
    Requests,        \* slots for the HTTP requests in progress
    Sessions,        \* ids of publish_sessions rows
    Clients,         \* client_image_id values; with a session, an item
    UploadIds,       \* ids of work_uploads rows
    Dates,           \* biz_date values: contexts of official sessions
    CustomKeywords,  \* contexts of custom sessions
    AudioChoices,    \* may an item have an audio file: a subset of BOOLEAN
    MaxOrder,        \* bound on the display_order a client submits
    PoolSize,        \* MaxConns of the connection pool
    TTL,             \* publishSessionTTL, in ticks
    MaxTime,         \* bound on the clock
    None             \* SQL NULL

ASSUME NumbersAssumption ==
    /\ MaxOrder \in Nat
    /\ PoolSize \in Nat
    /\ TTL \in Nat
    /\ MaxTime \in Nat
ASSUME IdsAssumption ==
    /\ None \notin Requests \cup Sessions \cup Clients \cup UploadIds
    /\ None \notin Dates \cup CustomKeywords
    /\ Dates \cap CustomKeywords = {}
    /\ AudioChoices \subseteq BOOLEAN
    /\ IsFiniteSet(Clients)
    /\ IsFiniteSet(UploadIds)

VARIABLES
    now,            \* the clock of the server
    status,         \* publish_sessions.status, "absent" before the INSERT
    context,        \* the date or the custom keyword of the session
    expiresAt,      \* publish_sessions.expires_at
    link,           \* publish_sessions.published_upload_id
    item,           \* publish_session_items
    asset,          \* media_assets.status of an item's image and audio file
    object,         \* what the object store holds under the asset's key
    upload,         \* work_uploads with their work_upload_images
    stats,          \* daily_keyword_stats.upload_count
    keywordStatus,  \* custom_keywords.status
    lock,           \* which request's transaction holds the session row
    req             \* the requests in progress

sessionVars == <<status, context, expiresAt, link>>
itemVars == <<item, asset>>
uploadVars == <<upload, stats>>
vars == <<now, status, context, expiresAt, link, item, asset, object,
          upload, stats, keywordStatus, lock, req>>

-----------------------------------------------------------------------------
(* Types.                                                                  *)

SessionStatus == {"absent", "created", "committed", "canceled", "expired"}
ItemStatus == {"none", "pending_upload", "uploaded"}
AssetStatus == {"none", "pending_upload", "uploaded"}
Kinds == {"image", "audio"}
Contexts == Dates \cup CustomKeywords
Ops == {"presign", "complete", "commit"}

(* order 0 stands for a NULL display_order. *)
Item == [status : ItemStatus, order : 0..MaxOrder,
         cover : BOOLEAN, audio : BOOLEAN]
NoItem == [status |-> "none", order |-> 0, cover |-> FALSE, audio |-> FALSE]

(* What loadAggregateForUpdate returns. *)
Aggregate == [status : SessionStatus, items : [Clients -> Item]]
NoAggregate == [status |-> "absent", items |-> [c \in Clients |-> NoItem]]

(* An upload's images are the image assets of the items of a session; the  *)
(* order is 0 for an item without an image in the upload.                  *)
Upload == [session : Sessions, order : [Clients -> 0..MaxOrder],
           cover : Clients]
ASSUME NoneAssumption == None \notin Upload

(* pc: arrived - waiting for a pool connection; waiting - in a transaction *)
(* that waits for the session row; locked - holds the row; checked - a     *)
(* commit that looked up the keyword; persisted - a commit that made all   *)
(* its writes.  at is the value of s.now() the handler keeps, count the    *)
(* number of uploads its recomputation of the statistics counted.          *)
Request == [pc : {"idle", "arrived", "waiting", "locked", "checked",
                  "persisted"},
            op : Ops \cup {None}, session : Sessions \cup {None},
            at : 0..MaxTime, agg : Aggregate, count : Nat]
NoRequest == [pc |-> "idle", op |-> None, session |-> None, at |-> 0,
              agg |-> NoAggregate, count |-> 0]

TypeOK ==
    /\ now \in 0..MaxTime
    /\ status \in [Sessions -> SessionStatus]
    /\ context \in [Sessions -> Contexts \cup {None}]
    /\ expiresAt \in [Sessions -> 0..(MaxTime + TTL)]
    /\ link \in [Sessions -> UploadIds \cup {None}]
    /\ item \in [Sessions -> [Clients -> Item]]
    /\ asset \in [Sessions -> [Clients -> [Kinds -> AssetStatus]]]
    /\ object \in [Sessions -> [Clients -> [Kinds -> {"absent", "bad", "good"}]]]
    /\ upload \in [UploadIds -> Upload \cup {None}]
    /\ stats \in [Dates -> Nat]
    /\ keywordStatus \in [CustomKeywords -> {"active", "inactive", "deleted"}]
    /\ lock \in [Sessions -> Requests \cup {None}]
    /\ req \in [Requests -> Request]

Init ==
    /\ now = 0
    /\ status = [s \in Sessions |-> "absent"]
    /\ context = [s \in Sessions |-> None]
    /\ expiresAt = [s \in Sessions |-> 0]
    /\ link = [s \in Sessions |-> None]
    /\ item = [s \in Sessions |-> [c \in Clients |-> NoItem]]
    /\ asset = [s \in Sessions |-> [c \in Clients |-> [k \in Kinds |-> "none"]]]
    /\ object = [s \in Sessions |-> [c \in Clients |-> [k \in Kinds |-> "absent"]]]
    /\ upload = [u \in UploadIds |-> None]
    /\ stats = [d \in Dates |-> 0]
    /\ keywordStatus = [k \in CustomKeywords |-> "active"]
    /\ lock = [s \in Sessions |-> None]
    /\ req = [r \in Requests |-> NoRequest]

-----------------------------------------------------------------------------
(* Opening a session.  The check of the keyword and the INSERT are separate *)
(* statements; a keyword that is closed in between gives the same states    *)
(* as one that is closed after the INSERT.                                  *)

KeywordAccepted(x) == x \in CustomKeywords => keywordStatus[x] = "active"

CreateSession(s, x) ==
    /\ status[s] = "absent"
    /\ KeywordAccepted(x)
    /\ status' = [status EXCEPT ![s] = "created"]
    /\ context' = [context EXCEPT ![s] = x]
    /\ expiresAt' = [expiresAt EXCEPT ![s] = now + TTL]
    /\ UNCHANGED <<now, link, item, asset, object, upload, stats,
                   keywordStatus, lock, req>>

-----------------------------------------------------------------------------
(* The transaction every other request runs in (WithTx).                   *)

HoldsConnection(r) == req[r].pc \in {"waiting", "locked", "checked", "persisted"}

(* A plausible bug: the lookup inside the transaction takes two more       *)
(* connections.                                                            *)
FreeConnectionPair ==
    Cardinality({r \in Requests : HoldsConnection(r)}) + 1 < PoolSize

FreeConnection == Cardinality({r \in Requests : HoldsConnection(r)}) < PoolSize

(* presign and complete read the clock before they begin; commit reads it  *)
(* when it holds the row.                                                  *)
Arrive(r, o, s) ==
    /\ req[r].pc = "idle"
    /\ status[s] # "absent"
    /\ req' = [req EXCEPT ![r] = [NoRequest EXCEPT !.pc = "arrived", !.op = o,
                  !.session = s, !.at = IF o = "commit" THEN 0 ELSE now]]
    /\ UNCHANGED <<now, sessionVars, itemVars, object, uploadVars,
                   keywordStatus, lock>>

Begin(r) ==
    /\ req[r].pc = "arrived"
    /\ FreeConnection
    /\ req' = [req EXCEPT ![r].pc = "waiting"]
    /\ UNCHANGED <<now, sessionVars, itemVars, object, uploadVars,
                   keywordStatus, lock>>

(* A plausible bug: the SELECT without FOR UPDATE. *)
LockSessionUnlocked(r) ==
    /\ req[r].pc = "waiting"
    /\ lock' = lock
    /\ req' = [req EXCEPT ![r].pc = "locked",
                          ![r].agg = [status |-> status[req[r].session],
                                      items |-> item[req[r].session]]]
    /\ UNCHANGED <<now, sessionVars, itemVars, object, uploadVars,
                   keywordStatus>>

LockSession(r) ==
    /\ req[r].pc = "waiting"
    /\ lock[req[r].session] = None
    /\ lock' = [lock EXCEPT ![req[r].session] = r]
    /\ req' = [req EXCEPT ![r].pc = "locked",
                          ![r].agg = [status |-> status[req[r].session],
                                      items |-> item[req[r].session]]]
    /\ UNCHANGED <<now, sessionVars, itemVars, object, uploadVars,
                   keywordStatus>>

(* The transaction commits or rolls back: the row lock and the connection  *)
(* are released.                                                           *)
EndTx(r) ==
    /\ req' = [req EXCEPT ![r] = NoRequest]
    /\ lock' = [s \in Sessions |-> IF lock[s] = r THEN None ELSE lock[s]]

(* A plausible bug: the write of the status "expired", which also clears   *)
(* published_upload_id, is committed.                                      *)
RollbackKeepsExpiry(r) ==
    LET s == req[r].session
        expires == /\ req[r].pc = "locked" /\ req[r].op # "commit"
                   /\ req[r].at >= expiresAt[s]
    IN  /\ req[r].pc # "idle"
        /\ EndTx(r)
        /\ status' = IF expires THEN [status EXCEPT ![s] = "expired"] ELSE status
        /\ link' = IF expires THEN [link EXCEPT ![s] = None] ELSE link
        /\ UNCHANGED <<now, context, expiresAt, itemVars, object, uploadVars,
                       keywordStatus>>

(* Every error the handler returns, a lost connection, a cancelled request *)
(* and a crash of the server undo all the writes of the transaction.  That *)
(* includes the status "expired" that presign and complete write just      *)
(* before they return ErrUploadPublishExpired.                             *)
Rollback(r) ==
    /\ req[r].pc # "idle"
    /\ EndTx(r)
    /\ UNCHANGED <<now, sessionVars, itemVars, object, uploadVars,
                   keywordStatus>>

(* Plausible bugs: no check of the deadline; a status check that leaves    *)
(* out the committed sessions.                                             *)
MutableForEver(agg, deadline, t) ==
    agg.status \notin {"committed", "canceled", "expired"}
MutableUntilExpiry(agg, deadline, t) ==
    t < deadline /\ agg.status \notin {"canceled", "expired"}

Mutable(agg, deadline, t) ==
    /\ t < deadline
    /\ agg.status \notin {"committed", "canceled", "expired"}

-----------------------------------------------------------------------------
(* Presigning a batch of items: a new item gets a pending row and pending  *)
(* assets, a pending item with the same files is presigned again.          *)

PendingItem(withAudio) ==
    [status |-> "pending_upload", order |-> 0, cover |-> FALSE,
     audio |-> withAudio]
KindsOf(i) == IF i.audio THEN Kinds ELSE {"image"}
Existing(items) == {c \in Clients : items[c].status # "none"}

PresignReusable(s, c, i, withAudio) ==
    /\ i.status = "pending_upload"
    /\ i.audio = withAudio
    /\ \A k \in KindsOf(i) : asset[s][c][k] = "pending_upload"

PresignBatch(r) ==
    LET s == req[r].session
        items == req[r].agg.items
    IN  /\ req[r].pc = "locked" /\ req[r].op = "presign"
        /\ Mutable(req[r].agg, expiresAt[s], req[r].at)
        /\ \E batch \in (SUBSET Clients) \ {{}} :
           \E audio \in [batch -> AudioChoices] :
             LET new == batch \ Existing(items) IN
             /\ \A c \in batch \ new :
                   PresignReusable(s, c, items[c], audio[c])
             /\ item' = [item EXCEPT ![s] = [c \in Clients |->
                           IF c \in new THEN PendingItem(audio[c])
                           ELSE item[s][c]]]
             /\ asset' = [asset EXCEPT ![s] = [c \in Clients |->
                           IF c \in new
                           THEN [k \in Kinds |->
                                  IF k \in KindsOf(PendingItem(audio[c]))
                                  THEN "pending_upload" ELSE "none"]
                           ELSE asset[s][c]]]
        /\ EndTx(r)
        /\ UNCHANGED <<now, sessionVars, object, uploadVars, keywordStatus>>

(* The client sends a file to the presigned target.  The token names only  *)
(* the key: it can be used again, with a file of another size.             *)
PutObject(s, c, k, content) ==
    /\ asset[s][c][k] # "none"
    /\ object' = [object EXCEPT ![s][c][k] = content]
    /\ UNCHANGED <<now, sessionVars, itemVars, uploadVars, keywordStatus,
                   lock, req>>

-----------------------------------------------------------------------------
(* Completing a batch.  Items are upserted one by one in the order of the  *)
(* request: the unique index on (session_id, display_order) is not         *)
(* deferred, so an item cannot take the order of an item the batch moves   *)
(* only later.                                                             *)

(* A plausible bug: the object is not looked up in the store. *)
OwnedAssetAssumed(s, c, k) ==
    asset[s][c][k] \in {"pending_upload", "uploaded"}

OwnedAssetUploaded(s, c, k) ==
    /\ object[s][c][k] = "good"
    /\ asset[s][c][k] \in {"pending_upload", "uploaded"}

OrderTaken(items, batch, order, position) ==
    \E c \in batch, d \in Existing(items) :
        /\ c # d
        /\ items[d].order = order[c]
        /\ d \in batch => position[d] > position[c]

(* A plausible bug: the item follows the later statuses of its asset. *)
CompletedItemProcessing(i, order, isCover) ==
    [status |-> "processing", order |-> order, cover |-> isCover,
     audio |-> i.audio]

CompletedItem(i, order, isCover) ==
    [status |-> "uploaded", order |-> order, cover |-> isCover,
     audio |-> i.audio]

(* A plausible bug: the cover set by an earlier batch is not cleared. *)
CompletedItemsKeepCover(items, batch, order, cover) ==
    [c \in Clients |->
        IF c \in batch THEN CompletedItem(items[c], order[c], c = cover)
        ELSE items[c]]

(* ClearSessionItemCover runs only when the batch names a cover. *)
CompletedItems(items, batch, order, cover) ==
    [c \in Clients |->
        IF c \in batch THEN CompletedItem(items[c], order[c], c = cover)
        ELSE [items[c] EXCEPT !.cover = @ /\ cover = None]]

CompleteBatch(r) ==
    LET s == req[r].session
        items == req[r].agg.items
    IN  /\ req[r].pc = "locked" /\ req[r].op = "complete"
        /\ Mutable(req[r].agg, expiresAt[s], req[r].at)
        /\ \E batch \in (SUBSET Existing(items)) \ {{}} :
           \E order \in [batch -> 1..MaxOrder], cover \in batch \cup {None},
              position \in [batch -> 1..Cardinality(batch)] :
             /\ \A c, d \in batch :
                   c # d => order[c] # order[d] /\ position[c] # position[d]
             /\ \A c \in batch : \A k \in KindsOf(items[c]) :
                   OwnedAssetUploaded(s, c, k)
             /\ ~OrderTaken(item[s], batch, order, position)
             /\ item' = [item EXCEPT ![s] =
                           CompletedItems(item[s], batch, order, cover)]
             /\ asset' = [asset EXCEPT ![s] = [c \in Clients |->
                           [k \in Kinds |->
                              IF c \in batch /\ k \in KindsOf(items[c])
                              THEN "uploaded" ELSE asset[s][c][k]]]]
        /\ EndTx(r)
        /\ UNCHANGED <<now, sessionVars, object, uploadVars, keywordStatus>>

-----------------------------------------------------------------------------
(* Committing a session.                                                   *)

Covers(items) == {c \in Existing(items) : items[c].cover}

(* A plausible bug: the orders are not checked for gaps. *)
CommitItemsWithGaps(items) ==
    LET images == Existing(items) IN
    /\ images # {}
    /\ \A c \in images : items[c].status = "uploaded" /\ items[c].order > 0
    /\ \A c, d \in images : c # d => items[c].order # items[d].order
    /\ \E c \in images : Covers(items) = {c}

(* commitItems: sorted by display_order the images are numbered 1, 2, ...  *)
CommitItems(items) ==
    LET images == Existing(items) IN
    /\ images # {}
    /\ \A c \in images : items[c].status = "uploaded" /\ items[c].order > 0
    /\ \A c, d \in images : c # d => items[c].order # items[d].order
    /\ \E c \in images : Covers(items) = {c}
    /\ {items[c].order : c \in images} = 1..Cardinality(images)

(* The assignment of the date or the custom keyword is looked up through   *)
(* the pool, outside the transaction: it takes a second connection.        *)
LookUpKeyword(r) ==
    /\ req[r].pc = "locked" /\ req[r].op = "commit"
    /\ FreeConnection
    /\ KeywordAccepted(context[req[r].session])
    /\ req' = [req EXCEPT ![r].pc = "checked"]
    /\ UNCHANGED <<now, sessionVars, itemVars, object, uploadVars,
                   keywordStatus, lock>>

UploadsOn(d) == {u \in UploadIds : /\ upload[u] # None
                                   /\ context[upload[u].session] = d}

(* A plausible bug: the uploads of every date are counted. *)
RecomputedCountOfAll(d) == Cardinality({u \in UploadIds : upload[u] # None}) + 1

(* The aggregate sees the committed uploads and the transaction's own. *)
RecomputedCount(d) == Cardinality(UploadsOn(d)) + 1

(* validateAssetOwnership: the audio files only. *)
AudioUploaded(s, items) ==
    \A c \in Existing(items) : items[c].audio => asset[s][c]["audio"] = "uploaded"

(* The writes, up to the statistics: the aggregate of that last statement  *)
(* is read from its own snapshot, which holds the uploads committed so far *)
(* and the one this transaction inserts.                                   *)
PersistUpload(r) ==
    LET s == req[r].session
        agg == req[r].agg
    IN  /\ req[r].pc = "checked"
        /\ Mutable(agg, expiresAt[s], now)
        /\ agg.status = "created"
        /\ CommitItems(agg.items)
        /\ AudioUploaded(s, agg.items)
        /\ req' = [req EXCEPT ![r].pc = "persisted", ![r].at = now,
                              ![r].count = RecomputedCount(context[s])]
        /\ UNCHANGED <<now, sessionVars, itemVars, object, uploadVars,
                       keywordStatus, lock>>

NewUpload(s, items) ==
    [session |-> s, order |-> [c \in Clients |-> items[c].order],
     cover |-> CHOOSE c \in Clients : c \in Covers(items)]

(* The row of the statistics may be locked by another commit on the same   *)
(* date; the upsert then waits, and still writes the counts of its own     *)
(* snapshot.                                                               *)
Publish(r) ==
    LET s == req[r].session IN
    /\ req[r].pc = "persisted"
    /\ \E u \in UploadIds :
         /\ upload[u] = None
         /\ upload' = [upload EXCEPT ![u] = NewUpload(s, req[r].agg.items)]
         /\ link' = [link EXCEPT ![s] = u]
    /\ status' = [status EXCEPT ![s] = "committed"]
    /\ stats' = [d \in Dates |-> IF d = context[s] THEN req[r].count
                                 ELSE stats[d]]
    /\ EndTx(r)
    /\ UNCHANGED <<now, context, expiresAt, itemVars, object, keywordStatus>>

-----------------------------------------------------------------------------
(* The owner closes, reopens or deletes a custom keyword at any time.      *)

UpdateKeyword(k, next) ==
    /\ keywordStatus[k] # "deleted"
    /\ keywordStatus' = [keywordStatus EXCEPT ![k] = next]
    /\ UNCHANGED <<now, sessionVars, itemVars, object, uploadVars, lock, req>>

DeleteKeyword(k) ==
    /\ keywordStatus[k] # "deleted"
    /\ keywordStatus' = [keywordStatus EXCEPT ![k] = "deleted"]
    /\ UNCHANGED <<now, sessionVars, itemVars, object, uploadVars, lock, req>>

Tick ==
    /\ now < MaxTime
    /\ now' = now + 1
    /\ UNCHANGED <<sessionVars, itemVars, object, uploadVars, keywordStatus,
                   lock, req>>

(* The steps of request r once it has arrived, Rollback aside. *)
Work(r) ==
    \/ Begin(r)
    \/ LockSession(r)
    \/ PresignBatch(r)
    \/ CompleteBatch(r)
    \/ LookUpKeyword(r)
    \/ PersistUpload(r)
    \/ Publish(r)

Next ==
    \/ \E s \in Sessions, x \in Contexts : CreateSession(s, x)
    \/ \E r \in Requests, o \in Ops, s \in Sessions : Arrive(r, o, s)
    \/ \E r \in Requests : Work(r) \/ Rollback(r)
    \/ \E s \in Sessions, c \in Clients, k \in Kinds, v \in {"bad", "good"} :
          PutObject(s, c, k, v)
    \/ \E k \in CustomKeywords, st \in {"active", "inactive"} :
          UpdateKeyword(k, st)
    \/ \E k \in CustomKeywords : DeleteKeyword(k)
    \/ Tick

Spec == Init /\ [][Next]_vars

-----------------------------------------------------------------------------
(* What must never go wrong.                                               *)

Published(u) == upload[u] # None
HoldsRow(r) == req[r].pc \in {"locked", "checked", "persisted"}

(* Commit, however it races with itself or is sent again after a lost      *)
(* response, publishes the images of a session in at most one work upload  *)
(* (CommitSession, MarkCommitted).                                         *)
OneUploadPerSession ==
    \A u, v \in UploadIds :
        /\ Published(u)
        /\ Published(v)
        /\ upload[u].session = upload[v].session
        => u = v

(* A work upload and its session agree for ever: the session is committed  *)
(* and names the upload, whose images, order and cover are those of the    *)
(* session's items, numbered 1..n with one cover - though presigning or    *)
(* completing may race with the commit (persistCommittedUpload).           *)
UploadMatchesSession ==
    \A u \in UploadIds : Published(u) =>
        LET s == upload[u].session IN
        /\ status[s] = "committed"
        /\ link[s] = u
        /\ upload[u] = NewUpload(s, item[s])
        /\ CommitItems(item[s])

(* A committed session names an upload of its own, and no other session    *)
(* names any (the two writes of UpdateSession are never torn).             *)
CommittedHasUpload ==
    \A s \in Sessions :
        /\ (status[s] = "committed") = (link[s] # None)
        /\ link[s] # None => /\ Published(link[s])
                             /\ upload[link[s]].session = s

(* An item and its media_assets rows agree on what is uploaded, and what   *)
(* counts as uploaded was seen in the object store (ensureOwnedAsset-      *)
(* Uploaded): no work shows an image that never arrived.                   *)
FilesAgreeWithItem ==
    \A s \in Sessions : \A c \in Existing(item[s]) :
        \A k \in KindsOf(item[s][c]) :
            /\ asset[s][c][k] = item[s][c].status
            /\ item[s][c].status = "uploaded" => object[s][c][k] # "absent"

(* After any sequence of partial completions a session has at most one     *)
(* cover, no two items share a display_order, and an item that was not     *)
(* completed has neither (ClearSessionItemCover, the unique index on       *)
(* display_order).                                                         *)
ItemsConsistent ==
    \A s \in Sessions, c \in Clients :
        /\ item[s][c].status # "uploaded" =>
              item[s][c].order = 0 /\ ~item[s][c].cover
        /\ \A d \in Clients \ {c} :
              /\ ~(item[s][c].cover /\ item[s][d].cover)
              /\ item[s][c].order > 0 => item[s][c].order # item[s][d].order

(* The statistics of a date never count an upload that is not there,       *)
(* whatever snapshots concurrent commits computed them from                *)
(* (RecomputeDailyKeywordStatsFromUploads).                                *)
StatsNeverOvercount ==
    \A d \in Dates : stats[d] <= Cardinality(UploadsOn(d))

(* Once a commit that published has ended, the number shown for a date is  *)
(* the number of its uploads (official_upload_flow_test.go:164 expects the *)
(* count of the only upload just committed).                               *)
StatsExactAtRest ==
    (\A r \in Requests : req[r].pc = "idle") =>
        \A d \in Dates : stats[d] = Cardinality(UploadsOn(d))

(* A request that holds the row decides on the row as it is: the aggregate *)
(* it read cannot be stale when its writes take effect (FOR UPDATE in      *)
(* GetPublishSessionByIDForOwnerForUpdate).                                *)
AggregateIsCurrent ==
    \A r \in Requests : HoldsRow(r) =>
        req[r].agg = [status |-> status[req[r].session],
                      items |-> item[req[r].session]]

-----------------------------------------------------------------------------
(* Why these hold: the strengthening that every step preserves.            *)

(* A request in progress names a session that exists, and the row it holds *)
(* is held by it alone.                                                    *)
RequestsNameSessions ==
    \A r \in Requests : req[r].pc # "idle" =>
        /\ req[r].op \in Ops
        /\ req[r].session \in Sessions
        /\ status[req[r].session] # "absent"

RowsHeldByOne ==
    \A r \in Requests : HoldsRow(r) => lock[req[r].session] = r

CommitsChecked ==
    \A r \in Requests : req[r].pc = "persisted" =>
        /\ req[r].agg.status = "created"
        /\ CommitItems(req[r].agg.items)

IInv ==
    /\ TypeOK
    /\ RequestsNameSessions
    /\ RowsHeldByOne
    /\ AggregateIsCurrent
    /\ CommitsChecked
    /\ CommittedHasUpload
    /\ UploadMatchesSession
    /\ ItemsConsistent

-----------------------------------------------------------------------------
(* What a step may never do.                                               *)

(* A committed session is final: no request, however late or duplicated,   *)
(* changes its items, its status, the upload it names or that upload       *)
(* (EnsureMutable).                                                        *)
CommittedIsFinal ==
    [][\A s \in Sessions : status[s] = "committed" =>
         /\ status'[s] = "committed"
         /\ link'[s] = link[s]
         /\ item'[s] = item[s]
         /\ upload'[link[s]] = upload[link[s]]]_vars

(* A request that read the clock at or after the deadline of the session   *)
(* changes neither its items nor its status, even when it waited for the   *)
(* row while other requests went through.                                  *)
LateRequestsChangeNothing ==
    [][\A s \in Sessions :
         \/ status[s] = "absent"
         \/ status'[s] = status[s] /\ item'[s] = item[s]
         \/ \E r \in Requests : /\ HoldsRow(r)
                                /\ req'[r].pc = "idle"
                                /\ req[r].session = s
                                /\ req[r].at < expiresAt[s]]_vars

-----------------------------------------------------------------------------
(* The sessions and uploads as their users see them.                       *)

Album(s) == IF link[s] = None THEN None
            ELSE [order |-> upload[link[s]].order,
                  cover |-> upload[link[s]].cover]

P == INSTANCE Publication WITH album <- [s \in Sessions |-> Album(s)]

(* Publishing implements Publication: a session becomes an album with the  *)
(* commit that publishes it, never earlier, later or partly.               *)
ImplementsPublication == P!Spec

-----------------------------------------------------------------------------
(* Progress.  PostgreSQL queues the transactions that wait for a row, and  *)
(* the pool the requests that wait for a connection, so a request that is  *)
(* let through again and again gets through.  A handler that holds the row *)
(* runs on: it either writes or returns an error.                          *)

AtLookUp(r) == req[r].pc = "locked" /\ req[r].op = "commit"
Finish(r) == HoldsRow(r) /\ (Work(r) \/ Rollback(r))

(* The steps that may have to wait, and those that do not.                 *)
Waits(r) ==
    \/ Begin(r) \/ LockSession(r)
    \/ AtLookUp(r) /\ FreeConnection /\ Finish(r)
Step(r) == ~AtLookUp(r) /\ Finish(r)

(* Every request is answered: no two of them wait for each other for ever, *)
(* each with a row or a connection the other one needs (WithTx, and the    *)
(* second connection of the keyword lookup).                               *)
RequestsEnd ==
    \A r \in Requests : req[r].pc # "idle" ~> req[r].pc = "idle"

=============================================================================
