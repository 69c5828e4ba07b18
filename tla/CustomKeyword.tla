---------------------------- MODULE CustomKeyword ----------------------------
(***************************************************************************)
(* The custom keywords of one user: their rows, the works published under  *)
(* them, and what requests read of both.  A handler is a sequence of       *)
(* statements without a transaction, so other requests come in between.    *)
(* All statements ask for the owner too: a call about the keyword of       *)
(* another user ends like one about a keyword that is not there.           *)
(***************************************************************************)
EXTENDS Naturals, FiniteSets

CONSTANTS
    Requests,    \* slots for the requests in progress
    Keywords,    \* ids of custom keywords
    MaxUploads,  \* bound on the publications
    MaxImages,   \* images of a publication
    Limit,       \* what a client may ask for as the length of a list
    MaxLimit,    \* the cap of clampLimit
    Removals,    \* bound on the assets that are soft-deleted meanwhile
    None

ASSUME KeywordAssumption == None \notin Keywords \cup (Nat \X Nat)
ASSUME BoundAssumption == /\ MaxUploads \in Nat \ {0} /\ MaxImages \in Nat \ {0}
                          /\ Limit \in Nat /\ MaxLimit \in Nat \ {0}
ASSUME RemovalAssumption == Removals \in Nat

(* A publication is known by the place of its published_at, the moment at  *)
(* which its commit began, among all; an image by that and its order.      *)
Times == 1..MaxUploads
Images == Times \X (1..MaxImages)
At(image) == image[1]
DisplayOrder(image) == image[2]

VARIABLES
    keyword,  \* custom_keywords
    upload,   \* work_uploads, with image_count
    deleted,  \* media_assets that are soft-deleted
    begun,    \* commits that have begun
    req       \* the requests in progress, each with the answer of the last one

vars == <<keyword, upload, deleted, begun, req>>

NoKeyword == [status |-> "none", source |-> "auto_latest", cover |-> None]
Idle == [pc |-> "idle", op |-> "list", k |-> None, image |-> None, row |-> NoKeyword,
         items |-> {}, cover |-> None, at |-> 0, open |-> FALSE]

KeywordRow == [status : {"none", "active", "inactive", "deleted"},
               source : {"auto_latest", "manual"}, cover : Images \cup {None}]

TypeOK ==
    /\ keyword \in [Keywords -> KeywordRow]
    /\ upload \in [Times -> [k : Keywords \cup {None}, count : 0..MaxImages]]
    /\ deleted \subseteq Images
    /\ begun \in 0..MaxUploads
    /\ req \in [Requests ->
         [pc : {"idle", "get", "set", "count", "list", "cover", "latest", "look", "publish"},
          op : {"item", "set", "clear", "list", "publish"},
          k : Keywords \cup {None}, image : Images \cup {None}, row : KeywordRow,
          items : SUBSET Images, cover : Images \cup {None}, at : 0..MaxUploads,
          open : BOOLEAN]]
    /\ \A k \in Keywords : (keyword[k].source = "manual") <=> (keyword[k].cover # None)

-----------------------------------------------------------------------------
(* The queries, each over one snapshot.                                    *)

There(k) == keyword[k].status \notin {"none", "deleted"}     \* deleted_at IS NULL

VisibleImages(k) ==
    {i \in Images : upload[At(i)].k = k /\ DisplayOrder(i) <= upload[At(i)].count}
ImagesWithAsset(k) == VisibleImages(k) \ deleted

(* ORDER BY published_at DESC, display_order ASC                           *)
Before(a, b) == At(a) > At(b) \/ (At(a) = At(b) /\ DisplayOrder(a) < DisplayOrder(b))

CountVisibleImages(k) == Cardinality(VisibleImages(k))

(* A plausible bug: the oldest publication is taken for the latest. *)
FirstCoverAsset(k) ==
    IF ImagesWithAsset(k) = {} THEN None
    ELSE CHOOSE i \in ImagesWithAsset(k) : \A j \in ImagesWithAsset(k) \ {i} :
             At(i) < At(j) \/ (At(i) = At(j) /\ DisplayOrder(i) < DisplayOrder(j))

LatestCoverAsset(k) ==
    IF ImagesWithAsset(k) = {} THEN None
    ELSE CHOOSE i \in ImagesWithAsset(k) : \A j \in ImagesWithAsset(k) \ {i} : Before(i, j)

(* LIMIT: an image is listed that fewer come before.                       *)
ListKeywordImages(k, limit) ==
    {i \in ImagesWithAsset(k) :
        Cardinality({j \in ImagesWithAsset(k) : Before(j, i)}) < limit}

(* The images a call may name: ResolveCustomKeywordImageAsset.             *)
ImagesOfAnyKeyword(k) == UNION {VisibleImages(j) : j \in Keywords}
ImagesToChoose(k) == VisibleImages(k)

ClampLimit(v, default, max) == IF v <= 0 THEN default ELSE IF v > max THEN max ELSE v

-----------------------------------------------------------------------------

Init ==
    /\ keyword = [k \in Keywords |-> NoKeyword]
    /\ upload = [t \in Times |-> [k |-> None, count |-> 0]]
    /\ deleted = {}
    /\ begun = 0
    /\ req = [r \in Requests |-> Idle]

Starts(r, op, k) == [Idle EXCEPT !.op = op, !.k = k]
Set(r, s) == req' = [req EXCEPT ![r] = s]
NotFound(r) == Set(r, Idle)

(* The answer is made of the row and the keyword's cover (resolveCover-    *)
(* Asset): the chosen one while its asset is there, else the latest.       *)
Answer(r, cover) == Set(r, [Idle EXCEPT !.op = req[r].op, !.k = req[r].k, !.image = req[r].image,
                                        !.row = req[r].row, !.items = req[r].items,
                                        !.cover = cover])

ToCover(s, row) ==
    [s EXCEPT !.row = row, !.pc = IF row.cover # None THEN "cover" ELSE "latest"]

Create(r, k) ==
    /\ req[r].pc = "idle"
    /\ keyword[k].status = "none"
    /\ keyword' = [keyword EXCEPT ![k].status = "active"]
    /\ Set(r, ToCover(Starts(r, "item", k), keyword'[k]))
    /\ UNCHANGED <<upload, deleted, begun>>

(* A plausible bug: the update does not ask whether the row is deleted. *)
UpdateWhatever(r, k, status) ==
    /\ req[r].pc = "idle"
    /\ keyword[k].status # "none"
    /\ keyword' = [keyword EXCEPT ![k].status = status]
    /\ Set(r, [Starts(r, "item", k) EXCEPT !.pc = "count", !.row = keyword'[k]])
    /\ UNCHANGED <<upload, deleted, begun>>

(* Of a PATCH, the field is_active; what is not sent stays (COALESCE).     *)
Update(r, k, status) ==
    /\ req[r].pc = "idle"
    /\ IF There(k)
       THEN /\ keyword' = [keyword EXCEPT ![k].status = status]
            /\ Set(r, [Starts(r, "item", k) EXCEPT !.pc = "count", !.row = keyword'[k]])
       ELSE NotFound(r) /\ UNCHANGED keyword
    /\ UNCHANGED <<upload, deleted, begun>>

Count(r) ==
    /\ req[r].pc = "count"
    /\ Set(r, ToCover(req[r], req[r].row))
    /\ UNCHANGED <<keyword, upload, deleted, begun>>

Delete(r, k) ==
    /\ req[r].pc = "idle"
    /\ There(k)
    /\ keyword' = [keyword EXCEPT ![k].status = "deleted"]
    /\ Set(r, Idle)
    /\ UNCHANGED <<upload, deleted, begun>>

SetCover(r, k, image) ==
    /\ req[r].pc = "idle"
    /\ IF image \in ImagesToChoose(k)
       THEN Set(r, [Starts(r, "set", k) EXCEPT !.pc = "set", !.image = image])
       ELSE NotFound(r)
    /\ UNCHANGED <<keyword, upload, deleted, begun>>

SetManualCover(r) ==
    /\ req[r].pc = "set"
    /\ LET k == req[r].k IN
          IF There(k)
          THEN /\ keyword' = [keyword EXCEPT ![k].source = "manual", ![k].cover = req[r].image]
               /\ Set(r, [req[r] EXCEPT !.pc = "get"])
          ELSE NotFound(r) /\ UNCHANGED keyword
    /\ UNCHANGED <<upload, deleted, begun>>

ClearCover(r, k) ==
    /\ req[r].pc = "idle"
    /\ IF There(k)
       THEN /\ keyword' = [keyword EXCEPT ![k].source = "auto_latest", ![k].cover = None]
            /\ Set(r, [Starts(r, "clear", k) EXCEPT !.pc = "get"])
       ELSE NotFound(r) /\ UNCHANGED keyword
    /\ UNCHANGED <<upload, deleted, begun>>

ListImages(r, k) ==
    /\ req[r].pc = "idle"
    /\ Set(r, [Starts(r, "list", k) EXCEPT !.pc = "get"])
    /\ UNCHANGED <<keyword, upload, deleted, begun>>

GetKeyword(r) ==
    /\ req[r].pc = "get"
    /\ LET row == keyword[req[r].k] IN
          IF ~There(req[r].k) THEN NotFound(r)
          ELSE IF req[r].op = "list" THEN Set(r, [req[r] EXCEPT !.pc = "list", !.row = row])
          ELSE Set(r, ToCover(req[r], row))
    /\ UNCHANGED <<keyword, upload, deleted, begun>>

ListCards(r) ==
    /\ req[r].pc = "list"
    /\ LET cards == ListKeywordImages(req[r].k, ClampLimit(Limit, MaxLimit, MaxLimit)) IN
          Set(r, ToCover([req[r] EXCEPT !.items = cards], req[r].row))
    /\ UNCHANGED <<keyword, upload, deleted, begun>>

GetCoverAsset(r) ==
    /\ req[r].pc = "cover"
    /\ IF req[r].row.cover \in deleted THEN Set(r, [req[r] EXCEPT !.pc = "latest"])
       ELSE Answer(r, req[r].row.cover)
    /\ UNCHANGED <<keyword, upload, deleted, begun>>

GetLatestCoverAsset(r) ==
    /\ req[r].pc = "latest"
    /\ Answer(r, LatestCoverAsset(req[r].k))
    /\ UNCHANGED <<keyword, upload, deleted, begun>>

-----------------------------------------------------------------------------
(* Publishing under a keyword, as the keyword sees it: a commit begins, it *)
(* looks the keyword up by the pool, and its transaction ends.  "open"     *)
(* remembers whether the keyword was active at any time since it began.    *)

CommitBegins(r, k) ==
    /\ req[r].pc = "idle"
    /\ keyword[k].status # "none"
    /\ begun < MaxUploads
    /\ begun' = begun + 1
    /\ Set(r, [Starts(r, "publish", k) EXCEPT !.pc = "look", !.at = begun + 1,
                                              !.open = keyword[k].status = "active"])
    /\ UNCHANGED <<keyword, upload, deleted>>

(* A plausible bug: any keyword that is there is accepted. *)
EnsureOwnedKeyword(r) ==
    /\ req[r].pc = "look"
    /\ IF There(req[r].k) THEN Set(r, [req[r] EXCEPT !.pc = "publish"]) ELSE NotFound(r)
    /\ UNCHANGED <<keyword, upload, deleted, begun>>

EnsureOwnedActiveKeyword(r) ==
    /\ req[r].pc = "look"
    /\ IF keyword[req[r].k].status = "active"
       THEN Set(r, [req[r] EXCEPT !.pc = "publish", !.open = TRUE])
       ELSE NotFound(r)
    /\ UNCHANGED <<keyword, upload, deleted, begun>>

CommitEnds(r, n) ==
    /\ req[r].pc = "publish"
    /\ upload' = [upload EXCEPT ![req[r].at] = [k |-> req[r].k, count |-> n]]
    /\ Set(r, [Idle EXCEPT !.op = "publish", !.k = req[r].k, !.at = req[r].at,
                           !.open = req[r].open])
    /\ UNCHANGED <<keyword, deleted, begun>>

(* The client hangs up, the server stops, or a statement fails.            *)
Crash(r) ==
    /\ req[r].pc # "idle"
    /\ Set(r, Idle)
    /\ UNCHANGED <<keyword, upload, deleted, begun>>

(* LifecycleService.SoftDeleteAsset: the queries reckon with it, though no *)
(* handler calls it yet.                                                   *)
SoftDeleteAsset(image) ==
    /\ Cardinality(deleted) < Removals
    /\ \E k \in Keywords : image \in VisibleImages(k)
    /\ image \notin deleted
    /\ deleted' = deleted \cup {image}
    /\ UNCHANGED <<keyword, upload, begun, req>>

Next ==
    \/ \E r \in Requests :
          \/ \E k \in Keywords :
                \/ Create(r, k) \/ Delete(r, k) \/ ClearCover(r, k)
                \/ ListImages(r, k) \/ CommitBegins(r, k)
                \/ \E status \in {"active", "inactive"} : Update(r, k, status)
                \/ \E image \in Images : SetCover(r, k, image)
          \/ Count(r) \/ SetManualCover(r) \/ GetKeyword(r) \/ ListCards(r)
          \/ GetCoverAsset(r) \/ GetLatestCoverAsset(r)
          \/ EnsureOwnedActiveKeyword(r)
          \/ \E n \in 1..MaxImages : CommitEnds(r, n)
          \/ Crash(r)
    \/ \E image \in Images : SoftDeleteAsset(image)

Spec == Init /\ [][Next]_vars

-----------------------------------------------------------------------------
(* The chosen cover of a keyword, and the cover of any answer about it, is *)
(* an image that was published under it: the asset is looked up in one     *)
(* statement and stored in another, the row is read in one and the asset   *)
(* in another (SetCover, resolveCoverAsset).                               *)
CoverOfKeyword ==
    /\ \A k \in Keywords : keyword[k].cover # None => keyword[k].cover \in VisibleImages(k)
    /\ \A r \in Requests : req[r].cover # None => req[r].cover \in VisibleImages(req[r].k)

(* Of any step: a deleted keyword stays deleted and keeps its cover, a     *)
(* request that found it before it was deleted no longer changes it.       *)
DeletedStays ==
    \A k \in Keywords : keyword[k].status = "deleted" => keyword'[k] = keyword[k]

(* The list and the cover of a gallery are read by two statements, and a   *)
(* publication may come in between, with an earlier published_at than what *)
(* is there.  An automatic cover is still never older than a listed image  *)
(* (ListImages, GetLatestCustomKeywordCoverAsset).                         *)
GalleryCoverIsNewest ==
    \A r \in Requests :
        (req[r].op = "list" /\ req[r].pc = "idle" /\ req[r].row.cover = None)
            => \A i \in req[r].items \ deleted :
                 req[r].cover # None /\ ~Before(i, req[r].cover)

(* What is published appears under a keyword that was active at some time  *)
(* since the commit began; it may have been closed or deleted since the    *)
(* commit looked (ensureCustomKeywordActive reads outside the transaction).*)
PublishedWhileOpen ==
    \A r \in Requests :
        (req[r].op = "publish" /\ req[r].pc = "idle") => req[r].open

(* Setting a cover answers with the image that was asked for, as the       *)
(* integration test expects of it.                                         *)
SetCoverAnswers ==
    \A r \in Requests :
        (req[r].op = "set" /\ req[r].pc = "idle" /\ req[r].image \notin deleted)
            => req[r].cover = req[r].image
=============================================================================
