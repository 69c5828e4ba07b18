--------------------------- MODULE MediaLifecycle ---------------------------
(* The life of a media asset and of its variants: LifecycleService over the  *)
(* rows of media_assets and media_variants. Every call reads a row FOR       *)
(* UPDATE, decides on that copy and then writes. The service opens no        *)
(* transaction of its own: a caller that gives it none (a worker that        *)
(* processes images, say) loses the lock when the read returns, and then     *)
(* only the WHERE clause of the write stands between two calls. That caller  *)
(* is the one modelled; publishing and avatar uploads run their two calls    *)
(* inside a transaction, which allows fewer interleavings.                   *)
EXTENDS Naturals, FiniteSets

CONSTANTS
  Assets,   \* ids of media assets
  Names,    \* names of variants
  Calls,    \* calls of the service under way
  Sizes     \* dimensions that a call may report

SizesAssumption == /\ Sizes # {} /\ \A s \in Sizes : s \in Nat \ {0}

VARIABLES
  asset,    \* asset -> its row of media_assets
  variant,  \* <<asset, name>> -> its row of media_variants
  call,     \* call -> the copy it decided on, between its read and its write
  workers   \* asset -> how many calls were told that they start its processing

vars == <<asset, variant, call, workers>>

NoSize == 0
AssetStatus == {"pending_upload", "uploaded", "processing", "ready", "failed", "deleted"}
VariantStatus == {"pending", "processing", "ready", "failed"}
Absent == [status |-> "absent", size |-> NoSize]

(* What a call may ask for, and the one status it may be asked in.           *)
AssetStep == [uploaded |-> "pending_upload", processing |-> "uploaded",
              ready |-> "processing", failed |-> "processing"]
VariantStep == [processing |-> "pending", ready |-> "processing", failed |-> "processing"]

Idle == [step |-> "idle"]
Pending == [step : {"asset"}, of : Assets, next : DOMAIN AssetStep, size : Sizes \cup {NoSize}]
           \cup [step : {"variant"}, of : Assets \X Names, next : DOMAIN VariantStep,
                 size : Sizes \cup {NoSize}]
           \cup [step : {"delete"}, of : Assets]

Init == /\ asset = [a \in Assets |-> Absent]
        /\ variant = [v \in Assets \X Names |-> Absent]
        /\ call = [c \in Calls |-> Idle]
        /\ workers = [a \in Assets |-> 0]

-----------------------------------------------------------------------------
(* The object key is unique, so an asset is created once.                    *)
CreatePendingAsset(a) ==
  /\ asset[a] = Absent
  /\ asset' = [asset EXCEPT ![a].status = "pending_upload"]
  /\ UNCHANGED <<variant, call, workers>>

(* UpsertVariant, which no code calls yet, makes the row of a variant or     *)
(* starts it anew, whatever its status and that of its asset; a size that is *)
(* known stays.                                                              *)
UpsertVariant(v) ==
  /\ asset[v[1]] # Absent
  /\ variant' = [variant EXCEPT ![v].status = "pending"]
  /\ UNCHANGED <<asset, call, workers>>

(* A read finds no deleted asset; a variant is found whatever its asset.     *)
Visible(row) == row.status \notin {"absent", "deleted"}

(* MarkAssetUploaded reports a size; the other calls write back the size     *)
(* they have read.                                                           *)
ReadAsset(c, a, next, size) ==
  /\ call[c] = Idle
  /\ Visible(asset[a])
  /\ asset[a].status = AssetStep[next]
  /\ call' = [call EXCEPT ![c] = [step |-> "asset", of |-> a, next |-> next,
                size |-> IF next = "uploaded" THEN size ELSE asset[a].size]]
  /\ UNCHANGED <<asset, variant, workers>>

ReadVariant(c, v, next, size) ==
  /\ call[c] = Idle
  /\ variant[v].status = VariantStep[next]
  /\ call' = [call EXCEPT ![c] = [step |-> "variant", of |-> v, next |-> next,
                size |-> IF next = "ready" THEN size ELSE variant[v].size]]
  /\ UNCHANGED <<asset, variant, workers>>

ReadToDelete(c, a) ==
  /\ call[c] = Idle
  /\ Visible(asset[a])
  /\ call' = [call EXCEPT ![c] = [step |-> "delete", of |-> a]]
  /\ UNCHANGED <<asset, variant, workers>>

-----------------------------------------------------------------------------
(* COALESCE(new, old) of a size, and the row after a step.                   *)
Coalesce(size, old) == IF size = NoSize THEN old ELSE size
MovedAlone(row, p) == [status |-> p.next]
Moved(row, p) == [status |-> p.next, size |-> Coalesce(p.size, row.size)]

(* The write of a step finds the row only in the status the step starts      *)
(* from; otherwise the caller is told of an invalid transition.              *)
AssetMovesUnlessDeleted(row, p) == Visible(row)
AssetMovesAgain(row, p) == row.status \in {AssetStep[p.next], p.next}
AssetMoves(row, p) == row.status = AssetStep[p.next]

TransitionAssetStatus(c) ==
  LET p == call[c]  won == AssetMoves(asset[p.of], p) IN
  /\ p.step = "asset"
  /\ asset' = IF won THEN [asset EXCEPT ![p.of] = Moved(@, p)] ELSE asset
  /\ workers' = IF won /\ p.next = "processing"
                THEN [workers EXCEPT ![p.of] = @ + 1] ELSE workers
  /\ call' = [call EXCEPT ![c] = Idle]
  /\ UNCHANGED variant

VariantMovesAnyway(row, p) == row # Absent
VariantMoves(row, p) == row.status = VariantStep[p.next]

TransitionVariantStatus(c) ==
  LET p == call[c] IN
  /\ p.step = "variant"
  /\ variant' = IF VariantMoves(variant[p.of], p)
                THEN [variant EXCEPT ![p.of] = Moved(@, p)] ELSE variant
  /\ call' = [call EXCEPT ![c] = Idle]
  /\ UNCHANGED <<asset, workers>>

(* Of two deletions the second finds no row, as a step does after one.       *)
Deleted(row) == [row EXCEPT !.status = "deleted"]
SoftDeleteAsset(c) ==
  LET p == call[c] IN
  /\ p.step = "delete"
  /\ asset' = IF Visible(asset[p.of])
              THEN [asset EXCEPT ![p.of] = Deleted(@)] ELSE asset
  /\ call' = [call EXCEPT ![c] = Idle]
  /\ UNCHANGED <<variant, workers>>

Next ==
  \/ \E a \in Assets : CreatePendingAsset(a)
  \/ \E v \in Assets \X Names : UpsertVariant(v)
  \/ \E c \in Calls :
       \/ \E a \in Assets, next \in DOMAIN AssetStep, s \in Sizes \cup {NoSize} :
            ReadAsset(c, a, next, s)
       \/ \E v \in Assets \X Names, next \in DOMAIN VariantStep, s \in Sizes \cup {NoSize} :
            ReadVariant(c, v, next, s)
       \/ \E a \in Assets : ReadToDelete(c, a)
       \/ TransitionAssetStatus(c)
       \/ TransitionVariantStatus(c)
       \/ SoftDeleteAsset(c)

Spec == Init /\ [][Next]_vars

-----------------------------------------------------------------------------
(* Every row and every copy has its type.                                    *)
TypeOK ==
  /\ asset \in [Assets -> {Absent} \cup
                 [status : AssetStatus, size : Sizes \cup {NoSize}]]
  /\ variant \in [Assets \X Names -> {Absent} \cup
                   [status : VariantStatus, size : Sizes \cup {NoSize}]]
  /\ call \in [Calls -> {Idle} \cup Pending]
  /\ workers \in [Assets -> Nat]

(* However many calls race on one asset, exactly one of them is told that it *)
(* starts the processing, and an asset that is processing, ready or failed   *)
(* had its one worker. A worker that reads uploaded after a deletion or a    *)
(* faster worker must lose.                                                  *)
OneWorker ==
  \A a \in Assets :
    /\ workers[a] <= 1
    /\ asset[a].status \in {"processing", "ready", "failed"} => workers[a] = 1

(* No race makes an asset skip or undo a step: it fails or gets ready once,  *)
(* from processing, and what is deleted stays deleted, also for the calls    *)
(* that read it before.                                                      *)
AssetsFollowLifecycle ==
  [][\A a \in Assets :
       LET old == asset[a].status  new == asset'[a].status IN
       \/ new = old
       \/ old = "absent" /\ new = "pending_upload"
       \/ new = "deleted" /\ old # "absent"
       \/ new \in DOMAIN AssetStep /\ old = AssetStep[new]]_vars

(* The size of an asset is the one reported by the call that was told it     *)
(* marked the asset uploaded: no later call, writing back a copy, and no     *)
(* second report changes it.                                                 *)
SizeOfTheUpload ==
  [][\A a \in Assets :
       asset'[a].size # asset[a].size => asset[a].status = "pending_upload"]_vars

(* A variant that is ready or failed, or that was started anew, is not moved *)
(* by a call that read it in another status.                                 *)
VariantsFollowLifecycle ==
  [][\A v \in Assets \X Names :
       LET old == variant[v].status  new == variant'[v].status IN
       new \notin {old, "pending"} => old = VariantStep[new]]_vars
=============================================================================
