------------------------------ MODULE MCImages ------------------------------
(* Images outside of publishing: avatar uploads (AvatarUpload), and the     *)
(* life of any asset and its variants under callers that open no            *)
(* transaction (MediaLifecycle).  The two are about different assets, so    *)
(* one behaviour moves one of them and leaves the other where it began.     *)
EXTENDS AvatarUpload, TLC

CONSTANTS Assets, Names, Calls, Sizes

VARIABLES
    part,                                           \* the part that moves
    asset, variant, call, workers

Life == INSTANCE MediaLifecycle
ASSUME LifeAssumption == Life!SizesAssumption

-----------------------------------------------------------------------------
lifeVars == <<asset, variant, call, workers>>

ImagesInit == Init /\ Life!Init /\ part \in {"avatars", "assets"}

ImagesNext ==
    /\ UNCHANGED part
    /\ \/ part = "avatars" /\ Next /\ UNCHANGED lifeVars
       \/ part = "assets" /\ Life!Next /\ UNCHANGED vars

ImagesSpec == ImagesInit /\ [][ImagesNext]_<<part, vars, lifeVars>>

Symmetry == Permutations(Requests) \cup Permutations(Sessions) \cup Permutations(Calls)

-----------------------------------------------------------------------------
(* No race of calls that read an asset or a variant before they move it     *)
(* skips, undoes or repeats a step, starts its processing twice or writes   *)
(* back a size (LifecycleService).                                          *)
LifecycleFollowed ==
    /\ []Life!OneWorker
    /\ Life!AssetsFollowLifecycle /\ Life!SizeOfTheUpload /\ Life!VariantsFollowLifecycle
=============================================================================
