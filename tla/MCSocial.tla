------------------------------ MODULE MCSocial ------------------------------
(* What users see of each other: reactions with their counts and            *)
(* notifications (Reactions), the page that shows them to their recipient   *)
(* (MeHome), and the setting that switches them off (Profile).  Each module *)
(* takes from the others only what it models of them itself, so one         *)
(* behaviour moves one of them and leaves the others where they began.      *)
EXTENDS Reactions, TLC

CONSTANTS
    Keywords,                     \* of the user whose page is read
    Calls, MaxOff                 \* of the user whose settings are changed

VARIABLES
    part,                         \* the part that moves
    state, official, images, began, react, notes, home,
    nickname, setting, call, writing, sinceOff

(* The page with more images and keywords, or with more notifications.      *)
Images == INSTANCE MeHome WITH
    Reacts <- {1}, MaxImages <- 3, MaxNotes <- 1, ListLimit <- 1
Notes == INSTANCE MeHome WITH
    Keywords <- {}, Reacts <- 1..2, MaxImages <- 0, MaxNotes <- 7, ListLimit <- 3

(* Nicknames at the edges of the limit, in letters of one and three bytes.  *)
Edges == {in \in [pad : {0, 2}, chars : {0, 1, 13, 14, 38, 40}, width : {1, 3}] :
             in.pad + in.chars \in 1..40}
Person == INSTANCE Profile WITH
    Reacts <- Requests, Inputs <- Edges, enabled <- setting, react <- writing

ASSUME ImagesAssumption == Images!BoundsAssumption /\ Images!LimitAssumption
ASSUME NotesAssumption == Notes!BoundsAssumption /\ Notes!LimitAssumption
ASSUME PersonAssumption == Person!InputsAssumption /\ Person!BoundAssumption

-----------------------------------------------------------------------------
pageVars == <<state, official, images, began, react, notes, home>>
personVars == <<nickname, setting, call, writing, sinceOff>>

SocialInit ==
    /\ part \in {"reactions", "images", "notes", "person"}
    /\ Init
    /\ part # "reactions" =>
          \A r \in Requests, w \in Uploads : req[r].key.user = author[w]
    /\ IF part = "notes" THEN Notes!Init ELSE Images!Init
    /\ Person!Init

SocialNext ==
    /\ UNCHANGED part
    /\ \/ part = "reactions" /\ Next /\ UNCHANGED <<pageVars, personVars>>
       \/ part = "images" /\ Images!Next /\ UNCHANGED <<vars, personVars>>
       \/ part = "notes" /\ Notes!Next /\ UNCHANGED <<vars, personVars>>
       \/ part = "person" /\ Person!Next /\ UNCHANGED <<vars, pageVars>>

SocialSpec == SocialInit /\ [][SocialNext]_<<part, vars, pageVars, personVars>>

Symmetry ==
    Permutations(Requests) \cup Permutations(Users) \cup Permutations(Keywords)

-----------------------------------------------------------------------------
TypesOK ==
    CASE part = "reactions" -> TypeOK
      [] part = "images" -> Images!TypeOK
      [] part = "notes" -> Notes!TypeOK
      [] part = "person" -> Person!TypeOK

(* The page that GetMeHome puts together of two reads adds up, the unread    *)
(* notifications it counts are in the list that ListNotifications returns,  *)
(* and of those that came too late for MarkAllNotificationsRead there are   *)
(* never more than transactions at a time.                                  *)
PageAgrees ==
    /\ part = "images" => Images!HomeAddsUp
    /\ part = "notes" => Notes!BadgeIsListed /\ Notes!LateUnreadBounded

(* Who switches the notifications of reactions off still gets those that    *)
(* were being written, and then none (ReactionService.React).               *)
OffIsSoonQuiet == Person!OffIsSoonQuiet
=============================================================================
