------------------------------- MODULE MeHome -------------------------------
(***************************************************************************)
(* The page of a user and the notifications on it.  GetMeHome reads twice, *)
(* GetMeHomeSummary and then the custom keywords, while the user publishes *)
(* and deletes; notifications appear when the reactions of others commit,  *)
(* but are dated when these began (created_at DEFAULT now(), the start of  *)
(* the transaction).                                                       *)
(***************************************************************************)
EXTENDS Naturals, FiniteSets, Functions

CONSTANTS
    Keywords,   \* custom keywords the user may have
    Reacts,     \* slots for the React transactions in progress
    MaxImages,  \* bound on the images of a kind
    MaxNotes,   \* bound on the reactions ever given
    ListLimit   \* maxNotificationListLimit

BoundsAssumption == MaxImages \in Nat /\ MaxNotes \in Nat
LimitAssumption == ListLimit \in Nat \ {0}

VARIABLES
    state,     \* of a custom keyword: "none", "there", "deleted"
    official,  \* images in the user's uploads to official keywords
    images,    \* and in those to each custom keyword
    began,     \* how many React transactions have begun: their dates
    react,     \* the date of the transaction in a slot, 0 if there is none
    notes,     \* the notifications: date, and whether they are read
    home       \* the GetMeHome in progress, or the last answer

vars == <<state, official, images, began, react, notes, home>>

Note == [at : 1..MaxNotes, read : BOOLEAN]
There == {k \in Keywords : state[k] = "there"}
Total(f) == FoldFunction(LAMBDA x, y : x + y, 0, f)
Unread == {n \in notes : ~n.read}
Shown == UNION {[K -> 0..MaxImages] : K \in SUBSET Keywords}

(* before is what the summary's total of custom images is the sum of.      *)
Nobody == [pc |-> "none", official |-> 0, unread |-> 0, before |-> <<>>, custom |-> 0,
           items |-> <<>>]

TypeOK ==
    /\ state \in [Keywords -> {"none", "there", "deleted"}]
    /\ official \in 0..MaxImages
    /\ images \in [Keywords -> 0..MaxImages]
    /\ began \in 0..MaxNotes
    /\ react \in [Reacts -> 0..began]
    /\ notes \subseteq Note
    /\ \A m, n \in notes : m.at = n.at => m = n
    /\ \A r \in Reacts, n \in notes : react[r] # n.at
    /\ home.pc \in {"none", "summarised", "answered"}
    /\ home.official \in 0..official
    /\ home.unread \in 0..MaxNotes
    /\ home.before \in Shown /\ home.items \in Shown

Init ==
    /\ state = [k \in Keywords |-> "none"]
    /\ official = 0
    /\ images = [k \in Keywords |-> 0]
    /\ began = 0
    /\ react = [r \in Reacts |-> 0]
    /\ notes = {}
    /\ home = Nobody

-----------------------------------------------------------------------------
(* The user's own changes, each one commit.                                *)

CreateKeyword(k) ==
    /\ state[k] = "none"
    /\ state' = [state EXCEPT ![k] = "there"]
    /\ UNCHANGED <<official, images, began, react, notes, home>>

DeleteKeyword(k) ==
    /\ state[k] = "there"
    /\ state' = [state EXCEPT ![k] = "deleted"]
    /\ UNCHANGED <<official, images, began, react, notes, home>>

PublishOfficial(n) ==
    /\ official + n <= MaxImages
    /\ official' = official + n
    /\ UNCHANGED <<state, images, began, react, notes, home>>

PublishCustom(k, n) ==
    /\ state[k] = "there" /\ images[k] + n <= MaxImages
    /\ images' = [images EXCEPT ![k] = @ + n]
    /\ UNCHANGED <<state, official, began, react, notes, home>>

-----------------------------------------------------------------------------
(* GetMeHome.  The images of keywords that are deleted count nowhere.      *)

GetMeHomeSummary ==
    /\ home.pc # "summarised"
    /\ home' = [Nobody EXCEPT !.pc = "summarised",
                  !.official = official,
                  !.unread = Cardinality(Unread),
                  !.before = [k \in There |-> images[k]]]
    /\ UNCHANGED <<state, official, images, began, react, notes>>

ListCustomKeywordSummariesForUser == [k \in There |-> images[k]]

(* A plausible bug: the total of the summary is the one that is shown. *)
GetMeHomeFromSummary ==
    /\ home.pc = "summarised"
    /\ LET items == ListCustomKeywordSummariesForUser IN
          home' = [home EXCEPT !.pc = "answered", !.items = items, !.custom = Total(home.before)]
    /\ UNCHANGED <<state, official, images, began, react, notes>>

(* ListForMeHome, and the answer: the total is that of the items.          *)
GetMeHome ==
    /\ home.pc = "summarised"
    /\ LET items == ListCustomKeywordSummariesForUser IN
          home' = [home EXCEPT !.pc = "answered", !.items = items, !.custom = Total(items)]
    /\ UNCHANGED <<state, official, images, began, react, notes>>

-----------------------------------------------------------------------------
(* The notifications.                                                      *)

BeginReact(r) ==
    /\ react[r] = 0 /\ began < MaxNotes
    /\ began' = began + 1
    /\ react' = [react EXCEPT ![r] = began + 1]
    /\ UNCHANGED <<state, official, images, notes, home>>

(* CreateNotification and the commit.                                      *)
CreateNotification(r) ==
    /\ react[r] # 0
    /\ notes' = notes \cup {[at |-> react[r], read |-> FALSE]}
    /\ react' = [react EXCEPT ![r] = 0]
    /\ UNCHANGED <<state, official, images, began, home>>

(* The reaction was there already, or the transaction is rolled back.      *)
EndReact(r) ==
    /\ react[r] # 0
    /\ react' = [react EXCEPT ![r] = 0]
    /\ UNCHANGED <<state, official, images, began, notes, home>>

(* A plausible bug: the oldest first. *)
ListOldestNotifications ==
    {n \in notes : Cardinality({m \in notes : m.at < n.at}) < ListLimit}

(* The newest first, and no more than the limit.                           *)
ListNotifications ==
    {n \in notes : Cardinality({m \in notes : m.at > n.at}) < ListLimit}

(* A plausible bug: only what the list shows is marked. *)
MarkListedRead ==
    /\ Unread # {}
    /\ notes' = {[n EXCEPT !.read = @ \/ n \in ListNotifications] : n \in notes}
    /\ UNCHANGED <<state, official, images, began, react, home>>

MarkAllNotificationsRead ==
    /\ Unread # {}
    /\ notes' = {[n EXCEPT !.read = TRUE] : n \in notes}
    /\ UNCHANGED <<state, official, images, began, react, home>>

Next ==
    \/ \E k \in Keywords : CreateKeyword(k) \/ DeleteKeyword(k)
    \/ \E n \in 1..2 : PublishOfficial(n) \/ \E k \in Keywords : PublishCustom(k, n)
    \/ GetMeHomeSummary \/ GetMeHome
    \/ \E r \in Reacts : BeginReact(r) \/ CreateNotification(r) \/ EndReact(r)
    \/ MarkAllNotificationsRead

Spec == Init /\ [][Next]_vars

-----------------------------------------------------------------------------
(* The number of images that the page shows for the custom keywords is the *)
(* sum of the numbers it shows with them, although it also reads a total   *)
(* of its own before.  The two reads do not see the same, but nothing gets *)
(* lost between them: what was there when the user asked is shown, unless  *)
(* its keyword is deleted, and nothing is shown that is not there          *)
(* (GetMeHome, service.go:102-146).                                        *)
HomeAddsUp ==
    home.pc = "answered" =>
        /\ home.custom = Total(home.items)
        /\ \A k \in There \cap DOMAIN home.before :
              k \in DOMAIN home.items /\ home.before[k] <= home.items[k]
        /\ \A k \in DOMAIN home.items : home.items[k] <= images[k]

(* Notifications that are dated before one that has been read, and are not *)
(* read themselves, were under way when all were marked: there are never   *)
(* more of them than transactions at a time (MarkAllNotificationsRead and  *)
(* the date of a notification).                                            *)
LateUnreadBounded ==
    Cardinality({n \in Unread : \E m \in notes : m.read /\ m.at > n.at}) <= Cardinality(Reacts)

(* The unread notifications that the page counts are in the list, up to    *)
(* its limit, but for those few that came late and may stand below others  *)
(* that are read (GetMeHomeSummary and ListNotifications).                 *)
BadgeIsListed ==
    LET shown == Cardinality(Unread \cap ListNotifications)
        all == Cardinality(Unread)
    IN  shown + Cardinality(Reacts) >= IF all < ListLimit THEN all ELSE ListLimit
=============================================================================
