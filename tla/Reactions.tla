----------------------------- MODULE Reactions -----------------------------
(***************************************************************************)
(* Reactions to the works of official keywords, the counts of them that    *)
(* are kept with the works, and the notifications of the authors.  React   *)
(* and Unreact run one transaction (READ COMMITTED) each, statement by     *)
(* statement; what it writes appears at its commit.                        *)
(***************************************************************************)
EXTENDS Integers, FiniteSets

CONSTANTS
    Requests,   \* slots for the requests in progress
    Users, Uploads,
    Types,      \* ReactionType
    MaxNotes,   \* bound on the notifications of one reaction given again
    None        \* nobody

ASSUME BoundAssumption == MaxNotes \in Nat
ASSUME NoneAssumption == None \notin Requests
ASSUME SlotsAssumption ==
    IsFiniteSet(Requests) /\ Requests # {} /\ IsFiniteSet(Users)

(* The primary key of work_upload_reactions.                               *)
Keys == [upload : Uploads, user : Users, type : Types]

VARIABLES
    author,     \* work_uploads.author_user_id
    count,      \* reaction_inspired_count and reaction_resonated_count
    reactions,  \* the rows of work_upload_reactions
    enabled,    \* user_settings.reaction_notification_enabled
    notified,   \* how many notifications a reaction has caused
    unread,     \* the notifications of a recipient with read_at null
    keyLock,    \* who inserts or deletes a reaction, uncommitted
    rowLock,    \* who has updated the row of a work, uncommitted
    req         \* the requests in progress

vars == <<author, count, reactions, enabled, notified, unread, keyLock, rowLock, req>>
columns == <<author, count, reactions, enabled, notified, unread>>

(* give: React, and not Unreact.  notify: the author is someone else who  *)
(* wants to know.  counts: what the subqueries of RecomputeReactionCounts  *)
(* returned.  overtaken: a ghost, another request has changed the work's   *)
(* reactions since.                                                        *)
Zero == [t \in Types |-> 0]
Idle(k) == [pc |-> "idle", key |-> k, give |-> FALSE, notify |-> FALSE,
            counts |-> Zero, overtaken |-> FALSE]

TypeOK ==
    /\ author \in [Uploads -> Users]
    /\ count \in [Uploads -> [Types -> 0..Cardinality(Users)]]
    /\ reactions \subseteq Keys
    /\ enabled \in [Users -> BOOLEAN]
    /\ notified \in [Keys -> 0..MaxNotes + Cardinality(Requests) - 1]
    /\ unread \in [Users -> Nat]
    /\ keyLock \in [Keys -> Requests \cup {None}]
    /\ rowLock \in [Uploads -> Requests \cup {None}]
    /\ \A r \in Requests :
          /\ req[r].pc \in {"idle", "insert", "delete", "recount", "update", "commit"}
          /\ req[r].key \in Keys
          /\ req[r].give \in BOOLEAN /\ req[r].notify \in BOOLEAN /\ req[r].overtaken \in BOOLEAN
          /\ req[r].counts \in [Types -> 0..Cardinality(Users)]

Init ==
    /\ author \in [Uploads -> Users]
    /\ count = [w \in Uploads |-> Zero]
    /\ reactions = {}
    /\ enabled = [u \in Users |-> TRUE]
    /\ notified = [k \in Keys |-> 0]
    /\ unread = [u \in Users |-> 0]
    /\ keyLock = [k \in Keys |-> None]
    /\ rowLock = [w \in Uploads |-> None]
    /\ \E k \in Keys : req = [r \in Requests |-> Idle(k)]

Upload(r) == req[r].key.upload
Given(r) == IF req[r].give THEN reactions \cup {req[r].key} ELSE reactions \ {req[r].key}
Tally(S, w) == [t \in Types |-> Cardinality({k \in S : k.upload = w /\ k.type = t})]

GoTo(r, pc) == req' = [req EXCEPT ![r].pc = pc]
Release(r) ==
    /\ keyLock' = [k \in Keys |-> IF keyLock[k] = r THEN None ELSE keyLock[k]]
    /\ rowLock' = [w \in Uploads |-> IF rowLock[w] = r THEN None ELSE rowLock[w]]

(* A transaction that has written nothing, or is rolled back.              *)
End(r) == req' = [req EXCEPT ![r] = Idle(@.key)] /\ Release(r) /\ UNCHANGED columns

-----------------------------------------------------------------------------
(* React, from GetVisibleReactionTarget on, which reads the settings.      *)

React(r, k) ==
    /\ req[r].pc = "idle"
    /\ notified[k] < MaxNotes
    /\ req' = [req EXCEPT ![r] =
         [Idle(k) EXCEPT !.pc = "insert", !.give = TRUE,
                         !.notify = k.user # author[k.upload] /\ enabled[author[k.upload]]]]
    /\ UNCHANGED <<columns, keyLock, rowLock>>

(* A plausible bug: the result of the INSERT is not looked at. *)
InsertIgnoringConflict(r) ==
    /\ req[r].pc = "insert"
    /\ keyLock[req[r].key] = None
    /\ keyLock' = [keyLock EXCEPT ![req[r].key] = r]
    /\ GoTo(r, "recount")
    /\ UNCHANGED <<columns, rowLock>>

(* ON CONFLICT DO NOTHING: waits for whoever inserts or deletes the key.   *)
InsertReaction(r) ==
    /\ req[r].pc = "insert"
    /\ keyLock[req[r].key] = None
    /\ IF req[r].key \notin reactions
       THEN /\ keyLock' = [keyLock EXCEPT ![req[r].key] = r]
            /\ GoTo(r, "recount")
            /\ UNCHANGED <<columns, rowLock>>
       ELSE End(r)

-----------------------------------------------------------------------------
(* Unreact.  The DELETE does not see an INSERT that is not committed, and  *)
(* waits for another DELETE.                                               *)

Unreact(r, k) ==
    /\ req[r].pc = "idle"
    /\ req' = [req EXCEPT ![r] = [Idle(k) EXCEPT !.pc = "delete"]]
    /\ UNCHANGED <<columns, keyLock, rowLock>>

DeleteReaction(r) ==
    /\ req[r].pc = "delete"
    /\ \/ req[r].key \notin reactions /\ End(r)
       \/ /\ req[r].key \in reactions /\ keyLock[req[r].key] = None
          /\ keyLock' = [keyLock EXCEPT ![req[r].key] = r]
          /\ GoTo(r, "recount")
          /\ UNCHANGED <<columns, rowLock>>

-----------------------------------------------------------------------------
(* RecomputeReactionCounts.  The subqueries count in the snapshot of the   *)
(* statement and with the transaction's own change; then the UPDATE may    *)
(* wait for the row, and does not count again.                             *)

(* A plausible bug: the stored counts are adjusted instead. *)
AdjustCounts(r) ==
    /\ req[r].pc = "recount"
    /\ req' = [req EXCEPT ![r].pc = "update",
         ![r].counts = [count[Upload(r)] EXCEPT
            ![req[r].key.type] = @ + (IF req[r].give THEN 1 ELSE -1)]]
    /\ UNCHANGED <<columns, keyLock, rowLock>>

RecomputeReactionCounts(r) ==
    /\ req[r].pc = "recount"
    /\ req' = [req EXCEPT ![r].pc = "update", ![r].counts = Tally(Given(r), Upload(r))]
    /\ UNCHANGED <<columns, keyLock, rowLock>>

UpdateCounts(r) ==
    /\ req[r].pc = "update"
    /\ rowLock[Upload(r)] = None
    /\ rowLock' = [rowLock EXCEPT ![Upload(r)] = r]
    /\ GoTo(r, "commit")
    /\ UNCHANGED <<columns, keyLock>>

(* A plausible bug: the row of the work is locked for the session and not  *)
(* for the transaction (an advisory lock in its place, never released).    *)
CommitKeepingRow(r) ==
    /\ req[r].pc = "commit"
    /\ reactions' = Given(r)
    /\ count' = [count EXCEPT ![Upload(r)] = req[r].counts]
    /\ keyLock' = [k \in Keys |-> IF keyLock[k] = r THEN None ELSE keyLock[k]]
    /\ req' = [req EXCEPT ![r] = Idle(@.key)]
    /\ UNCHANGED <<author, enabled, notified, unread, rowLock>>

(* CreateNotification, for React, and the commit.                          *)
Commit(r) ==
    /\ req[r].pc = "commit"
    /\ reactions' = Given(r)
    /\ count' = [count EXCEPT ![Upload(r)] = req[r].counts]
    /\ notified' = [notified EXCEPT ![req[r].key] = @ + (IF req[r].notify THEN 1 ELSE 0)]
    /\ unread' = [unread EXCEPT ![author[Upload(r)]] = @ + (IF req[r].notify THEN 1 ELSE 0)]
    /\ req' = [q \in Requests |->
         IF q = r THEN Idle(req[r].key)
         ELSE [req[q] EXCEPT !.overtaken =
                 @ \/ (req[q].pc \in {"update", "commit"} /\ Upload(q) = Upload(r))]]
    /\ Release(r)
    /\ UNCHANGED <<author, enabled>>

(* A cancelled request, a lost connection, the end of the server.          *)
Crash(r) == req[r].pc # "idle" /\ End(r)

-----------------------------------------------------------------------------
(* One statement each: MarkAllNotificationsRead and the setting.           *)

MarkAllRead(u) ==
    /\ unread[u] > 0
    /\ unread' = [unread EXCEPT ![u] = 0]
    /\ UNCHANGED <<author, count, reactions, enabled, notified, keyLock, rowLock, req>>

UpdateReactionNotifications(u, on) ==
    /\ enabled[u] # on
    /\ enabled' = [enabled EXCEPT ![u] = on]
    /\ UNCHANGED <<author, count, reactions, notified, unread, keyLock, rowLock, req>>

Step(r) ==
    \/ InsertReaction(r) \/ DeleteReaction(r) \/ RecomputeReactionCounts(r)
    \/ UpdateCounts(r) \/ Commit(r)

Next ==
    \/ \E r \in Requests :
          \/ Step(r) \/ Crash(r)
          \/ \E k \in Keys : React(r, k) \/ Unreact(r, k)
    \/ \E u \in Users : MarkAllRead(u)
    \/ \E u \in Users, on \in BOOLEAN : UpdateReactionNotifications(u, on)

Spec == Init /\ [][Next]_vars

-----------------------------------------------------------------------------
(* An author is notified of a reaction only with the step that gives it,   *)
(* once, and never of the own: a React that is sent twice, or meets one or *)
(* an Unreact on its way, adds nothing (reaction_service.go:38-65).        *)
NotifiedWithReaction ==
    [][\A k \in Keys : notified'[k] # notified[k] =>
          /\ notified'[k] = notified[k] + 1
          /\ k \notin reactions /\ k \in reactions'
          /\ k.user # author[k.upload]]_vars

(* Counts that have gone wrong are put right by the next change of the     *)
(* work's reactions that no other change overtakes: they are counted anew  *)
(* and not adjusted (reaction.sql, RecomputeReactionCounts).               *)
CountsHeal ==
    [][\A r \in Requests :
         (req[r].pc = "commit" /\ ~req[r].overtaken /\ reactions' # reactions
              /\ req'[r].pc = "idle")
            => count'[Upload(r)] = Tally(reactions', Upload(r))]_vars

(* With no request in progress a work shows as many reactions as it has,   *)
(* also after one user gave both at the same time                          *)
(* (reaction_notification_flow_test.go: "want inspired=1 resonated=1").    *)
CountsExactAtRest ==
    (\A r \in Requests : req[r].pc = "idle") =>
        \A w \in Uploads : count[w] = Tally(reactions, w)

(* No schedule of requests blocks itself: first the reaction, then the row *)
(* of the work is locked, by everybody.                                    *)
RequestsEnd == \A r \in Requests : (req[r].pc # "idle") ~> (req[r].pc = "idle")
=============================================================================
