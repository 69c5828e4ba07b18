------------------------------ MODULE Profile ------------------------------
(***************************************************************************)
(* The nickname and the settings of a user: calls that validate, update    *)
(* and read back, and the reactions of others, whose transactions look at  *)
(* the setting before they write a notification.                           *)
(***************************************************************************)
EXTENDS Naturals, FiniteSets

CONSTANTS
    Calls,   \* slots for the user's calls in progress
    Reacts,  \* slots for the React transactions of others
    Inputs,  \* the nicknames asked for that the validator of the document lets through
    MaxOff   \* bound on the notifications that are counted after a switch

InputsAssumption ==
    /\ Inputs \subseteq [pad : Nat, chars : Nat, width : 1..4]
    /\ \A in \in Inputs : in.pad + in.chars \in 1..40
BoundAssumption == MaxOff \in Nat

VARIABLES
    nickname,  \* user_profiles.nickname: its characters, and bytes for each
    enabled,   \* user_settings.reaction_notification_enabled
    call,      \* the calls in progress, or their last answers
    react,     \* the transactions: "none", "notify" or "silent"
    sinceOff   \* notifications since the setting was switched off

vars == <<nickname, enabled, call, react, sinceOff>>

Default == [chars |-> 4, width |-> 1]
Idle == [pc |-> "idle", input |-> [pad |-> 0, chars |-> 0, width |-> 1], nickname |-> Default]

(* strings.TrimSpace.  An input has blanks around characters that all need *)
(* the same number of bytes.                                               *)
TrimSpace(in) == [chars |-> in.chars, width |-> in.width]
Len(s) == s.chars * s.width

(* varchar(40), and chk_user_profiles_nickname_not_blank.                  *)
Column(s) == s.chars \in 1..40

TypeOK ==
    /\ Column(nickname)
    /\ enabled \in BOOLEAN
    /\ \A c \in Calls :
          /\ call[c].pc \in {"idle", "reread", "answered", "refused"}
          /\ call[c].input \in Inputs \cup {Idle.input}
          /\ Column(call[c].nickname)
    /\ react \in [Reacts -> {"none", "notify", "silent"}]
    /\ sinceOff \in 0..MaxOff
    /\ enabled => sinceOff = 0

Init ==
    /\ nickname = Default /\ enabled = TRUE
    /\ call = [c \in Calls |-> Idle]
    /\ react = [r \in Reacts |-> "none"]
    /\ sinceOff = 0

-----------------------------------------------------------------------------
(* The calls.                                                              *)

(* A plausible bug: a nickname of blanks is not looked for. *)
ValidTooShort(in) == Len(TrimSpace(in)) <= 40
ValidNickname(in) == Len(TrimSpace(in)) \in 1..40

UpdateNickname(c, in) ==
    /\ call[c].pc # "reread"
    /\ \/ /\ ~ValidNickname(in)
          /\ call' = [call EXCEPT ![c] = [Idle EXCEPT !.pc = "refused", !.input = in]]
          /\ UNCHANGED nickname
       \/ /\ ValidNickname(in)
          /\ nickname' = TrimSpace(in)
          /\ call' = [call EXCEPT ![c] = [Idle EXCEPT !.pc = "reread", !.input = in]]
    /\ UNCHANGED <<enabled, react, sinceOff>>

UpdateReactionNotifications(c, on) ==
    /\ call[c].pc # "reread"
    /\ enabled' = on
    /\ sinceOff' = IF enabled = on THEN sinceOff ELSE 0
    /\ call' = [call EXCEPT ![c] = [Idle EXCEPT !.pc = "reread"]]
    /\ UNCHANGED <<nickname, react>>

(* A statement of its own: the answer may show what another call wrote.    *)
GetSettings(c) ==
    /\ call[c].pc = "reread"
    /\ call' = [call EXCEPT ![c].pc = "answered", ![c].nickname = nickname]
    /\ UNCHANGED <<nickname, enabled, react, sinceOff>>

-----------------------------------------------------------------------------
(* React, by others: the setting, the reaction, the notification.          *)

(* A plausible bug: the setting is not joined to the work any more. *)
ReactToAnyone(r) ==
    /\ react[r] = "none"
    /\ react' = [react EXCEPT ![r] = "notify"]
    /\ UNCHANGED <<nickname, enabled, call, sinceOff>>

GetVisibleReactionTarget(r) ==
    /\ react[r] = "none"
    /\ react' = [react EXCEPT ![r] = IF enabled THEN "notify" ELSE "silent"]
    /\ UNCHANGED <<nickname, enabled, call, sinceOff>>

CreateNotification(r) ==
    /\ react[r] = "notify" /\ sinceOff < MaxOff
    /\ sinceOff' = IF enabled THEN 0 ELSE sinceOff + 1
    /\ react' = [react EXCEPT ![r] = "none"]
    /\ UNCHANGED <<nickname, enabled, call>>

(* Nothing to notify of, or a rollback.                                    *)
EndReact(r) ==
    /\ react[r] # "none"
    /\ react' = [react EXCEPT ![r] = "none"]
    /\ UNCHANGED <<nickname, enabled, call, sinceOff>>

Next ==
    \/ \E c \in Calls :
          \/ \E in \in Inputs : UpdateNickname(c, in)
          \/ \E on \in BOOLEAN : UpdateReactionNotifications(c, on)
          \/ GetSettings(c)
    \/ \E r \in Reacts : GetVisibleReactionTarget(r) \/ CreateNotification(r) \/ EndReact(r)

Spec == Init /\ [][Next]_vars

-----------------------------------------------------------------------------
(* Who switches the notifications of reactions off still gets those that   *)
(* were being written, no more than there are transactions at a time, and  *)
(* then none (reaction_service.go:31-52 reads the setting first).          *)
OffIsSoonQuiet == sinceOff <= Cardinality({r \in Reacts : react[r] # "notify"})

(* A nickname of one to forty characters is taken ("must be between 1 and  *)
(* 40 characters", profile_errors.go:17; maxLength: 40 in the document).   *)
NicknamesOfForty ==
    \A c \in Calls : call[c].pc = "refused" => call[c].input.chars \notin 1..40
=============================================================================
