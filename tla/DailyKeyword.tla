---------------------------- MODULE DailyKeyword ----------------------------
(***************************************************************************)
(* The official keyword of a date: it is assigned when somebody first asks *)
(* for it, by the read, the choice and the upsert of EnsureDaily-          *)
(* KeywordAssignment, which are statements of their own.  Publish sessions *)
(* are opened under the keyword of a date and ask again when they commit.  *)
(***************************************************************************)
EXTENDS Integers, FiniteSets

CONSTANTS
    Requests,        \* slots for the requests in progress
    Keywords,        \* official keywords, numbered in display order (then by id)
    Sessions,        \* publish sessions
    FirstDay,        \* days are counted from rotationAnchorBizDate
    LastDay,
    KeywordsChange,  \* whether keywords are activated and deactivated meanwhile
    None             \* no keyword

KeywordAssumption == Keywords \subseteq Nat /\ None \notin Keywords \cup Sessions
DayAssumption == FirstDay \in Int /\ LastDay \in Int /\ FirstDay < LastDay
ChangeAssumption == KeywordsChange \in BOOLEAN

Days == FirstDay..LastDay

VARIABLES
    today,       \* the business date of the server's clock
    active,      \* official_keywords.is_active
    assignment,  \* daily_keyword_assignments: the keyword of a date
    session,     \* publish sessions: day, keyword and status
    req          \* the requests in progress

vars == <<today, active, assignment, session, req>>

Idle == [pc |-> "idle", for |-> "home", day |-> FirstDay, keyword |-> None, s |-> None]
NoSession == [status |-> "none", day |-> FirstDay, keyword |-> None]

TypeOK ==
    /\ today \in Days
    /\ active \subseteq Keywords
    /\ assignment \in [Days -> Keywords \cup {None}]
    /\ session \in [Sessions -> [status : {"none", "created", "committed"},
                                 day : Days, keyword : Keywords \cup {None}]]
    /\ req \in [Requests -> [pc : {"idle", "get", "list", "upsert", "use"},
                             for : {"home", "open", "commit"}, day : Days,
                             keyword : Keywords \cup {None}, s : Sessions \cup {None}]]
    /\ \A r \in Requests :
          /\ req[r].pc \in {"upsert", "use"} => req[r].keyword # None
          /\ req[r].pc # "idle" /\ req[r].for # "home" => req[r].s # None

-----------------------------------------------------------------------------
(* The rotation.  Go's remainder has the sign of the dividend.             *)

GoRemainder(a, n) == IF a >= 0 THEN a % n ELSE -((-a) % n)

(* A plausible bug: the sign is dropped instead of wrapped around. *)
UnsignedIndex(days, n) ==
    LET idx == GoRemainder(days, n) IN IF idx < 0 THEN -idx ELSE idx

Index(days, n) ==
    LET idx == GoRemainder(days, n) IN IF idx < 0 THEN idx + n ELSE idx

(* The keyword with exactly idx others before it in the order.             *)
Rotating(S, days) ==
    CHOOSE k \in S :
        Cardinality({j \in S : j < k}) = Index(days, Cardinality(S))

-----------------------------------------------------------------------------

Init ==
    /\ today \in Days
    /\ active \in SUBSET Keywords
    /\ assignment = [d \in Days |-> None]
    /\ session = [s \in Sessions |-> NoSession]
    /\ req = [r \in Requests |-> Idle]

End(r) == req' = [req EXCEPT ![r] = Idle]

(* A screen, for today or yesterday (shouldLazyAssignOfficialDate).        *)
GetOfficialHome(r, d) ==
    /\ req[r].pc = "idle"
    /\ d \in {today, today - 1} \cap Days
    /\ req' = [req EXCEPT ![r] = [Idle EXCEPT !.pc = "get", !.day = d]]
    /\ UNCHANGED <<today, active, assignment, session>>

(* CreateOfficialSession, whose date the client chooses.                   *)
OpenSession(r, s, d) ==
    /\ req[r].pc = "idle"
    /\ session[s].status = "none" /\ \A q \in Requests : req[q].s # s
    /\ req' = [req EXCEPT ![r] = [Idle EXCEPT !.pc = "get", !.for = "open", !.day = d, !.s = s]]
    /\ UNCHANGED <<today, active, assignment, session>>

(* CommitSession, holding the row of the session.                          *)
CommitSession(r, s) ==
    /\ req[r].pc = "idle"
    /\ session[s].status = "created" /\ \A q \in Requests : req[q].s # s
    /\ req' = [req EXCEPT ![r] =
         [Idle EXCEPT !.pc = "get", !.for = "commit", !.day = session[s].day, !.s = s]]
    /\ UNCHANGED <<today, active, assignment, session>>

(* A plausible bug: that there is no row yet is not noticed. *)
ReadAssignmentBlindly(r) ==
    /\ req[r].pc = "get"
    /\ req' = [req EXCEPT ![r].pc = "use", ![r].keyword = assignment[req[r].day]]
    /\ UNCHANGED <<today, active, assignment, session>>

ReadAssignment(r) ==
    /\ req[r].pc = "get"
    /\ LET k == assignment[req[r].day] IN
          req' = IF k = None THEN [req EXCEPT ![r].pc = "list"]
                 ELSE [req EXCEPT ![r].pc = "use", ![r].keyword = k]
    /\ UNCHANGED <<today, active, assignment, session>>

ListActive(r) ==
    /\ req[r].pc = "list"
    /\ IF active = {} THEN End(r)
       ELSE req' = [req EXCEPT ![r].pc = "upsert",
                               ![r].keyword = Rotating(active, req[r].day)]
    /\ UNCHANGED <<today, active, assignment, session>>

(* A plausible bug: the row is that of the server's date, not the request's. *)
UpsertForToday(r) ==
    /\ req[r].pc = "upsert"
    /\ assignment' = [assignment EXCEPT ![today] = req[r].keyword]
    /\ req' = [req EXCEPT ![r].pc = "use"]
    /\ UNCHANGED <<today, active, session>>

(* UpsertDailyKeywordAssignment: ON CONFLICT DO UPDATE.                    *)
Upsert(r) ==
    /\ req[r].pc = "upsert"
    /\ assignment' = [assignment EXCEPT ![req[r].day] = req[r].keyword]
    /\ req' = [req EXCEPT ![r].pc = "use"]
    /\ UNCHANGED <<today, active, session>>

(* A plausible bug: a session is opened under the keyword the client names. *)
UseWithoutComparing(r) ==
    /\ req[r].pc = "use"
    /\ \/ req[r].for = "home" /\ UNCHANGED session
       \/ /\ req[r].for = "open"
          /\ \E k \in Keywords :
                session' = [session EXCEPT ![req[r].s] =
                   [status |-> "created", day |-> req[r].day, keyword |-> k]]
       \/ /\ req[r].for = "commit"
          /\ session' = [session EXCEPT ![req[r].s].status = "committed"]
    /\ End(r)
    /\ UNCHANGED <<today, active, assignment>>

(* What the keyword was asked for.  A session is opened if the keyword is  *)
(* the one the client names, and committed if it is the session's.         *)
Use(r) ==
    /\ req[r].pc = "use"
    /\ \/ req[r].for = "home" /\ UNCHANGED session
       \/ /\ req[r].for = "open"
          /\ \E k \in Keywords :
                \/ k # req[r].keyword /\ UNCHANGED session
                \/ /\ k = req[r].keyword
                   /\ session' = [session EXCEPT ![req[r].s] =
                         [status |-> "created", day |-> req[r].day, keyword |-> k]]
       \/ /\ req[r].for = "commit"
          /\ \/ session[req[r].s].keyword # req[r].keyword /\ UNCHANGED session
             \/ /\ session[req[r].s].keyword = req[r].keyword
                /\ session' = [session EXCEPT ![req[r].s].status = "committed"]
    /\ End(r)
    /\ UNCHANGED <<today, active, assignment>>

Crash(r) ==
    /\ req[r].pc # "idle"
    /\ End(r)
    /\ UNCHANGED <<today, active, assignment, session>>

(* UpsertOfficialKeyword and DeactivateOfficialKeyword, by an operator.    *)
ChangeActive(k) ==
    /\ KeywordsChange
    /\ active' = IF k \in active THEN active \ {k} ELSE active \cup {k}
    /\ UNCHANGED <<today, assignment, session, req>>

NextDay ==
    /\ today < LastDay
    /\ today' = today + 1
    /\ UNCHANGED <<active, assignment, session, req>>

Next ==
    \/ \E r \in Requests :
          \/ \E d \in Days : GetOfficialHome(r, d)
          \/ \E s \in Sessions, d \in Days : OpenSession(r, s, d)
          \/ \E s \in Sessions : CommitSession(r, s)
          \/ ReadAssignment(r) \/ ListActive(r) \/ Upsert(r) \/ Use(r) \/ Crash(r)
    \/ \E k \in Keywords : ChangeActive(k)
    \/ NextDay

Spec == Init /\ [][Next]_vars

-----------------------------------------------------------------------------
(* A request has found a date without a keyword and is about to choose.    *)
Choosing(d) == \E r \in Requests : req[r].pc \in {"list", "upsert"} /\ req[r].day = d

(* Of any step: a keyword of a date may be overwritten with another one,   *)
(* chosen from other active keywords, but only by a request that had found *)
(* none: once those are done it stays, whatever happens to the keywords    *)
(* (EnsureDailyKeywordAssignment: the upsert does not look again).         *)
AssignmentSettles ==
    \A d \in Days :
        assignment[d] # None /\ ~Choosing(d) => assignment'[d] = assignment[d]

(* While the keywords do not change, requests that race for a date choose  *)
(* the same keyword: everything published for it is under one keyword.     *)
OneKeywordPerDay ==
    ~KeywordsChange =>
        \A s \in Sessions : session[s].status # "none" =>
            session[s].keyword = assignment[session[s].day]

(* While the keywords do not change, each has its turn before any comes    *)
(* again, before the anchor date and across it (rotatingKeywordForDate).   *)
RotationFair ==
    ~KeywordsChange =>
        \A d1, d2 \in Days :
            (assignment[d1] # None /\ assignment[d2] # None)
                => ((assignment[d1] = assignment[d2])
                      <=> ((d1 - d2) % Cardinality(active) = 0))
=============================================================================
