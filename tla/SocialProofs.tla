---------------------------- MODULE SocialProofs ----------------------------
(***************************************************************************)
(* Proofs about reactions, the page of a user and the settings, for every  *)
(* set of requests, users, works and types of reactions.                   *)
(***************************************************************************)
EXTENDS MCSocial, FiniteSetTheorems, WellFoundedInduction, TLAPS

allVars == <<part, vars, pageVars, personVars>>

-----------------------------------------------------------------------------
(* Reactions: types.                                                       *)

Request == [pc : {"idle", "insert", "delete", "recount", "update", "commit"},
            key : Keys, give : BOOLEAN, notify : BOOLEAN,
            counts : [Types -> 0..Cardinality(Users)], overtaken : BOOLEAN]

ReactTypes ==
    /\ author \in [Uploads -> Users]
    /\ count \in [Uploads -> [Types -> 0..Cardinality(Users)]]
    /\ reactions \subseteq Keys
    /\ enabled \in [Users -> BOOLEAN]
    /\ notified \in [Keys -> Nat]
    /\ unread \in [Users -> Nat]
    /\ keyLock \in [Keys -> Requests \cup {None}]
    /\ rowLock \in [Uploads -> Requests \cup {None}]
    /\ req \in [Requests -> Request]

(* A user gives a work one reaction of a type at most: there are never     *)
(* more of them than users.                                                *)
LEMMA TallyType ==
  ASSUME NEW S, S \subseteq Keys, NEW w
  PROVE  Tally(S, w) \in [Types -> 0..Cardinality(Users)]
  <1> SUFFICES ASSUME NEW t \in Types
               PROVE  Cardinality({k \in S : k.upload = w /\ k.type = t})
                        \in 0..Cardinality(Users)
    BY DEF Tally
  <1> DEFINE T == {k \in S : k.upload = w /\ k.type = t}
             f == [k \in T |-> k.user]
  <1>1. f \in Injection(T, Users)
    <2>1. f \in [T -> Users]
      BY DEF Keys
    <2>2. \A j, k \in T : f[j] = f[k] => j = k
      BY DEF Keys
    <2>3. QED
      BY <2>1, <2>2 DEF Injection, IsInjective
  <1>2. IsFiniteSet(T) /\ Cardinality(T) <= Cardinality(Users)
    BY <1>1, SlotsAssumption, FS_Injection
  <1>3. Cardinality(T) \in Nat /\ Cardinality(Users) \in Nat
    BY <1>2, SlotsAssumption, FS_CardinalityType
  <1>4. QED
    BY <1>2, <1>3

(* A slot that holds no request.                                           *)
LEMMA IdleType ==
  ASSUME NEW k \in Keys
  PROVE  Idle(k) \in Request
  <1>1. Cardinality(Users) \in Nat
    BY SlotsAssumption, FS_CardinalityType
  <1>2. Zero \in [Types -> 0..Cardinality(Users)]
    BY <1>1 DEF Zero
  <1>3. QED
    BY <1>2 DEF Idle, Request

(* The reactions as a transaction sees them.                               *)
LEMMA GivenType ==
  ASSUME ReactTypes, NEW r \in Requests
  PROVE  Given(r) \subseteq Keys /\ req[r] \in Request /\ req[r].key \in Keys
  BY DEF ReactTypes, Given, Request

(* A number of each is raised for one.                                     *)
LEMMA RaisedType ==
  ASSUME NEW S, NEW f \in [S -> Nat], NEW k, NEW n \in Nat
  PROVE  [f EXCEPT ![k] = @ + n] \in [S -> Nat]
  <1>1. \A x \in S : [f EXCEPT ![k] = @ + n][x] = IF x = k THEN f[x] + n ELSE f[x]
    OBVIOUS
  <1>2. \A x \in S : f[x] \in Nat /\ f[x] + n \in Nat
    OBVIOUS
  <1>3. QED
    BY <1>1, <1>2

(* Every step keeps the types.                                             *)
LEMMA ReactTypesStep ==
  ASSUME ReactTypes, [Next]_vars
  PROVE  ReactTypes'
  <1> USE DEF ReactTypes
  <1>1. ASSUME NEW r \in Requests, End(r)
        PROVE  ReactTypes'
    <2>1. Idle(req[r].key) \in Request
      BY GivenType, IdleType
    <2>2. req' \in [Requests -> Request]
      BY <1>1, <2>1 DEF End
    <2>3. QED
      BY <1>1, <2>2 DEF End, Release, columns
  <1>2. ASSUME NEW r \in Requests, NEW k \in Keys, React(r, k)
        PROVE  ReactTypes'
    <2>1. Idle(k) \in Request
      BY IdleType
    <2> DEFINE q == [Idle(k) EXCEPT !.pc = "insert", !.give = TRUE,
                     !.notify = k.user # author[k.upload] /\ enabled[author[k.upload]]]
    <2>2. q \in Request
      <3>1. (k.user # author[k.upload] /\ enabled[author[k.upload]]) \in BOOLEAN
        OBVIOUS
      <3>2. QED
        BY <2>1, <3>1 DEF Request
    <2>3. req' \in [Requests -> Request]
      BY <1>2, <2>2 DEF React
    <2>4. QED
      BY <1>2, <2>3 DEF React, columns
  <1>3. ASSUME NEW r \in Requests, NEW k \in Keys, Unreact(r, k)
        PROVE  ReactTypes'
    <2>1. [Idle(k) EXCEPT !.pc = "delete"] \in Request
      BY IdleType DEF Request
    <2>2. req' \in [Requests -> Request]
      BY <1>3, <2>1 DEF Unreact
    <2>3. QED
      BY <1>3, <2>2 DEF Unreact, columns
  <1>4. ASSUME NEW r \in Requests, InsertReaction(r) \/ DeleteReaction(r)
        PROVE  ReactTypes'
    <2>1. CASE End(r)
      BY <1>1, <2>1
    <2>2. CASE ~End(r)
      <3>1. /\ keyLock' = [keyLock EXCEPT ![req[r].key] = r]
            /\ GoTo(r, "recount")
            /\ UNCHANGED <<columns, rowLock>>
        BY <1>4, <2>2 DEF InsertReaction, DeleteReaction
      <3>2. [req[r] EXCEPT !.pc = "recount"] \in Request
        BY DEF Request
      <3>3. req' \in [Requests -> Request]
        BY <3>1, <3>2 DEF GoTo
      <3>4. QED
        BY <3>1, <3>3 DEF columns
    <2>3. QED
      BY <2>1, <2>2
  <1>5. ASSUME NEW r \in Requests, RecomputeReactionCounts(r)
        PROVE  ReactTypes'
    <2>1. Tally(Given(r), Upload(r)) \in [Types -> 0..Cardinality(Users)]
      BY GivenType, TallyType
    <2>2. [req[r] EXCEPT !.pc = "update", !.counts = Tally(Given(r), Upload(r))]
            \in Request
      BY ZenonT(40), <2>1 DEF Request
    <2>3. req' \in [Requests -> Request]
      BY <1>5, <2>2 DEF RecomputeReactionCounts
    <2>4. QED
      BY <1>5, <2>3 DEF RecomputeReactionCounts, columns
  <1>6. ASSUME NEW r \in Requests, UpdateCounts(r)
        PROVE  ReactTypes'
    <2>1. [req[r] EXCEPT !.pc = "commit"] \in Request
      BY DEF Request
    <2>2. req' \in [Requests -> Request]
      BY <1>6, <2>1 DEF UpdateCounts, GoTo
    <2>3. QED
      BY <1>6, <2>2 DEF UpdateCounts, columns
  <1>7. ASSUME NEW r \in Requests, Commit(r)
        PROVE  ReactTypes'
    <2>1. req' \in [Requests -> Request]
      <3>1. ASSUME NEW q \in Requests
            PROVE  req'[q] \in Request
        <4>1. CASE q = r
          BY <1>7, <4>1, GivenType, IdleType DEF Commit
        <4>2. CASE q # r
          <5> DEFINE b == req[q].overtaken
                     \/ (req[q].pc \in {"update", "commit"} /\ Upload(q) = Upload(r))
          <5>1. req'[q] = [req[q] EXCEPT !.overtaken = b]
            BY <1>7, <4>2 DEF Commit, Request
          <5>2. b \in BOOLEAN
            BY DEF Request
          <5>3. QED
            BY ZenonT(40), <5>1, <5>2 DEF Request
        <4>3. QED
          BY <4>1, <4>2
      <3>2. QED
        BY <1>7, <3>1 DEF Commit
    <2>2. reactions' \subseteq Keys /\ req[r].counts \in [Types -> 0..Cardinality(Users)]
      BY <1>7, GivenType DEF Commit, Request
    <2>3. count' \in [Uploads -> [Types -> 0..Cardinality(Users)]]
      BY <1>7, <2>2 DEF Commit
    <2> DEFINE n == IF req[r].notify THEN 1 ELSE 0
    <2>4. notified' \in [Keys -> Nat]
      <3>1. notified' = [notified EXCEPT ![req[r].key] = @ + n] /\ n \in Nat
        BY <1>7 DEF Commit
      <3> HIDE DEF n
      <3>2. QED
        BY <3>1, RaisedType
    <2>5. unread' \in [Users -> Nat]
      <3>1. unread' = [unread EXCEPT ![author[Upload(r)]] = @ + n] /\ n \in Nat
        BY <1>7 DEF Commit
      <3> HIDE DEF n
      <3>2. QED
        BY <3>1, RaisedType
    <2>6. QED
      BY <1>7, <2>1, <2>2, <2>3, <2>4, <2>5 DEF Commit, Release
  <1>8. ASSUME \/ \E u \in Users : MarkAllRead(u)
               \/ \E u \in Users, on \in BOOLEAN : UpdateReactionNotifications(u, on)
               \/ UNCHANGED vars
        PROVE  ReactTypes'
    BY <1>8 DEF MarkAllRead, UpdateReactionNotifications, vars
  <1>9. QED
    BY <1>1, <1>2, <1>3, <1>4, <1>5, <1>6, <1>7, <1>8 DEF Next, Step, Crash

-----------------------------------------------------------------------------
(* Reactions: what a transaction knows.                                    *)

(* A transaction that has inserted or deleted a reaction holds its key,    *)
(* and found the other state of it; who is notified is not the giver; the  *)
(* counts are right as long as nobody overtakes.                           *)
Writes(r) == req[r].pc \in {"recount", "update", "commit"}
Counted(r) == req[r].pc \in {"update", "commit"} /\ ~req[r].overtaken

CallInv(r) ==
    /\ req[r].pc = "insert" => req[r].give
    /\ req[r].pc = "delete" => ~req[r].give
    /\ req[r].notify => req[r].give /\ req[r].key.user # author[Upload(r)]
    /\ Writes(r) => /\ keyLock[req[r].key] = r
                    /\ req[r].give <=> req[r].key \notin reactions
    /\ Counted(r) => req[r].counts = Tally(Given(r), Upload(r))

CallsInv == \A r \in Requests : CallInv(r)

(* Counts of a work depend on its reactions alone.                         *)
LEMMA TallySame ==
  ASSUME NEW S, NEW T, NEW w,
         \A k : k.upload = w => (k \in S <=> k \in T)
  PROVE  Tally(S, w) = Tally(T, w)
  <1>1. \A t \in Types : {k \in S : k.upload = w /\ k.type = t}
                            = {k \in T : k.upload = w /\ k.type = t}
    OBVIOUS
  <1>2. QED
    BY <1>1 DEF Tally

(* What a transaction knows is not disturbed by what leaves its request,   *)
(* its lock and the reactions alone.                                       *)
LEMMA CallKept ==
  ASSUME NEW q \in Requests, CallInv(q), req'[q] = req[q],
         UNCHANGED <<author, reactions>>,
         Writes(q) => keyLock'[req[q].key] = keyLock[req[q].key]
  PROVE  CallInv(q)'
  BY DEF CallInv, Writes, Counted, Given, Upload

(* A transaction that ends knows nothing.                                  *)
LEMMA CallEnded ==
  ASSUME NEW r \in Requests, NEW k, req'[r] = Idle(k)
  PROVE  CallInv(r)'
  BY DEF CallInv, Writes, Counted, Idle

(* Two transactions do not write the same reaction.                        *)
LEMMA WritersApart ==
  ASSUME CallsInv, NEW q \in Requests, NEW r \in Requests, q # r,
         Writes(q), Writes(r) \/ keyLock[req[r].key] = None
  PROVE  req[q].key # req[r].key
  BY NoneAssumption DEF CallsInv, CallInv

(* Every step keeps what a transaction knows.                              *)
LEMMA CallsStep ==
  ASSUME ReactTypes, CallsInv, [Next]_vars
  PROVE  CallsInv'
  <1> SUFFICES ASSUME NEW q \in Requests PROVE CallInv(q)'
    BY DEF CallsInv
  <1>0. CallInv(q) /\ req[q] \in Request /\ req[q].key \in Keys
    BY DEF CallsInv, ReactTypes, Request
  <1>1. ASSUME NEW r \in Requests, End(r)
        PROVE  CallInv(q)'
    <2>1. CASE q = r
      <3>1. req'[r] = Idle(req[r].key)
        BY <1>1 DEF End, ReactTypes
      <3>2. QED
        BY <2>1, <3>1, CallEnded
    <2>2. CASE q # r
      <3>1. req'[q] = req[q] /\ UNCHANGED <<author, reactions>>
        BY <1>1, <2>2 DEF End, ReactTypes, columns
      <3>2. Writes(q) => keyLock'[req[q].key] = keyLock[req[q].key]
        BY <1>0, <1>1, <2>2 DEF End, Release, CallInv
      <3>3. QED
        BY <1>0, <3>1, <3>2, CallKept
    <2>3. QED
      BY <2>1, <2>2
  <1>2. ASSUME NEW r \in Requests, NEW k \in Keys, React(r, k) \/ Unreact(r, k)
        PROVE  CallInv(q)'
    <2>1. UNCHANGED <<author, reactions, keyLock>>
      BY <1>2 DEF React, Unreact, columns
    <2>2. CASE q = r
      <3>1. CASE React(r, k)
        <4>1. /\ req'[r].pc = "insert" /\ req'[r].give = TRUE /\ req'[r].key = k
              /\ req'[r].notify => k.user # author[k.upload]
          BY <3>1 DEF React, ReactTypes, Idle
        <4>2. QED
          BY <2>1, <2>2, <4>1 DEF CallInv, Writes, Counted, Upload
      <3>2. CASE Unreact(r, k)
        <4>1. req'[r].pc = "delete" /\ req'[r].give = FALSE /\ req'[r].notify = FALSE
          BY <3>2 DEF Unreact, ReactTypes, Idle
        <4>2. QED
          BY <2>2, <4>1 DEF CallInv, Writes, Counted
      <3>3. QED
        BY <1>2, <3>1, <3>2
    <2>3. CASE q # r
      <3>1. req'[q] = req[q]
        BY <1>2, <2>3 DEF React, Unreact, ReactTypes
      <3>2. QED
        BY <1>0, <2>1, <3>1, CallKept
    <2>4. QED
      BY <2>2, <2>3
  <1>3. ASSUME NEW r \in Requests, InsertReaction(r) \/ DeleteReaction(r)
        PROVE  CallInv(q)'
    <2>1. CASE End(r)
      BY <1>1, <2>1
    <2>2. CASE ~End(r)
      <3>1. /\ keyLock' = [keyLock EXCEPT ![req[r].key] = r]
            /\ keyLock[req[r].key] = None
            /\ req' = [req EXCEPT ![r].pc = "recount"]
            /\ UNCHANGED <<author, reactions>>
        BY <1>3, <2>2 DEF InsertReaction, DeleteReaction, GoTo, columns
      <3>2. CASE q = r
        <4>1. /\ req'[q].pc = "recount" /\ req'[q].key = req[q].key
              /\ req'[q].give = req[q].give /\ req'[q].notify = req[q].notify
          BY <1>0, <3>1, <3>2 DEF ReactTypes, Request
        <4>2. keyLock'[req[q].key] = r
          BY <1>0, <3>1, <3>2 DEF ReactTypes
        <4>3. req[q].give <=> req[q].key \notin reactions
          BY <1>0, <1>3, <2>2, <3>2 DEF InsertReaction, DeleteReaction, CallInv
        <4>4. QED
          BY <1>0, <3>1, <3>2, <4>1, <4>2, <4>3 DEF CallInv, Writes, Counted, Upload
      <3>3. CASE q # r
        <4>1. req'[q] = req[q]
          BY <3>1, <3>3 DEF ReactTypes
        <4>2. Writes(q) => keyLock'[req[q].key] = keyLock[req[q].key]
          BY <1>0, <3>1, <3>3, WritersApart DEF ReactTypes
        <4>3. QED
          BY <1>0, <3>1, <4>1, <4>2, CallKept
      <3>4. QED
        BY <3>2, <3>3
    <2>3. QED
      BY <2>1, <2>2
  <1>4. ASSUME NEW r \in Requests, RecomputeReactionCounts(r) \/ UpdateCounts(r)
        PROVE  CallInv(q)'
    <2>1. UNCHANGED <<author, reactions, keyLock>>
      BY <1>4 DEF RecomputeReactionCounts, UpdateCounts, columns
    <2>2. CASE q = r
      <3>1. /\ req'[q].pc \in {"update", "commit"} /\ req'[q].key = req[q].key
            /\ req'[q].give = req[q].give /\ req'[q].notify = req[q].notify
            /\ req'[q].overtaken = req[q].overtaken
        BY <1>0, <1>4, <2>2 DEF RecomputeReactionCounts, UpdateCounts, GoTo,
           ReactTypes, Request
      <3>2. Writes(q)
        BY <1>4, <2>2 DEF RecomputeReactionCounts, UpdateCounts, Writes
      <3>3. ~req[q].overtaken => req'[q].counts = Tally(Given(q), Upload(q))
        <4>1. CASE RecomputeReactionCounts(r)
          BY <2>2, <4>1 DEF RecomputeReactionCounts, ReactTypes, Request
        <4>2. CASE UpdateCounts(r)
          BY <1>0, <2>2, <4>2 DEF UpdateCounts, GoTo, ReactTypes, Request,
             CallInv, Counted
        <4>3. QED
          BY <1>4, <4>1, <4>2
      <3>4. Given(q)' = Given(q) /\ Upload(q)' = Upload(q)
        BY <2>1, <3>1 DEF Given, Upload
      <3>5. req'[q].counts = Tally(Given(q), Upload(q))
              => req'[q].counts = Tally(Given(q), Upload(q))'
        BY <3>4 DEF Tally
      <3>6. QED
        BY <1>0, <2>1, <3>1, <3>2, <3>3, <3>4, <3>5
           DEF CallInv, Writes, Counted
    <2>3. CASE q # r
      <3>1. req'[q] = req[q]
        BY <1>4, <2>3 DEF RecomputeReactionCounts, UpdateCounts, GoTo, ReactTypes
      <3>2. QED
        BY <1>0, <2>1, <3>1, CallKept
    <2>4. QED
      BY <2>2, <2>3
  <1>5. ASSUME NEW r \in Requests, Commit(r)
        PROVE  CallInv(q)'
    <2>1. author' = author /\ reactions' = Given(r)
      BY <1>5 DEF Commit
    <2>2. CASE q = r
      <3>1. req'[r] = Idle(req[r].key)
        BY <1>5 DEF Commit
      <3>2. QED
        BY <2>2, <3>1, CallEnded
    <2>3. CASE q # r
      <3>1. /\ req'[q].pc = req[q].pc /\ req'[q].key = req[q].key
            /\ req'[q].give = req[q].give /\ req'[q].notify = req[q].notify
            /\ req'[q].counts = req[q].counts
            /\ req'[q].overtaken = (req[q].overtaken
                  \/ (req[q].pc \in {"update", "commit"} /\ Upload(q) = Upload(r)))
        BY <1>0, <1>5, <2>3 DEF Commit, Request
      <3>2. Writes(r)
        BY <1>5 DEF Commit, Writes
      <3>3. Writes(q) => /\ keyLock'[req[q].key] = q
                         /\ req[q].give <=> req[q].key \notin reactions'
        <4>1. Writes(q) => req[q].key # req[r].key
          BY <2>3, <3>2, WritersApart
        <4>2. Writes(q) => keyLock'[req[q].key] = q
          BY <1>0, <1>5, <2>3 DEF Commit, Release, CallInv
        <4>3. QED
          BY <1>0, <2>1, <4>1, <4>2 DEF CallInv, Given
      <3>4. Counted(q)' => req[q].counts = Tally(Given(q), Upload(q))'
        <4> SUFFICES ASSUME Counted(q)'
                     PROVE  req[q].counts = Tally(Given(q), Upload(q))'
          OBVIOUS
        <4>1. Counted(q) /\ Upload(q) # Upload(r)
          BY <3>1 DEF Counted
        <4>2. req[q].counts = Tally(Given(q), Upload(q))
          BY <1>0, <4>1 DEF CallInv
        <4>3. \A k : k.upload = Upload(q) => (k \in Given(q) <=> k \in Given(q)')
          BY <2>1, <3>1, <4>1 DEF Given, Upload
        <4>4. Upload(q)' = Upload(q)
          BY <3>1 DEF Upload
        <4>5. PICK S, w : S = Given(q)' /\ w = Upload(q)
          OBVIOUS
        <4>6. Tally(Given(q), w) = Tally(S, w)
          BY <4>3, <4>5, TallySame
        <4>7. Tally(Given(q), Upload(q))' = Tally(S, w)
          BY <4>4, <4>5 DEF Tally
        <4>8. QED
          BY <4>2, <4>5, <4>6, <4>7
      <3>5. QED
        BY <1>0, <2>1, <3>1, <3>3, <3>4 DEF CallInv, Writes, Counted, Upload
    <2>4. QED
      BY <2>2, <2>3
  <1>6. ASSUME \/ \E u \in Users : MarkAllRead(u)
               \/ \E u \in Users, on \in BOOLEAN : UpdateReactionNotifications(u, on)
               \/ UNCHANGED vars
        PROVE  CallInv(q)'
    <2>1. UNCHANGED <<author, reactions, keyLock, req>>
      BY <1>6 DEF MarkAllRead, UpdateReactionNotifications, vars
    <2>2. QED
      BY <1>0, <2>1, CallKept
  <1>7. QED
    BY <1>1, <1>2, <1>3, <1>4, <1>5, <1>6 DEF Next, Step, Crash

-----------------------------------------------------------------------------
(* Reactions: notifications and counts.                                    *)

(* Each part of the composition moves alone.                               *)
LEMMA SocialIsReactions == SocialSpec => Spec
  <1>1. SocialInit => Init
    BY DEF SocialInit
  <1>2. [SocialNext]_allVars => [Next]_vars
    BY DEF SocialNext, allVars, vars
  <1>3. QED
    BY <1>1, <1>2, PTL DEF SocialSpec, Spec, allVars

(* What a transaction knows is true in every reachable state.              *)
LEMMA ReactionsHold == Spec => [](ReactTypes /\ CallsInv)
  <1>1. Init => ReactTypes /\ CallsInv
    <2> SUFFICES ASSUME Init PROVE ReactTypes /\ CallsInv
      OBVIOUS
    <2>1. PICK k \in Keys : req = [r \in Requests |-> Idle(k)]
      BY DEF Init
    <2>2. Idle(k) \in Request
      BY IdleType
    <2>3. \A r \in Requests : CallInv(r)
      BY <2>1 DEF CallInv, Writes, Counted, Idle
    <2>4. Zero \in [Types -> 0..Cardinality(Users)]
      <3>1. Cardinality(Users) \in Nat
        BY SlotsAssumption, FS_CardinalityType
      <3>2. QED
        BY <3>1 DEF Zero
    <2>5. ReactTypes
      BY <2>1, <2>2, <2>4 DEF Init, ReactTypes
    <2>6. QED
      BY <2>3, <2>5 DEF CallsInv
  <1>2. ReactTypes /\ CallsInv /\ [Next]_vars => (ReactTypes /\ CallsInv)'
    BY ZenonT(40), ReactTypesStep, CallsStep
  <1>3. QED
    BY <1>1, <1>2, PTL DEF Spec

(* All but a commit leave the reactions and the notifications alone.       *)
LEMMA OnlyCommits ==
  ASSUME [Next]_vars
  PROVE  (\E r \in Requests : Commit(r)) \/ UNCHANGED <<reactions, notified>>
  BY DEF Next, Step, Crash, React, Unreact, InsertReaction, DeleteReaction, End,
     RecomputeReactionCounts, UpdateCounts, MarkAllRead,
     UpdateReactionNotifications, columns, vars

(* A commit notifies of the reaction it gives, and of no other.            *)
LEMMA NotifiedStep ==
  ASSUME ReactTypes, CallsInv, [Next]_vars, NEW k \in Keys,
         notified'[k] # notified[k]
  PROVE  /\ notified'[k] = notified[k] + 1
         /\ k \notin reactions /\ k \in reactions'
         /\ k.user # author[k.upload]
  <1>1. PICK r \in Requests : Commit(r)
    BY OnlyCommits
  <1>2. k = req[r].key /\ req[r].notify /\ notified'[k] = notified[k] + 1
    BY <1>1 DEF Commit, ReactTypes
  <1>3. req[r].give /\ k \notin reactions /\ k.user # author[k.upload]
    BY <1>1, <1>2 DEF CallsInv, CallInv, Writes, Commit, Upload
  <1>4. k \in reactions'
    BY <1>1, <1>2, <1>3 DEF Commit, Given
  <1>5. QED
    BY <1>2, <1>3, <1>4

(* A commit that nobody overtook writes the counts of the reactions as     *)
(* they then are.                                                          *)
LEMMA HealStep ==
  ASSUME ReactTypes, CallsInv, [Next]_vars, NEW r \in Requests,
         req[r].pc = "commit", ~req[r].overtaken, reactions' # reactions,
         req'[r].pc = "idle"
  PROVE  count'[Upload(r)] = Tally(reactions', Upload(r))
  <1>1. PICK q \in Requests : Commit(q)
    BY OnlyCommits
  <1>2. q = r
    <2>1. q # r => req'[r].pc = req[r].pc
      BY <1>1 DEF Commit, ReactTypes, Request
    <2>2. QED
      BY <2>1
  <1>3. req[r].counts = Tally(Given(r), Upload(r))
    BY DEF CallsInv, CallInv, Counted
  <1>4. Upload(r) \in Uploads
    BY DEF ReactTypes, Request, Keys, Upload
  <1>5. count'[Upload(r)] = req[r].counts /\ reactions' = Given(r)
    BY <1>1, <1>2, <1>4 DEF Commit, ReactTypes
  <1>6. QED
    BY <1>3, <1>5

(* An author is notified once for a reaction that was given, and of no     *)
(* reaction of the own, however requests meet.                             *)
THEOREM NotifiedOnlyOnce == SocialSpec => NotifiedWithReaction
  <1>1. ReactTypes /\ CallsInv /\ [Next]_vars =>
          [\A k \in Keys : notified'[k] # notified[k] =>
             /\ notified'[k] = notified[k] + 1
             /\ k \notin reactions /\ k \in reactions'
             /\ k.user # author[k.upload]]_vars
    BY NotifiedStep
  <1>2. QED
    BY <1>1, SocialIsReactions, ReactionsHold, PTL DEF Spec, NotifiedWithReaction

(* The counts of a work are put right by its next change that no other     *)
(* change overtakes.                                                       *)
THEOREM CountsAreHealed == SocialSpec => CountsHeal
  <1>1. ReactTypes /\ CallsInv /\ [Next]_vars =>
          [\A r \in Requests :
             (req[r].pc = "commit" /\ ~req[r].overtaken /\ reactions' # reactions
                  /\ req'[r].pc = "idle")
                => count'[Upload(r)] = Tally(reactions', Upload(r))]_vars
    BY HealStep
  <1>2. QED
    BY <1>1, SocialIsReactions, ReactionsHold, PTL DEF Spec, CountsHeal

-----------------------------------------------------------------------------
(* Reactions: the bound on the notifications of one reaction.              *)

(* The requests that will notify of a reaction when they commit.           *)
Notifying(k) == {r \in Requests : req[r].notify /\ req[r].key = k}

NotifiedBounded ==
    \A k \in Keys :
        notified[k] + Cardinality(Notifying(k)) <= MaxNotes + Cardinality(Requests) - 1

(* There are finitely many, and at least one slot.                         *)
LEMMA NotifyingFinite ==
  ASSUME NEW k
  PROVE  /\ IsFiniteSet(Notifying(k)) /\ Cardinality(Notifying(k)) \in Nat
         /\ Cardinality(Notifying(k)) <= Cardinality(Requests)
         /\ Cardinality(Requests) \in Nat \ {0}
  <1>1. Notifying(k) \subseteq Requests
    BY DEF Notifying
  <1>2. IsFiniteSet(Notifying(k))
        /\ Cardinality(Notifying(k)) <= Cardinality(Requests)
    BY <1>1, SlotsAssumption, FS_Subset
  <1>3. Cardinality(Requests) \in Nat /\ Cardinality(Requests) # 0
    BY SlotsAssumption, FS_CardinalityType, FS_EmptySet
  <1>4. QED
    BY <1>2, <1>3, FS_CardinalityType

(* A reaction is given again only below the bound, and a notification      *)
(* takes one request off those that will notify.                           *)
LEMMA NotifiedBoundedStep ==
  ASSUME ReactTypes, NotifiedBounded, [Next]_vars
  PROVE  NotifiedBounded'
  <1> SUFFICES ASSUME NEW k \in Keys
               PROVE  notified'[k] + Cardinality(Notifying(k)')
                        <= MaxNotes + Cardinality(Requests) - 1
    BY DEF NotifiedBounded
  <1> DEFINE N == Notifying(k)
             M == Notifying(k)'
             bound == MaxNotes + Cardinality(Requests) - 1
  <1>1. /\ IsFiniteSet(N) /\ Cardinality(N) \in Nat
        /\ Cardinality(N) <= Cardinality(Requests)
        /\ Cardinality(Requests) \in Nat \ {0} /\ bound \in Nat
        /\ notified[k] \in Nat /\ notified[k] + Cardinality(N) <= bound
    BY NotifyingFinite, BoundAssumption DEF ReactTypes, NotifiedBounded
  <1>2. /\ M \subseteq Requests /\ Cardinality(M) \in Nat
        /\ Cardinality(M) <= Cardinality(Requests)
    <2>1. M \subseteq Requests
      BY DEF Notifying
    <2>2. IsFiniteSet(M) /\ Cardinality(M) <= Cardinality(Requests)
      BY <2>1, SlotsAssumption, FS_Subset
    <2>3. QED
      BY <2>1, <2>2, FS_CardinalityType
  <1>3. M \subseteq N => Cardinality(M) <= Cardinality(N)
    BY <1>1, FS_Subset
  <1>4. ASSUME M \subseteq N, notified'[k] = notified[k]
        PROVE  notified'[k] + Cardinality(M) <= bound
    BY <1>1, <1>2, <1>3, <1>4
  <1>5. ASSUME NEW r \in Requests, NEW j \in Keys, React(r, j)
        PROVE  notified'[k] + Cardinality(M) <= bound
    <2>1. notified' = notified
      BY <1>5 DEF React, columns
    <2>2. CASE j = k
      <3>1. notified[k] < MaxNotes
        BY <1>5, <2>2 DEF React
      <3>2. QED
        BY <1>1, <1>2, <2>1, <3>1, BoundAssumption
    <2>3. CASE j # k
      <3>1. M \subseteq N
        BY <1>5, <2>3 DEF React, Notifying, ReactTypes, Idle
      <3>2. QED
        BY <1>4, <2>1, <3>1
    <2>4. QED
      BY <2>2, <2>3
  <1>6. ASSUME NEW r \in Requests, Commit(r)
        PROVE  notified'[k] + Cardinality(M) <= bound
    <2>1. \A q \in Requests : q # r => /\ req'[q].notify = req[q].notify
                                       /\ req'[q].key = req[q].key
      BY <1>6 DEF Commit, ReactTypes, Request
    <2>2. ~req'[r].notify
      BY <1>6 DEF Commit, Idle
    <2>3. M = N \ {r}
      BY <2>1, <2>2 DEF Notifying
    <2>4. CASE r \in N
      <3>1. notified'[k] = notified[k] + 1
        BY <1>6, <2>4 DEF Notifying, Commit, ReactTypes
      <3>2. Cardinality(M) = Cardinality(N) - 1
        BY ZenonT(40), <1>1, <2>3, <2>4, FS_RemoveElement
      <3>3. QED
        BY <1>1, <3>1, <3>2
    <2>5. CASE r \notin N
      <3>1. notified'[k] = notified[k]
        BY <1>6, <2>5 DEF Notifying, Commit, ReactTypes
      <3>2. QED
        BY <1>4, <2>3, <3>1
    <2>6. QED
      BY <2>4, <2>5
  <1>7. ASSUME NEW r \in Requests,
               \/ InsertReaction(r) \/ DeleteReaction(r) \/ UpdateCounts(r)
               \/ RecomputeReactionCounts(r) \/ Crash(r)
               \/ \E j \in Keys : Unreact(r, j)
        PROVE  notified'[k] + Cardinality(M) <= bound
    <2>1. notified' = notified
      BY <1>7 DEF InsertReaction, DeleteReaction, RecomputeReactionCounts,
         UpdateCounts, Crash, Unreact, End, columns
    <2>2. \A q \in Requests : q # r => req'[q] = req[q]
      BY <1>7 DEF InsertReaction, DeleteReaction, RecomputeReactionCounts,
         UpdateCounts, Crash, Unreact, End, GoTo, ReactTypes
    <2>3. req'[r].notify => req[r].notify /\ req'[r].key = req[r].key
      <3>1. CASE End(r)
        <4>1. req'[r] = Idle(req[r].key)
          BY <3>1 DEF End, ReactTypes
        <4>2. QED
          BY <4>1 DEF Idle
      <3>2. CASE \E j \in Keys : Unreact(r, j)
        <4>1. PICK j \in Keys : req'[r] = [Idle(j) EXCEPT !.pc = "delete"]
          BY <3>2 DEF Unreact, ReactTypes
        <4>2. req'[r].notify = FALSE
          BY <4>1 DEF Idle
        <4>3. QED
          BY <4>2
      <3>3. CASE ~(End(r) \/ \E j \in Keys : Unreact(r, j))
        <4>1. \/ req' = [req EXCEPT ![r].pc = "recount"]
              \/ req' = [req EXCEPT ![r].pc = "commit"]
              \/ req' = [req EXCEPT ![r].pc = "update",
                                   ![r].counts = Tally(Given(r), Upload(r))]
          BY <1>7, <3>3 DEF InsertReaction, DeleteReaction, UpdateCounts,
             RecomputeReactionCounts, Crash, GoTo
        <4>2. req'[r].notify = req[r].notify /\ req'[r].key = req[r].key
          BY <4>1 DEF ReactTypes, Request
        <4>3. QED
          BY <4>2
      <3>4. QED
        BY <3>1, <3>2, <3>3
    <2>4. M \subseteq N
      BY <2>2, <2>3 DEF Notifying
    <2>5. QED
      BY <1>4, <2>1, <2>4
  <1>8. ASSUME \/ \E u \in Users : MarkAllRead(u)
               \/ \E u \in Users, on \in BOOLEAN : UpdateReactionNotifications(u, on)
               \/ UNCHANGED vars
        PROVE  notified'[k] + Cardinality(M) <= bound
    <2>1. UNCHANGED <<notified, req>>
      BY <1>8 DEF MarkAllRead, UpdateReactionNotifications, vars
    <2>2. QED
      BY <1>4, <2>1 DEF Notifying
  <1>9. QED
    BY <1>5, <1>6, <1>7, <1>8 DEF Next, Step

(* The variables of Reactions have their types.                            *)
LEMMA ReactionsTyped == Spec => []TypeOK
  <1>1. Init => NotifiedBounded
    <2> SUFFICES ASSUME Init, NEW k \in Keys
                 PROVE  notified[k] + Cardinality(Notifying(k))
                          <= MaxNotes + Cardinality(Requests) - 1
      BY DEF NotifiedBounded
    <2>1. Notifying(k) = {}
      BY DEF Init, Idle, Notifying
    <2>2. Cardinality(Notifying(k)) = 0
      BY <2>1, FS_EmptySet
    <2>3. QED
      BY <2>2, NotifyingFinite, BoundAssumption DEF Init
  <1>2. ReactTypes /\ NotifiedBounded => TypeOK
    <2> SUFFICES ASSUME ReactTypes, NotifiedBounded PROVE TypeOK
      OBVIOUS
    <2>1. ASSUME NEW k \in Keys
          PROVE  notified[k] \in 0..MaxNotes + Cardinality(Requests) - 1
      BY NotifyingFinite, BoundAssumption DEF ReactTypes, NotifiedBounded
    <2>2. notified \in [Keys -> 0..MaxNotes + Cardinality(Requests) - 1]
      BY <2>1 DEF ReactTypes
    <2>3. QED
      BY <2>2 DEF ReactTypes, Request, TypeOK
  <1>3. ReactTypes /\ NotifiedBounded /\ [Next]_vars => NotifiedBounded'
    BY NotifiedBoundedStep
  <1>4. QED
    BY <1>1, <1>2, <1>3, ReactionsHold, PTL DEF Spec

-----------------------------------------------------------------------------
(* The page: for every set of keywords K and of transactions R, for every  *)
(* bound I on the images and N on the reactions, every length L of a list. *)

Page(K, R, I, N, L) == INSTANCE MeHome WITH
    Keywords <- K, Reacts <- R, MaxImages <- I, MaxNotes <- N, ListLimit <- L

(* Notifications and transactions have a date each; the answer of the page *)
(* has the fields of the page.                                             *)
NoteTypes(R, N) ==
    /\ began \in 0..N
    /\ react \in [R -> 0..began]
    /\ notes \subseteq [at : 1..began, read : BOOLEAN]
    /\ \A m, n \in notes : m.at = n.at => m = n
    /\ \A r \in R, n \in notes : react[r] # n.at
    /\ \A r, q \in R : r # q /\ react[r] # 0 => react[r] # react[q]

ImageTypes(K, I) ==
    /\ state \in [K -> {"none", "there", "deleted"}]
    /\ official \in 0..I
    /\ images \in [K -> 0..I]

HomeTypes(K, I, N) ==
    /\ home = [pc |-> home.pc, official |-> home.official, unread |-> home.unread,
               before |-> home.before, custom |-> home.custom,
               items |-> home.items]
    /\ home.pc \in {"none", "summarised", "answered"}
    /\ home.official \in 0..official
    /\ home.unread \in 0..N
    /\ home.before \in UNION {[J -> 0..I] : J \in SUBSET K}
    /\ home.items \in UNION {[J -> 0..I] : J \in SUBSET K}

PageTypes(K, R, I, N) == NoteTypes(R, N) /\ ImageTypes(K, I) /\ HomeTypes(K, I, N)

(* They are the types of the page.                                         *)
LEMMA PageTyped ==
  ASSUME NEW K, NEW R, NEW I \in Nat, NEW N \in Nat, NEW L, PageTypes(K, R, I, N)
  PROVE  Page(K, R, I, N, L)!TypeOK
  <1>1. notes \subseteq [at : 1..N, read : BOOLEAN]
    <2>1. \A d \in 1..began : d \in 1..N
      BY DEF PageTypes, NoteTypes
    <2>2. QED
      BY <2>1 DEF PageTypes, NoteTypes
  <1>2. QED
    BY <1>1 DEF PageTypes, NoteTypes, ImageTypes, HomeTypes, Page!TypeOK, Page!Note,
       Page!Shown

(* There are no more notifications of a kind than dates.                   *)
LEMMA NotesFinite ==
  ASSUME NEW R, NEW N \in Nat, NoteTypes(R, N), NEW S, S \subseteq notes
  PROVE  IsFiniteSet(S) /\ Cardinality(S) \in 0..N
  <1> DEFINE f == [n \in S |-> n.at]
  <1>1. f \in Injection(S, 1..N)
    <2>1. f \in [S -> 1..N]
      BY DEF NoteTypes
    <2>2. \A m, n \in S : f[m] = f[n] => m = n
      BY DEF NoteTypes
    <2>3. QED
      BY <2>1, <2>2 DEF Injection, IsInjective
  <1>2. IsFiniteSet(1..N) /\ Cardinality(1..N) = N
    BY FS_Interval
  <1>3. IsFiniteSet(S) /\ Cardinality(S) <= N
    BY <1>1, <1>2, FS_Injection
  <1>4. QED
    BY <1>3, FS_CardinalityType

(* The steps that change neither notifications nor transactions.           *)
LEMMA ImageStep ==
  ASSUME NEW K, NEW R, NEW I \in Nat, NEW N \in Nat, NEW L, PageTypes(K, R, I, N),
         \/ \E k \in K : \/ Page(K, R, I, N, L)!CreateKeyword(k)
                         \/ Page(K, R, I, N, L)!DeleteKeyword(k)
         \/ \E n \in 1..2 : \/ Page(K, R, I, N, L)!PublishOfficial(n)
                            \/ \E k \in K : Page(K, R, I, N, L)!PublishCustom(k, n)
  PROVE  PageTypes(K, R, I, N)' /\ UNCHANGED <<began, react, notes, home>>
  <1> USE DEF ImageTypes
  <1>1. UNCHANGED <<began, react, notes, home>>
    BY DEF Page!CreateKeyword, Page!DeleteKeyword, Page!PublishOfficial,
       Page!PublishCustom
  <1>2. NoteTypes(R, N)'
    BY <1>1 DEF PageTypes, NoteTypes
  <1>3. ASSUME NEW k \in K, \/ Page(K, R, I, N, L)!CreateKeyword(k)
                            \/ Page(K, R, I, N, L)!DeleteKeyword(k)
        PROVE  ImageTypes(K, I)' /\ official' = official
    BY <1>3 DEF PageTypes, Page!CreateKeyword, Page!DeleteKeyword
  <1>4. ASSUME NEW n \in 1..2, Page(K, R, I, N, L)!PublishOfficial(n)
        PROVE  /\ ImageTypes(K, I)'
               /\ \A o \in 0..official : o \in 0..official'
    BY <1>4 DEF PageTypes, Page!PublishOfficial
  <1>5. ASSUME NEW n \in 1..2, NEW k \in K, Page(K, R, I, N, L)!PublishCustom(k, n)
        PROVE  ImageTypes(K, I)' /\ official' = official
    <2>1. images[k] + n \in 0..I
      BY <1>5 DEF PageTypes, Page!PublishCustom
    <2>2. QED
      BY <1>5, <2>1 DEF PageTypes, Page!PublishCustom
  <1>6. ImageTypes(K, I)' /\ \A o \in 0..official : o \in 0..official'
    BY <1>3, <1>4, <1>5
  <1>7. HomeTypes(K, I, N)'
    BY <1>1, <1>6 DEF PageTypes, HomeTypes
  <1>8. QED
    BY <1>1, <1>2, <1>6, <1>7 DEF PageTypes

(* The cardinality that the page counts with.                              *)
LEMMA PageCardinality ==
  \A K, R, I, N, L, S : Page(K, R, I, N, L)!Cardinality(S) = Cardinality(S)
  BY DEF Page!Cardinality, Cardinality

(* The two reads of the page.                                              *)
LEMMA HomeStep ==
  ASSUME NEW K, NEW R, NEW I \in Nat, NEW N \in Nat, NEW L, PageTypes(K, R, I, N),
         \/ Page(K, R, I, N, L)!GetMeHomeSummary
         \/ Page(K, R, I, N, L)!GetMeHome
  PROVE  PageTypes(K, R, I, N)' /\ UNCHANGED <<began, react, notes>>
  <1>1. UNCHANGED <<state, official, images, began, react, notes>>
    BY DEF Page!GetMeHomeSummary, Page!GetMeHome
  <1>2. NoteTypes(R, N)' /\ ImageTypes(K, I)'
    BY <1>1 DEF PageTypes, NoteTypes, ImageTypes
  <1>3. HomeTypes(K, I, N)'
    <2>1. CASE Page(K, R, I, N, L)!GetMeHomeSummary
      <3> DEFINE u == Cardinality(Page(K, R, I, N, L)!Unread)
                 b == [k \in Page(K, R, I, N, L)!There |-> images[k]]
      <3>1. u \in 0..N
        BY NotesFinite DEF PageTypes, Page!Unread
      <3>2. home' = [pc |-> "summarised", official |-> official, unread |-> u,
                     before |-> b, custom |-> 0, items |-> <<>>]
        <4>1. home' = [Page(K, R, I, N, L)!Nobody EXCEPT !.pc = "summarised",
                         !.official = official, !.unread = u, !.before = b]
          BY <2>1, PageCardinality DEF Page!GetMeHomeSummary
        <4> HIDE DEF u, b
        <4>2. QED
          BY <4>1 DEF Page!Nobody
      <3>3. official \in 0..official
        BY DEF PageTypes, ImageTypes
      <3>4. /\ <<>> \in [{} -> 0..I] /\ {} \in SUBSET K
            /\ Page(K, R, I, N, L)!There \in SUBSET K
            /\ b \in [Page(K, R, I, N, L)!There -> 0..I]
        BY DEF PageTypes, ImageTypes, Page!There
      <3> HIDE DEF u, b
      <3>5. QED
        BY <1>1, <3>1, <3>2, <3>3, <3>4 DEF HomeTypes
    <2>2. CASE Page(K, R, I, N, L)!GetMeHome
      <3> DEFINE items == [k \in Page(K, R, I, N, L)!There |-> images[k]]
                 t == Page(K, R, I, N, L)!Total(items)
      <3>1. home' = [home EXCEPT !.pc = "answered", !.items = items, !.custom = t]
        BY <2>2 DEF Page!GetMeHome, Page!ListCustomKeywordSummariesForUser
      <3>2. /\ Page(K, R, I, N, L)!There \in SUBSET K
            /\ items \in [Page(K, R, I, N, L)!There -> 0..I]
        BY DEF PageTypes, ImageTypes, Page!There
      <3> HIDE DEF items, t
      <3>3. home' = [pc |-> "answered", official |-> home.official,
                     unread |-> home.unread, before |-> home.before,
                     custom |-> t, items |-> items]
        BY <3>1 DEF PageTypes, HomeTypes
      <3>4. QED
        BY <1>1, <3>2, <3>3 DEF PageTypes, HomeTypes
    <2>3. QED
      BY <2>1, <2>2
  <1>4. QED
    BY <1>1, <1>2, <1>3 DEF PageTypes

(* A notification that is marked as read keeps its date.                   *)
LEMMA MarkedNote ==
  ASSUME NEW D, NEW n \in [at : D, read : BOOLEAN]
  PROVE  /\ [n EXCEPT !.read = TRUE] \in [at : D, read : BOOLEAN]
         /\ [n EXCEPT !.read = TRUE].at = n.at
         /\ [n EXCEPT !.read = TRUE].read = TRUE
  OBVIOUS

(* The notifications: dates are given in order and no two have the same.   *)
LEMMA NoteStep ==
  ASSUME NEW K, NEW R, NEW I \in Nat, NEW N \in Nat, NEW L, PageTypes(K, R, I, N),
         \/ \E r \in R : \/ Page(K, R, I, N, L)!BeginReact(r)
                         \/ Page(K, R, I, N, L)!CreateNotification(r)
                         \/ Page(K, R, I, N, L)!EndReact(r)
         \/ Page(K, R, I, N, L)!MarkAllNotificationsRead
  PROVE  PageTypes(K, R, I, N)'
  <1> USE DEF NoteTypes
  <1>1. UNCHANGED <<state, official, images, home>>
    BY DEF Page!BeginReact, Page!CreateNotification, Page!EndReact,
       Page!MarkAllNotificationsRead
  <1>2. ImageTypes(K, I)' /\ HomeTypes(K, I, N)'
    BY <1>1 DEF PageTypes, ImageTypes, HomeTypes
  <1>3. ASSUME NEW r \in R, Page(K, R, I, N, L)!BeginReact(r)
        PROVE  NoteTypes(R, N)'
    <2>1. /\ began < N /\ began' = began + 1
          /\ react' = [react EXCEPT ![r] = began + 1] /\ notes' = notes
      BY <1>3 DEF Page!BeginReact
    <2>2. began' \in 0..N /\ \A d \in 0..began : d \in 0..began' /\ d # began + 1
      BY <2>1 DEF PageTypes
    <2>3. react' \in [R -> 0..began']
      BY <2>1, <2>2 DEF PageTypes
    <2>4. notes' \subseteq [at : 1..began', read : BOOLEAN]
      BY <2>1, <2>2 DEF PageTypes
    <2>5. \A q \in R : react'[q] = IF q = r THEN began + 1 ELSE react[q]
      BY <2>1 DEF PageTypes
    <2>6. \A n \in notes : n.at \in 0..began
      BY DEF PageTypes
    <2>7. \A q \in R : react[q] \in 0..began
      BY DEF PageTypes
    <2>8. \A q \in R, n \in notes' : react'[q] # n.at
      BY <2>1, <2>2, <2>5, <2>6 DEF PageTypes
    <2>9. \A q, p \in R : q # p /\ react'[q] # 0 => react'[q] # react'[p]
      BY <2>2, <2>5, <2>7 DEF PageTypes
    <2>10. QED
      BY <2>1, <2>2, <2>3, <2>4, <2>8, <2>9 DEF PageTypes
  <1>4. ASSUME NEW r \in R, Page(K, R, I, N, L)!CreateNotification(r)
        PROVE  NoteTypes(R, N)'
    <2> DEFINE new == [at |-> react[r], read |-> FALSE]
    <2>1. /\ react[r] # 0 /\ notes' = notes \cup {new}
          /\ react' = [react EXCEPT ![r] = 0] /\ began' = began
      BY <1>4 DEF Page!CreateNotification
    <2>2. new \in [at : 1..began, read : BOOLEAN]
      <3>1. react[r] \in 1..began
        BY <2>1 DEF PageTypes
      <3>2. QED
        BY <3>1
    <2>3. \A m, n \in notes' : m.at = n.at => m = n
      <3>1. \A n \in notes : n.at # react[r]
        BY DEF PageTypes
      <3>2. \A m, n \in notes : m.at = n.at => m = n
        BY DEF PageTypes
      <3>3. \A m \in notes' : m \in notes \/ m = new
        BY <2>1
      <3>4. new.at = react[r]
        OBVIOUS
      <3> HIDE DEF new
      <3>5. QED
        BY <3>1, <3>2, <3>3, <3>4
    <2>4. react' \in [R -> 0..began']
      BY <2>1 DEF PageTypes
    <2>5. \A q \in R : react'[q] = IF q = r THEN 0 ELSE react[q]
      BY <2>1 DEF PageTypes
    <2>6. \A n \in notes : n.at \in 1..began
      BY DEF PageTypes
    <2>7. \A q \in R, n \in notes' : react'[q] # n.at
      BY <2>1, <2>2, <2>5, <2>6 DEF PageTypes
    <2>8. \A q, p \in R : q # p /\ react'[q] # 0 => react'[q] # react'[p]
      BY <2>5 DEF PageTypes
    <2>9. QED
      BY <2>1, <2>2, <2>3, <2>4, <2>7, <2>8 DEF PageTypes
  <1>5. ASSUME NEW r \in R, Page(K, R, I, N, L)!EndReact(r)
        PROVE  NoteTypes(R, N)'
    <2>1. react' = [react EXCEPT ![r] = 0] /\ began' = began /\ notes' = notes
      BY <1>5 DEF Page!EndReact
    <2>2. \A q \in R : react'[q] = IF q = r THEN 0 ELSE react[q]
      BY <2>1 DEF PageTypes
    <2>3. \A n \in notes : n.at \in 1..began
      BY DEF PageTypes
    <2>4. \A q \in R, n \in notes : react'[q] # n.at
      BY <2>2, <2>3 DEF PageTypes
    <2>5. \A q, p \in R : q # p /\ react'[q] # 0 => react'[q] # react'[p]
      BY <2>2 DEF PageTypes
    <2>6. QED
      BY <2>1, <2>4, <2>5 DEF PageTypes
  <1>6. CASE Page(K, R, I, N, L)!MarkAllNotificationsRead
    <2>1. /\ notes' = {[n EXCEPT !.read = TRUE] : n \in notes}
          /\ UNCHANGED <<began, react>>
      BY <1>6 DEF Page!MarkAllNotificationsRead
    <2>2. /\ \A n \in notes : n \in [at : 1..began, read : BOOLEAN]
          /\ \A n \in notes : [n EXCEPT !.read = TRUE] = [at |-> n.at, read |-> TRUE]
          /\ \A n \in notes : [at |-> n.at, read |-> TRUE] \in [at : 1..began, read : BOOLEAN]
      <3> SUFFICES ASSUME NEW n \in notes
                   PROVE  /\ n \in [at : 1..began, read : BOOLEAN]
                          /\ [n EXCEPT !.read = TRUE] = [at |-> n.at, read |-> TRUE]
                          /\ [at |-> n.at, read |-> TRUE] \in [at : 1..began, read : BOOLEAN]
        OBVIOUS
      <3>1. n \in [at : 1..began, read : BOOLEAN]
        BY DEF PageTypes
      <3>2. [n EXCEPT !.read = TRUE] = [at |-> n.at, read |-> TRUE]
        BY <3>1, MarkedNote
      <3>3. [at |-> n.at, read |-> TRUE] \in [at : 1..began, read : BOOLEAN]
        BY <3>1
      <3>4. QED
        BY <3>1, <3>2, <3>3
    <2>3. /\ \A m \in notes' : \E n \in notes : m = [at |-> n.at, read |-> TRUE]
          /\ notes' \subseteq [at : 1..began, read : BOOLEAN]
      <3>1. \A m \in notes' : \E n \in notes : m = [n EXCEPT !.read = TRUE]
        BY <2>1
      <3>2. \A m \in notes' : \E n \in notes : m = [at |-> n.at, read |-> TRUE]
        BY <2>2, <3>1
      <3>3. QED
        BY <2>2, <3>2
    <2>4. ASSUME NEW m \in notes', NEW n \in notes', m.at = n.at
          PROVE  m = n
      <3>1. PICK a \in notes : m = [at |-> a.at, read |-> TRUE]
        BY <2>3
      <3>2. PICK b \in notes : n = [at |-> b.at, read |-> TRUE]
        BY <2>3
      <3>3. QED
        BY <2>4, <3>1, <3>2
    <2>5. ASSUME NEW r \in R, NEW n \in notes'
          PROVE  react[r] # n.at
      <3>1. PICK b \in notes : n = [at |-> b.at, read |-> TRUE]
        BY <2>3
      <3>2. QED
        BY <3>1 DEF PageTypes
    <2>6. /\ began \in 0..N /\ react \in [R -> 0..began]
          /\ \A r, q \in R : r # q /\ react[r] # 0 => react[r] # react[q]
      BY DEF PageTypes
    <2>7. began' = began /\ react' = react
      BY <2>1
    <2>8. /\ began' \in 0..N /\ react' \in [R -> 0..began']
          /\ notes' \subseteq [at : 1..began', read : BOOLEAN]
          /\ \A r, q \in R : r # q /\ react'[r] # 0 => react'[r] # react'[q]
      BY <2>3, <2>6, <2>7
    <2>9. \A m, n \in notes' : m.at = n.at => m = n
      BY <2>4
    <2>10. \A r \in R, n \in notes' : react'[r] # n.at
      BY <2>5, <2>7
    <2>11. QED
      BY <1>2, <2>8, <2>9, <2>10 DEF PageTypes
  <1>7. QED
    BY <1>2, <1>3, <1>4, <1>5, <1>6 DEF PageTypes

(* Every step of the page keeps its types.                                 *)
LEMMA PageTypesStep ==
  ASSUME NEW K, NEW R, NEW I \in Nat, NEW N \in Nat, NEW L, PageTypes(K, R, I, N),
         Page(K, R, I, N, L)!Next
  PROVE  PageTypes(K, R, I, N)'
  BY ImageStep, HomeStep, NoteStep DEF Page!Next

-----------------------------------------------------------------------------
(* The page: what is unread below what is read.                            *)

(* The dates before one that is read, of notifications that are not read   *)
(* and of transactions that will still write theirs.                       *)
Behind(R) ==
    {d \in 1..began :
        /\ \/ \E n \in notes : n.at = d /\ ~n.read
           \/ \E r \in R : react[r] = d
        /\ \E m \in notes : m.read /\ m.at > d}

BehindBounded(R) == Cardinality(Behind(R)) <= Cardinality(R)

LEMMA BehindFinite ==
  ASSUME NEW R, began \in Nat
  PROVE  IsFiniteSet(Behind(R)) /\ Cardinality(Behind(R)) \in Nat
  <1>1. Behind(R) \subseteq 1..began /\ IsFiniteSet(1..began)
    BY FS_Interval DEF Behind
  <1>2. IsFiniteSet(Behind(R))
    BY <1>1, FS_Subset
  <1>3. QED
    BY <1>2, FS_CardinalityType

(* All are marked: only the dates of transactions under way are behind.    *)
LEMMA MarkedBehind ==
  ASSUME NEW K, NEW R, NEW I \in Nat, NEW N \in Nat, NEW L, PageTypes(K, R, I, N),
         IsFiniteSet(R), Page(K, R, I, N, L)!MarkAllNotificationsRead
  PROVE  BehindBounded(R)'
  <1>1. PICK B : B = Behind(R)'
    OBVIOUS
  <1>2. /\ notes' = {[n EXCEPT !.read = TRUE] : n \in notes}
        /\ UNCHANGED <<began, react>>
    BY DEF Page!MarkAllNotificationsRead
  <1>3. \A m \in notes' : m.read
    BY <1>2 DEF PageTypes, NoteTypes
  <1>4. \A d \in B : \E r \in R : react[r] = d
    BY <1>1, <1>2, <1>3 DEF Behind
  <1> DEFINE f == [d \in B |-> CHOOSE r \in R : react[r] = d]
  <1>5. \A d \in B : f[d] \in R /\ react[f[d]] = d
    BY <1>4
  <1>6. f \in Injection(B, R)
    <2>1. f \in [B -> R]
      BY <1>5
    <2>2. \A d, e \in B : f[d] = f[e] => d = e
      BY <1>5
    <2>3. QED
      BY <2>1, <2>2 DEF Injection, IsInjective
  <1>7. Cardinality(B) <= Cardinality(R)
    BY <1>6, FS_Injection
  <1>8. QED
    BY <1>1, <1>7 DEF BehindBounded

(* Every other step leaves no more dates behind.                           *)
LEMMA BehindKept ==
  ASSUME NEW K, NEW R, NEW I \in Nat, NEW N \in Nat, NEW L, PageTypes(K, R, I, N),
         \/ \E r \in R : \/ Page(K, R, I, N, L)!BeginReact(r)
                         \/ Page(K, R, I, N, L)!CreateNotification(r)
                         \/ Page(K, R, I, N, L)!EndReact(r)
         \/ UNCHANGED <<began, react, notes>>
  PROVE  Behind(R)' \subseteq Behind(R)
  <1>0. /\ react \in [R -> 0..began] /\ began \in Nat
        /\ \A n \in notes : n.at \in 1..began
    BY DEF PageTypes, NoteTypes
  <1>1. ASSUME NEW r \in R, Page(K, R, I, N, L)!BeginReact(r), NEW d \in Behind(R)'
        PROVE  d \in Behind(R)
    <2>1. /\ began' = began + 1 /\ notes' = notes
          /\ react' = [react EXCEPT ![r] = began + 1]
      BY <1>1 DEF Page!BeginReact
    <2>2. PICK m \in notes : m.read /\ m.at > d
      BY <1>1, <2>1 DEF Behind
    <2>3. d \in 1..began
      BY <1>0, <1>1, <2>1, <2>2 DEF Behind
    <2>4. \A q \in R : react'[q] = d => react[q] = d
      BY <1>0, <2>1, <2>3
    <2>5. QED
      BY <1>1, <2>1, <2>2, <2>3, <2>4 DEF Behind
  <1>2. ASSUME NEW r \in R, Page(K, R, I, N, L)!CreateNotification(r),
               NEW d \in Behind(R)'
        PROVE  d \in Behind(R)
    <2>1. /\ notes' = notes \cup {[at |-> react[r], read |-> FALSE]}
          /\ react' = [react EXCEPT ![r] = 0] /\ began' = began
      BY <1>2 DEF Page!CreateNotification
    <2>2. d \in 1..began /\ \E m \in notes : m.read /\ m.at > d
      BY <1>2, <2>1 DEF Behind
    <2>3. (\E n \in notes : n.at = d /\ ~n.read) \/ \E q \in R : react[q] = d
      <3>1. CASE \E n \in notes' : n.at = d /\ ~n.read
        BY <2>1, <3>1
      <3>2. CASE \E q \in R : react'[q] = d
        BY <1>0, <2>1, <2>2, <3>2
      <3>3. QED
        BY <1>2, <3>1, <3>2 DEF Behind
    <2>4. QED
      BY <2>2, <2>3 DEF Behind
  <1>3. ASSUME NEW r \in R, Page(K, R, I, N, L)!EndReact(r), NEW d \in Behind(R)'
        PROVE  d \in Behind(R)
    <2>1. react' = [react EXCEPT ![r] = 0] /\ began' = began /\ notes' = notes
      BY <1>3 DEF Page!EndReact
    <2>2. \A q \in R : react'[q] = d => react[q] = d
      BY <1>0, <1>3, <2>1 DEF Behind
    <2>3. QED
      BY <1>3, <2>1, <2>2 DEF Behind
  <1>4. CASE UNCHANGED <<began, react, notes>>
    BY <1>4 DEF Behind
  <1>5. QED
    BY <1>1, <1>2, <1>3, <1>4

LEMMA BehindStep ==
  ASSUME NEW K, NEW R, NEW I \in Nat, NEW N \in Nat, NEW L, PageTypes(K, R, I, N),
         IsFiniteSet(R), BehindBounded(R), Page(K, R, I, N, L)!Next
  PROVE  BehindBounded(R)'
  <1>1. CASE Page(K, R, I, N, L)!MarkAllNotificationsRead
    BY <1>1, MarkedBehind
  <1>2. CASE ~Page(K, R, I, N, L)!MarkAllNotificationsRead
    <2>1. Behind(R)' \subseteq Behind(R)
      BY <1>2, BehindKept, ImageStep, HomeStep DEF Page!Next
    <2>2. IsFiniteSet(Behind(R)) /\ Cardinality(Behind(R)) \in Nat
      BY BehindFinite DEF PageTypes, NoteTypes
    <2>3. /\ Cardinality(Behind(R)') <= Cardinality(Behind(R))
          /\ Cardinality(Behind(R)') \in Nat /\ Cardinality(R) \in Nat
      BY <2>1, <2>2, FS_Subset, FS_CardinalityType
    <2>4. QED
      BY <2>2, <2>3 DEF BehindBounded
  <1>3. QED
    BY <1>1, <1>2

(* So few notifications are unread below one that is read.                 *)
LEMMA LateBounded ==
  ASSUME NEW K, NEW R, NEW I \in Nat, NEW N \in Nat, NEW L, PageTypes(K, R, I, N),
         IsFiniteSet(R), BehindBounded(R)
  PROVE  LET late == {n \in Page(K, R, I, N, L)!Unread :
                        \E m \in notes : m.read /\ m.at > n.at}
         IN  /\ IsFiniteSet(late)
             /\ Cardinality(late) \in Nat
             /\ Cardinality(late) <= Cardinality(R)
  <1> DEFINE late == {n \in Page(K, R, I, N, L)!Unread :
                        \E m \in notes : m.read /\ m.at > n.at}
             f == [n \in late |-> n.at]
  <1>1. \A n \in late : n \in notes /\ ~n.read /\ n.at \in 1..began
    BY DEF Page!Unread, PageTypes, NoteTypes
  <1>2. f \in Injection(late, Behind(R))
    <2>1. f \in [late -> Behind(R)]
      BY <1>1 DEF Behind
    <2>2. \A m, n \in late : f[m] = f[n] => m = n
      BY <1>1 DEF PageTypes, NoteTypes
    <2>3. QED
      BY <2>1, <2>2 DEF Injection, IsInjective
  <1>3. IsFiniteSet(Behind(R)) /\ Cardinality(Behind(R)) \in Nat
    BY BehindFinite DEF PageTypes, NoteTypes
  <1>4. IsFiniteSet(late) /\ Cardinality(late) <= Cardinality(Behind(R))
    BY <1>2, <1>3, FS_Injection
  <1>5. Cardinality(late) \in Nat /\ Cardinality(R) \in Nat
    BY <1>4, FS_CardinalityType
  <1>6. QED
    BY <1>3, <1>4, <1>5 DEF BehindBounded

(* A set of numbers that is not empty and has a bound has a greatest one.  *)
LEMMA Greatest ==
  ASSUME NEW b \in Nat, NEW S, S \subseteq 1..b, S # {}
  PROVE  \E d \in S : \A e \in S : e <= d
  <1> DEFINE T == {b - d : d \in S}
             less == OpToRel(<, Nat)
  <1>1. T \subseteq Nat /\ T # {}
    <2>1. ASSUME NEW d \in S PROVE b - d \in Nat
      <3>1. d \in 1..b
        OBVIOUS
      <3>2. QED
        BY <3>1
    <2>2. QED
      BY <2>1
  <1>2. IsWellFoundedOn(less, Nat)
    BY NatLessThanWellFounded
  <1>3. PICK x \in T : \A y \in T : ~(<<y, x>> \in less)
    <2> HIDE DEF T, less
    <2>1. QED
      BY <1>1, <1>2, WFMin
  <1>4. PICK d \in S : x = b - d
    BY <1>3
  <1>5. ASSUME NEW e \in S
        PROVE  e <= d
    <2>1. ~(<<b - e, b - d>> \in less)
      BY <1>3, <1>4
    <2>2. ~(b - e < b - d)
      BY <2>1 DEF OpToRel
    <2>3. QED
      BY <2>2
  <1>6. QED
    BY <1>5

(* What is unread and not in the list is late, or the list is full of      *)
(* notifications that are not read.                                        *)
LEMMA BadgeListed ==
  ASSUME NEW K, NEW R, NEW I \in Nat, NEW N \in Nat, NEW L \in Nat \ {0},
         PageTypes(K, R, I, N), IsFiniteSet(R), BehindBounded(R)
  PROVE  Page(K, R, I, N, L)!BadgeIsListed
  <1> DEFINE missed == Page(K, R, I, N, L)!Unread
             listed == {n \in notes : Cardinality({m \in notes : m.at > n.at}) < L}
             shown == missed \cap listed
             late == {n \in missed : \E m \in notes : m.read /\ m.at > n.at}
  <1>1. Page(K, R, I, N, L)!ListNotifications = listed
    BY PageCardinality DEF Page!ListNotifications
  <1>2. missed \subseteq notes /\ \A n \in notes : n \in missed <=> ~n.read
    BY DEF Page!Unread
  <1>3. /\ IsFiniteSet(missed) /\ Cardinality(missed) \in Nat
        /\ IsFiniteSet(shown) /\ Cardinality(shown) \in Nat
        /\ Cardinality(R) \in Nat
    BY <1>2, NotesFinite, FS_CardinalityType DEF PageTypes
  <1>4. Cardinality(shown) + Cardinality(R) >=
          IF Cardinality(missed) < L THEN Cardinality(missed) ELSE L
    <2>1. CASE \A n \in missed \ listed : n \in late
      <3>1. /\ IsFiniteSet(late) /\ Cardinality(late) \in Nat
            /\ Cardinality(late) <= Cardinality(R)
        BY LateBounded
      <3>2. missed \subseteq shown \cup late
        BY <2>1
      <3>3. /\ IsFiniteSet(shown \cup late)
            /\ Cardinality(shown \cup late)
                 = Cardinality(shown) + Cardinality(late) - Cardinality(shown \cap late)
        BY <1>3, <3>1, FS_Union
      <3>4. IsFiniteSet(shown \cap late) /\ Cardinality(shown \cap late) \in Nat
        BY <1>3, FS_Intersection, FS_CardinalityType
      <3>5. Cardinality(missed) <= Cardinality(shown \cup late)
        BY <3>2, <3>3, FS_Subset
      <3> HIDE DEF missed, listed, shown, late
      <3>6. QED
        BY <1>3, <3>1, <3>3, <3>4, <3>5
    <2>2. CASE \E n \in missed \ listed : n \notin late
      <3>1. PICK n \in missed \ listed : n \notin late
        BY <2>2
      <3>2. \A m \in notes : m.at > n.at => ~m.read
        BY <3>1
      <3> DEFINE hidden == {m.at : m \in {x \in notes \ listed : x.at >= n.at}}
      <3>3. \A m \in notes : m.at \in 1..began
        BY DEF PageTypes, NoteTypes
      <3>4. hidden \subseteq 1..began /\ hidden # {} /\ began \in Nat
        <4> HIDE DEF listed
        <4>1. n \in {x \in notes \ listed : x.at >= n.at}
          BY <1>2, <3>1, <3>3
        <4>2. n.at \in hidden
          BY <4>1
        <4>3. \A e \in hidden : e \in 1..began
          BY <3>3
        <4>4. began \in Nat
          BY DEF PageTypes, NoteTypes
        <4>5. QED
          BY <4>2, <4>3, <4>4
      <3>5. PICK d \in hidden : \A e \in hidden : e <= d
        <4> HIDE DEF hidden
        <4>1. QED
          BY <3>4, Greatest
      <3>6. PICK top \in notes \ listed : d = top.at /\ top.at >= n.at
        BY <3>5
      <3> DEFINE above == {m \in notes : m.at > top.at}
      <3>7. IsFiniteSet(above) /\ Cardinality(above) \in Nat
        BY NotesFinite DEF PageTypes
      <3>8. Cardinality(above) >= L
        BY <3>6, <3>7
      <3>9. above \subseteq shown
        <4> SUFFICES ASSUME NEW m \in above PROVE m \in shown
          OBVIOUS
        <4>1. m \in notes /\ m.at > top.at /\ m.at \in Nat /\ n.at \in Nat /\ top.at \in Nat
          BY <1>2, <3>1, <3>3, <3>6
        <4>2. m.at > n.at
          BY <3>6, <4>1
        <4>3. m \in missed
          BY <1>2, <3>2, <4>1, <4>2
        <4>4. m \in listed
          <5> HIDE DEF listed
          <5>1. ASSUME m \notin listed PROVE m.at \in hidden
            <6>1. m \in {x \in notes \ listed : x.at >= n.at}
              BY <4>1, <4>2, <5>1
            <6>2. QED
              BY <6>1
          <5> HIDE DEF hidden
          <5>2. QED
            BY <3>5, <3>6, <4>1, <5>1
        <4>5. QED
          BY <4>3, <4>4
      <3>10. Cardinality(above) <= Cardinality(shown)
        BY <1>3, <3>9, FS_Subset
      <3> HIDE DEF missed, listed, shown, late, above
      <3>11. QED
        BY <1>3, <3>7, <3>8, <3>10
    <2>3. QED
      BY <2>1, <2>2
  <1>5. QED
    BY <1>1, <1>4, PageCardinality DEF Page!BadgeIsListed

-----------------------------------------------------------------------------
(* The page: what its two reads have seen, and every step.                 *)

(* What the summary has counted is still there, or more, unless deleted.   *)
BeforeStays ==
    \A k \in DOMAIN home.before : state[k] # "none" /\ home.before[k] <= images[k]

PageInv(K, R, I, N, L) ==
    /\ PageTypes(K, R, I, N)
    /\ BehindBounded(R)
    /\ BeforeStays
    /\ Page(K, R, I, N, L)!HomeAddsUp

(* Images are only added, and a keyword that is deleted does not come back. *)
LEMMA ImagesGrow ==
  ASSUME NEW K, NEW R, NEW I \in Nat, NEW N \in Nat, NEW L, PageTypes(K, R, I, N),
         Page(K, R, I, N, L)!Next, NEW k \in K
  PROVE  /\ images[k] \in Nat /\ images'[k] \in Nat /\ images[k] <= images'[k]
         /\ state[k] # "none" => state'[k] # "none"
         /\ state[k] # "none" /\ state'[k] = "there" => state[k] = "there"
  <1> USE DEF PageTypes, ImageTypes
  <1>1. CASE UNCHANGED <<state, images>>
    BY <1>1
  <1>2. ASSUME NEW j \in K, Page(K, R, I, N, L)!CreateKeyword(j)
        PROVE  /\ images'[k] = images[k]
               /\ state[k] # "none" => state'[k] = state[k]
    BY <1>2 DEF Page!CreateKeyword
  <1>3. ASSUME NEW j \in K, Page(K, R, I, N, L)!DeleteKeyword(j)
        PROVE  images'[k] = images[k] /\ state'[k] \in {state[k], "deleted"}
    BY <1>3 DEF Page!DeleteKeyword
  <1>4. ASSUME NEW n \in 1..2, NEW j \in K, Page(K, R, I, N, L)!PublishCustom(j, n)
        PROVE  state' = state /\ images'[k] \in {images[k], images[k] + n}
    BY <1>4 DEF Page!PublishCustom
  <1>5. \/ UNCHANGED <<state, images>>
        \/ \E j \in K : \/ Page(K, R, I, N, L)!CreateKeyword(j)
                        \/ Page(K, R, I, N, L)!DeleteKeyword(j)
                        \/ \E n \in 1..2 : Page(K, R, I, N, L)!PublishCustom(j, n)
    BY DEF Page!Next, Page!PublishOfficial, Page!GetMeHomeSummary, Page!GetMeHome,
       Page!BeginReact, Page!CreateNotification, Page!EndReact,
       Page!MarkAllNotificationsRead
  <1>6. QED
    BY <1>1, <1>2, <1>3, <1>4, <1>5

(* The reads keep it, and so does whatever comes between them.             *)
LEMMA BeforeStaysStep ==
  ASSUME NEW K, NEW R, NEW I \in Nat, NEW N \in Nat, NEW L, PageTypes(K, R, I, N),
         BeforeStays, Page(K, R, I, N, L)!Next
  PROVE  BeforeStays'
  <1>1. CASE Page(K, R, I, N, L)!GetMeHomeSummary
    <2>1. /\ home'.before = [k \in Page(K, R, I, N, L)!There |-> images[k]]
          /\ UNCHANGED <<state, images>>
      BY <1>1 DEF Page!GetMeHomeSummary, Page!Nobody
    <2>2. \A k \in Page(K, R, I, N, L)!There : state[k] = "there" /\ images[k] \in Nat
      BY DEF PageTypes, ImageTypes, Page!There
    <2>3. QED
      BY <2>1, <2>2 DEF BeforeStays
  <1>2. CASE ~Page(K, R, I, N, L)!GetMeHomeSummary
    <2>1. home'.before = home.before
      <3>1. CASE Page(K, R, I, N, L)!GetMeHome
        <4> DEFINE items == Page(K, R, I, N, L)!ListCustomKeywordSummariesForUser
                   t == Page(K, R, I, N, L)!Total(items)
        <4>1. home' = [home EXCEPT !.pc = "answered", !.items = items, !.custom = t]
          BY <3>1 DEF Page!GetMeHome
        <4> HIDE DEF items, t
        <4>2. QED
          BY <4>1 DEF PageTypes, HomeTypes
      <3>2. CASE home' = home
        BY <3>2
      <3>3. QED
        BY <1>2, <3>1, <3>2
           DEF Page!Next, Page!CreateKeyword, Page!DeleteKeyword, Page!PublishOfficial,
               Page!PublishCustom, Page!BeginReact, Page!CreateNotification,
               Page!EndReact, Page!MarkAllNotificationsRead
    <2>2. \A k \in DOMAIN home.before : k \in K /\ home.before[k] \in Nat
      BY DEF PageTypes, HomeTypes
    <2>3. ASSUME NEW k \in DOMAIN home.before
          PROVE  state'[k] # "none" /\ home.before[k] <= images'[k]
      <3>1. /\ k \in K /\ home.before[k] \in Nat
            /\ state[k] # "none" /\ home.before[k] <= images[k]
        BY <2>2, <2>3 DEF BeforeStays
      <3>2. QED
        BY <3>1, ImagesGrow
    <2>4. QED
      BY <2>1, <2>3 DEF BeforeStays
  <1>3. QED
    BY <1>1, <1>2

(* The total that the page shows is the one of the items it shows, and     *)
(* these have what the summary saw, and nothing that is not there.         *)
LEMMA HomeAddsUpStep ==
  ASSUME NEW K, NEW R, NEW I \in Nat, NEW N \in Nat, NEW L, PageTypes(K, R, I, N),
         BeforeStays, Page(K, R, I, N, L)!HomeAddsUp, Page(K, R, I, N, L)!Next
  PROVE  Page(K, R, I, N, L)!HomeAddsUp'
  <1>1. CASE Page(K, R, I, N, L)!GetMeHome
    <2> DEFINE items == [k \in Page(K, R, I, N, L)!There |-> images[k]]
               t == Page(K, R, I, N, L)!Total(items)
    <2>1. home' = [home EXCEPT !.pc = "answered", !.items = items, !.custom = t]
      BY <1>1 DEF Page!GetMeHome, Page!ListCustomKeywordSummariesForUser
    <2>2. home'.custom = t /\ home'.items = items /\ home'.before = home.before
      <3> HIDE DEF items, t
      <3>1. QED
        BY <2>1 DEF PageTypes, HomeTypes
    <2>3. /\ UNCHANGED <<state, images>>
          /\ Page(K, R, I, N, L)!There' = Page(K, R, I, N, L)!There
      BY <1>1 DEF Page!GetMeHome, Page!There
    <2>4. \A k \in Page(K, R, I, N, L)!There : images[k] \in Nat
      BY DEF PageTypes, ImageTypes, Page!There
    <2>5. \A k \in Page(K, R, I, N, L)!There \cap DOMAIN home.before :
             k \in DOMAIN items /\ home.before[k] <= items[k]
      BY DEF BeforeStays
    <2>6. \A k \in DOMAIN items : items[k] <= images[k]
      BY <2>4
    <2> HIDE DEF items
    <2>7. QED
      BY <2>2, <2>3, <2>5, <2>6 DEF Page!HomeAddsUp
  <1>2. CASE Page(K, R, I, N, L)!GetMeHomeSummary
    <2>1. home'.pc = "summarised"
      BY <1>2 DEF Page!GetMeHomeSummary, Page!Nobody
    <2>2. QED
      BY <2>1 DEF Page!HomeAddsUp
  <1>3. CASE ~(Page(K, R, I, N, L)!GetMeHome \/ Page(K, R, I, N, L)!GetMeHomeSummary)
    <2>1. home' = home
      BY <1>3 DEF Page!Next, Page!CreateKeyword, Page!DeleteKeyword,
         Page!PublishOfficial, Page!PublishCustom, Page!BeginReact,
         Page!CreateNotification, Page!EndReact, Page!MarkAllNotificationsRead
    <2>2. ASSUME NEW k \in Page(K, R, I, N, L)!There', k \in DOMAIN home.before
          PROVE  k \in Page(K, R, I, N, L)!There
      <3>1. k \in K /\ state'[k] = "there" /\ state[k] # "none"
        BY <2>2 DEF Page!There, BeforeStays
      <3>2. QED
        BY <3>1, ImagesGrow DEF Page!There
    <2>3. ASSUME home.pc = "answered", NEW k \in DOMAIN home.items
          PROVE  home.items[k] <= images'[k]
      <3>1. k \in K /\ home.items[k] \in Nat /\ home.items[k] <= images[k]
        BY <2>3 DEF PageTypes, HomeTypes, Page!HomeAddsUp
      <3>2. QED
        BY <3>1, ImagesGrow
    <2>4. QED
      BY <2>1, <2>2, <2>3 DEF Page!HomeAddsUp
  <1>4. QED
    BY <1>1, <1>2, <1>3

(* A page that nobody has looked at.                                       *)
LEMMA PageInit ==
  ASSUME NEW K, NEW R, NEW I \in Nat, NEW N \in Nat, NEW L, IsFiniteSet(R),
         Page(K, R, I, N, L)!Init
  PROVE  PageInv(K, R, I, N, L)
  <1>1. /\ state = [k \in K |-> "none"] /\ official = 0
        /\ images = [k \in K |-> 0] /\ began = 0
        /\ react = [r \in R |-> 0] /\ notes = {}
        /\ home = [pc |-> "none", official |-> 0, unread |-> 0, before |-> <<>>,
                   custom |-> 0, items |-> <<>>]
    BY DEF Page!Init, Page!Nobody
  <1>2. NoteTypes(R, N) /\ ImageTypes(K, I)
    BY <1>1 DEF NoteTypes, ImageTypes
  <1>3. HomeTypes(K, I, N)
    <2>1. <<>> \in [{} -> 0..I] /\ {} \in SUBSET K
      OBVIOUS
    <2>2. <<>> \in UNION {[J -> 0..I] : J \in SUBSET K}
      BY <2>1
    <2>3. home.pc = "none" /\ home.official = 0 /\ home.unread = 0
          /\ home.items = <<>> /\ home.before = <<>> /\ home.custom = 0
      BY <1>1
    <2>4. home = [pc |-> home.pc, official |-> home.official,
                  unread |-> home.unread, before |-> home.before,
                  custom |-> home.custom, items |-> home.items]
      BY <1>1
    <2>5. home.official \in 0..official /\ home.unread \in 0..N
      BY <1>1, <2>3
    <2>6. QED
      BY <2>2, <2>3, <2>4, <2>5 DEF HomeTypes
  <1>4. Behind(R) = {} /\ Cardinality(R) \in Nat
    BY <1>1, FS_CardinalityType DEF Behind
  <1>5. BehindBounded(R)
    BY <1>4, FS_EmptySet DEF BehindBounded
  <1>6. Page(K, R, I, N, L)!HomeAddsUp
    BY <1>1 DEF Page!HomeAddsUp
  <1>7. BeforeStays
    BY <1>1 DEF BeforeStays
  <1>8. QED
    BY <1>2, <1>3, <1>5, <1>6, <1>7 DEF PageInv, PageTypes

(* Every step of the page, for all bounds.                                 *)
LEMMA PageStep ==
  ASSUME NEW K, NEW R, NEW I \in Nat, NEW N \in Nat, NEW L, IsFiniteSet(R),
         PageInv(K, R, I, N, L), Page(K, R, I, N, L)!Next
  PROVE  PageInv(K, R, I, N, L)'
  BY PageTypesStep, BehindStep, BeforeStaysStep, HomeAddsUpStep DEF PageInv

(* A step that does not touch the page.                                    *)
LEMMA PageKept ==
  ASSUME NEW K, NEW R, NEW I, NEW N, NEW L, PageInv(K, R, I, N, L),
         UNCHANGED pageVars
  PROVE  PageInv(K, R, I, N, L)'
  BY DEF PageInv, PageTypes, NoteTypes, ImageTypes, HomeTypes, BehindBounded,
     Behind, BeforeStays, Page!HomeAddsUp, Page!There, pageVars

(* However many keywords, images and notifications there are, however long  *)
(* the list is and however many transactions write notifications: the page  *)
(* adds up, its badge counts what is listed but for what came late, and     *)
(* that is no more than the transactions at a time (GetMeHome,              *)
(* ListNotifications).                                                      *)
THEOREM EveryPageAgrees ==
  ASSUME NEW CONSTANT K, NEW CONSTANT R, NEW CONSTANT I \in Nat,
         NEW CONSTANT N \in Nat, NEW CONSTANT L \in Nat \ {0}, IsFiniteSet(R)
  PROVE  Page(K, R, I, N, L)!Spec =>
           [](/\ Page(K, R, I, N, L)!HomeAddsUp
              /\ Page(K, R, I, N, L)!BadgeIsListed
              /\ Page(K, R, I, N, L)!LateUnreadBounded)
  <1>1. Page(K, R, I, N, L)!Init => PageInv(K, R, I, N, L)
    BY PageInit
  <1>2. PageInv(K, R, I, N, L) /\ [Page(K, R, I, N, L)!Next]_(Page(K, R, I, N, L)!vars)
          => PageInv(K, R, I, N, L)'
    BY PageStep, PageKept DEF Page!vars, pageVars
  <1>3. PageInv(K, R, I, N, L) => Page(K, R, I, N, L)!BadgeIsListed
    BY BadgeListed DEF PageInv
  <1>4. PageInv(K, R, I, N, L) => Page(K, R, I, N, L)!LateUnreadBounded
    BY LateBounded, PageCardinality DEF PageInv, Page!LateUnreadBounded
  <1>5. PageInv(K, R, I, N, L) => Page(K, R, I, N, L)!HomeAddsUp
    BY DEF PageInv
  <1>6. QED
    BY <1>1, <1>2, <1>3, <1>4, <1>5, PTL DEF Page!Spec

(* The two pages of the composition are pages in this sense.               *)
LEMMA ImagesArePage ==
  /\ Images!Init => Page(Keywords, {1}, 3, 1, 1)!Init
  /\ Images!Next => Page(Keywords, {1}, 3, 1, 1)!Next
  /\ Page(Keywords, {1}, 3, 1, 1)!HomeAddsUp => Images!HomeAddsUp
  /\ Page(Keywords, {1}, 3, 1, 1)!TypeOK => Images!TypeOK
  <1>1. \A f : Images!Total(f) = Page(Keywords, {1}, 3, 1, 1)!Total(f)
    BY DEF Page!Total, Images!Total, Page!FoldFunction, Images!FoldFunction,
       Page!FoldFunctionOnSet, Images!FoldFunctionOnSet, Page!MapThenFoldSet,
       Images!MapThenFoldSet
  <1>2. \A S : Images!Cardinality(S) = Page(Keywords, {1}, 3, 1, 1)!Cardinality(S)
    BY DEF Images!Cardinality, Page!Cardinality
  <1>3. Images!Init => Page(Keywords, {1}, 3, 1, 1)!Init
    BY DEF Images!Init, Images!Nobody, Page!Init, Page!Nobody
  <1>4. Page(Keywords, {1}, 3, 1, 1)!HomeAddsUp => Images!HomeAddsUp
    BY <1>1 DEF Images!HomeAddsUp, Images!There, Page!HomeAddsUp, Page!There
  <1>5. Page(Keywords, {1}, 3, 1, 1)!TypeOK => Images!TypeOK
    BY DEF Images!TypeOK, Images!Note, Images!Shown, Page!TypeOK, Page!Note, Page!Shown
  <1>6. Images!GetMeHomeSummary => Page(Keywords, {1}, 3, 1, 1)!GetMeHomeSummary
    BY <1>1, <1>2 DEF Images!GetMeHomeSummary, Images!Nobody, Images!Unread,
       Images!There, Page!GetMeHomeSummary, Page!Nobody, Page!Unread, Page!There
  <1>7. Images!GetMeHome => Page(Keywords, {1}, 3, 1, 1)!GetMeHome
    BY <1>1 DEF Images!GetMeHome, Images!ListCustomKeywordSummariesForUser,
       Images!There, Page!GetMeHome, Page!ListCustomKeywordSummariesForUser,
       Page!There
  <1>8. Images!Next => Page(Keywords, {1}, 3, 1, 1)!Next
    BY <1>6, <1>7 DEF Images!Next, Images!CreateKeyword, Images!DeleteKeyword,
       Images!PublishOfficial, Images!PublishCustom, Images!BeginReact,
       Images!CreateNotification, Images!EndReact,
       Images!MarkAllNotificationsRead, Images!Unread,
       Page!Next, Page!CreateKeyword, Page!DeleteKeyword,
       Page!PublishOfficial, Page!PublishCustom, Page!BeginReact,
       Page!CreateNotification, Page!EndReact,
       Page!MarkAllNotificationsRead, Page!Unread
  <1>9. QED
    BY <1>3, <1>4, <1>5, <1>8

LEMMA NotesArePage ==
  /\ Notes!Init => Page({}, 1..2, 0, 7, 3)!Init
  /\ Notes!Next => Page({}, 1..2, 0, 7, 3)!Next
  /\ Page({}, 1..2, 0, 7, 3)!TypeOK => Notes!TypeOK
  <1>1. \A f : Notes!Total(f) = Page({}, 1..2, 0, 7, 3)!Total(f)
    BY DEF Page!Total, Notes!Total, Page!FoldFunction, Notes!FoldFunction,
       Page!FoldFunctionOnSet, Notes!FoldFunctionOnSet, Page!MapThenFoldSet,
       Notes!MapThenFoldSet
  <1>2. \A S : Notes!Cardinality(S) = Page({}, 1..2, 0, 7, 3)!Cardinality(S)
    BY DEF Notes!Cardinality, Page!Cardinality
  <1>3. Notes!Init => Page({}, 1..2, 0, 7, 3)!Init
    BY DEF Notes!Init, Notes!Nobody, Page!Init, Page!Nobody
  <1>4. Page({}, 1..2, 0, 7, 3)!TypeOK => Notes!TypeOK
    BY DEF Notes!TypeOK, Notes!Note, Notes!Shown, Page!TypeOK, Page!Note, Page!Shown
  <1>5. Notes!GetMeHomeSummary => Page({}, 1..2, 0, 7, 3)!GetMeHomeSummary
    BY <1>1, <1>2 DEF Notes!GetMeHomeSummary, Notes!Nobody, Notes!Unread,
       Notes!There, Page!GetMeHomeSummary, Page!Nobody, Page!Unread, Page!There
  <1>6. Notes!GetMeHome => Page({}, 1..2, 0, 7, 3)!GetMeHome
    BY <1>1 DEF Notes!GetMeHome, Notes!ListCustomKeywordSummariesForUser,
       Notes!There, Page!GetMeHome, Page!ListCustomKeywordSummariesForUser,
       Page!There
  <1>7. Notes!Next => Page({}, 1..2, 0, 7, 3)!Next
    BY <1>5, <1>6 DEF Notes!Next, Notes!CreateKeyword, Notes!DeleteKeyword,
       Notes!PublishOfficial, Notes!PublishCustom, Notes!BeginReact,
       Notes!CreateNotification, Notes!EndReact,
       Notes!MarkAllNotificationsRead, Notes!Unread,
       Page!Next, Page!CreateKeyword, Page!DeleteKeyword,
       Page!PublishOfficial, Page!PublishCustom, Page!BeginReact,
       Page!CreateNotification, Page!EndReact,
       Page!MarkAllNotificationsRead, Page!Unread
  <1>8. QED
    BY <1>3, <1>4, <1>7

(* What the two properties of the notifications say.                       *)
LEMMA NotesAgree ==
  ASSUME PageInv({}, 1..2, 0, 7, 3)
  PROVE  Notes!BadgeIsListed /\ Notes!LateUnreadBounded
  <1>1. IsFiniteSet(1..2)
    <2>1. \A b \in Nat : IsFiniteSet(1..b)
      BY FS_Interval
    <2>2. QED
      BY <2>1
  <1>2. \A S : Notes!Cardinality(S) = Cardinality(S)
    BY DEF Notes!Cardinality, Cardinality
  <1>3. Page({}, 1..2, 0, 7, 3)!BadgeIsListed
    BY <1>1, BadgeListed DEF PageInv
  <1>4. Notes!BadgeIsListed
    BY <1>2, <1>3, PageCardinality DEF Notes!BadgeIsListed, Notes!Unread,
       Notes!ListNotifications, Page!BadgeIsListed, Page!Unread,
       Page!ListNotifications
  <1>5. Cardinality({n \in Page({}, 1..2, 0, 7, 3)!Unread :
                       \E m \in notes : m.read /\ m.at > n.at}) <= Cardinality(1..2)
    BY <1>1, LateBounded DEF PageInv
  <1>6. Notes!LateUnreadBounded
    BY <1>2, <1>5 DEF Notes!LateUnreadBounded, Notes!Unread, Page!Unread
  <1>7. QED
    BY <1>4, <1>6

-----------------------------------------------------------------------------
(* The settings.                                                           *)

PersonCall == [pc : {"idle", "reread", "answered", "refused"},
               input : Edges \cup {Person!Idle.input},
               nickname : [chars : 1..40, width : 1..4]]

(* While notifications are on, none is counted as late; once they are off, *)
(* a transaction that was to notify is over for each that was.             *)
PersonInv ==
    /\ nickname \in [chars : 1..40, width : 1..4]
    /\ setting \in BOOLEAN
    /\ call \in [Calls -> PersonCall]
    /\ writing \in [Requests -> {"none", "notify", "silent"}]
    /\ sinceOff \in 0..MaxOff
    /\ setting => sinceOff = 0
    /\ sinceOff <= Cardinality({r \in Requests : writing[r] # "notify"})

(* A record of three fields stays one when two of them change.             *)
LEMMA RecordKept ==
  ASSUME NEW P, NEW I, NEW N, NEW r \in [pc : P, input : I, nickname : N],
         NEW p \in P, NEW in \in I, NEW n \in N
  PROVE  /\ [r EXCEPT !.pc = p, !.input = in] \in [pc : P, input : I, nickname : N]
         /\ [r EXCEPT !.pc = p, !.nickname = n] \in [pc : P, input : I, nickname : N]
  OBVIOUS

(* A call that begins has the type of a call.                              *)
LEMMA PersonIdle ==
  ASSUME NEW in \in Edges \cup {Person!Idle.input},
         NEW p \in {"idle", "reread", "answered", "refused"}
  PROVE  [Person!Idle EXCEPT !.pc = p, !.input = in] \in PersonCall
  <1>1. Person!Idle \in PersonCall
    BY DEF Person!Idle, Person!Default, PersonCall
  <1>2. Person!Idle.nickname \in [chars : 1..40, width : 1..4]
    BY <1>1 DEF PersonCall
  <1>3. QED
    BY <1>1, <1>2, RecordKept DEF PersonCall

(* The settings begin in order.                                            *)
LEMMA PersonInit == Person!Init => PersonInv
  <1> SUFFICES ASSUME Person!Init PROVE PersonInv
    OBVIOUS
  <1>1. Person!Idle \in PersonCall
    BY DEF Person!Idle, Person!Default, PersonCall
  <1>2. MaxOff \in Nat
    BY PersonAssumption DEF Person!BoundAssumption
  <1>3. {r \in Requests : writing[r] # "notify"} \subseteq Requests
    OBVIOUS
  <1>4. Cardinality({r \in Requests : writing[r] # "notify"}) \in Nat
    BY <1>3, SlotsAssumption, FS_Subset, FS_CardinalityType
  <1>5. nickname \in [chars : 1..40, width : 1..4]
    BY DEF Person!Init, Person!Default
  <1>6. QED
    BY <1>1, <1>2, <1>4, <1>5 DEF Person!Init, PersonInv

(* A nickname that the service accepts fits its column.                    *)
LEMMA NicknameFits ==
  ASSUME NEW in \in Edges, Person!ValidNickname(in)
  PROVE  Person!TrimSpace(in) \in [chars : 1..40, width : 1..4]
  <1>1. in \in [pad : {0, 2}, chars : {0, 1, 13, 14, 38, 40}, width : {1, 3}]
    BY DEF Edges
  <1>2. in.chars * in.width \in 1..40
    BY DEF Person!ValidNickname, Person!Len, Person!TrimSpace
  <1>3. in.chars \in 1..40 /\ in.width \in 1..4
    <2>1. in.chars \in {0, 1, 13, 14, 38, 40} /\ in.width \in {1, 3}
      BY <1>1
    <2>2. in.chars # 0
      BY <1>2, <2>1
    <2>3. QED
      BY <2>1, <2>2
  <1>4. QED
    BY <1>3 DEF Person!TrimSpace

(* The steps of the user.                                                  *)
LEMMA PersonCallStep ==
  ASSUME PersonInv, NEW c \in Calls,
         \/ \E in \in Edges : Person!UpdateNickname(c, in)
         \/ \E on \in BOOLEAN : Person!UpdateReactionNotifications(c, on)
         \/ Person!GetSettings(c)
  PROVE  PersonInv'
  <1> DEFINE quiet == {r \in Requests : writing[r] # "notify"}
  <1>0. Cardinality(quiet) \in Nat /\ MaxOff \in Nat
    <2>1. quiet \subseteq Requests
      OBVIOUS
    <2>2. QED
      BY <2>1, SlotsAssumption, FS_Subset, FS_CardinalityType, PersonAssumption
         DEF Person!BoundAssumption
  <1>1. ASSUME NEW in \in Edges, Person!UpdateNickname(c, in)
        PROVE  PersonInv'
    <2>1. UNCHANGED <<setting, writing, sinceOff>>
      BY ZenonT(40), <1>1 DEF Person!UpdateNickname
    <2>2. PICK p \in {"refused", "reread"} :
            call' = [call EXCEPT ![c] = [Person!Idle EXCEPT !.pc = p, !.input = in]]
      BY ZenonT(40), <1>1 DEF Person!UpdateNickname
    <2>3. call' \in [Calls -> PersonCall]
      BY ZenonT(40), <2>2, PersonIdle DEF PersonInv
    <2>4. nickname' \in [chars : 1..40, width : 1..4]
      BY <1>1, NicknameFits DEF Person!UpdateNickname, PersonInv
    <2>5. QED
      BY SMTT(30), <2>1, <2>3, <2>4 DEF PersonInv
  <1>2. ASSUME NEW on \in BOOLEAN, Person!UpdateReactionNotifications(c, on)
        PROVE  PersonInv'
    <2>1. /\ UNCHANGED <<nickname, writing>> /\ setting' = on
          /\ sinceOff' = IF setting = on THEN sinceOff ELSE 0
          /\ call' = [call EXCEPT ![c] = [Person!Idle EXCEPT !.pc = "reread"]]
      BY <1>2 DEF Person!UpdateReactionNotifications
    <2>2. [Person!Idle EXCEPT !.pc = "reread"] \in PersonCall
      BY DEF Person!Idle, Person!Default, PersonCall
    <2>3. call' \in [Calls -> PersonCall]
      BY <2>1, <2>2 DEF PersonInv
    <2>4. /\ sinceOff' \in 0..MaxOff
          /\ setting' => sinceOff' = 0
          /\ sinceOff' <= Cardinality(quiet)
      BY <1>0, <2>1 DEF PersonInv
    <2>5. setting' \in BOOLEAN
      BY <2>1
    <2>6. nickname' = nickname /\ writing' = writing
      BY <2>1
    <2>7. nickname' \in [chars : 1..40, width : 1..4]
      BY <2>6 DEF PersonInv
    <2>8. /\ writing' \in [Requests -> {"none", "notify", "silent"}]
          /\ sinceOff' <= Cardinality({r \in Requests : writing'[r] # "notify"})
      BY <2>4, <2>6 DEF PersonInv
    <2>9. QED
      BY <2>3, <2>4, <2>5, <2>7, <2>8 DEF PersonInv
  <1>3. CASE Person!GetSettings(c)
    <2>1. /\ UNCHANGED <<nickname, setting, writing, sinceOff>>
          /\ call' = [call EXCEPT ![c].pc = "answered", ![c].nickname = nickname]
      BY <1>3 DEF Person!GetSettings
    <2>2. [call[c] EXCEPT !.pc = "answered", !.nickname = nickname] \in PersonCall
      <3>1. call[c] \in PersonCall /\ nickname \in [chars : 1..40, width : 1..4]
        BY DEF PersonInv
      <3>2. call[c].input \in Edges \cup {Person!Idle.input}
        BY <3>1 DEF PersonCall
      <3>3. QED
        BY <3>1, <3>2, RecordKept DEF PersonCall
    <2>3. call' \in [Calls -> PersonCall]
      BY <2>1, <2>2 DEF PersonInv
    <2>4. QED
      BY <2>1, <2>3 DEF PersonInv
  <1>4. QED
    BY <1>1, <1>2, <1>3

(* The steps of those who react.                                           *)
LEMMA PersonReactStep ==
  ASSUME PersonInv, NEW r \in Requests,
         \/ Person!GetVisibleReactionTarget(r)
         \/ Person!CreateNotification(r)
         \/ Person!EndReact(r)
  PROVE  PersonInv'
  <1> DEFINE Quiet(w) == {q \in Requests : w[q] # "notify"}
  <1>0. /\ \A w : IsFiniteSet(Quiet(w)) /\ Cardinality(Quiet(w)) \in Nat
        /\ MaxOff \in Nat
    <2>1. \A w : Quiet(w) \subseteq Requests
      OBVIOUS
    <2>2. QED
      BY <2>1, SlotsAssumption, FS_Subset, FS_CardinalityType, PersonAssumption
         DEF Person!BoundAssumption
  <1>1. UNCHANGED <<nickname, setting, call>>
    BY DEF Person!GetVisibleReactionTarget, Person!CreateNotification,
       Person!EndReact
  <1>2. PICK x \in {"none", "notify", "silent"} : writing' = [writing EXCEPT ![r] = x]
    BY DEF Person!GetVisibleReactionTarget, Person!CreateNotification,
       Person!EndReact
  <1>3. writing' \in [Requests -> {"none", "notify", "silent"}]
    BY <1>2 DEF PersonInv
  <1>4. sinceOff' \in 0..MaxOff /\ (setting => sinceOff' = 0)
    BY <1>0 DEF Person!GetVisibleReactionTarget, Person!CreateNotification,
       Person!EndReact, PersonInv
  <1>5. sinceOff' <= Cardinality(Quiet(writing'))
    <2>0. sinceOff \in Nat /\ sinceOff <= Cardinality(Quiet(writing))
      BY <1>0 DEF PersonInv
    <2>1. CASE setting
      BY <1>0, <1>4, <2>1
    <2>2. CASE ~setting
      <3>1. CASE Person!CreateNotification(r)
        <4>1. /\ writing[r] = "notify" /\ sinceOff' = sinceOff + 1
              /\ writing' = [writing EXCEPT ![r] = "none"]
          BY <2>2, <3>1 DEF Person!CreateNotification
        <4>2. Quiet(writing') = Quiet(writing) \cup {r} /\ r \notin Quiet(writing)
          BY <4>1 DEF PersonInv
        <4>3. Cardinality(Quiet(writing')) = Cardinality(Quiet(writing)) + 1
          <5> HIDE DEF Quiet
          <5>1. QED
            BY <1>0, <4>2, FS_AddElement
        <4>4. QED
          <5> HIDE DEF Quiet
          <5>1. QED
            BY <1>0, <2>0, <4>1, <4>3
      <3>2. CASE Person!GetVisibleReactionTarget(r) \/ Person!EndReact(r)
        <4>1. sinceOff' = sinceOff /\ writing'[r] # "notify"
          BY <2>2, <3>2 DEF Person!GetVisibleReactionTarget, Person!EndReact, PersonInv
        <4>2. Quiet(writing) \subseteq Quiet(writing')
          BY <1>2, <4>1 DEF PersonInv
        <4>3. Cardinality(Quiet(writing)) <= Cardinality(Quiet(writing'))
          <5> HIDE DEF Quiet
          <5>1. QED
            BY <1>0, <4>2, FS_Subset
        <4>4. QED
          <5> HIDE DEF Quiet
          <5>1. QED
            BY <1>0, <2>0, <4>1, <4>3
      <3>3. QED
        BY <3>1, <3>2
    <2>3. QED
      BY <2>1, <2>2
  <1>6. QED
    BY <1>1, <1>3, <1>4, <1>5 DEF PersonInv

(* Every step keeps them so.                                               *)
LEMMA PersonStep == PersonInv /\ [Person!Next]_personVars => PersonInv'
  <1>1. PersonInv /\ UNCHANGED personVars => PersonInv'
    BY DEF PersonInv, personVars
  <1>2. QED
    BY <1>1, PersonCallStep, PersonReactStep DEF Person!Next

(* They are the types of the settings.                                     *)
LEMMA PersonTyped == PersonInv => Person!TypeOK /\ OffIsSoonQuiet
  <1> SUFFICES ASSUME PersonInv PROVE Person!TypeOK /\ OffIsSoonQuiet
    OBVIOUS
  <1>1. Person!TypeOK
    BY DEF PersonInv, PersonCall, Person!TypeOK, Person!Column
  <1>2. OffIsSoonQuiet
    BY DEF PersonInv, OffIsSoonQuiet, Person!OffIsSoonQuiet, Person!Cardinality,
       Cardinality
  <1>3. QED
    BY <1>1, <1>2

-----------------------------------------------------------------------------
(* The composition.                                                        *)

SocialInv ==
    /\ part \in {"reactions", "images", "notes", "person"}
    /\ part = "images" => PageInv(Keywords, {1}, 3, 1, 1)
    /\ part = "notes" => PageInv({}, 1..2, 0, 7, 3)
    /\ PersonInv

(* The three parts begin in order.                                         *)
LEMMA SocialInitInv == SocialInit => SocialInv
  <1> SUFFICES ASSUME SocialInit PROVE SocialInv
    OBVIOUS
  <1>1. IsFiniteSet({1}) /\ IsFiniteSet(1..2)
    <2>1. \A b \in Nat : IsFiniteSet(1..b)
      BY FS_Interval
    <2>2. QED
      BY <2>1, FS_Singleton
  <1>2. part = "images" => PageInv(Keywords, {1}, 3, 1, 1)
    BY <1>1, ImagesArePage, PageInit DEF SocialInit
  <1>3. part = "notes" => PageInv({}, 1..2, 0, 7, 3)
    BY <1>1, NotesArePage, PageInit DEF SocialInit
  <1>4. QED
    BY <1>2, <1>3, PersonInit DEF SocialInit, SocialInv

(* A step moves one of them, and keeps it so.                              *)
LEMMA SocialStepInv == SocialInv /\ [SocialNext]_allVars => SocialInv'
  <1> SUFFICES ASSUME SocialInv, [SocialNext]_allVars PROVE SocialInv'
    OBVIOUS
  <1>1. IsFiniteSet({1}) /\ IsFiniteSet(1..2)
    <2>1. \A b \in Nat : IsFiniteSet(1..b)
      BY FS_Interval
    <2>2. QED
      BY <2>1, FS_Singleton
  <1>2. /\ part' = part
        /\ UNCHANGED pageVars \/ (part = "images" /\ Images!Next)
             \/ (part = "notes" /\ Notes!Next)
        /\ UNCHANGED personVars \/ Person!Next
    BY DEF SocialNext, allVars
  <1>3. PersonInv'
    BY <1>2, PersonStep DEF SocialInv
  <1>4. part = "images" => PageInv(Keywords, {1}, 3, 1, 1)'
    BY <1>1, <1>2, ImagesArePage, PageStep, PageKept DEF SocialInv
  <1>5. part = "notes" => PageInv({}, 1..2, 0, 7, 3)'
    BY <1>1, <1>2, NotesArePage, PageStep, PageKept DEF SocialInv
  <1>6. QED
    BY <1>2, <1>3, <1>4, <1>5 DEF SocialInv

(* Pages, notifications and settings are in order in every reachable state. *)
THEOREM SocialHolds == SocialSpec => []SocialInv
  BY SocialInitInv, SocialStepInv, PTL DEF SocialSpec, allVars

(* The page adds up, though it reads twice while the user goes on; the     *)
(* unread notifications that it counts are in the list but for those that  *)
(* came late; and of these there are no more than transactions at a time.  *)
THEOREM PagesAgree == SocialSpec => []PageAgrees
  <1>1. SocialInv => PageAgrees
    <2> SUFFICES ASSUME SocialInv PROVE PageAgrees
      OBVIOUS
    <2>1. part = "images" => Images!HomeAddsUp
      BY ImagesArePage DEF SocialInv, PageInv
    <2>2. part = "notes" => Notes!BadgeIsListed /\ Notes!LateUnreadBounded
      BY NotesAgree DEF SocialInv
    <2>3. QED
      BY <2>1, <2>2 DEF PageAgrees
  <1>2. QED
    BY <1>1, SocialHolds, PTL

(* Who switches notifications off gets at most as many more as there are   *)
(* transactions at a time.                                                 *)
THEOREM SoonQuiet == SocialSpec => []OffIsSoonQuiet
  BY SocialHolds, PersonTyped, PTL DEF SocialInv

(* The variables of all parts have their types.                            *)
THEOREM SocialTyped == SocialSpec => []TypesOK
  <1>1. SocialInv /\ TypeOK => TypesOK
    <2> SUFFICES ASSUME SocialInv, TypeOK PROVE TypesOK
      OBVIOUS
    <2>1. part = "images" => Images!TypeOK
      BY ImagesArePage, PageTyped DEF SocialInv, PageInv
    <2>2. part = "notes" => Notes!TypeOK
      BY NotesArePage, PageTyped DEF SocialInv, PageInv
    <2>3. QED
      BY <2>1, <2>2, PersonTyped DEF SocialInv, TypesOK
  <1>2. QED
    BY <1>1, SocialHolds, SocialIsReactions, ReactionsTyped, PTL

=============================================================================
