---------------------------- MODULE KeywordsProofs ----------------------------
(***************************************************************************)
(* What holds of official and custom keywords for any number of requests.  *)
(* DailyKeyword and CustomKeyword are proved about once each, for all      *)
(* values of their constants, and the parts of the composition are cases   *)
(* of that.                                                                *)
(***************************************************************************)
EXTENDS MCKeywords, QueryProofs

-----------------------------------------------------------------------------
(* The numbers of a set before a given one.                                *)
Below(S, k) == {j \in S : j < k}

(* They are fewer than all, and the more the greater the number.           *)
LEMMA BelowCounted ==
  ASSUME NEW S \in SUBSET Int, IsFiniteSet(S), NEW k \in S
  PROVE  /\ IsFiniteSet(Below(S, k))
         /\ Cardinality(Below(S, k)) \in 0..(Cardinality(S) - 1)
         /\ \A m \in S : k < m => Cardinality(Below(S, k)) < Cardinality(Below(S, m))
  <1>1. IsFiniteSet(S \ {k}) /\ Cardinality(S \ {k}) = Cardinality(S) - 1
    BY FS_RemoveElement
  <1>2. Below(S, k) \subseteq S \ {k}
    BY DEF Below
  <1>3. IsFiniteSet(Below(S, k)) /\ Cardinality(Below(S, k)) <= Cardinality(S) - 1
    BY <1>1, <1>2, FS_Subset
  <1>4. Cardinality(Below(S, k)) \in Nat /\ Cardinality(S) \in Nat
    BY <1>3, FS_CardinalityType
  <1>5. ASSUME NEW m \in S, k < m
        PROVE  Cardinality(Below(S, k)) < Cardinality(Below(S, m))
    <2>1. Below(S, k) \cup {k} \subseteq Below(S, m)
      <3>1. ASSUME NEW j \in S, j < k PROVE j < m
        <4>1. j \in Int /\ k \in Int /\ m \in Int
          OBVIOUS
        <4>2. QED
          BY <1>5, <3>1, <4>1
      <3>2. QED
        BY <1>5, <3>1 DEF Below
    <2>2. k \notin Below(S, k)
      BY DEF Below
    <2>3. /\ IsFiniteSet(Below(S, k) \cup {k})
          /\ Cardinality(Below(S, k) \cup {k}) = Cardinality(Below(S, k)) + 1
      BY <1>3, <2>2, FS_AddElement
    <2>4. Below(S, m) \subseteq S
      BY DEF Below
    <2>5. IsFiniteSet(Below(S, m)) /\ Cardinality(Below(S, m)) \in Nat
      BY <2>4, FS_Subset, FS_CardinalityType
    <2>6. Cardinality(Below(S, k)) + 1 <= Cardinality(Below(S, m))
      BY <2>1, <2>3, <2>5, FS_Subset
    <2>7. QED
      BY <1>4, <2>5, <2>6
  <1>6. QED
    BY <1>3, <1>4, <1>5

(* So two of a set do not have the same number of others before them.      *)
LEMMA PlaceTakenOnce ==
  ASSUME NEW S \in SUBSET Int, IsFiniteSet(S), NEW k \in S, NEW m \in S,
         Cardinality(Below(S, k)) = Cardinality(Below(S, m))
  PROVE  k = m
  <1>1. k \in Int /\ m \in Int
    OBVIOUS
  <1>2. Cardinality(Below(S, k)) \in Int
    BY BelowCounted
  <1>3. ~(k < m) /\ ~(m < k)
    BY <1>2, BelowCounted
  <1>4. QED
    BY <1>1, <1>3

(* And each place is taken by one of them.                                 *)
LEMMA PlaceTaken ==
  ASSUME NEW S \in SUBSET Int, IsFiniteSet(S), NEW n \in 0..(Cardinality(S) - 1)
  PROVE  \E k \in S : Cardinality(Below(S, k)) = n
  <1> DEFINE c == Cardinality(S)
             f == [k \in S |-> Cardinality(Below(S, k))]
  <1>1. c \in Nat /\ c > 0
    BY FS_CardinalityType
  <1>2. f \in Injection(S, 0..(c - 1))
    <2>1. f \in [S -> 0..(c - 1)]
      BY BelowCounted
    <2>2. \A k, m \in S : f[k] = f[m] => k = m
      BY PlaceTakenOnce
    <2>3. QED
      BY <2>1, <2>2 DEF Injection, IsInjective
  <1>3. IsFiniteSet(0..(c - 1)) /\ Cardinality(0..(c - 1)) = c
    BY <1>1, FS_Interval
  <1>4. f \in Surjection(S, 0..(c - 1))
    BY <1>2, <1>3, FS_Injection
  <1>5. QED
    BY <1>4 DEF Surjection

-----------------------------------------------------------------------------
(* Remainders.                                                             *)

(* A multiple less than n, either way, is 0.                               *)
LEMMA SmallMultiple ==
  ASSUME NEW n \in Nat \ {0}, NEW e \in Int, -n < n * e, n * e < n
  PROVE  n * e = 0
  <1>1. CASE e >= 1
    <2>1. n * e >= n
      BY <1>1
    <2>2. QED
      BY <2>1
  <1>2. CASE e <= -1
    <2>1. n * e <= -n
      BY <1>2
    <2>2. QED
      BY <2>1
  <1>3. QED
    BY <1>1, <1>2

(* What % gives.                                                           *)
LEMMA Remainder ==
  ASSUME NEW a \in Int, NEW n \in Nat \ {0}
  PROVE  /\ a \div n \in Int /\ a % n \in 0..(n - 1)
         /\ a = n * (a \div n) + (a % n)
  OBVIOUS

(* Two numbers differ by a multiple iff their remainders are the same.     *)
LEMMA SameRemainder ==
  ASSUME NEW a \in Int, NEW b \in Int, NEW n \in Nat \ {0}
  PROVE  (a % n = b % n) <=> ((a - b) % n = 0)
  <1> DEFINE q == a \div n
             p == b \div n
             d == (a - b) \div n
  <1>1. /\ q \in Int /\ p \in Int /\ d \in Int
        /\ a % n \in 0..(n - 1) /\ b % n \in 0..(n - 1) /\ (a - b) % n \in 0..(n - 1)
        /\ a = n * q + (a % n) /\ b = n * p + (b % n)
        /\ a - b = n * d + ((a - b) % n)
    BY Remainder
  <1> HIDE DEF q, p, d
  <1>2. ASSUME NEW x \in 0..(n - 1), NEW y \in 0..(n - 1), NEW z \in 0..(n - 1),
               a = n * q + x, b = n * p + y, a - b = n * d + z
        PROVE  (x = y) <=> (z = 0)
    <2>1. PICK e \in Int : e = q - p - d
      BY <1>1
    <2>2. n * e = n * q - n * p - n * d
      BY <1>1, <2>1
    <2>3. n * q \in Int /\ n * p \in Int /\ n * d \in Int
      BY <1>1
    <2>4. n * e = z - x + y
      BY <1>2, <2>2, <2>3
    <2>5. x = y => z = 0
      BY <2>4, SmallMultiple
    <2>6. z = 0 => x = y
      BY <2>4, SmallMultiple
    <2>7. QED
      BY <2>5, <2>6
  <1>3. QED
    BY <1>1, <1>2

-----------------------------------------------------------------------------
(* The official keyword of a date.                                         *)

Day(K, F, L, C) == INSTANCE DailyKeyword WITH
    Keywords <- K, FirstDay <- F, LastDay <- L, KeywordsChange <- C, req <- asked

Asks(K, D) == [pc : {"idle", "get", "list", "upsert", "use"},
               for : {"home", "open", "commit"}, day : D,
               keyword : K \cup {None}, s : Sessions \cup {None}]
DaySessions(K, D) == [status : {"none", "created", "committed"},
                      day : D, keyword : K \cup {None}]

(* What a request of a step has in hand.                                   *)
AskSound(q) ==
    /\ q.pc \in {"upsert", "use"} => q.keyword # None
    /\ q.pc # "idle" /\ q.for # "home" => q.s # None

DayTypes(K, D) ==
    /\ today \in D
    /\ active \in SUBSET K
    /\ assignment \in [D -> K \cup {None}]
    /\ session \in [Sessions -> DaySessions(K, D)]
    /\ asked \in [Requests -> Asks(K, D)]
    /\ \A r \in Requests : AskSound(asked[r])

(* The keyword whose turn it is on a day: there are as many before it as   *)
(* the day leaves over.                                                    *)
TurnOf(S, d) == CHOOSE k \in S : Cardinality(Below(S, k)) = d % Cardinality(S)

(* While the keywords do not change, what is assigned, chosen or used for  *)
(* a date is that keyword.                                                 *)
TurnsKept(D) ==
    /\ \A d \in D :
          assignment[d] # None => active # {} /\ assignment[d] = TurnOf(active, d)
    /\ \A r \in Requests :
          /\ asked[r].pc \in {"upsert", "use"} =>
               /\ active # {}
               /\ asked[r].keyword = TurnOf(active, asked[r].day)
          /\ asked[r].pc = "use" => assignment[asked[r].day] = asked[r].keyword
          /\ asked[r].pc # "idle" /\ asked[r].for = "commit"
               => session[asked[r].s].status # "none"
    /\ \A s \in Sessions : session[s].status # "none" =>
          /\ session[s].keyword # None
          /\ session[s].keyword = assignment[session[s].day]

DayInv(K, F, L, C) ==
    DayTypes(K, F..L) /\ (~C => TurnsKept(F..L))

(* The rotation takes the keyword at the place that the day's remainder    *)
(* gives, before the anchor date too.                                      *)
LEMMA TurnIsRemainder ==
  ASSUME NEW n \in Nat \ {0}, NEW d \in Int, NEW K, NEW F, NEW L, NEW C
  PROVE  Day(K, F, L, C)!Index(d, n) = d % n
  <1>1. CASE d >= 0
    <2>1. d % n \in 0..(n - 1)
      BY Remainder
    <2>2. Day(K, F, L, C)!GoRemainder(d, n) = d % n
      BY <1>1 DEF Day!GoRemainder
    <2>3. QED
      BY <2>1, <2>2 DEF Day!Index
  <1>2. CASE d < 0
    <2> DEFINE m == (-d) % n
    <2>1. /\ m \in 0..(n - 1) /\ d % n \in 0..(n - 1)
          /\ (-d) \div n \in Int /\ d \div n \in Int
          /\ -d = n * ((-d) \div n) + m /\ d = n * (d \div n) + (d % n)
      BY Remainder
    <2>2. Day(K, F, L, C)!GoRemainder(d, n) = -m
      BY <1>2 DEF Day!GoRemainder
    <2>3. Day(K, F, L, C)!Index(d, n) = IF m > 0 THEN n - m ELSE -m
      BY <2>1, <2>2 DEF Day!Index
    <2> HIDE DEF m
    <2>4. PICK a \in Int, b \in Int : -d = n * a + m /\ d = n * b + (d % n)
      BY <2>1
    <2>5. PICK e \in Int : n * e = -(m + (d % n))
      <3>1. n * (a + b) = n * a + n * b
        OBVIOUS
      <3>2. n * a \in Int /\ n * b \in Int /\ a + b \in Int
        OBVIOUS
      <3>3. n * (a + b) = -(m + (d % n))
        BY <2>1, <2>4, <3>1, <3>2
      <3>4. QED
        BY <3>2, <3>3
    <2>6. CASE m + (d % n) < n
      <3>1. n * e = 0
        BY <2>1, <2>5, <2>6, SmallMultiple
      <3>2. QED
        BY <2>1, <2>3, <2>5, <3>1
    <2>7. CASE m + (d % n) >= n
      <3>1. PICK g \in Int : g = e + 1
        OBVIOUS
      <3>2. n * g = n - (m + (d % n))
        <4>1. n * g = n * e + n
          BY <3>1
        <4>2. QED
          BY <2>1, <2>5, <4>1
      <3>3. n * g = 0
        BY <2>1, <2>7, <3>2, SmallMultiple
      <3>4. QED
        BY <2>1, <2>3, <3>2, <3>3
    <2>8. QED
      BY <2>1, <2>6, <2>7
  <1>3. QED
    BY <1>1, <1>2

(* The size of a set is what it is in FiniteSets.                          *)
LEMMA DayCardinality ==
  \A K, F, L, C, S : Day(K, F, L, C)!Cardinality(S) = Cardinality(S)
  BY DEF Day!Cardinality, Cardinality

(* That keyword is the one the rotation takes.                             *)
LEMMA Turn ==
  ASSUME NEW S \in SUBSET Int, IsFiniteSet(S), S # {}, NEW d \in Int
  PROVE  /\ TurnOf(S, d) \in S
         /\ Cardinality(Below(S, TurnOf(S, d))) = d % Cardinality(S)
         /\ \A K, F, L, C : Day(K, F, L, C)!Rotating(S, d) = TurnOf(S, d)
  <1>1. Cardinality(S) \in Nat \ {0}
    BY FS_CardinalityType, FS_EmptySet
  <1>2. \A K, F, L, C : Day(K, F, L, C)!Index(d, Cardinality(S)) = d % Cardinality(S)
    BY <1>1, TurnIsRemainder
  <1>3. d % Cardinality(S) \in 0..(Cardinality(S) - 1)
    BY <1>1, Remainder
  <1>4. \A K, F, L, C : Day(K, F, L, C)!Rotating(S, d) = TurnOf(S, d)
    BY <1>2, DayCardinality DEF Day!Rotating, Below, TurnOf
  <1>5. QED
    BY <1>3, <1>4, PlaceTaken DEF TurnOf

(* Two days have the same keyword iff whole rounds lie between them.       *)
LEMMA SameTurn ==
  ASSUME NEW S \in SUBSET Int, IsFiniteSet(S), S # {}, NEW d \in Int, NEW e \in Int
  PROVE  (TurnOf(S, d) = TurnOf(S, e)) <=> ((d - e) % Cardinality(S) = 0)
  <1>1. Cardinality(S) \in Nat \ {0}
    BY FS_CardinalityType, FS_EmptySet
  <1>2. (TurnOf(S, d) = TurnOf(S, e)) <=> (d % Cardinality(S) = e % Cardinality(S))
    <2>1. PICK k \in S, m \in S :
            /\ k = TurnOf(S, d) /\ m = TurnOf(S, e)
            /\ Cardinality(Below(S, k)) = d % Cardinality(S)
            /\ Cardinality(Below(S, m)) = e % Cardinality(S)
      BY Turn
    <2>2. Cardinality(Below(S, k)) = Cardinality(Below(S, m)) => k = m
      BY PlaceTakenOnce
    <2>3. QED
      BY <2>1, <2>2
  <1>3. QED
    BY <1>1, <1>2, SameRemainder

-----------------------------------------------------------------------------
(* The steps of a request.                                                 *)

(* A request that asks for the keyword of a date, or ends.                 *)
IsFresh(q, K, D, p, f, d, s) ==
    q \in Asks(K, D) /\ q.pc = p /\ q.for = f /\ q.day = d /\ q.s = s

(* It has its type, and each field as it was set.                          *)
LEMMA FreshAsk ==
  ASSUME NEW K, NEW F \in Int, NEW L \in Int, NEW C, F < L,
         NEW f \in {"home", "open", "commit"}, NEW d \in F..L,
         NEW s \in Sessions \cup {None}
  PROVE  /\ IsFresh([Day(K, F, L, C)!Idle EXCEPT !.pc = "get", !.day = d],
                    K, F..L, "get", "home", d, None)
         /\ IsFresh([Day(K, F, L, C)!Idle EXCEPT !.pc = "get", !.for = f, !.day = d, !.s = s],
                    K, F..L, "get", f, d, s)
         /\ IsFresh(Day(K, F, L, C)!Idle, K, F..L, "idle", "home", F, None)
  <1>1. F \in F..L
    OBVIOUS
  <1>2. Day(K, F, L, C)!Idle \in Asks(K, F..L)
    BY <1>1 DEF Asks, Day!Idle
  <1>3. /\ [Day(K, F, L, C)!Idle EXCEPT !.pc = "get", !.day = d] \in Asks(K, F..L)
        /\ [Day(K, F, L, C)!Idle EXCEPT !.pc = "get", !.for = f, !.day = d, !.s = s]
             \in Asks(K, F..L)
    BY <1>2 DEF Asks
  <1>4. QED
    BY <1>2, <1>3 DEF IsFresh, Day!Idle

(* A request replaced by another of the type.                              *)
LEMMA AskReplaced ==
  ASSUME NEW K, NEW D, NEW r \in Requests, NEW q \in Asks(K, D), AskSound(q),
         DayTypes(K, D), asked' = [asked EXCEPT ![r] = q]
  PROVE  /\ asked' \in [Requests -> Asks(K, D)]
         /\ \A p \in Requests : AskSound(asked'[p])
         /\ asked'[r] = q /\ \A p \in Requests \ {r} : asked'[p] = asked[p]
  <1>1. /\ asked' \in [Requests -> Asks(K, D)]
        /\ asked'[r] = q /\ \A p \in Requests \ {r} : asked'[p] = asked[p]
    BY DEF DayTypes
  <1>2. QED
    BY <1>1 DEF DayTypes

(* The constants of a calendar of keywords.                                *)
DayConstants(K, F, L) ==
    K \in SUBSET Nat /\ IsFiniteSet(K) /\ None \notin K /\ F \in Int /\ L \in Int /\ F < L

(* A set of keywords is a finite set of numbers.                           *)
LEMMA KeywordSet ==
  ASSUME NEW K, NEW F, NEW L, DayConstants(K, F, L), NEW S \in SUBSET K
  PROVE  S \in SUBSET Int /\ IsFiniteSet(S)
  <1>1. K \subseteq Int
    BY DEF DayConstants
  <1>2. IsFiniteSet(S)
    BY FS_Subset DEF DayConstants
  <1>3. QED
    BY <1>1, <1>2

(* A request that begins or ends keeps all of it.                          *)
LEMMA FreshKept ==
  ASSUME NEW K, NEW F, NEW L, NEW C, DayConstants(K, F, L), DayInv(K, F, L, C),
         NEW r \in Requests, NEW q, NEW p \in {"idle", "get"},
         NEW f \in {"home", "open", "commit"}, NEW d, NEW s,
         IsFresh(q, K, F..L, p, f, d, s), p = "idle" \/ f = "home" \/ s # None,
         p = "get" /\ f = "commit" => session[s].status # "none",
         asked' = [asked EXCEPT ![r] = q], UNCHANGED <<today, active, assignment, session>>
  PROVE  DayInv(K, F, L, C)'
  <1>1. q \in Asks(K, F..L) /\ AskSound(q)
    BY DEF IsFresh, AskSound
  <1>2. /\ asked' \in [Requests -> Asks(K, F..L)]
        /\ \A i \in Requests : AskSound(asked'[i])
        /\ asked'[r] = q /\ \A i \in Requests \ {r} : asked'[i] = asked[i]
    BY <1>1, AskReplaced DEF DayInv
  <1>3. DayTypes(K, F..L)'
    BY <1>2 DEF DayInv, DayTypes
  <1>4. ASSUME TurnsKept(F..L) PROVE TurnsKept(F..L)'
    BY <1>2, <1>4 DEF TurnsKept, IsFresh
  <1>5. QED
    BY <1>3, <1>4 DEF DayInv

(* A request is begun, or ends.                                            *)
LEMMA AskingKept ==
  ASSUME NEW K, NEW F, NEW L, NEW C, DayConstants(K, F, L), DayInv(K, F, L, C),
         NEW r \in Requests,
         \/ \E d \in F..L : Day(K, F, L, C)!GetOfficialHome(r, d)
         \/ \E s \in Sessions, d \in F..L : Day(K, F, L, C)!OpenSession(r, s, d)
         \/ \E s \in Sessions : Day(K, F, L, C)!CommitSession(r, s)
         \/ Day(K, F, L, C)!Crash(r)
  PROVE  DayInv(K, F, L, C)'
  <1>0. F \in Int /\ L \in Int /\ F < L /\ DayTypes(K, F..L)
    BY DEF DayConstants, DayInv
  <1>1. ASSUME NEW d \in F..L, Day(K, F, L, C)!GetOfficialHome(r, d)
        PROVE  DayInv(K, F, L, C)'
    <2>1. PICK q : /\ IsFresh(q, K, F..L, "get", "home", d, None)
                   /\ asked' = [asked EXCEPT ![r] = q]
      BY <1>0, <1>1, FreshAsk DEF Day!GetOfficialHome
    <2>2. UNCHANGED <<today, active, assignment, session>>
      BY <1>1 DEF Day!GetOfficialHome
    <2>3. QED
      BY <2>1, <2>2, FreshKept
  <1>2. ASSUME NEW s \in Sessions, NEW d \in F..L, Day(K, F, L, C)!OpenSession(r, s, d)
        PROVE  DayInv(K, F, L, C)'
    <2>1. PICK q : /\ IsFresh(q, K, F..L, "get", "open", d, s)
                   /\ asked' = [asked EXCEPT ![r] = q]
      BY <1>0, <1>2, FreshAsk DEF Day!OpenSession
    <2>2. UNCHANGED <<today, active, assignment, session>>
      BY <1>2 DEF Day!OpenSession
    <2>3. s # None
      BY FixedAssumption DEF Fixed!KeywordAssumption
    <2>4. QED
      BY <2>1, <2>2, <2>3, FreshKept
  <1>3. ASSUME NEW s \in Sessions, Day(K, F, L, C)!CommitSession(r, s)
        PROVE  DayInv(K, F, L, C)'
    <2>1. PICK q : /\ IsFresh(q, K, F..L, "get", "commit", session[s].day, s)
                   /\ asked' = [asked EXCEPT ![r] = q]
      <3>1. session[s].day \in F..L
        BY <1>0 DEF DayTypes, DaySessions
      <3>2. QED
        BY <1>0, <1>3, <3>1, FreshAsk DEF Day!CommitSession
    <2>2. UNCHANGED <<today, active, assignment, session>> /\ session[s].status # "none"
      BY <1>3 DEF Day!CommitSession
    <2>3. s # None
      BY FixedAssumption DEF Fixed!KeywordAssumption
    <2>4. QED
      BY <2>1, <2>2, <2>3, FreshKept
  <1>4. ASSUME Day(K, F, L, C)!Crash(r)
        PROVE  DayInv(K, F, L, C)'
    <2>1. PICK q : /\ IsFresh(q, K, F..L, "idle", "home", F, None)
                   /\ asked' = [asked EXCEPT ![r] = q]
      <3>1. F \in F..L /\ "home" \in {"home", "open", "commit"} /\ None \in Sessions \cup {None}
        BY <1>0
      <3>2. IsFresh(Day(K, F, L, C)!Idle, K, F..L, "idle", "home", F, None)
        BY <1>0, <3>1, FreshAsk
      <3>3. QED
        BY <1>4, <3>2 DEF Day!Crash, Day!End
    <2>2. UNCHANGED <<today, active, assignment, session>>
      BY <1>4 DEF Day!Crash
    <2>3. QED
      BY <2>1, <2>2, FreshKept
  <1>5. QED
    BY <1>1, <1>2, <1>3, <1>4

(* The read of the assignment, and the choice of a keyword.                *)
LEMMA ChoosingKept ==
  ASSUME NEW K, NEW F, NEW L, NEW C, DayConstants(K, F, L), DayInv(K, F, L, C),
         NEW r \in Requests,
         Day(K, F, L, C)!ReadAssignment(r) \/ Day(K, F, L, C)!ListActive(r)
  PROVE  DayInv(K, F, L, C)'
  <1>0. /\ F \in Int /\ L \in Int /\ F < L /\ None \notin K /\ DayTypes(K, F..L)
        /\ asked[r] \in Asks(K, F..L) /\ AskSound(asked[r])
        /\ asked[r].day \in F..L /\ active \in SUBSET K
        /\ assignment \in [F..L -> K \cup {None}]
    BY DEF DayConstants, DayInv, DayTypes, Asks
  <1>1. UNCHANGED <<today, active, assignment, session>>
    BY DEF Day!ReadAssignment, Day!ListActive
  <1>2. CASE /\ Day(K, F, L, C)!ListActive(r) /\ active = {}
    <2>1. Day(K, F, L, C)!Crash(r)
      BY <1>2 DEF Day!ListActive, Day!Crash
    <2>2. QED
      BY <2>1, AskingKept
  <1>3. ASSUME NEW q \in Asks(K, F..L), AskSound(q), q.pc \in {"list", "upsert", "use"},
               asked' = [asked EXCEPT ![r] = q],
               q.day = asked[r].day, q.for = asked[r].for, q.s = asked[r].s,
               asked[r].pc # "idle",
               q.pc = "use" => assignment[q.day] = q.keyword,
               q.pc = "upsert" => active # {} /\ q.keyword = TurnOf(active, q.day)
        PROVE  DayInv(K, F, L, C)'
    <2>1. /\ asked' \in [Requests -> Asks(K, F..L)]
          /\ \A i \in Requests : AskSound(asked'[i])
          /\ asked'[r] = q /\ \A i \in Requests \ {r} : asked'[i] = asked[i]
      BY <1>0, <1>3, AskReplaced
    <2>2. DayTypes(K, F..L)'
      BY <1>1, <2>1 DEF DayInv, DayTypes
    <2>3. ASSUME TurnsKept(F..L) PROVE TurnsKept(F..L)'
      <3>1. q.pc \in {"upsert", "use"} =>
              active # {} /\ q.keyword = TurnOf(active, q.day)
        BY <1>0, <1>3, <2>3 DEF TurnsKept, AskSound
      <3>2. q.for = "commit" => session[q.s].status # "none"
        BY <1>3, <2>3 DEF TurnsKept
      <3>3. QED
        BY <1>1, <1>3, <2>1, <2>3, <3>1, <3>2 DEF TurnsKept
    <2>4. QED
      BY <2>2, <2>3 DEF DayInv
  <1>4. CASE Day(K, F, L, C)!ReadAssignment(r)
    <2>1. asked[r].pc = "get"
      BY <1>4 DEF Day!ReadAssignment
    <2>2. CASE assignment[asked[r].day] = None
      <3>1. asked' = [asked EXCEPT ![r] = [asked[r] EXCEPT !.pc = "list"]]
        BY <1>4, <2>2 DEF Day!ReadAssignment
      <3>2. [asked[r] EXCEPT !.pc = "list"] \in Asks(K, F..L)
        BY <1>0 DEF Asks
      <3>3. PICK q \in Asks(K, F..L) :
              /\ asked' = [asked EXCEPT ![r] = q] /\ q.pc = "list"
              /\ q.day = asked[r].day /\ q.for = asked[r].for /\ q.s = asked[r].s
        BY <1>0, <3>1, <3>2 DEF Asks
      <3>4. AskSound(q)
        BY <1>0, <2>1, <3>3 DEF AskSound
      <3>5. QED
        BY <1>3, <2>1, <3>3, <3>4
    <2>3. CASE assignment[asked[r].day] # None
      <3>1. PICK k \in K : k = assignment[asked[r].day]
        BY <1>0, <2>3
      <3>2. asked' = [asked EXCEPT ![r] = [asked[r] EXCEPT !.pc = "use", !.keyword = k]]
        BY <1>4, <2>3, <3>1 DEF Day!ReadAssignment
      <3>3. PICK q \in Asks(K, F..L) :
              /\ asked' = [asked EXCEPT ![r] = q] /\ q.pc = "use" /\ q.keyword = k
              /\ q.day = asked[r].day /\ q.for = asked[r].for /\ q.s = asked[r].s
              /\ AskSound(q)
        <4>1. /\ [asked[r] EXCEPT !.pc = "use", !.keyword = k] \in Asks(K, F..L)
              /\ [asked[r] EXCEPT !.pc = "use", !.keyword = k].s = asked[r].s
          BY <1>0 DEF Asks
        <4>2. AskSound([asked[r] EXCEPT !.pc = "use", !.keyword = k])
          BY <1>0, <2>1 DEF AskSound, Asks
        <4>3. QED
          BY <1>0, <3>2, <4>1, <4>2 DEF Asks
      <3>4. QED
        BY <1>3, <2>1, <3>1, <3>3
    <2>4. QED
      BY <2>2, <2>3
  <1>5. CASE Day(K, F, L, C)!ListActive(r) /\ active # {}
    <2>1. asked[r].pc = "list"
      BY <1>5 DEF Day!ListActive
    <2>2. asked[r].day \in Int
      BY <1>0
    <2>3. active \in SUBSET Int /\ IsFiniteSet(active)
      BY <1>0, KeywordSet
    <2>4. PICK k \in K : /\ k = TurnOf(active, asked[r].day)
                         /\ k = Day(K, F, L, C)!Rotating(active, asked[r].day)
      <3>1. /\ TurnOf(active, asked[r].day) \in active
            /\ Day(K, F, L, C)!Rotating(active, asked[r].day) = TurnOf(active, asked[r].day)
        BY <1>5, <2>2, <2>3, Turn
      <3>2. QED
        BY <1>0, <3>1
    <2>5. asked' = [asked EXCEPT ![r] = [asked[r] EXCEPT !.pc = "upsert", !.keyword = k]]
      BY <1>5, <2>4 DEF Day!ListActive
    <2>6. PICK q \in Asks(K, F..L) :
            /\ asked' = [asked EXCEPT ![r] = q] /\ q.pc = "upsert" /\ q.keyword = k
            /\ q.day = asked[r].day /\ q.for = asked[r].for /\ q.s = asked[r].s
            /\ AskSound(q)
      <3>1. /\ [asked[r] EXCEPT !.pc = "upsert", !.keyword = k] \in Asks(K, F..L)
            /\ [asked[r] EXCEPT !.pc = "upsert", !.keyword = k].s = asked[r].s
        BY <1>0 DEF Asks
      <3>2. AskSound([asked[r] EXCEPT !.pc = "upsert", !.keyword = k])
        BY <1>0, <2>1 DEF AskSound, Asks
      <3>3. QED
        BY <1>0, <2>5, <3>1, <3>2 DEF Asks
    <2>7. QED
      BY <1>3, <1>5, <2>1, <2>4, <2>6
  <1>6. QED
    BY <1>2, <1>4, <1>5

(* The upsert: what it overwrites is what it writes, while the keywords do *)
(* not change.                                                             *)
LEMMA UpsertKept ==
  ASSUME NEW K, NEW F, NEW L, NEW C, DayConstants(K, F, L), DayInv(K, F, L, C),
         NEW r \in Requests, Day(K, F, L, C)!Upsert(r)
  PROVE  DayInv(K, F, L, C)'
  <1> DEFINE d == asked[r].day
             k == asked[r].keyword
  <1>0. /\ F \in Int /\ L \in Int /\ F < L /\ None \notin K /\ DayTypes(K, F..L)
        /\ asked[r] \in Asks(K, F..L) /\ AskSound(asked[r]) /\ d \in F..L
        /\ assignment \in [F..L -> K \cup {None}]
    BY DEF DayConstants, DayInv, DayTypes, Asks
  <1>1. /\ UNCHANGED <<today, active, session>> /\ asked[r].pc = "upsert"
        /\ assignment' = [assignment EXCEPT ![d] = k]
        /\ asked' = [asked EXCEPT ![r] = [asked[r] EXCEPT !.pc = "use"]]
    BY DEF Day!Upsert
  <1>2. k \in K
    BY <1>0, <1>1 DEF AskSound, Asks
  <1>3. PICK q \in Asks(K, F..L) :
          /\ asked' = [asked EXCEPT ![r] = q] /\ q.pc = "use" /\ q.keyword = k
          /\ q.day = d /\ q.for = asked[r].for /\ q.s = asked[r].s /\ AskSound(q)
    <2>1. [asked[r] EXCEPT !.pc = "use"] \in Asks(K, F..L)
      BY <1>0 DEF Asks
    <2>2. AskSound([asked[r] EXCEPT !.pc = "use"])
      BY <1>0, <1>1 DEF AskSound, Asks
    <2>3. QED
      BY <1>0, <1>1, <2>1, <2>2 DEF Asks
  <1>4. /\ asked' \in [Requests -> Asks(K, F..L)]
        /\ \A i \in Requests : AskSound(asked'[i])
        /\ asked'[r] = q /\ \A i \in Requests \ {r} : asked'[i] = asked[i]
    BY <1>0, <1>3, AskReplaced
  <1>5. /\ assignment' \in [F..L -> K \cup {None}]
        /\ assignment'[d] = k /\ \A e \in F..L : e # d => assignment'[e] = assignment[e]
    BY <1>0, <1>1, <1>2
  <1>6. DayTypes(K, F..L)'
    BY <1>0, <1>1, <1>4, <1>5 DEF DayTypes
  <1>7. ASSUME TurnsKept(F..L) PROVE TurnsKept(F..L)'
    <2>1. active # {} /\ k = TurnOf(active, d)
      BY <1>1, <1>7 DEF TurnsKept
    <2>2. assignment[d] # None => assignment[d] = k
      BY <1>0, <1>7, <2>1 DEF TurnsKept
    <2>3. \A e \in F..L : assignment'[e] = assignment[e] \/ (assignment[e] = None /\ e = d)
      BY <1>5, <2>2
    <2>4. \A e \in F..L : assignment'[e] # None =>
              active # {} /\ assignment'[e] = TurnOf(active, e)
      BY <1>5, <1>7, <2>1 DEF TurnsKept
    <2>5. \A i \in Requests : asked[i].day \in F..L /\ asked[i].keyword \in K \cup {None}
      BY <1>0 DEF DayTypes, Asks
    <2>6. \A i \in Requests : asked[i].pc = "use" =>
              assignment'[asked[i].day] = asked[i].keyword
      <3>1. \A i \in Requests : asked[i].pc = "use" =>
              asked[i].keyword # None /\ assignment[asked[i].day] = asked[i].keyword
        BY <1>0, <1>7 DEF TurnsKept, DayTypes, AskSound
      <3>2. QED
        BY <2>3, <2>5, <3>1
    <2>7. \A s \in Sessions : session[s].status # "none" =>
              /\ session[s].keyword # None
              /\ session[s].keyword = assignment'[session[s].day]
      <3>1. \A s \in Sessions : session[s].day \in F..L
        BY <1>0 DEF DayTypes, DaySessions
      <3>2. QED
        BY <1>7, <2>3, <3>1 DEF TurnsKept
    <2>8. q.for = "commit" => session[q.s].status # "none"
      BY <1>1, <1>3, <1>7 DEF TurnsKept
    <2>9. QED
      BY <1>1, <1>3, <1>4, <1>5, <1>7, <2>1, <2>4, <2>6, <2>7, <2>8 DEF TurnsKept
  <1>8. QED
    BY <1>6, <1>7 DEF DayInv

(* What the keyword is used for: a session is opened under it, or committed *)
(* if it has it.                                                           *)
LEMMA UseKept ==
  ASSUME NEW K, NEW F, NEW L, NEW C, DayConstants(K, F, L), DayInv(K, F, L, C),
         NEW r \in Requests, Day(K, F, L, C)!Use(r)
  PROVE  DayInv(K, F, L, C)'
  <1> DEFINE d == asked[r].day
             k == asked[r].keyword
             s == asked[r].s
  <1>0. /\ F \in Int /\ L \in Int /\ F < L /\ None \notin K /\ DayTypes(K, F..L)
        /\ asked[r] \in Asks(K, F..L) /\ AskSound(asked[r]) /\ d \in F..L
        /\ asked[r].pc = "use" /\ k \in K
        /\ UNCHANGED <<today, active, assignment>>
    BY DEF DayConstants, DayInv, DayTypes, Asks, AskSound, Day!Use
  <1>1. PICK q : /\ IsFresh(q, K, F..L, "idle", "home", F, None)
                 /\ asked' = [asked EXCEPT ![r] = q]
    <2>1. F \in F..L /\ "home" \in {"home", "open", "commit"} /\ None \in Sessions \cup {None}
      BY <1>0
    <2>2. IsFresh(Day(K, F, L, C)!Idle, K, F..L, "idle", "home", F, None)
      BY <1>0, <2>1, FreshAsk
    <2>3. QED
      BY <2>2 DEF Day!Use, Day!End
  <1>2. q \in Asks(K, F..L) /\ AskSound(q)
    BY <1>1 DEF IsFresh, AskSound
  <1>3. /\ asked' \in [Requests -> Asks(K, F..L)]
        /\ \A i \in Requests : AskSound(asked'[i])
        /\ asked'[r] = q /\ \A i \in Requests \ {r} : asked'[i] = asked[i]
    BY <1>0, <1>1, <1>2, AskReplaced
  <1>4. CASE session' = session
    <2>1. DayTypes(K, F..L)'
      BY <1>0, <1>3, <1>4 DEF DayTypes
    <2>2. ASSUME TurnsKept(F..L) PROVE TurnsKept(F..L)'
      BY <1>0, <1>1, <1>3, <1>4, <2>2 DEF TurnsKept, IsFresh
    <2>3. QED
      BY <2>1, <2>2 DEF DayInv
  <1>5. ASSUME NEW t \in DaySessions(K, F..L), s \in Sessions,
               session' = [session EXCEPT ![s] = t], t.status # "none",
               TurnsKept(F..L) => t.keyword # None /\ t.keyword = assignment[t.day]
        PROVE  DayInv(K, F, L, C)'
    <2>1. /\ session' \in [Sessions -> DaySessions(K, F..L)]
          /\ session'[s] = t /\ \A u \in Sessions : u # s => session'[u] = session[u]
      BY <1>0, <1>5 DEF DayTypes
    <2>2. DayTypes(K, F..L)'
      BY <1>0, <1>3, <2>1 DEF DayTypes
    <2>3. ASSUME TurnsKept(F..L) PROVE TurnsKept(F..L)'
      <3>1. \A i \in Requests : (asked'[i].pc # "idle" /\ asked'[i].for = "commit")
              => session'[asked'[i].s].status # "none"
        <4>1. ASSUME NEW i \in Requests, asked'[i].pc # "idle", asked'[i].for = "commit"
              PROVE  session'[asked'[i].s].status # "none"
          <5>1. i # r /\ asked'[i] = asked[i]
            BY <1>1, <1>3, <4>1 DEF IsFresh
          <5>2. session[asked[i].s].status # "none"
            BY <2>3, <4>1, <5>1 DEF TurnsKept
          <5>3. asked[i].s \in Sessions
            BY <1>0, <4>1, <5>1 DEF DayTypes, Asks, AskSound
          <5>4. QED
            BY <1>5, <2>1, <5>1, <5>2, <5>3
        <4>2. QED
          BY <4>1
      <3>2. \A u \in Sessions : session'[u].status # "none" =>
              /\ session'[u].keyword # None
              /\ session'[u].keyword = assignment[session'[u].day]
        BY <1>5, <2>1, <2>3 DEF TurnsKept
      <3>3. QED
        BY <1>0, <1>1, <1>3, <2>3, <3>1, <3>2 DEF TurnsKept, IsFresh
    <2>4. QED
      BY <2>2, <2>3 DEF DayInv
  <1>6. CASE asked[r].for = "home"
    <2>1. session' = session
      BY <1>6 DEF Day!Use
    <2>2. QED
      BY <1>4, <2>1
  <1>7. CASE asked[r].for = "open"
    <2>1. s \in Sessions
      BY <1>0, <1>7 DEF Asks, AskSound
    <2>2. session' = session \/
          session' = [session EXCEPT ![s] = [status |-> "created", day |-> d, keyword |-> k]]
      BY <1>7 DEF Day!Use
    <2>3. CASE session' = [session EXCEPT ![s] = [status |-> "created", day |-> d, keyword |-> k]]
      <3>1. [status |-> "created", day |-> d, keyword |-> k] \in DaySessions(K, F..L)
        BY <1>0 DEF DaySessions
      <3>2. TurnsKept(F..L) => k # None /\ k = assignment[d]
        BY <1>0 DEF TurnsKept
      <3>3. QED
        BY <1>5, <2>1, <2>3, <3>1, <3>2
    <2>4. QED
      BY <1>4, <2>2, <2>3
  <1>8. CASE asked[r].for = "commit"
    <2>1. s \in Sessions
      BY <1>0, <1>8 DEF Asks, AskSound
    <2>2. session' = session \/
          (/\ session[s].keyword = k
           /\ session' = [session EXCEPT ![s] = [session[s] EXCEPT !.status = "committed"]])
      BY <1>8 DEF Day!Use
    <2>3. CASE /\ session[s].keyword = k
               /\ session' = [session EXCEPT ![s] = [session[s] EXCEPT !.status = "committed"]]
      <3>1. session[s] \in DaySessions(K, F..L)
        BY <1>0, <2>1 DEF DayTypes
      <3>2. [session[s] EXCEPT !.status = "committed"] \in DaySessions(K, F..L)
        BY <3>1 DEF DaySessions
      <3>3. PICK t \in DaySessions(K, F..L) :
              /\ session' = [session EXCEPT ![s] = t] /\ t.status = "committed"
              /\ t.keyword = session[s].keyword /\ t.day = session[s].day
        BY <2>3, <3>1, <3>2 DEF DaySessions
      <3>4. TurnsKept(F..L) => t.keyword # None /\ t.keyword = assignment[t.day]
        <4>1. TurnsKept(F..L) => session[s].status # "none"
          BY <1>0, <1>8 DEF TurnsKept
        <4>2. QED
          BY <2>1, <3>3, <4>1 DEF TurnsKept
      <3>5. QED
        BY <1>5, <2>1, <3>3, <3>4
    <2>4. QED
      BY <1>4, <2>2, <2>3
  <1>9. QED
    BY <1>0, <1>6, <1>7, <1>8 DEF Asks

(* The operator's changes, and the clock.                                  *)
LEMMA WorldKept ==
  ASSUME NEW K, NEW F, NEW L, NEW C, DayConstants(K, F, L), DayInv(K, F, L, C),
         \/ \E k \in K : Day(K, F, L, C)!ChangeActive(k)
         \/ Day(K, F, L, C)!NextDay
  PROVE  DayInv(K, F, L, C)'
  <1>1. ASSUME NEW k \in K, Day(K, F, L, C)!ChangeActive(k)
        PROVE  DayInv(K, F, L, C)'
    <2>1. C /\ active' \in SUBSET K /\ UNCHANGED <<today, assignment, session, asked>>
      BY <1>1 DEF Day!ChangeActive, DayInv, DayTypes
    <2>2. QED
      BY <2>1 DEF DayInv, DayTypes
  <1>2. CASE Day(K, F, L, C)!NextDay
    <2>1. UNCHANGED <<active, assignment, session, asked>> /\ today' \in F..L
      BY <1>2 DEF Day!NextDay, DayInv, DayTypes, DayConstants
    <2>2. QED
      BY <2>1 DEF DayInv, DayTypes, TurnsKept
  <1>3. QED
    BY <1>1, <1>2

(* Every step.                                                             *)
LEMMA DayStep ==
  ASSUME NEW K, NEW F, NEW L, NEW C, DayConstants(K, F, L), DayInv(K, F, L, C),
         Day(K, F, L, C)!Next
  PROVE  DayInv(K, F, L, C)'
  BY AskingKept, ChoosingKept, UpsertKept, UseKept, WorldKept DEF Day!Next, Day!Days

(* The first states.                                                       *)
LEMMA DayInit ==
  ASSUME NEW K, NEW F, NEW L, NEW C, DayConstants(K, F, L), Day(K, F, L, C)!Init
  PROVE  DayInv(K, F, L, C)
  <1>1. F \in F..L
    BY DEF DayConstants
  <1>2. DayTypes(K, F..L)
    BY <1>1 DEF Day!Init, Day!Idle, Day!NoSession, Day!Days, DayTypes, DaySessions,
       Asks, AskSound
  <1>3. TurnsKept(F..L)
    BY <1>2 DEF Day!Init, Day!Idle, Day!NoSession, Day!Days, TurnsKept
  <1>4. QED
    BY <1>2, <1>3 DEF DayInv

(* A step overwrites the keyword of a date only for a request that had     *)
(* found none.                                                             *)
LEMMA DaySettles ==
  ASSUME NEW K, NEW F, NEW L, NEW C, DayInv(K, F, L, C), Day(K, F, L, C)!Next
  PROVE  Day(K, F, L, C)!AssignmentSettles
  <1>1. CASE assignment' = assignment
    BY <1>1 DEF Day!AssignmentSettles
  <1>2. ASSUME NEW r \in Requests, Day(K, F, L, C)!Upsert(r)
        PROVE  Day(K, F, L, C)!AssignmentSettles
    <2>1. /\ asked[r].pc = "upsert"
          /\ \A d \in F..L : d # asked[r].day => assignment'[d] = assignment[d]
      BY ZenonT(40), <1>2 DEF Day!Upsert, DayInv, DayTypes
    <2>2. QED
      BY <2>1 DEF Day!AssignmentSettles, Day!Choosing, Day!Days
  <1>3. assignment' = assignment \/ \E r \in Requests : Day(K, F, L, C)!Upsert(r)
    BY DEF Day!Next, Day!GetOfficialHome, Day!OpenSession, Day!CommitSession,
       Day!ReadAssignment, Day!ListActive, Day!Use, Day!Crash, Day!ChangeActive,
       Day!NextDay
  <1>4. QED
    BY <1>1, <1>2, <1>3

(* While the keywords do not change, all sessions of a date have its       *)
(* keyword, and each keyword has its turn.                                 *)
LEMMA DayFair ==
  ASSUME NEW K, NEW F, NEW L, NEW C, DayConstants(K, F, L), DayInv(K, F, L, C)
  PROVE  Day(K, F, L, C)!OneKeywordPerDay /\ Day(K, F, L, C)!RotationFair
  <1>1. Day(K, F, L, C)!OneKeywordPerDay
    BY DEF Day!OneKeywordPerDay, DayInv, TurnsKept
  <1>2. ASSUME ~C, NEW d \in F..L, NEW e \in F..L,
               assignment[d] # None, assignment[e] # None
        PROVE  (assignment[d] = assignment[e]) <=> ((d - e) % Cardinality(active) = 0)
    <2>1. /\ active # {} /\ assignment[d] = TurnOf(active, d)
          /\ assignment[e] = TurnOf(active, e)
      BY <1>2 DEF DayInv, TurnsKept
    <2>2. active \in SUBSET Int /\ IsFiniteSet(active)
      BY KeywordSet DEF DayInv, DayTypes
    <2>3. d \in Int /\ e \in Int
      BY DEF DayConstants
    <2>4. QED
      BY <2>1, <2>2, <2>3, SameTurn
  <1>3. Day(K, F, L, C)!RotationFair
    BY <1>2, DayCardinality DEF Day!RotationFair, Day!Days
  <1>4. QED
    BY <1>1, <1>3

-----------------------------------------------------------------------------
(* The custom keywords of a user.                                          *)

Custom(R, K, U, I, Lim, Rem) == INSTANCE CustomKeyword WITH
    Requests <- R, Keywords <- K, MaxUploads <- U, MaxImages <- I,
    Limit <- Lim, Removals <- Rem

(* The images of U publications, and those of a keyword in the works.      *)
ImagesOf(U, I) == (1..U) \X (1..I)
Shown(U, I, k) == {i \in ImagesOf(U, I) : upload[i[1]].k = k /\ i[2] <= upload[i[1]].count}

Steps == {"idle", "get", "set", "count", "list", "cover", "latest", "look", "publish"}
Operations == {"item", "set", "clear", "list", "publish"}
KeywordRows(U, I) == [status : {"none", "active", "inactive", "deleted"},
               source : {"auto_latest", "manual"}, cover : ImagesOf(U, I) \cup {None}]
Reqs(K, U, I) ==
    [pc : Steps, op : Operations, k : K \cup {None}, image : ImagesOf(U, I) \cup {None},
     row : KeywordRows(U, I), items : SUBSET ImagesOf(U, I), cover : ImagesOf(U, I) \cup {None},
     at : 0..U, open : BOOLEAN]

CustomTypes(R, K, U, I) ==
    /\ keyword \in [K -> KeywordRows(U, I)]
    /\ upload \in [1..U -> [k : K \cup {None}, count : 0..I]]
    /\ deleted \in SUBSET ImagesOf(U, I)
    /\ begun \in 0..U
    /\ req \in [R -> Reqs(K, U, I)]

(* An image that is listed and that is still there is not newer than the   *)
(* cover of the answer.                                                    *)
NotNewer(q) ==
    (q.op = "list" /\ q.pc = "idle" /\ q.row.cover = None) =>
        \A i \in q.items \ deleted :
            /\ q.cover # None
            /\ ~(i[1] > q.cover[1] \/ (i[1] = q.cover[1] /\ i[2] < q.cover[2]))

(* What a request has in hand: an image that it wants to choose, images    *)
(* that it has listed, the cover of the row that it has read, and the      *)
(* cover of its answer, all of the keyword that it is about.               *)
ReqSound(U, I, q) ==
    /\ q.k = None => /\ q.pc = "idle" /\ q.items = {}
                     /\ q.row.cover = None /\ q.cover = None
    /\ q.pc = "set" => q.image \in Shown(U, I, q.k)
    /\ q.row.cover # None => q.row.cover \in Shown(U, I, q.k)
    /\ q.cover # None => q.cover \in Shown(U, I, q.k)
    /\ q.items \subseteq Shown(U, I, q.k)
    /\ q.pc = "cover" => q.row.cover # None
    /\ q.pc \in {"set", "get", "count", "list", "cover", "latest"} => q.op # "publish"
    /\ q.pc = "publish" \/ (q.op = "publish" /\ q.pc = "idle") => q.open
    /\ NotNewer(q)

(* A commit in progress has a place of its own, which is still empty.      *)
Commits == {"look", "publish"}
PlacesOwn(R, U) ==
    /\ \A t \in 1..U : t > begun => upload[t].k = None
    /\ \A r \in R : req[r].pc \in Commits =>
          /\ req[r].at \in 1..begun
          /\ upload[req[r].at].k = None
          /\ \A s \in R : s # r /\ req[s].pc \in Commits => req[s].at # req[r].at

CoversOwn(K, U, I) ==
    \A k \in K : /\ keyword[k].source = "manual" <=> keyword[k].cover # None
                 /\ keyword[k].cover # None => keyword[k].cover \in Shown(U, I, k)

CustomInv(R, K, U, I) ==
    /\ CustomTypes(R, K, U, I)
    /\ \A r \in R : ReqSound(U, I, req[r])
    /\ PlacesOwn(R, U)
    /\ CoversOwn(K, U, I)

CustomConstants(K, U, I) ==
    /\ U \in Nat \ {0} /\ I \in Nat \ {0}
    /\ None \notin K \cup ImagesOf(U, I)

(* Among images there is one that comes before all others.                 *)
LEMMA FirstImage ==
  ASSUME NEW U \in Nat, NEW I \in Nat, NEW S \in SUBSET ImagesOf(U, I), S # {}
  PROVE  \E i \in S : \A j \in S :
            i[1] > j[1] \/ (i[1] = j[1] /\ i[2] <= j[2])
  <1> DEFINE T == {i[1] : i \in S}
  <1>0. /\ \A i \in S : i[1] \in 1..U /\ i[2] \in 1..I
        /\ IsFiniteSet(1..U) /\ IsFiniteSet(1..I)
    <2>1. \A i \in S : i[1] \in 1..U /\ i[2] \in 1..I
      BY DEF ImagesOf
    <2>2. IsFiniteSet(1..U) /\ IsFiniteSet(1..I)
      BY FS_Interval
    <2>3. QED
      BY <2>1, <2>2
  <1>1. T \in SUBSET Int /\ IsFiniteSet(T) /\ T # {}
    <2>1. T \subseteq 1..U /\ T # {}
      BY <1>0
    <2>2. IsFiniteSet(T)
      BY <1>0, <2>1, FS_Subset
    <2>3. QED
      BY <2>1, <2>2
  <1>2. PICK m \in T : \A t \in T : t <= m
    BY <1>1, GreatestAndLeast
  <1> DEFINE N == {i[2] : i \in {j \in S : j[1] = m}}
  <1>3. N \in SUBSET Int /\ IsFiniteSet(N) /\ N # {}
    <2>1. N \subseteq 1..I /\ N # {}
      BY <1>0, <1>2
    <2>2. IsFiniteSet(N)
      BY <1>0, <2>1, FS_Subset
    <2>3. QED
      BY <2>1, <2>2
  <1>4. PICK n \in N : \A t \in N : n <= t
    BY <1>3, GreatestAndLeast
  <1>5. PICK i \in S : i[1] = m /\ i[2] = n
    BY <1>4
  <1>6. \A j \in S : j[1] <= m /\ (j[1] = m => n <= j[2])
    BY <1>2, <1>4
  <1>7. QED
    BY <1>0, <1>5, <1>6

(* The queries of the module, and the cover that they give.                *)
LEMMA CustomQueries ==
  ASSUME NEW R, NEW K, NEW U \in Nat, NEW I \in Nat, NEW Lim, NEW Rem, NEW k
  PROVE  /\ Custom(R, K, U, I, Lim, Rem)!Images = ImagesOf(U, I)
         /\ Custom(R, K, U, I, Lim, Rem)!VisibleImages(k) = Shown(U, I, k)
         /\ Custom(R, K, U, I, Lim, Rem)!ImagesToChoose(k) = Shown(U, I, k)
         /\ Custom(R, K, U, I, Lim, Rem)!ImagesWithAsset(k) = Shown(U, I, k) \ deleted
         /\ \A n : Custom(R, K, U, I, Lim, Rem)!ListKeywordImages(k, n)
                     \subseteq Shown(U, I, k)
  <1>1. Custom(R, K, U, I, Lim, Rem)!Images = ImagesOf(U, I)
    BY DEF Custom!Images, Custom!Times, ImagesOf
  <1>2. Custom(R, K, U, I, Lim, Rem)!VisibleImages(k) = Shown(U, I, k)
    BY <1>1 DEF Custom!VisibleImages, Custom!At, Custom!DisplayOrder, Shown
  <1>3. QED
    BY <1>1, <1>2 DEF Custom!ImagesToChoose, Custom!ImagesWithAsset,
       Custom!ListKeywordImages

(* The cover that they give is the newest of the images.                   *)
LEMMA LatestCover ==
  ASSUME NEW R, NEW K, NEW U \in Nat, NEW I \in Nat, NEW Lim, NEW Rem, NEW k,
         NEW c, c = Custom(R, K, U, I, Lim, Rem)!LatestCoverAsset(k)
  PROVE  /\ c # None => c \in Shown(U, I, k)
         /\ None \notin ImagesOf(U, I) => \A i \in Shown(U, I, k) \ deleted :
              /\ c # None
              /\ ~(i[1] > c[1] \/ (i[1] = c[1] /\ i[2] < c[2]))
  <1> DEFINE S == Shown(U, I, k) \ deleted
  <1>0. Custom(R, K, U, I, Lim, Rem)!ImagesWithAsset(k) = S
    BY CustomQueries
  <1>1. CASE S = {}
    BY <1>0, <1>1 DEF Custom!LatestCoverAsset
  <1>2. CASE S # {}
    <2>1. S \in SUBSET ImagesOf(U, I) /\ S \subseteq Shown(U, I, k)
      BY DEF Shown
    <2>2. \A i \in S : i[1] \in Int /\ i[2] \in Int /\ i = <<i[1], i[2]>>
      BY <2>1 DEF ImagesOf
    <2>3. PICK f \in S : \A j \in S : f[1] > j[1] \/ (f[1] = j[1] /\ f[2] <= j[2])
      BY ZenonT(40), <1>2, <2>1, FirstImage
    <2>4. \A j \in S \ {f} : f[1] > j[1] \/ (f[1] = j[1] /\ f[2] < j[2])
      BY <2>2, <2>3
    <2>5. c = CHOOSE i \in S : \A j \in S \ {i} : i[1] > j[1] \/ (i[1] = j[1] /\ i[2] < j[2])
      BY <1>0, <1>2 DEF Custom!LatestCoverAsset, Custom!Before, Custom!At,
         Custom!DisplayOrder
    <2>6. c \in S /\ \A j \in S \ {c} : c[1] > j[1] \/ (c[1] = j[1] /\ c[2] < j[2])
      BY <2>4, <2>5
    <2>7. \A i \in S : ~(i[1] > c[1] \/ (i[1] = c[1] /\ i[2] < c[2]))
      BY <2>2, <2>6
    <2>8. QED
      BY <2>1, <2>6, <2>7
  <1>3. QED
    BY <1>1, <1>2

(* Works that are only published and images that are only removed leave to *)
(* a request what it has.                                                  *)
LEMMA SoundStays ==
  ASSUME NEW K, NEW U, NEW I, NEW q \in Reqs(K, U, I), ReqSound(U, I, q),
         \A k \in K : Shown(U, I, k) \subseteq Shown(U, I, k)', deleted \subseteq deleted'
  PROVE  ReqSound(U, I, q)'
  <1>1. CASE q.k = None
    BY <1>1 DEF ReqSound, NotNewer
  <1>2. CASE q.k \in K
    <2>1. Shown(U, I, q.k) \subseteq Shown(U, I, q.k)'
      BY <1>2
    <2>2. NotNewer(q)'
      BY DEF ReqSound, NotNewer
    <2>3. QED
      BY <1>2, <2>1, <2>2 DEF ReqSound
  <1>3. QED
    BY <1>1, <1>2 DEF Reqs

(* A step of a request that changes nothing but itself and the keywords.   *)
LEMMA RequestMoves ==
  ASSUME NEW R, NEW K, NEW U, NEW I, CustomInv(R, K, U, I), NEW r \in R,
         NEW q \in Reqs(K, U, I), ReqSound(U, I, q), req' = [req EXCEPT ![r] = q],
         q.pc \in Commits => req[r].pc \in Commits /\ q.at = req[r].at,
         UNCHANGED <<upload, deleted, begun>>,
         keyword' \in [K -> KeywordRows(U, I)], CoversOwn(K, U, I)'
  PROVE  CustomInv(R, K, U, I)'
  <1>1. /\ req \in [R -> Reqs(K, U, I)] /\ req' \in [R -> Reqs(K, U, I)]
        /\ req'[r] = q /\ \A s \in R : s # r => req'[s] = req[s]
    BY DEF CustomInv, CustomTypes
  <1>2. CustomTypes(R, K, U, I)'
    BY <1>1 DEF CustomInv, CustomTypes
  <1>3. \A s \in R : ReqSound(U, I, req'[s])
    BY <1>1 DEF CustomInv
  <1>4. \A s \in R : ReqSound(U, I, req[s])'
    <2>1. \A k : Shown(U, I, k)' = Shown(U, I, k)
      BY DEF Shown
    <2>2. QED
      BY <1>3, <2>1 DEF ReqSound, NotNewer
  <1>5. PlacesOwn(R, U)'
    <2>1. \A s \in R : req'[s].pc \in Commits => req[s].pc \in Commits /\ req'[s].at = req[s].at
      BY <1>1
    <2>2. QED
      BY <2>1 DEF CustomInv, PlacesOwn
  <1>6. QED
    BY <1>2, <1>4, <1>5 DEF CustomInv

(* The row of a keyword that is not there, and a request at rest.          *)
NoRow == [status |-> "none", source |-> "auto_latest", cover |-> None]
Rest == [pc |-> "idle", op |-> "list", k |-> None, image |-> None, row |-> NoRow,
         items |-> {}, cover |-> None, at |-> 0, open |-> FALSE]

(* What holds of these.                                                    *)
LEMMA RestIsSound ==
  ASSUME NEW K, NEW U, NEW I, U \in Nat
  PROVE  /\ NoRow \in KeywordRows(U, I) /\ Rest \in Reqs(K, U, I) /\ ReqSound(U, I, Rest)
         /\ Rest.pc = "idle" /\ Rest.row = NoRow /\ NoRow.cover = None /\ Rest.cover = None
         /\ Rest.items = {} /\ Rest.open = FALSE
  BY DEF NoRow, Rest, KeywordRows, Reqs, Steps, Operations, ReqSound, NotNewer

(* A step that ends a request without an answer.                           *)
LEMMA RequestEnds ==
  ASSUME NEW R, NEW K, NEW U, NEW I, NEW Lim, NEW Rem,
         CustomConstants(K, U, I), CustomInv(R, K, U, I), NEW r \in R,
         Custom(R, K, U, I, Lim, Rem)!Set(r, Custom(R, K, U, I, Lim, Rem)!Idle),
         UNCHANGED <<upload, deleted, begun>>,
         keyword' \in [K -> KeywordRows(U, I)], CoversOwn(K, U, I)'
  PROVE  CustomInv(R, K, U, I)'
  <1>1. U \in Nat
    BY DEF CustomConstants
  <1>2. Rest \in Reqs(K, U, I) /\ ReqSound(U, I, Rest) /\ Rest.pc \notin Commits
    BY <1>1, RestIsSound DEF Commits
  <1>3. req' = [req EXCEPT ![r] = Rest]
    BY DEF Custom!Set, Custom!Idle, Custom!NoKeyword, Rest, NoRow
  <1>4. QED
    BY <1>2, <1>3, RequestMoves

(* The keywords that stay as they are.                                     *)
LEMMA KeywordsStay ==
  ASSUME NEW R, NEW K, NEW U, NEW I, CustomInv(R, K, U, I),
         UNCHANGED <<keyword, upload>>
  PROVE  keyword' \in [K -> KeywordRows(U, I)] /\ CoversOwn(K, U, I)'
  <1>1. \A k : Shown(U, I, k)' = Shown(U, I, k)
    BY DEF Shown
  <1>2. QED
    BY <1>1 DEF CustomInv, CustomTypes, CoversOwn

(* A keyword of which only the status changes.                             *)
LEMMA StatusChanges ==
  ASSUME NEW R, NEW K, NEW U, NEW I, CustomInv(R, K, U, I), NEW k \in K,
         NEW status \in {"none", "active", "inactive", "deleted"},
         keyword' = [keyword EXCEPT ![k].status = status], UNCHANGED upload
  PROVE  /\ keyword' \in [K -> KeywordRows(U, I)] /\ CoversOwn(K, U, I)'
         /\ keyword'[k] \in KeywordRows(U, I)
         /\ keyword'[k].cover # None => keyword'[k].cover \in Shown(U, I, k)
  <1>1. \A j : Shown(U, I, j)' = Shown(U, I, j)
    BY DEF Shown
  <1>2. keyword \in [K -> KeywordRows(U, I)] /\ keyword[k] \in KeywordRows(U, I)
    BY DEF CustomInv, CustomTypes
  <1>3. PICK row \in KeywordRows(U, I) :
          /\ keyword' = [keyword EXCEPT ![k] = row]
          /\ row.source = keyword[k].source /\ row.cover = keyword[k].cover
    <2>1. [keyword[k] EXCEPT !.status = status] \in KeywordRows(U, I)
      BY <1>2 DEF KeywordRows
    <2>2. QED
      BY <1>2, <2>1 DEF KeywordRows
  <1>4. /\ keyword' \in [K -> KeywordRows(U, I)]
        /\ keyword'[k] = row /\ \A j \in K : j # k => keyword'[j] = keyword[j]
    BY <1>2, <1>3
  <1>5. \A j \in K : keyword'[j].source = keyword[j].source /\ keyword'[j].cover = keyword[j].cover
    BY <1>3, <1>4
  <1>6. QED
    BY <1>1, <1>4, <1>5 DEF CustomInv, CoversOwn

(* A request as it starts, and as it goes on: to another statement, with a *)
(* row that it has read, or to the cover of a row.                         *)
Fresh(op, k) == [Rest EXCEPT !.op = op, !.k = k]
Onward(s, pc) == [s EXCEPT !.pc = pc]
WithRow(s, pc, row) == [s EXCEPT !.pc = pc, !.row = row]
SeekCover(s, row) == [s EXCEPT !.row = row,
                               !.pc = IF row.cover # None THEN "cover" ELSE "latest"]

(* What holds of a request as it starts.                                   *)
LEMMA RequestStarts ==
  ASSUME NEW K, NEW U, NEW I, U \in Nat, None \notin K, NEW op \in Operations, NEW k \in K
  PROVE  /\ Fresh(op, k) \in Reqs(K, U, I)
         /\ Fresh(op, k).pc = "idle" /\ Fresh(op, k).op = op /\ Fresh(op, k).k = k
         /\ Fresh(op, k).items = {} /\ Fresh(op, k).cover = None
         /\ Fresh(op, k).row.cover = None
         /\ op # "publish" => ReqSound(U, I, Fresh(op, k))
  <1>1. Rest \in Reqs(K, U, I) /\ Rest.pc = "idle" /\ Rest.items = {} /\ Rest.cover = None
    BY RestIsSound
  <1>2. Rest.row.cover = None
    BY DEF Rest, NoRow
  <1>3. /\ Fresh(op, k) \in Reqs(K, U, I) /\ Fresh(op, k).op = op /\ Fresh(op, k).k = k
        /\ Fresh(op, k).pc = "idle" /\ Fresh(op, k).items = {} /\ Fresh(op, k).cover = None
        /\ Fresh(op, k).row.cover = None
    BY <1>1, <1>2 DEF Reqs, Fresh
  <1>4. op # "publish" => ReqSound(U, I, Fresh(op, k))
    BY <1>3 DEF ReqSound, NotNewer
  <1>5. QED
    BY <1>3, <1>4

(* Of one that goes on to another statement, with what it has.             *)
LEMMA GoesOn ==
  ASSUME NEW K, NEW U, NEW I, NEW s \in Reqs(K, U, I), ReqSound(U, I, s), s.k # None,
         s.op # "publish", NEW pc \in {"get", "count", "list", "latest"}
  PROVE  /\ Onward(s, pc) \in Reqs(K, U, I) /\ ReqSound(U, I, Onward(s, pc))
         /\ Onward(s, pc).pc = pc
  <1> DEFINE q == [s EXCEPT !.pc = pc]
  <1>1. /\ q \in Reqs(K, U, I) /\ q.pc = pc /\ q.k = s.k /\ q.op = s.op /\ q.items = s.items
        /\ q.cover = s.cover /\ q.row = s.row /\ q.image = s.image
    BY DEF Reqs, Steps
  <1> HIDE DEF q
  <1>2. ReqSound(U, I, q)
    BY <1>1 DEF ReqSound, NotNewer
  <1>3. QED
    BY <1>1, <1>2 DEF q, Onward

(* Of one that goes on with a row that it has read.                        *)
LEMMA GoesOnWithRow ==
  ASSUME NEW K, NEW U, NEW I, NEW s \in Reqs(K, U, I), ReqSound(U, I, s), s.k # None,
         s.op # "publish", NEW pc \in {"count", "list"}, NEW row \in KeywordRows(U, I),
         row.cover # None => row.cover \in Shown(U, I, s.k)
  PROVE  /\ WithRow(s, pc, row) \in Reqs(K, U, I) /\ ReqSound(U, I, WithRow(s, pc, row))
         /\ WithRow(s, pc, row).pc = pc
  <1> DEFINE q == [s EXCEPT !.pc = pc, !.row = row]
  <1>1. /\ q \in Reqs(K, U, I) /\ q.pc = pc /\ q.k = s.k /\ q.op = s.op /\ q.items = s.items
        /\ q.cover = s.cover /\ q.row = row /\ q.image = s.image
    BY DEF Reqs, Steps
  <1> HIDE DEF q
  <1>2. ReqSound(U, I, q)
    BY <1>1 DEF ReqSound, NotNewer
  <1>3. QED
    BY <1>1, <1>2 DEF q, WithRow

(* Of one that looks for the cover of its row.                             *)
LEMMA CoverSought ==
  ASSUME NEW K, NEW U, NEW I, NEW s \in Reqs(K, U, I), NEW row \in KeywordRows(U, I),
         s.k # None, s.op # "publish", s.items \subseteq Shown(U, I, s.k),
         s.cover # None => s.cover \in Shown(U, I, s.k),
         row.cover # None => row.cover \in Shown(U, I, s.k)
  PROVE  /\ SeekCover(s, row) \in Reqs(K, U, I) /\ ReqSound(U, I, SeekCover(s, row))
         /\ SeekCover(s, row).pc \in {"cover", "latest"}
  <1> DEFINE q == [s EXCEPT !.row = row,
                            !.pc = IF row.cover # None THEN "cover" ELSE "latest"]
  <1>1. /\ q \in Reqs(K, U, I) /\ q.row = row /\ q.k = s.k /\ q.op = s.op
        /\ q.items = s.items /\ q.cover = s.cover
        /\ q.pc = IF row.cover # None THEN "cover" ELSE "latest"
    BY DEF Reqs, Steps
  <1> HIDE DEF q
  <1>2. ReqSound(U, I, q)
    BY <1>1 DEF ReqSound, NotNewer
  <1>3. QED
    BY <1>1, <1>2 DEF q, SeekCover

(* A keyword is created.                                                   *)
LEMMA CreateKept ==
  ASSUME NEW R, NEW K, NEW U, NEW I, NEW Lim, NEW Rem,
         CustomConstants(K, U, I), CustomInv(R, K, U, I), NEW r \in R, NEW k \in K,
         Custom(R, K, U, I, Lim, Rem)!Create(r, k)
  PROVE  CustomInv(R, K, U, I)'
  <1>1. /\ keyword' = [keyword EXCEPT ![k].status = "active"]
        /\ UNCHANGED <<upload, deleted, begun>>
    BY DEF Custom!Create
  <1>2. /\ keyword' \in [K -> KeywordRows(U, I)] /\ CoversOwn(K, U, I)'
        /\ keyword'[k] \in KeywordRows(U, I)
        /\ keyword'[k].cover # None => keyword'[k].cover \in Shown(U, I, k)
    BY <1>1, StatusChanges
  <1>3. PICK row \in KeywordRows(U, I) : row = keyword'[k]
    BY <1>2
  <1>4. U \in Nat /\ None \notin K /\ "item" \in Operations
    BY DEF CustomConstants, Operations
  <1>5. PICK s \in Reqs(K, U, I) :
          /\ s = Fresh("item", k)
          /\ s.op = "item" /\ s.k = k /\ s.items = {} /\ s.cover = None
    BY <1>4, RequestStarts
  <1>6. PICK q \in Reqs(K, U, I) :
          q = SeekCover(s, row) /\ ReqSound(U, I, q) /\ q.pc \in {"cover", "latest"}
    BY <1>2, <1>3, <1>4, <1>5, CoverSought
  <1>7. req' = [req EXCEPT ![r] = q]
    BY <1>3, <1>5, <1>6 DEF Custom!Create, Custom!Set, Custom!Starts, Custom!Idle,
       Custom!NoKeyword, Custom!ToCover, Fresh, Rest, NoRow, SeekCover
  <1>8. QED
    BY <1>1, <1>2, <1>6, <1>7, RequestMoves DEF Commits

(* Whether it is active is changed.                                        *)
LEMMA UpdateKept ==
  ASSUME NEW R, NEW K, NEW U, NEW I, NEW Lim, NEW Rem,
         CustomConstants(K, U, I), CustomInv(R, K, U, I), NEW r \in R, NEW k \in K,
         NEW status \in {"active", "inactive"},
         Custom(R, K, U, I, Lim, Rem)!Update(r, k, status)
  PROVE  CustomInv(R, K, U, I)'
  <1>1. UNCHANGED <<upload, deleted, begun>>
    BY DEF Custom!Update
  <1>2. CASE Custom(R, K, U, I, Lim, Rem)!There(k)
    <2>1. keyword' = [keyword EXCEPT ![k].status = status]
      BY <1>2 DEF Custom!Update
    <2>2. /\ keyword' \in [K -> KeywordRows(U, I)] /\ CoversOwn(K, U, I)'
          /\ keyword'[k] \in KeywordRows(U, I)
          /\ keyword'[k].cover # None => keyword'[k].cover \in Shown(U, I, k)
      BY <1>1, <2>1, StatusChanges
    <2>3. PICK row \in KeywordRows(U, I) : row = keyword'[k]
      BY <2>2
    <2>4. U \in Nat /\ None \notin K /\ "item" \in Operations
      BY DEF CustomConstants, Operations
    <2>5. PICK s \in Reqs(K, U, I) :
            s = Fresh("item", k) /\ s.op = "item" /\ s.k = k /\ ReqSound(U, I, s)
      BY <2>4, RequestStarts
    <2>6. PICK q \in Reqs(K, U, I) :
            q = WithRow(s, "count", row) /\ ReqSound(U, I, q) /\ q.pc = "count"
      BY <2>2, <2>3, <2>4, <2>5, GoesOnWithRow
    <2>7. req' = [req EXCEPT ![r] = q]
      BY <1>2, <2>3, <2>5, <2>6 DEF Custom!Update, Custom!Set, Custom!Starts,
         Custom!Idle, Custom!NoKeyword, Fresh, Rest, NoRow, WithRow
    <2>8. QED
      BY <1>1, <2>2, <2>6, <2>7, RequestMoves DEF Commits
  <1>3. CASE ~Custom(R, K, U, I, Lim, Rem)!There(k)
    <2>1. /\ Custom(R, K, U, I, Lim, Rem)!Set(r, Custom(R, K, U, I, Lim, Rem)!Idle)
          /\ UNCHANGED keyword
      BY <1>3 DEF Custom!Update, Custom!NotFound
    <2>2. QED
      BY <1>1, <2>1, KeywordsStay, RequestEnds
  <1>4. QED
    BY <1>2, <1>3

(* It is deleted, or the request is lost.                                  *)
LEMMA DeleteKept ==
  ASSUME NEW R, NEW K, NEW U, NEW I, NEW Lim, NEW Rem,
         CustomConstants(K, U, I), CustomInv(R, K, U, I), NEW r \in R,
         \/ \E k \in K : Custom(R, K, U, I, Lim, Rem)!Delete(r, k)
         \/ Custom(R, K, U, I, Lim, Rem)!Crash(r)
  PROVE  CustomInv(R, K, U, I)'
  <1>1. ASSUME NEW k \in K, Custom(R, K, U, I, Lim, Rem)!Delete(r, k)
        PROVE  CustomInv(R, K, U, I)'
    <2>1. /\ keyword' = [keyword EXCEPT ![k].status = "deleted"]
          /\ UNCHANGED <<upload, deleted, begun>>
          /\ Custom(R, K, U, I, Lim, Rem)!Set(r, Custom(R, K, U, I, Lim, Rem)!Idle)
      BY <1>1 DEF Custom!Delete
    <2>2. keyword' \in [K -> KeywordRows(U, I)] /\ CoversOwn(K, U, I)'
      BY <2>1, StatusChanges
    <2>3. QED
      BY <2>1, <2>2, RequestEnds
  <1>2. CASE Custom(R, K, U, I, Lim, Rem)!Crash(r)
    <2>1. /\ UNCHANGED <<keyword, upload, deleted, begun>>
          /\ Custom(R, K, U, I, Lim, Rem)!Set(r, Custom(R, K, U, I, Lim, Rem)!Idle)
      BY <1>2 DEF Custom!Crash
    <2>2. QED
      BY <2>1, KeywordsStay, RequestEnds
  <1>3. QED
    BY <1>1, <1>2

(* A request that will look for its keyword: to list, or after it has      *)
(* chosen an image.                                                        *)
LEMMA ListImagesKept ==
  ASSUME NEW R, NEW K, NEW U, NEW I, NEW Lim, NEW Rem,
         CustomConstants(K, U, I), CustomInv(R, K, U, I), NEW r \in R, NEW k \in K,
         Custom(R, K, U, I, Lim, Rem)!ListImages(r, k)
  PROVE  CustomInv(R, K, U, I)'
  <1>1. UNCHANGED <<keyword, upload, deleted, begun>>
    BY DEF Custom!ListImages
  <1>2. U \in Nat /\ None \notin K /\ "list" \in Operations
    BY DEF CustomConstants, Operations
  <1>3. PICK s \in Reqs(K, U, I) :
          s = Fresh("list", k) /\ s.op = "list" /\ s.k = k /\ ReqSound(U, I, s)
    BY <1>2, RequestStarts
  <1>4. PICK q \in Reqs(K, U, I) :
          q = Onward(s, "get") /\ ReqSound(U, I, q) /\ q.pc = "get"
    BY <1>2, <1>3, GoesOn
  <1>5. req' = [req EXCEPT ![r] = q]
    BY <1>3, <1>4 DEF Custom!ListImages, Custom!Set, Custom!Starts, Custom!Idle,
       Custom!NoKeyword, Fresh, Rest, NoRow, Onward
  <1>6. QED
    BY <1>1, <1>4, <1>5, KeywordsStay, RequestMoves DEF Commits

(* An image is asked for as the cover of a keyword.                        *)
LEMMA SetCoverKept ==
  ASSUME NEW R, NEW K, NEW U, NEW I, NEW Lim, NEW Rem,
         CustomConstants(K, U, I), CustomInv(R, K, U, I), NEW r \in R, NEW k \in K,
         NEW image \in ImagesOf(U, I), Custom(R, K, U, I, Lim, Rem)!SetCover(r, k, image)
  PROVE  CustomInv(R, K, U, I)'
  <1>1. UNCHANGED <<keyword, upload, deleted, begun>>
    BY DEF Custom!SetCover
  <1>2. U \in Nat /\ I \in Nat /\ None \notin K /\ "set" \in Operations
    BY DEF CustomConstants, Operations
  <1>3. Custom(R, K, U, I, Lim, Rem)!ImagesToChoose(k) = Shown(U, I, k)
    BY <1>2, CustomQueries
  <1>4. CASE image \in Shown(U, I, k)
    <2>1. PICK s \in Reqs(K, U, I) :
            s = Fresh("set", k) /\ s.op = "set" /\ s.k = k /\ ReqSound(U, I, s)
      BY <1>2, RequestStarts
    <2> DEFINE q == [s EXCEPT !.pc = "set", !.image = image]
    <2>2. /\ q \in Reqs(K, U, I) /\ q.pc = "set" /\ q.op = "set" /\ q.k = k /\ q.image = image
          /\ q.items = s.items /\ q.row = s.row /\ q.cover = s.cover
      BY <2>1 DEF Reqs, Steps
    <2> HIDE DEF q
    <2>3. ReqSound(U, I, q)
      BY <1>2, <1>4, <2>1, <2>2 DEF ReqSound, NotNewer
    <2>4. req' = [req EXCEPT ![r] = q]
      BY <1>3, <1>4, <2>1 DEF Custom!SetCover, Custom!Set, Custom!Starts,
         Custom!Idle, Custom!NoKeyword, Fresh, Rest, NoRow, q
    <2>5. QED
      BY <1>1, <2>2, <2>3, <2>4, KeywordsStay, RequestMoves DEF Commits
  <1>5. CASE image \notin Shown(U, I, k)
    <2>1. Custom(R, K, U, I, Lim, Rem)!Set(r, Custom(R, K, U, I, Lim, Rem)!Idle)
      BY <1>3, <1>5 DEF Custom!SetCover, Custom!NotFound
    <2>2. QED
      BY <1>1, <2>1, KeywordsStay, RequestEnds
  <1>6. QED
    BY <1>4, <1>5

(* A keyword of which the cover is chosen, or no longer chosen.            *)
LEMMA CoverChanges ==
  ASSUME NEW R, NEW K, NEW U, NEW I, CustomInv(R, K, U, I), NEW k \in K,
         NEW source \in {"auto_latest", "manual"}, NEW cover \in ImagesOf(U, I) \cup {None},
         source = "manual" <=> cover # None, cover # None => cover \in Shown(U, I, k),
         keyword' = [keyword EXCEPT ![k].source = source, ![k].cover = cover],
         UNCHANGED upload
  PROVE  keyword' \in [K -> KeywordRows(U, I)] /\ CoversOwn(K, U, I)'
  <1>1. \A j : Shown(U, I, j)' = Shown(U, I, j)
    BY DEF Shown
  <1>2. keyword \in [K -> KeywordRows(U, I)] /\ keyword[k] \in KeywordRows(U, I)
    BY DEF CustomInv, CustomTypes
  <1>3. PICK row \in KeywordRows(U, I) :
          keyword' = [keyword EXCEPT ![k] = row] /\ row.source = source /\ row.cover = cover
    <2>1. [keyword[k] EXCEPT !.source = source, !.cover = cover] \in KeywordRows(U, I)
      BY <1>2 DEF KeywordRows
    <2>2. keyword' = [keyword EXCEPT ![k] = [keyword[k] EXCEPT !.source = source,
                                                               !.cover = cover]]
      BY <1>2
    <2>3. QED
      BY <1>2, <2>1, <2>2 DEF KeywordRows
  <1>4. /\ keyword' \in [K -> KeywordRows(U, I)]
        /\ keyword'[k] = row /\ \A j \in K : j # k => keyword'[j] = keyword[j]
    BY <1>2, <1>3
  <1>5. QED
    BY <1>1, <1>3, <1>4 DEF CustomInv, CoversOwn

(* The image is stored with the keyword.                                   *)
LEMMA SetManualCoverKept ==
  ASSUME NEW R, NEW K, NEW U, NEW I, NEW Lim, NEW Rem,
         CustomConstants(K, U, I), CustomInv(R, K, U, I), NEW r \in R,
         Custom(R, K, U, I, Lim, Rem)!SetManualCover(r)
  PROVE  CustomInv(R, K, U, I)'
  <1>1. UNCHANGED <<upload, deleted, begun>> /\ req[r].pc = "set"
    BY DEF Custom!SetManualCover
  <1>2. /\ req[r] \in Reqs(K, U, I) /\ ReqSound(U, I, req[r]) /\ req[r].k # None
        /\ req[r].image \in Shown(U, I, req[r].k) /\ req[r].op # "publish"
    BY <1>1 DEF CustomInv, CustomTypes, ReqSound
  <1>3. PICK k \in K : k = req[r].k
    BY <1>2 DEF Reqs
  <1>4. CASE Custom(R, K, U, I, Lim, Rem)!There(k)
    <2>1. PICK image \in ImagesOf(U, I) : image = req[r].image /\ image # None
      BY <1>2 DEF Shown, CustomConstants
    <2>2. keyword' = [keyword EXCEPT ![k].source = "manual", ![k].cover = image]
      BY SMTT(30), <1>3, <1>4, <2>1 DEF Custom!SetManualCover
    <2>3. keyword' \in [K -> KeywordRows(U, I)] /\ CoversOwn(K, U, I)'
      BY <1>1, <1>2, <1>3, <2>1, <2>2, CoverChanges
    <2>4. PICK q \in Reqs(K, U, I) :
            q = Onward(req[r], "get") /\ ReqSound(U, I, q) /\ q.pc = "get"
      BY <1>2, GoesOn
    <2>5. req' = [req EXCEPT ![r] = q]
      BY <1>3, <1>4, <2>4 DEF Custom!SetManualCover, Custom!Set, Onward
    <2>6. QED
      BY <1>1, <2>3, <2>4, <2>5, RequestMoves DEF Commits
  <1>5. CASE ~Custom(R, K, U, I, Lim, Rem)!There(k)
    <2>1. /\ Custom(R, K, U, I, Lim, Rem)!Set(r, Custom(R, K, U, I, Lim, Rem)!Idle)
          /\ UNCHANGED keyword
      BY <1>3, <1>5 DEF Custom!SetManualCover, Custom!NotFound
    <2>2. QED
      BY <1>1, <2>1, KeywordsStay, RequestEnds
  <1>6. QED
    BY <1>4, <1>5

(* The chosen cover is given up.                                           *)
LEMMA ClearCoverKept ==
  ASSUME NEW R, NEW K, NEW U, NEW I, NEW Lim, NEW Rem,
         CustomConstants(K, U, I), CustomInv(R, K, U, I), NEW r \in R, NEW k \in K,
         Custom(R, K, U, I, Lim, Rem)!ClearCover(r, k)
  PROVE  CustomInv(R, K, U, I)'
  <1>1. UNCHANGED <<upload, deleted, begun>>
    BY DEF Custom!ClearCover
  <1>2. CASE Custom(R, K, U, I, Lim, Rem)!There(k)
    <2>1. keyword' = [keyword EXCEPT ![k].source = "auto_latest", ![k].cover = None]
      BY <1>2 DEF Custom!ClearCover
    <2>2. keyword' \in [K -> KeywordRows(U, I)] /\ CoversOwn(K, U, I)'
      BY <1>1, <2>1, CoverChanges
    <2>3. U \in Nat /\ None \notin K /\ "clear" \in Operations
      BY DEF CustomConstants, Operations
    <2>4. PICK s \in Reqs(K, U, I) :
            s = Fresh("clear", k) /\ s.op = "clear" /\ s.k = k /\ ReqSound(U, I, s)
      BY <2>3, RequestStarts
    <2>5. PICK q \in Reqs(K, U, I) :
            q = Onward(s, "get") /\ ReqSound(U, I, q) /\ q.pc = "get"
      BY <2>3, <2>4, GoesOn
    <2>6. req' = [req EXCEPT ![r] = q]
      BY <1>2, <2>4, <2>5 DEF Custom!ClearCover, Custom!Set, Custom!Starts, Custom!Idle,
         Custom!NoKeyword, Fresh, Rest, NoRow, Onward
    <2>7. QED
      BY <1>1, <2>2, <2>5, <2>6, RequestMoves DEF Commits
  <1>3. CASE ~Custom(R, K, U, I, Lim, Rem)!There(k)
    <2>1. /\ Custom(R, K, U, I, Lim, Rem)!Set(r, Custom(R, K, U, I, Lim, Rem)!Idle)
          /\ UNCHANGED keyword
      BY <1>3 DEF Custom!ClearCover, Custom!NotFound
    <2>2. QED
      BY <1>1, <2>1, KeywordsStay, RequestEnds
  <1>4. QED
    BY <1>2, <1>3

(* The answer of a request.                                                *)
Answered(s, cover) == [Rest EXCEPT !.op = s.op, !.k = s.k, !.image = s.image, !.row = s.row,
                                   !.items = s.items, !.cover = cover]

(* An answer with a cover of the keyword that is not older than the list.  *)
LEMMA AnswerIsSound ==
  ASSUME NEW K, NEW U \in Nat, NEW I, NEW s \in Reqs(K, U, I), ReqSound(U, I, s),
         s.k # None, s.op # "publish", NEW cover \in ImagesOf(U, I) \cup {None},
         cover # None => cover \in Shown(U, I, s.k),
         (s.op = "list" /\ s.row.cover = None) => \A i \in s.items \ deleted :
             cover # None /\ ~(i[1] > cover[1] \/ (i[1] = cover[1] /\ i[2] < cover[2]))
  PROVE  /\ Answered(s, cover) \in Reqs(K, U, I) /\ ReqSound(U, I, Answered(s, cover))
         /\ Answered(s, cover).pc = "idle"
  <1> DEFINE q == [Rest EXCEPT !.op = s.op, !.k = s.k, !.image = s.image, !.row = s.row,
                               !.items = s.items, !.cover = cover]
  <1>1. Rest \in Reqs(K, U, I) /\ Rest.pc = "idle"
    BY RestIsSound
  <1>2. /\ q \in Reqs(K, U, I) /\ q.pc = "idle" /\ q.op = s.op /\ q.k = s.k /\ q.row = s.row
        /\ q.items = s.items /\ q.cover = cover
    BY <1>1 DEF Reqs
  <1> HIDE DEF q
  <1>3. NotNewer(q)
    BY <1>2 DEF NotNewer
  <1>4. ReqSound(U, I, q)
    BY <1>2, <1>3 DEF ReqSound
  <1>5. QED
    BY <1>2, <1>4 DEF q, Answered

(* A request whose row is there, after the works are counted.              *)
LEMMA CountKept ==
  ASSUME NEW R, NEW K, NEW U, NEW I, NEW Lim, NEW Rem,
         CustomConstants(K, U, I), CustomInv(R, K, U, I), NEW r \in R,
         Custom(R, K, U, I, Lim, Rem)!Count(r)
  PROVE  CustomInv(R, K, U, I)'
  <1>1. UNCHANGED <<keyword, upload, deleted, begun>> /\ req[r].pc = "count"
    BY DEF Custom!Count
  <1>2. req[r] \in Reqs(K, U, I) /\ ReqSound(U, I, req[r])
    BY DEF CustomInv, CustomTypes
  <1>3. PICK row \in KeywordRows(U, I) : row = req[r].row
    BY <1>2 DEF Reqs
  <1>4. /\ req[r].k # None /\ req[r].op # "publish"
        /\ req[r].items \subseteq Shown(U, I, req[r].k)
        /\ req[r].cover # None => req[r].cover \in Shown(U, I, req[r].k)
        /\ row.cover # None => row.cover \in Shown(U, I, req[r].k)
    BY <1>1, <1>2, <1>3 DEF ReqSound
  <1>5. PICK q \in Reqs(K, U, I) :
          q = SeekCover(req[r], row) /\ ReqSound(U, I, q) /\ q.pc \in {"cover", "latest"}
    BY <1>2, <1>4, CoverSought
  <1>6. req' = [req EXCEPT ![r] = q]
    BY <1>3, <1>5 DEF Custom!Count, Custom!Set, Custom!ToCover, SeekCover
  <1>7. QED
    BY <1>1, <1>5, <1>6, KeywordsStay, RequestMoves DEF Commits

(* The row of the keyword is read.                                         *)
LEMMA GetKeywordKept ==
  ASSUME NEW R, NEW K, NEW U, NEW I, NEW Lim, NEW Rem,
         CustomConstants(K, U, I), CustomInv(R, K, U, I), NEW r \in R,
         Custom(R, K, U, I, Lim, Rem)!GetKeyword(r)
  PROVE  CustomInv(R, K, U, I)'
  <1>1. UNCHANGED <<keyword, upload, deleted, begun>> /\ req[r].pc = "get"
    BY DEF Custom!GetKeyword
  <1>2. /\ req[r] \in Reqs(K, U, I) /\ ReqSound(U, I, req[r])
        /\ keyword \in [K -> KeywordRows(U, I)]
    BY DEF CustomInv, CustomTypes
  <1>3. /\ req[r].k # None /\ req[r].op # "publish"
        /\ req[r].items \subseteq Shown(U, I, req[r].k)
        /\ req[r].cover # None => req[r].cover \in Shown(U, I, req[r].k)
    BY <1>1, <1>2 DEF ReqSound
  <1>4. PICK k \in K : k = req[r].k
    BY <1>2, <1>3 DEF Reqs
  <1>5. PICK row \in KeywordRows(U, I) : row = keyword[k]
    BY <1>2
  <1>6. row.cover # None => row.cover \in Shown(U, I, req[r].k)
    BY <1>4, <1>5 DEF CustomInv, CoversOwn
  <1>7. CASE ~Custom(R, K, U, I, Lim, Rem)!There(k)
    <2>1. Custom(R, K, U, I, Lim, Rem)!Set(r, Custom(R, K, U, I, Lim, Rem)!Idle)
      BY <1>4, <1>7 DEF Custom!GetKeyword, Custom!NotFound
    <2>2. QED
      BY <1>1, <2>1, KeywordsStay, RequestEnds
  <1>8. CASE Custom(R, K, U, I, Lim, Rem)!There(k) /\ req[r].op = "list"
    <2>1. PICK q \in Reqs(K, U, I) :
            q = WithRow(req[r], "list", row) /\ ReqSound(U, I, q) /\ q.pc = "list"
      BY <1>2, <1>3, <1>6, GoesOnWithRow
    <2>2. req' = [req EXCEPT ![r] = q]
      BY <1>4, <1>5, <1>8, <2>1 DEF Custom!GetKeyword, Custom!Set, WithRow
    <2>3. QED
      BY <1>1, <2>1, <2>2, KeywordsStay, RequestMoves DEF Commits
  <1>9. CASE Custom(R, K, U, I, Lim, Rem)!There(k) /\ req[r].op # "list"
    <2>1. PICK q \in Reqs(K, U, I) :
            q = SeekCover(req[r], row) /\ ReqSound(U, I, q) /\ q.pc \in {"cover", "latest"}
      BY <1>2, <1>3, <1>6, CoverSought
    <2>2. req' = [req EXCEPT ![r] = q]
      BY <1>4, <1>5, <1>9, <2>1 DEF Custom!GetKeyword, Custom!Set, Custom!ToCover, SeekCover
    <2>3. QED
      BY <1>1, <2>1, <2>2, KeywordsStay, RequestMoves DEF Commits
  <1>10. QED
    BY <1>7, <1>8, <1>9

(* The images of the keyword are listed.                                   *)
LEMMA ListCardsKept ==
  ASSUME NEW R, NEW K, NEW U, NEW I, NEW Lim, NEW Rem,
         CustomConstants(K, U, I), CustomInv(R, K, U, I), NEW r \in R,
         Custom(R, K, U, I, Lim, Rem)!ListCards(r)
  PROVE  CustomInv(R, K, U, I)'
  <1> DEFINE limit == Custom(R, K, U, I, Lim, Rem)!ClampLimit(Lim, MaxLimit, MaxLimit)
  <1>1. UNCHANGED <<keyword, upload, deleted, begun>> /\ req[r].pc = "list"
    BY DEF Custom!ListCards
  <1>2. req[r] \in Reqs(K, U, I) /\ ReqSound(U, I, req[r])
    BY DEF CustomInv, CustomTypes
  <1>3. PICK row \in KeywordRows(U, I) : row = req[r].row
    BY <1>2 DEF Reqs
  <1>4. /\ req[r].k # None /\ req[r].op # "publish"
        /\ req[r].cover # None => req[r].cover \in Shown(U, I, req[r].k)
        /\ row.cover # None => row.cover \in Shown(U, I, req[r].k)
    BY <1>1, <1>2, <1>3 DEF ReqSound
  <1>5. PICK cards :
          /\ cards = Custom(R, K, U, I, Lim, Rem)!ListKeywordImages(req[r].k, limit)
          /\ cards \in SUBSET ImagesOf(U, I) /\ cards \subseteq Shown(U, I, req[r].k)
    <2>1. U \in Nat /\ I \in Nat
      BY DEF CustomConstants
    <2>2. Custom(R, K, U, I, Lim, Rem)!ListKeywordImages(req[r].k, limit)
            \subseteq Shown(U, I, req[r].k)
      BY <2>1, CustomQueries
    <2>3. QED
      BY <2>2 DEF Shown
  <1> DEFINE s == [req[r] EXCEPT !.items = cards]
  <1>6. /\ s \in Reqs(K, U, I)
        /\ s.k = req[r].k /\ s.op = req[r].op /\ s.items = cards /\ s.cover = req[r].cover
    BY <1>2, <1>5 DEF Reqs
  <1> HIDE DEF s
  <1>7. PICK q \in Reqs(K, U, I) :
          q = SeekCover(s, row) /\ ReqSound(U, I, q) /\ q.pc \in {"cover", "latest"}
    BY <1>4, <1>5, <1>6, CoverSought
  <1>8. req' = [req EXCEPT ![r] = q]
    BY <1>3, <1>5, <1>7 DEF Custom!ListCards, Custom!Set, Custom!ToCover, SeekCover, s
  <1>9. QED
    BY <1>1, <1>7, <1>8, KeywordsStay, RequestMoves DEF Commits

(* The asset of the chosen cover is looked up.                             *)
LEMMA GetCoverAssetKept ==
  ASSUME NEW R, NEW K, NEW U, NEW I, NEW Lim, NEW Rem,
         CustomConstants(K, U, I), CustomInv(R, K, U, I), NEW r \in R,
         Custom(R, K, U, I, Lim, Rem)!GetCoverAsset(r)
  PROVE  CustomInv(R, K, U, I)'
  <1>1. UNCHANGED <<keyword, upload, deleted, begun>> /\ req[r].pc = "cover"
    BY DEF Custom!GetCoverAsset
  <1>2. req[r] \in Reqs(K, U, I) /\ ReqSound(U, I, req[r])
    BY DEF CustomInv, CustomTypes
  <1>3. /\ req[r].k # None /\ req[r].op # "publish" /\ req[r].row.cover # None
        /\ req[r].row.cover \in Shown(U, I, req[r].k)
    BY <1>1, <1>2 DEF ReqSound
  <1>4. CASE req[r].row.cover \in deleted
    <2>1. PICK q \in Reqs(K, U, I) :
            q = Onward(req[r], "latest") /\ ReqSound(U, I, q) /\ q.pc = "latest"
      BY <1>2, <1>3, GoesOn
    <2>2. req' = [req EXCEPT ![r] = q]
      BY <1>4, <2>1 DEF Custom!GetCoverAsset, Custom!Set, Onward
    <2>3. QED
      BY <1>1, <2>1, <2>2, KeywordsStay, RequestMoves DEF Commits
  <1>5. CASE req[r].row.cover \notin deleted
    <2>1. PICK cover \in ImagesOf(U, I) : cover = req[r].row.cover
      BY <1>3 DEF Shown
    <2>2. PICK q \in Reqs(K, U, I) :
            q = Answered(req[r], cover) /\ ReqSound(U, I, q) /\ q.pc = "idle"
      <3>1. U \in Nat
        BY DEF CustomConstants
      <3>2. QED
        BY <1>2, <1>3, <2>1, <3>1, AnswerIsSound
    <2>3. req' = [req EXCEPT ![r] = q]
      BY <1>5, <2>1, <2>2 DEF Custom!GetCoverAsset, Custom!Answer, Custom!Set, Custom!Idle,
         Custom!NoKeyword, Answered, Rest, NoRow
    <2>4. QED
      BY <1>1, <2>2, <2>3, KeywordsStay, RequestMoves DEF Commits
  <1>6. QED
    BY <1>4, <1>5

(* The newest image is looked up.                                          *)
LEMMA GetLatestKept ==
  ASSUME NEW R, NEW K, NEW U, NEW I, NEW Lim, NEW Rem,
         CustomConstants(K, U, I), CustomInv(R, K, U, I), NEW r \in R,
         Custom(R, K, U, I, Lim, Rem)!GetLatestCoverAsset(r)
  PROVE  CustomInv(R, K, U, I)'
  <1>1. UNCHANGED <<keyword, upload, deleted, begun>> /\ req[r].pc = "latest"
    BY DEF Custom!GetLatestCoverAsset
  <1>2. req[r] \in Reqs(K, U, I) /\ ReqSound(U, I, req[r])
    BY DEF CustomInv, CustomTypes
  <1>3. /\ req[r].k # None /\ req[r].op # "publish"
        /\ req[r].items \subseteq Shown(U, I, req[r].k)
    BY <1>1, <1>2 DEF ReqSound
  <1>4. U \in Nat /\ I \in Nat /\ None \notin ImagesOf(U, I)
    BY DEF CustomConstants
  <1>5. PICK cover \in ImagesOf(U, I) \cup {None} :
          /\ cover = Custom(R, K, U, I, Lim, Rem)!LatestCoverAsset(req[r].k)
          /\ cover # None => cover \in Shown(U, I, req[r].k)
          /\ \A i \in Shown(U, I, req[r].k) \ deleted :
               cover # None /\ ~(i[1] > cover[1] \/ (i[1] = cover[1] /\ i[2] < cover[2]))
    <2>1. PICK cover : cover = Custom(R, K, U, I, Lim, Rem)!LatestCoverAsset(req[r].k)
      OBVIOUS
    <2>2. /\ cover # None => cover \in Shown(U, I, req[r].k)
          /\ \A i \in Shown(U, I, req[r].k) \ deleted :
               cover # None /\ ~(i[1] > cover[1] \/ (i[1] = cover[1] /\ i[2] < cover[2]))
      BY <1>4, <2>1, LatestCover
    <2>3. cover \in ImagesOf(U, I) \cup {None}
      BY <2>2 DEF Shown
    <2>4. QED
      BY <2>1, <2>2, <2>3
  <1>6. PICK q \in Reqs(K, U, I) :
          q = Answered(req[r], cover) /\ ReqSound(U, I, q) /\ q.pc = "idle"
    BY <1>2, <1>3, <1>4, <1>5, AnswerIsSound
  <1>7. req' = [req EXCEPT ![r] = q]
    BY <1>5, <1>6 DEF Custom!GetLatestCoverAsset, Custom!Answer, Custom!Set, Custom!Idle,
       Custom!NoKeyword, Answered, Rest, NoRow
  <1>8. QED
    BY <1>1, <1>6, <1>7, KeywordsStay, RequestMoves DEF Commits

(* A commit begins: it gets the next place, which is empty.                *)
LEMMA CommitBeginsKept ==
  ASSUME NEW R, NEW K, NEW U, NEW I, NEW Lim, NEW Rem,
         CustomConstants(K, U, I), CustomInv(R, K, U, I), NEW r \in R, NEW k \in K,
         Custom(R, K, U, I, Lim, Rem)!CommitBegins(r, k)
  PROVE  CustomInv(R, K, U, I)'
  <1>1. /\ UNCHANGED <<keyword, upload, deleted>> /\ begun < U /\ begun' = begun + 1
        /\ begun \in 0..U /\ U \in Nat
    BY DEF Custom!CommitBegins, CustomInv, CustomTypes, CustomConstants
  <1>2. None \notin K /\ "publish" \in Operations
    BY DEF CustomConstants, Operations
  <1>3. PICK s \in Reqs(K, U, I) :
          s = Fresh("publish", k) /\ s.op = "publish" /\ s.k = k
    BY <1>1, <1>2, RequestStarts
  <1>4. s.items = {} /\ s.cover = None /\ s.row.cover = None
    BY <1>3 DEF Fresh, Rest, NoRow
  <1>5. PICK open \in BOOLEAN : open = (keyword[k].status = "active")
    OBVIOUS
  <1> DEFINE q == [s EXCEPT !.pc = "look", !.at = begun + 1, !.open = open]
  <1>6. begun + 1 \in 0..U
    BY <1>1
  <1>7. /\ q \in Reqs(K, U, I) /\ q.pc = "look" /\ q.at = begun + 1 /\ q.op = s.op /\ q.k = k
        /\ q.items = {} /\ q.cover = None /\ q.row = s.row
    BY <1>3, <1>4, <1>6 DEF Reqs, Steps
  <1>8. req' = [req EXCEPT ![r] = q]
    BY <1>3, <1>5 DEF Custom!CommitBegins, Custom!Set, Custom!Starts, Custom!Idle,
       Custom!NoKeyword, Fresh, Rest, NoRow
  <1> HIDE DEF q
  <1>9. ReqSound(U, I, q)
    BY <1>2, <1>3, <1>4, <1>7 DEF ReqSound, NotNewer
  <1>10. /\ req \in [R -> Reqs(K, U, I)] /\ req' \in [R -> Reqs(K, U, I)]
         /\ req'[r] = q /\ \A i \in R : i # r => req'[i] = req[i]
    BY <1>7, <1>8 DEF CustomInv, CustomTypes
  <1>11. CustomTypes(R, K, U, I)'
    BY <1>1, <1>6, <1>10 DEF CustomInv, CustomTypes
  <1>12. \A i \in R : ReqSound(U, I, req[i])'
    <2>1. \A i \in R : ReqSound(U, I, req'[i])
      BY <1>9, <1>10 DEF CustomInv
    <2>2. \A j : Shown(U, I, j)' = Shown(U, I, j)
      BY <1>1 DEF Shown
    <2>3. QED
      BY <1>1, <2>1, <2>2 DEF ReqSound, NotNewer
  <1>13. PlacesOwn(R, U)'
    <2>1. \A t \in 1..U : t > begun => upload[t].k = None
      BY DEF CustomInv, PlacesOwn
    <2>2. \A t \in 1..U : t > begun' => upload'[t].k = None
      BY <1>1, <2>1
    <2>3. upload'[begun + 1].k = None /\ begun + 1 \in 1..begun'
      BY <1>1, <2>1
    <2>4. \A i \in R : i # r /\ req'[i].pc \in Commits =>
            /\ req'[i].at \in 1..begun /\ req'[i].at \in 1..begun' /\ upload'[req'[i].at].k = None
            /\ \A j \in R : j # i /\ j # r /\ req'[j].pc \in Commits => req'[j].at # req'[i].at
      BY <1>1, <1>10 DEF CustomInv, PlacesOwn
    <2>5. \A i \in R : i # r /\ req'[i].pc \in Commits => req'[i].at # begun + 1
      BY <1>1, <2>4
    <2>6. QED
      BY <1>7, <1>10, <2>2, <2>3, <2>4, <2>5 DEF PlacesOwn
  <1>14. CoversOwn(K, U, I)'
    BY <1>1, KeywordsStay
  <1>15. QED
    BY <1>11, <1>12, <1>13, <1>14 DEF CustomInv

(* It finds the keyword active, or ends.                                   *)
LEMMA EnsureKept ==
  ASSUME NEW R, NEW K, NEW U, NEW I, NEW Lim, NEW Rem,
         CustomConstants(K, U, I), CustomInv(R, K, U, I), NEW r \in R,
         Custom(R, K, U, I, Lim, Rem)!EnsureOwnedActiveKeyword(r)
  PROVE  CustomInv(R, K, U, I)'
  <1>1. UNCHANGED <<keyword, upload, deleted, begun>> /\ req[r].pc = "look"
    BY DEF Custom!EnsureOwnedActiveKeyword
  <1>2. req[r] \in Reqs(K, U, I) /\ ReqSound(U, I, req[r])
    BY DEF CustomInv, CustomTypes
  <1>3. CASE keyword[req[r].k].status = "active"
    <2> DEFINE q == [req[r] EXCEPT !.pc = "publish", !.open = TRUE]
    <2>1. /\ q \in Reqs(K, U, I) /\ q.pc = "publish" /\ q.open = TRUE /\ q.at = req[r].at
          /\ q.k = req[r].k /\ q.items = req[r].items /\ q.cover = req[r].cover
          /\ q.row = req[r].row
      BY <1>2 DEF Reqs, Steps
    <2>2. req' = [req EXCEPT ![r] = q]
      BY <1>3 DEF Custom!EnsureOwnedActiveKeyword, Custom!Set
    <2> HIDE DEF q
    <2>3. ReqSound(U, I, q)
      BY <1>1, <1>2, <2>1 DEF ReqSound, NotNewer
    <2>4. q.pc \in Commits => req[r].pc \in Commits /\ q.at = req[r].at
      BY <1>1, <2>1 DEF Commits
    <2>5. QED
      BY <1>1, <2>1, <2>2, <2>3, <2>4, KeywordsStay, RequestMoves
  <1>4. CASE keyword[req[r].k].status # "active"
    <2>1. Custom(R, K, U, I, Lim, Rem)!Set(r, Custom(R, K, U, I, Lim, Rem)!Idle)
      BY <1>4 DEF Custom!EnsureOwnedActiveKeyword, Custom!NotFound
    <2>2. QED
      BY <1>1, <2>1, KeywordsStay, RequestEnds
  <1>5. QED
    BY <1>3, <1>4

(* The work appears at its place, under its keyword only.                  *)
LEMMA CommitEndsKept ==
  ASSUME NEW R, NEW K, NEW U, NEW I, NEW Lim, NEW Rem,
         CustomConstants(K, U, I), CustomInv(R, K, U, I), NEW r \in R, NEW n \in 1..I,
         Custom(R, K, U, I, Lim, Rem)!CommitEnds(r, n)
  PROVE  CustomInv(R, K, U, I)'
  <1>1. UNCHANGED <<keyword, deleted, begun>> /\ req[r].pc = "publish"
    BY DEF Custom!CommitEnds
  <1>2. /\ req[r] \in Reqs(K, U, I) /\ ReqSound(U, I, req[r]) /\ req[r].open
        /\ req[r].k # None /\ U \in Nat /\ I \in Nat /\ begun \in 0..U
        /\ upload \in [1..U -> [k : K \cup {None}, count : 0..I]]
    BY <1>1 DEF CustomInv, CustomTypes, ReqSound, CustomConstants
  <1>3. PICK k \in K : k = req[r].k
    BY <1>2 DEF Reqs
  <1>4. PICK at \in 1..U : at = req[r].at /\ at \in 1..begun /\ upload[at].k = None
    BY <1>1, <1>2 DEF CustomInv, PlacesOwn, Commits
  <1>5. PICK work \in [k : K \cup {None}, count : 0..I] :
          work.k = k /\ work.count = n /\ upload' = [upload EXCEPT ![at] = work]
    <2>1. [k |-> k, count |-> n] \in [k : K \cup {None}, count : 0..I]
      BY <1>2
    <2>2. QED
      BY <1>3, <1>4, <2>1 DEF Custom!CommitEnds
  <1>6. /\ upload' \in [1..U -> [k : K \cup {None}, count : 0..I]]
        /\ upload'[at] = work /\ \A t \in 1..U : t # at => upload'[t] = upload[t]
    BY <1>2, <1>5
  <1> DEFINE q == [Rest EXCEPT !.op = "publish", !.k = req[r].k, !.at = req[r].at,
                               !.open = req[r].open]
  <1>7. /\ q \in Reqs(K, U, I) /\ q.pc = "idle" /\ q.op = "publish" /\ q.k = req[r].k /\ q.items = {}
        /\ q.cover = None /\ q.row = NoRow /\ q.open = req[r].open /\ NoRow.cover = None
    BY <1>2, RestIsSound DEF Reqs, Operations
  <1>8. req' = [req EXCEPT ![r] = q]
    BY DEF Custom!CommitEnds, Custom!Set, Custom!Idle, Custom!NoKeyword, Rest, NoRow
  <1> HIDE DEF q
  <1>9. /\ req \in [R -> Reqs(K, U, I)] /\ req' \in [R -> Reqs(K, U, I)]
        /\ req'[r] = q /\ \A i \in R : i # r => req'[i] = req[i]
    BY <1>7, <1>8 DEF CustomInv, CustomTypes
  <1>10. CustomTypes(R, K, U, I)'
    BY <1>1, <1>6, <1>9 DEF CustomInv, CustomTypes
  <1>11. \A j \in K : Shown(U, I, j) \subseteq Shown(U, I, j)'
    <2>1. \A i \in ImagesOf(U, I) : i[1] \in 1..U
      BY DEF ImagesOf
    <2>2. \A j \in K : j # None
      BY DEF CustomConstants
    <2>3. QED
      BY <1>4, <1>6, <2>1, <2>2 DEF Shown
  <1>12. \A i \in R : ReqSound(U, I, req[i])'
    <2>1. \A i \in R : ReqSound(U, I, req'[i])
      <3>1. ReqSound(U, I, q)
        BY <1>2, <1>7 DEF ReqSound, NotNewer
      <3>2. QED
        BY <1>9, <3>1 DEF CustomInv
    <2>2. ASSUME NEW i \in R PROVE ReqSound(U, I, req[i])'
      <3>1. PICK p \in Reqs(K, U, I) : p = req'[i] /\ ReqSound(U, I, p)
        BY <1>9, <2>1
      <3>2. ReqSound(U, I, p)'
        BY <1>1, <1>11, <3>1, SoundStays
      <3>3. QED
        BY <3>1, <3>2 DEF ReqSound, NotNewer
    <2>3. QED
      BY <2>2
  <1>13. PlacesOwn(R, U)'
    <2>1. \A t \in 1..U : t > begun' => upload'[t].k = None
      <3>1. \A t \in 1..U : t > begun => upload[t].k = None /\ t # at
        BY <1>2, <1>4 DEF CustomInv, PlacesOwn
      <3>2. QED
        BY <1>1, <1>6, <3>1
    <2>2. \A i \in R : req'[i].pc \in Commits =>
            /\ i # r /\ req'[i] = req[i] /\ req[i].at \in 1..begun' /\ upload[req[i].at].k = None
            /\ req[i].at # at
      BY <1>1, <1>4, <1>7, <1>9 DEF CustomInv, PlacesOwn, Commits
    <2>3. \A i \in R : req'[i].pc \in Commits => upload'[req'[i].at].k = None
      BY <1>1, <1>2, <1>6, <2>2
    <2>4. QED
      BY <1>1, <2>1, <2>2, <2>3 DEF CustomInv, PlacesOwn
  <1>14. CoversOwn(K, U, I)'
    BY <1>1, <1>11 DEF CustomInv, CoversOwn
  <1>15. QED
    BY <1>10, <1>12, <1>13, <1>14 DEF CustomInv

(* An image is removed.                                                    *)
LEMMA RemovalKept ==
  ASSUME NEW R, NEW K, NEW U, NEW I, NEW Lim, NEW Rem,
         CustomInv(R, K, U, I), NEW image \in ImagesOf(U, I),
         Custom(R, K, U, I, Lim, Rem)!SoftDeleteAsset(image)
  PROVE  CustomInv(R, K, U, I)'
  <1>1. UNCHANGED <<keyword, upload, begun, req>> /\ deleted' = deleted \cup {image}
    BY DEF Custom!SoftDeleteAsset
  <1>2. \A k : Shown(U, I, k)' = Shown(U, I, k)
    BY <1>1 DEF Shown
  <1>3. CustomTypes(R, K, U, I)'
    BY <1>1 DEF CustomInv, CustomTypes
  <1>4. ASSUME NEW i \in R PROVE ReqSound(U, I, req[i])'
    <2>1. PICK p \in Reqs(K, U, I) : p = req[i] /\ p = req'[i] /\ ReqSound(U, I, p)
      BY <1>1 DEF CustomInv, CustomTypes
    <2>2. ReqSound(U, I, p)'
      BY <1>1, <1>2, <2>1, SoundStays
    <2>3. QED
      BY <2>1, <2>2 DEF ReqSound, NotNewer
  <1>5. PlacesOwn(R, U)' /\ CoversOwn(K, U, I)'
    BY <1>1, <1>2 DEF CustomInv, PlacesOwn, CoversOwn
  <1>6. QED
    BY <1>3, <1>4, <1>5 DEF CustomInv

(* Every step.                                                             *)
LEMMA CustomStep ==
  ASSUME NEW R, NEW K, NEW U, NEW I, NEW Lim, NEW Rem,
         CustomConstants(K, U, I), CustomInv(R, K, U, I),
         Custom(R, K, U, I, Lim, Rem)!Next
  PROVE  CustomInv(R, K, U, I)'
  <1>1. Custom(R, K, U, I, Lim, Rem)!Images = ImagesOf(U, I)
    BY DEF Custom!Images, Custom!Times, ImagesOf
  <1>2. ASSUME NEW r \in R, NEW k \in K,
               \/ Custom(R, K, U, I, Lim, Rem)!Create(r, k)
               \/ Custom(R, K, U, I, Lim, Rem)!Delete(r, k)
               \/ Custom(R, K, U, I, Lim, Rem)!ClearCover(r, k)
               \/ Custom(R, K, U, I, Lim, Rem)!ListImages(r, k)
               \/ Custom(R, K, U, I, Lim, Rem)!CommitBegins(r, k)
               \/ \E status \in {"active", "inactive"} :
                    Custom(R, K, U, I, Lim, Rem)!Update(r, k, status)
               \/ \E image \in ImagesOf(U, I) :
                    Custom(R, K, U, I, Lim, Rem)!SetCover(r, k, image)
        PROVE  CustomInv(R, K, U, I)'
    BY <1>2, CreateKept, DeleteKept, ClearCoverKept, ListImagesKept, CommitBeginsKept,
       UpdateKept, SetCoverKept
  <1>3. ASSUME NEW r \in R,
               \/ Custom(R, K, U, I, Lim, Rem)!Count(r)
               \/ Custom(R, K, U, I, Lim, Rem)!SetManualCover(r)
               \/ Custom(R, K, U, I, Lim, Rem)!GetKeyword(r)
               \/ Custom(R, K, U, I, Lim, Rem)!ListCards(r)
               \/ Custom(R, K, U, I, Lim, Rem)!GetCoverAsset(r)
               \/ Custom(R, K, U, I, Lim, Rem)!GetLatestCoverAsset(r)
               \/ Custom(R, K, U, I, Lim, Rem)!EnsureOwnedActiveKeyword(r)
               \/ \E n \in 1..I : Custom(R, K, U, I, Lim, Rem)!CommitEnds(r, n)
               \/ Custom(R, K, U, I, Lim, Rem)!Crash(r)
        PROVE  CustomInv(R, K, U, I)'
    BY <1>3, CountKept, SetManualCoverKept, GetKeywordKept, ListCardsKept, GetCoverAssetKept,
       GetLatestKept, EnsureKept, CommitEndsKept, DeleteKept
  <1>4. ASSUME NEW image \in ImagesOf(U, I),
               Custom(R, K, U, I, Lim, Rem)!SoftDeleteAsset(image)
        PROVE  CustomInv(R, K, U, I)'
    BY <1>4, RemovalKept
  <1>5. QED
    BY <1>1, <1>2, <1>3, <1>4 DEF Custom!Next

(* The first states.                                                       *)
LEMMA CustomStart ==
  ASSUME NEW R, NEW K, NEW U, NEW I, NEW Lim, NEW Rem,
         CustomConstants(K, U, I), Custom(R, K, U, I, Lim, Rem)!Init
  PROVE  CustomInv(R, K, U, I)
  <1>1. /\ keyword = [k \in K |-> NoRow] /\ deleted = {} /\ begun = 0
        /\ upload = [t \in 1..U |-> [k |-> None, count |-> 0]]
        /\ req = [r \in R |-> Rest]
    BY DEF Custom!Init, Custom!Times, Custom!Idle, Custom!NoKeyword, Rest, NoRow
  <1>2. U \in Nat /\ I \in Nat
    BY DEF CustomConstants
  <1>3. /\ NoRow \in KeywordRows(U, I) /\ Rest \in Reqs(K, U, I) /\ ReqSound(U, I, Rest)
        /\ Rest.pc = "idle" /\ NoRow.cover = None /\ NoRow.source = "auto_latest"
    BY <1>2, RestIsSound DEF NoRow
  <1>4. CustomTypes(R, K, U, I)
    BY <1>1, <1>2, <1>3 DEF CustomTypes
  <1>5. \A r \in R : ReqSound(U, I, req[r])
    BY <1>1, <1>3
  <1>6. PlacesOwn(R, U)
    BY <1>1, <1>3 DEF PlacesOwn, Commits
  <1>7. CoversOwn(K, U, I)
    BY <1>1, <1>3 DEF CoversOwn
  <1>8. QED
    BY <1>4, <1>5, <1>6, <1>7 DEF CustomInv

(* What the invariant says of covers, works and galleries.                 *)
LEMMA CustomHolds ==
  ASSUME NEW R, NEW K, NEW U, NEW I, NEW Lim, NEW Rem,
         CustomConstants(K, U, I), CustomInv(R, K, U, I)
  PROVE  /\ Custom(R, K, U, I, Lim, Rem)!CoverOfKeyword
         /\ Custom(R, K, U, I, Lim, Rem)!PublishedWhileOpen
         /\ Custom(R, K, U, I, Lim, Rem)!GalleryCoverIsNewest
  <1>1. \A k : Custom(R, K, U, I, Lim, Rem)!VisibleImages(k) = Shown(U, I, k)
    BY CustomQueries DEF CustomConstants
  <1>2. Custom(R, K, U, I, Lim, Rem)!CoverOfKeyword
    BY <1>1 DEF Custom!CoverOfKeyword, CustomInv, CoversOwn, ReqSound
  <1>3. Custom(R, K, U, I, Lim, Rem)!PublishedWhileOpen
    BY DEF Custom!PublishedWhileOpen, CustomInv, ReqSound
  <1>4. Custom(R, K, U, I, Lim, Rem)!GalleryCoverIsNewest
    BY DEF Custom!GalleryCoverIsNewest, Custom!Before, Custom!At, Custom!DisplayOrder,
       CustomInv, ReqSound, NotNewer
  <1>5. QED
    BY <1>2, <1>3, <1>4

(* No step changes a keyword that is deleted.                              *)
LEMMA DeletedIsLeft ==
  ASSUME NEW R, NEW K, NEW U, NEW I, NEW Lim, NEW Rem,
         CustomInv(R, K, U, I), Custom(R, K, U, I, Lim, Rem)!Next
  PROVE  Custom(R, K, U, I, Lim, Rem)!DeletedStays
  <1>1. ASSUME keyword' = keyword
        PROVE  Custom(R, K, U, I, Lim, Rem)!DeletedStays
    BY <1>1 DEF Custom!DeletedStays
  <1>2. ASSUME NEW r \in R, NEW k \in K,
               \/ Custom(R, K, U, I, Lim, Rem)!Create(r, k)
               \/ Custom(R, K, U, I, Lim, Rem)!Delete(r, k)
               \/ Custom(R, K, U, I, Lim, Rem)!ClearCover(r, k)
               \/ Custom(R, K, U, I, Lim, Rem)!ListImages(r, k)
               \/ Custom(R, K, U, I, Lim, Rem)!CommitBegins(r, k)
               \/ \E status \in {"active", "inactive"} :
                    Custom(R, K, U, I, Lim, Rem)!Update(r, k, status)
               \/ \E image : Custom(R, K, U, I, Lim, Rem)!SetCover(r, k, image)
        PROVE  Custom(R, K, U, I, Lim, Rem)!DeletedStays
    <2>1. CASE \/ Custom(R, K, U, I, Lim, Rem)!Create(r, k)
               \/ Custom(R, K, U, I, Lim, Rem)!Delete(r, k)
               \/ Custom(R, K, U, I, Lim, Rem)!ClearCover(r, k)
               \/ \E status \in {"active", "inactive"} :
                    Custom(R, K, U, I, Lim, Rem)!Update(r, k, status)
      <3>1. keyword' = keyword \/ (/\ keyword[k].status # "deleted"
                                   /\ \A j \in K : j # k => keyword'[j] = keyword[j])
        BY <2>1 DEF Custom!Create, Custom!Delete, Custom!ClearCover, Custom!Update,
           Custom!There, CustomInv, CustomTypes
      <3>2. QED
        BY <3>1 DEF Custom!DeletedStays
    <2>2. CASE \/ Custom(R, K, U, I, Lim, Rem)!ListImages(r, k)
               \/ Custom(R, K, U, I, Lim, Rem)!CommitBegins(r, k)
               \/ \E image : Custom(R, K, U, I, Lim, Rem)!SetCover(r, k, image)
      <3>1. Custom(R, K, U, I, Lim, Rem)!ListImages(r, k) => keyword' = keyword
        BY DEF Custom!ListImages
      <3>2. Custom(R, K, U, I, Lim, Rem)!CommitBegins(r, k) => keyword' = keyword
        BY DEF Custom!CommitBegins
      <3>3. ASSUME NEW image, Custom(R, K, U, I, Lim, Rem)!SetCover(r, k, image)
            PROVE  keyword' = keyword
        BY <3>3 DEF Custom!SetCover
      <3>4. QED
        BY <1>1, <2>2, <3>1, <3>2, <3>3
    <2>3. QED
      BY <1>2, <2>1, <2>2
  <1>3. ASSUME NEW r \in R,
               \/ Custom(R, K, U, I, Lim, Rem)!Count(r)
               \/ Custom(R, K, U, I, Lim, Rem)!SetManualCover(r)
               \/ Custom(R, K, U, I, Lim, Rem)!GetKeyword(r)
               \/ Custom(R, K, U, I, Lim, Rem)!ListCards(r)
               \/ Custom(R, K, U, I, Lim, Rem)!GetCoverAsset(r)
               \/ Custom(R, K, U, I, Lim, Rem)!GetLatestCoverAsset(r)
               \/ Custom(R, K, U, I, Lim, Rem)!EnsureOwnedActiveKeyword(r)
               \/ \E n \in 1..I : Custom(R, K, U, I, Lim, Rem)!CommitEnds(r, n)
               \/ Custom(R, K, U, I, Lim, Rem)!Crash(r)
        PROVE  Custom(R, K, U, I, Lim, Rem)!DeletedStays
    <2>1. keyword' = keyword \/ (/\ keyword[req[r].k].status # "deleted"
                                 /\ \A j \in K : j # req[r].k => keyword'[j] = keyword[j])
      BY <1>3 DEF Custom!Count, Custom!SetManualCover, Custom!GetKeyword, Custom!ListCards,
         Custom!GetCoverAsset, Custom!GetLatestCoverAsset, Custom!EnsureOwnedActiveKeyword,
         Custom!CommitEnds, Custom!Crash, Custom!There, CustomInv, CustomTypes
    <2>2. QED
      BY <2>1 DEF Custom!DeletedStays
  <1>4. ASSUME NEW image, Custom(R, K, U, I, Lim, Rem)!SoftDeleteAsset(image)
        PROVE  Custom(R, K, U, I, Lim, Rem)!DeletedStays
    BY <1>1, <1>4 DEF Custom!SoftDeleteAsset
  <1>5. QED
    BY <1>2, <1>3, <1>4 DEF Custom!Next

-----------------------------------------------------------------------------
(* The parts of the composition are cases of these.                        *)

(* The days on which the keywords stay.                                    *)
LEMMA FixedIsDay ==
  /\ Fixed!Init => Day(1..3, -2, 1, FALSE)!Init
  /\ Fixed!Next => Day(1..3, -2, 1, FALSE)!Next
  /\ Day(1..3, -2, 1, FALSE)!OneKeywordPerDay => Fixed!OneKeywordPerDay
  /\ Day(1..3, -2, 1, FALSE)!RotationFair => Fixed!RotationFair
  /\ Day(1..3, -2, 1, FALSE)!AssignmentSettles => Fixed!AssignmentSettles
  <1>1. \A S : Fixed!Cardinality(S) = Day(1..3, -2, 1, FALSE)!Cardinality(S)
    BY DEF Fixed!Cardinality, Day!Cardinality
  <1>2. \A S, d : Fixed!Rotating(S, d) = Day(1..3, -2, 1, FALSE)!Rotating(S, d)
    BY DEF Fixed!Rotating, Fixed!Index, Fixed!GoRemainder, Fixed!Cardinality,
       Day!Rotating, Day!Index, Day!GoRemainder, Day!Cardinality
  <1>3. \A r \in Requests : Fixed!ListActive(r) => Day(1..3, -2, 1, FALSE)!ListActive(r)
    BY <1>2 DEF Fixed!ListActive, Fixed!End, Fixed!Idle, Day!ListActive, Day!End,
       Day!Idle
  <1>4. Fixed!Init => Day(1..3, -2, 1, FALSE)!Init
    BY DEF Fixed!Init, Fixed!Days, Fixed!Idle, Fixed!NoSession, Day!Init, Day!Days,
       Day!Idle, Day!NoSession
  <1>5. Fixed!Next => Day(1..3, -2, 1, FALSE)!Next
    BY <1>3, Zenon DEF Fixed!Next, Fixed!GetOfficialHome, Fixed!OpenSession,
       Fixed!CommitSession, Fixed!ReadAssignment, Fixed!Upsert, Fixed!Use, Fixed!Crash,
       Fixed!ChangeActive, Fixed!NextDay, Fixed!Days, Fixed!Idle, Fixed!End, Day!Next,
       Day!GetOfficialHome, Day!OpenSession, Day!CommitSession, Day!ReadAssignment,
       Day!Upsert, Day!Use, Day!Crash, Day!ChangeActive, Day!NextDay, Day!Days,
       Day!Idle, Day!End
  <1>6. Day(1..3, -2, 1, FALSE)!OneKeywordPerDay => Fixed!OneKeywordPerDay
    BY DEF Fixed!OneKeywordPerDay, Day!OneKeywordPerDay
  <1>7. Day(1..3, -2, 1, FALSE)!RotationFair => Fixed!RotationFair
    BY <1>1 DEF Fixed!RotationFair, Fixed!Days, Day!RotationFair, Day!Days
  <1>8. Day(1..3, -2, 1, FALSE)!AssignmentSettles => Fixed!AssignmentSettles
    BY DEF Fixed!AssignmentSettles, Fixed!Choosing, Fixed!Days, Day!AssignmentSettles,
       Day!Choosing, Day!Days
  <1>9. QED
    BY <1>4, <1>5, <1>6, <1>7, <1>8

(* The days on which they change.                                          *)
LEMMA ChangingIsDay ==
  /\ Changing!Init => Day(1..2, 0, 1, TRUE)!Init
  /\ Changing!Next => Day(1..2, 0, 1, TRUE)!Next
  /\ Day(1..2, 0, 1, TRUE)!OneKeywordPerDay => Changing!OneKeywordPerDay
  /\ Day(1..2, 0, 1, TRUE)!RotationFair => Changing!RotationFair
  /\ Day(1..2, 0, 1, TRUE)!AssignmentSettles => Changing!AssignmentSettles
  <1>1. \A S : Changing!Cardinality(S) = Day(1..2, 0, 1, TRUE)!Cardinality(S)
    BY DEF Changing!Cardinality, Day!Cardinality
  <1>2. \A S, d : Changing!Rotating(S, d) = Day(1..2, 0, 1, TRUE)!Rotating(S, d)
    BY DEF Changing!Rotating, Changing!Index, Changing!GoRemainder,
       Changing!Cardinality, Day!Rotating, Day!Index, Day!GoRemainder, Day!Cardinality
  <1>3. \A r \in Requests : Changing!ListActive(r)
          => Day(1..2, 0, 1, TRUE)!ListActive(r)
    BY <1>2 DEF Changing!ListActive, Changing!End, Changing!Idle, Day!ListActive,
       Day!End, Day!Idle
  <1>4. Changing!Init => Day(1..2, 0, 1, TRUE)!Init
    BY DEF Changing!Init, Changing!Days, Changing!Idle, Changing!NoSession, Day!Init,
       Day!Days, Day!Idle, Day!NoSession
  <1>5. Changing!Next => Day(1..2, 0, 1, TRUE)!Next
    BY <1>3, Zenon DEF Changing!Next, Changing!GetOfficialHome, Changing!OpenSession,
       Changing!CommitSession, Changing!ReadAssignment, Changing!Upsert, Changing!Use,
       Changing!Crash, Changing!ChangeActive, Changing!NextDay, Changing!Days,
       Changing!Idle, Changing!End, Day!Next, Day!GetOfficialHome, Day!OpenSession,
       Day!CommitSession, Day!ReadAssignment, Day!Upsert, Day!Use, Day!Crash,
       Day!ChangeActive, Day!NextDay, Day!Days, Day!Idle, Day!End
  <1>6. Day(1..2, 0, 1, TRUE)!OneKeywordPerDay => Changing!OneKeywordPerDay
    BY DEF Changing!OneKeywordPerDay, Day!OneKeywordPerDay
  <1>7. Day(1..2, 0, 1, TRUE)!RotationFair => Changing!RotationFair
    BY <1>1 DEF Changing!RotationFair, Changing!Days, Day!RotationFair, Day!Days
  <1>8. Day(1..2, 0, 1, TRUE)!AssignmentSettles => Changing!AssignmentSettles
    BY DEF Changing!AssignmentSettles, Changing!Choosing, Changing!Days,
       Day!AssignmentSettles, Day!Choosing, Day!Days
  <1>9. QED
    BY <1>4, <1>5, <1>6, <1>7, <1>8

(* Two requests race for two keywords.                                     *)
LEMMA RacesAreCustom ==
  /\ Init => Custom(Requests, Keywords, MaxUploads, MaxImages, Limit, Removals)!Init
  /\ Next => Custom(Requests, Keywords, MaxUploads, MaxImages, Limit, Removals)!Next
  /\ Custom(Requests, Keywords, MaxUploads, MaxImages, Limit, Removals)!CoverOfKeyword
    => CoverOfKeyword
  /\ Custom(Requests, Keywords, MaxUploads, MaxImages, Limit, Removals)!PublishedWhileOpen
    => PublishedWhileOpen
  /\ Custom(Requests, Keywords, MaxUploads, MaxImages, Limit, Removals)!GalleryCoverIsNewest
    => GalleryCoverIsNewest
  /\ Custom(Requests, Keywords, MaxUploads, MaxImages, Limit, Removals)!DeletedStays
    => DeletedStays
  <1>1. \A k : VisibleImages(k)
          = Custom(Requests, Keywords, MaxUploads, MaxImages, Limit, Removals)!VisibleImages(k)
    BY DEF Times, Images, At, DisplayOrder, VisibleImages, Custom!Times, Custom!Images,
       Custom!At, Custom!DisplayOrder, Custom!VisibleImages
  <1>2. \A i, j : Before(i, j)
          = Custom(Requests, Keywords, MaxUploads, MaxImages, Limit, Removals)!Before(i, j)
    BY DEF Before, At, DisplayOrder, Custom!Before, Custom!At, Custom!DisplayOrder
  <1>3. Next => Custom(Requests, Keywords, MaxUploads, MaxImages, Limit, Removals)!Next
    BY Zenon DEF Next, Create, Update, SetCover, ClearCover, SetManualCover, Delete,
       ListImages, CommitBegins, Count, GetKeyword, ListCards, GetCoverAsset,
       GetLatestCoverAsset, EnsureOwnedActiveKeyword, Crash, CommitEnds,
       SoftDeleteAsset, There, NotFound, ToCover, Answer, ImagesToChoose, VisibleImages,
       ImagesWithAsset, LatestCoverAsset, ListKeywordImages, ClampLimit, Cardinality,
       Before, Times, Images, At, DisplayOrder, Set, Starts, Idle, NoKeyword,
       Custom!Next, Custom!Create, Custom!Update, Custom!SetCover, Custom!ClearCover,
       Custom!SetManualCover, Custom!Delete, Custom!ListImages, Custom!CommitBegins,
       Custom!Count, Custom!GetKeyword, Custom!ListCards, Custom!GetCoverAsset,
       Custom!GetLatestCoverAsset, Custom!EnsureOwnedActiveKeyword, Custom!Crash,
       Custom!CommitEnds, Custom!SoftDeleteAsset, Custom!There, Custom!NotFound,
       Custom!ToCover, Custom!Answer, Custom!ImagesToChoose, Custom!VisibleImages,
       Custom!ImagesWithAsset, Custom!LatestCoverAsset, Custom!ListKeywordImages,
       Custom!ClampLimit, Custom!Cardinality, Custom!Before, Custom!Times,
       Custom!Images, Custom!At, Custom!DisplayOrder, Custom!Set, Custom!Starts,
       Custom!Idle, Custom!NoKeyword
  <1>4. Init => Custom(Requests, Keywords, MaxUploads, MaxImages, Limit, Removals)!Init
    BY DEF Init, Times, Idle, NoKeyword, Custom!Init, Custom!Times, Custom!Idle,
       Custom!NoKeyword
  <1>5. /\ Custom(Requests, Keywords, MaxUploads, MaxImages, Limit, Removals)!CoverOfKeyword
          => CoverOfKeyword
        /\ Custom(Requests, Keywords, MaxUploads, MaxImages, Limit, Removals)!PublishedWhileOpen
          => PublishedWhileOpen
        /\ Custom(Requests, Keywords, MaxUploads, MaxImages, Limit, Removals)!GalleryCoverIsNewest
          => GalleryCoverIsNewest
        /\ Custom(Requests, Keywords, MaxUploads, MaxImages, Limit, Removals)!DeletedStays
          => DeletedStays
    BY <1>1, <1>2 DEF CoverOfKeyword, PublishedWhileOpen, GalleryCoverIsNewest,
       DeletedStays, Custom!CoverOfKeyword, Custom!PublishedWhileOpen,
       Custom!GalleryCoverIsNewest, Custom!DeletedStays
  <1>6. QED
    BY <1>3, <1>4, <1>5

(* Two requests race for one gallery.                                      *)
LEMMA GalleryIsCustom ==
  /\ Gallery!Init => Custom(Requests, {Keyword}, MaxUploads, MaxImages, 5, 1)!Init
  /\ Gallery!Next => Custom(Requests, {Keyword}, MaxUploads, MaxImages, 5, 1)!Next
  /\ Custom(Requests, {Keyword}, MaxUploads, MaxImages, 5, 1)!CoverOfKeyword
    => Gallery!CoverOfKeyword
  /\ Custom(Requests, {Keyword}, MaxUploads, MaxImages, 5, 1)!PublishedWhileOpen
    => Gallery!PublishedWhileOpen
  /\ Custom(Requests, {Keyword}, MaxUploads, MaxImages, 5, 1)!GalleryCoverIsNewest
    => Gallery!GalleryCoverIsNewest
  /\ Custom(Requests, {Keyword}, MaxUploads, MaxImages, 5, 1)!DeletedStays
    => Gallery!DeletedStays
  <1>1. \A k : Gallery!VisibleImages(k)
          = Custom(Requests, {Keyword}, MaxUploads, MaxImages, 5, 1)!VisibleImages(k)
    BY DEF Gallery!Times, Gallery!Images, Gallery!At, Gallery!DisplayOrder,
       Gallery!VisibleImages, Custom!Times, Custom!Images, Custom!At,
       Custom!DisplayOrder, Custom!VisibleImages
  <1>2. \A i, j : Gallery!Before(i, j)
          = Custom(Requests, {Keyword}, MaxUploads, MaxImages, 5, 1)!Before(i, j)
    BY DEF Gallery!Before, Gallery!At, Gallery!DisplayOrder, Custom!Before, Custom!At,
       Custom!DisplayOrder
  <1>3. Gallery!Next => Custom(Requests, {Keyword}, MaxUploads, MaxImages, 5, 1)!Next
    BY Zenon DEF Gallery!Next, Gallery!Create, Gallery!Update, Gallery!SetCover,
       Gallery!ClearCover, Gallery!SetManualCover, Gallery!Delete, Gallery!ListImages,
       Gallery!CommitBegins, Gallery!Count, Gallery!GetKeyword, Gallery!ListCards,
       Gallery!GetCoverAsset, Gallery!GetLatestCoverAsset,
       Gallery!EnsureOwnedActiveKeyword, Gallery!Crash, Gallery!CommitEnds,
       Gallery!SoftDeleteAsset, Gallery!There, Gallery!NotFound, Gallery!ToCover,
       Gallery!Answer, Gallery!ImagesToChoose, Gallery!VisibleImages,
       Gallery!ImagesWithAsset, Gallery!LatestCoverAsset, Gallery!ListKeywordImages,
       Gallery!ClampLimit, Gallery!Cardinality, Gallery!Before, Gallery!Times,
       Gallery!Images, Gallery!At, Gallery!DisplayOrder, Gallery!Set, Gallery!Starts,
       Gallery!Idle, Gallery!NoKeyword, Custom!Next, Custom!Create, Custom!Update,
       Custom!SetCover, Custom!ClearCover, Custom!SetManualCover, Custom!Delete,
       Custom!ListImages, Custom!CommitBegins, Custom!Count, Custom!GetKeyword,
       Custom!ListCards, Custom!GetCoverAsset, Custom!GetLatestCoverAsset,
       Custom!EnsureOwnedActiveKeyword, Custom!Crash, Custom!CommitEnds,
       Custom!SoftDeleteAsset, Custom!There, Custom!NotFound, Custom!ToCover,
       Custom!Answer, Custom!ImagesToChoose, Custom!VisibleImages,
       Custom!ImagesWithAsset, Custom!LatestCoverAsset, Custom!ListKeywordImages,
       Custom!ClampLimit, Custom!Cardinality, Custom!Before, Custom!Times,
       Custom!Images, Custom!At, Custom!DisplayOrder, Custom!Set, Custom!Starts,
       Custom!Idle, Custom!NoKeyword
  <1>4. Gallery!Init => Custom(Requests, {Keyword}, MaxUploads, MaxImages, 5, 1)!Init
    BY DEF Gallery!Init, Gallery!Times, Gallery!Idle, Gallery!NoKeyword, Custom!Init,
       Custom!Times, Custom!Idle, Custom!NoKeyword
  <1>5. /\ Custom(Requests, {Keyword}, MaxUploads, MaxImages, 5, 1)!CoverOfKeyword
          => Gallery!CoverOfKeyword
        /\ Custom(Requests, {Keyword}, MaxUploads, MaxImages, 5, 1)!PublishedWhileOpen
          => Gallery!PublishedWhileOpen
        /\ Custom(Requests, {Keyword}, MaxUploads, MaxImages, 5, 1)!GalleryCoverIsNewest
          => Gallery!GalleryCoverIsNewest
        /\ Custom(Requests, {Keyword}, MaxUploads, MaxImages, 5, 1)!DeletedStays
          => Gallery!DeletedStays
    BY <1>1, <1>2 DEF Gallery!CoverOfKeyword, Gallery!PublishedWhileOpen,
       Gallery!GalleryCoverIsNewest, Gallery!DeletedStays, Custom!CoverOfKeyword,
       Custom!PublishedWhileOpen, Custom!GalleryCoverIsNewest, Custom!DeletedStays
  <1>6. QED
    BY <1>3, <1>4, <1>5

(* One request, and three uploads with two images each.                    *)
LEMMA CardsAreCustom ==
  /\ Cards!Init => Custom({Slot}, {Keyword}, 3, 2, 5, 1)!Init
  /\ Cards!Next => Custom({Slot}, {Keyword}, 3, 2, 5, 1)!Next
  /\ Custom({Slot}, {Keyword}, 3, 2, 5, 1)!CoverOfKeyword => Cards!CoverOfKeyword
  /\ Custom({Slot}, {Keyword}, 3, 2, 5, 1)!PublishedWhileOpen
    => Cards!PublishedWhileOpen
  /\ Custom({Slot}, {Keyword}, 3, 2, 5, 1)!GalleryCoverIsNewest
    => Cards!GalleryCoverIsNewest
  /\ Custom({Slot}, {Keyword}, 3, 2, 5, 1)!DeletedStays => Cards!DeletedStays
  <1>1. \A k : Cards!VisibleImages(k)
          = Custom({Slot}, {Keyword}, 3, 2, 5, 1)!VisibleImages(k)
    BY DEF Cards!Times, Cards!Images, Cards!At, Cards!DisplayOrder, Cards!VisibleImages,
       Custom!Times, Custom!Images, Custom!At, Custom!DisplayOrder, Custom!VisibleImages
  <1>2. \A i, j : Cards!Before(i, j)
          = Custom({Slot}, {Keyword}, 3, 2, 5, 1)!Before(i, j)
    BY DEF Cards!Before, Cards!At, Cards!DisplayOrder, Custom!Before, Custom!At,
       Custom!DisplayOrder
  <1>3. Cards!Next => Custom({Slot}, {Keyword}, 3, 2, 5, 1)!Next
    BY Zenon DEF Cards!Next, Cards!Create, Cards!Update, Cards!SetCover,
       Cards!ClearCover, Cards!SetManualCover, Cards!Delete, Cards!ListImages,
       Cards!CommitBegins, Cards!Count, Cards!GetKeyword, Cards!ListCards,
       Cards!GetCoverAsset, Cards!GetLatestCoverAsset, Cards!EnsureOwnedActiveKeyword,
       Cards!Crash, Cards!CommitEnds, Cards!SoftDeleteAsset, Cards!There,
       Cards!NotFound, Cards!ToCover, Cards!Answer, Cards!ImagesToChoose,
       Cards!VisibleImages, Cards!ImagesWithAsset, Cards!LatestCoverAsset,
       Cards!ListKeywordImages, Cards!ClampLimit, Cards!Cardinality, Cards!Before,
       Cards!Times, Cards!Images, Cards!At, Cards!DisplayOrder, Cards!Set, Cards!Starts,
       Cards!Idle, Cards!NoKeyword, Custom!Next, Custom!Create, Custom!Update,
       Custom!SetCover, Custom!ClearCover, Custom!SetManualCover, Custom!Delete,
       Custom!ListImages, Custom!CommitBegins, Custom!Count, Custom!GetKeyword,
       Custom!ListCards, Custom!GetCoverAsset, Custom!GetLatestCoverAsset,
       Custom!EnsureOwnedActiveKeyword, Custom!Crash, Custom!CommitEnds,
       Custom!SoftDeleteAsset, Custom!There, Custom!NotFound, Custom!ToCover,
       Custom!Answer, Custom!ImagesToChoose, Custom!VisibleImages,
       Custom!ImagesWithAsset, Custom!LatestCoverAsset, Custom!ListKeywordImages,
       Custom!ClampLimit, Custom!Cardinality, Custom!Before, Custom!Times,
       Custom!Images, Custom!At, Custom!DisplayOrder, Custom!Set, Custom!Starts,
       Custom!Idle, Custom!NoKeyword
  <1>4. Cards!Init => Custom({Slot}, {Keyword}, 3, 2, 5, 1)!Init
    BY DEF Cards!Init, Cards!Times, Cards!Idle, Cards!NoKeyword, Custom!Init,
       Custom!Times, Custom!Idle, Custom!NoKeyword
  <1>5. /\ Custom({Slot}, {Keyword}, 3, 2, 5, 1)!CoverOfKeyword => Cards!CoverOfKeyword
        /\ Custom({Slot}, {Keyword}, 3, 2, 5, 1)!PublishedWhileOpen
          => Cards!PublishedWhileOpen
        /\ Custom({Slot}, {Keyword}, 3, 2, 5, 1)!GalleryCoverIsNewest
          => Cards!GalleryCoverIsNewest
        /\ Custom({Slot}, {Keyword}, 3, 2, 5, 1)!DeletedStays => Cards!DeletedStays
    BY <1>1, <1>2 DEF Cards!CoverOfKeyword, Cards!PublishedWhileOpen,
       Cards!GalleryCoverIsNewest, Cards!DeletedStays, Custom!CoverOfKeyword,
       Custom!PublishedWhileOpen, Custom!GalleryCoverIsNewest, Custom!DeletedStays
  <1>6. QED
    BY <1>3, <1>4, <1>5

-----------------------------------------------------------------------------
(* The gallery of a keyword and its cards (KeywordCards).                  *)

(* The rows of a page, and the cards that a fold of them makes.            *)
RowsOfPage(U, I, up, k, gone, limit) == InRank(PageRows(U, I, up, k, gone, limit))
CardsOf(rows, up) == (CHOOSE f : Gathers(f, rows, up))[DOMAIN rows]

CutOf(U, I, up, k, gone, limit, cards) ==
    /\ FlattenSeq([c \in DOMAIN cards |-> cards[c].images])
         = InRank({i \in {j \in Left(U, I, up, k, gone) :
                            Cardinality({h \in Left(U, I, up, k, gone) : Rank(h, j)})
                              < Cardinality(Given(U, I, up, k))} :
                     \E c \in DOMAIN cards : cards[c].upload = i[1]})
    /\ \A c \in DOMAIN cards :
         cards[c].images = InRank(RowsOf(U, I, up, gone, cards[c].upload))
    /\ \A t \in 1..U :
         (/\ InRank(RowsOf(U, I, up, gone, t)) # <<>> /\ up[t].k = k
          /\ Cardinality(Newer(U, up, k, t)) < limit)
            => \E c \in DOMAIN cards : cards[c].upload = t
    /\ Len(cards) <= limit

CardsAgree(K, U, I, limit) ==
    \A k \in K : CutOf(U, I, upload, k, deleted, limit,
                       CardsOf(RowsOfPage(U, I, upload, k, deleted, limit), upload))

(* So it is whatever was published and removed.                            *)
LEMMA CardsDoAgree ==
  ASSUME NEW U \in Nat, NEW I \in Nat, NEW limit \in Nat, NEW k, NEW gone,
         NEW up, \A t \in 1..U : up[t].count \in Nat
  PROVE  CutOf(U, I, up, k, gone, limit, CardsOf(RowsOfPage(U, I, up, k, gone, limit), up))
  <1> DEFINE P == PageRows(U, I, up, k, gone, limit)
             rows == RowsOfPage(U, I, up, k, gone, limit)
             cards == CardsOf(rows, up)
  <1>1. rows = InRank(P)
    BY DEF RowsOfPage
  <1>2. IsFiniteSet(P) /\ P \in SUBSET Pairs
    BY RowSets
  <1>3. \A i \in P : i[1] \in 1..U
    BY DEF PageRows, Page
  <1> HIDE DEF P, rows
  <1>4. rows \in Seq(Pairs) /\ Sorted(rows) /\ ToSet(rows) = P
    BY <1>1, <1>2, OrderIsSorted DEF InRank
  <1>5. \A i \in DOMAIN rows : up[rows[i][1]].count \in Nat
    <2>1. \A i \in DOMAIN rows : rows[i] \in P
      BY <1>4 DEF ToSet
    <2>2. QED
      BY <1>3, <2>1
  <1> DEFINE f == CHOOSE g : Gathers(g, rows, up)
  <1>6. Gathers(f, rows, up)
    BY <1>4, <1>5, GatherExists
  <1>7. cards = f[DOMAIN rows]
    BY DEF CardsOf
  <1> HIDE DEF f, cards
  <1>8. Made(cards, rows, Len(rows))
    BY <1>4, <1>5, <1>6, <1>7, RowsGathered
  <1>9. rows = InRank(PageRows(U, I, up, k, gone, limit))
    BY <1>1 DEF P
  <1>10. /\ FlattenSeq([c \in DOMAIN cards |-> cards[c].images])
              = InRank({i \in Left(U, I, up, k, gone) :
                          \E c \in DOMAIN cards : cards[c].upload = i[1]})
         /\ \A c \in DOMAIN cards :
              cards[c].images = InRank(RowsOf(U, I, up, gone, cards[c].upload))
         /\ \A t \in Page(U, up, k, limit) :
              RowsOf(U, I, up, gone, t) # {} => \E c \in DOMAIN cards : cards[c].upload = t
         /\ Len(cards) <= limit
    BY <1>8, <1>9, PageCut
  <1>11. {j \in Left(U, I, up, k, gone) :
            Cardinality({h \in Left(U, I, up, k, gone) : Rank(h, j)})
              < Cardinality(Given(U, I, up, k))} = Left(U, I, up, k, gone)
    BY ListedAll
  <1>12. InRank({}) = <<>>
    <2>1. Cardinality({}) = 0
      BY FS_EmptySet
    <2>2. QED
      BY <2>1 DEF InRank, OrderBy
  <1>13. ASSUME NEW t \in 1..U, InRank(RowsOf(U, I, up, gone, t)) # <<>>, up[t].k = k,
                Cardinality(Newer(U, up, k, t)) < limit
         PROVE  \E c \in DOMAIN cards : cards[c].upload = t
    <2>1. t \in Page(U, up, k, limit)
      BY <1>13 DEF Page
    <2>2. RowsOf(U, I, up, gone, t) # {}
      BY <1>12, <1>13
    <2>3. QED
      BY <1>10, <2>1, <2>2
  <1>14. CutOf(U, I, up, k, gone, limit, cards)
    BY <1>10, <1>11, <1>13 DEF CutOf
  <1>15. QED
    BY <1>14 DEF cards, rows

LEMMA CardsAgreeAlways ==
  ASSUME NEW R, NEW K, NEW U \in Nat, NEW I \in Nat, NEW limit \in Nat, CustomTypes(R, K, U, I)
  PROVE  CardsAgree(K, U, I, limit)
  <1>1. \A t \in 1..U : upload[t].count \in Nat
    BY DEF CustomTypes
  <1>2. QED
    BY <1>1, CardsDoAgree DEF CardsAgree

(* The galleries of the composition are such, definition by definition.    *)
LEMMA GalleryCardsAgree ==
  CardsAgree({Keyword}, MaxUploads, MaxImages, ClampLimit(5, MaxLimit, MaxLimit))
    => GalleryCards!CardsAreTheGallery
  <1>1. \A S : GalleryCards!InOrder(S) = InRank(S)
    BY Zenon DEF InRank, Ranks, Rank, OrderBy, Cardinality, GalleryCards!InOrder, GalleryCards!OrderBy,
       GalleryCards!Before, GalleryCards!At, GalleryCards!DisplayOrder, GalleryCards!Cardinality
  <1>2. \A k : GalleryCards!VisibleImages(k) = Given(MaxUploads, MaxImages, upload, k)
    BY Zenon DEF Given, GalleryCards!VisibleImages, GalleryCards!At, GalleryCards!DisplayOrder, GalleryCards!Times, GalleryCards!Images
  <1>3. \A k : GalleryCards!ImagesWithAsset(k) = Left(MaxUploads, MaxImages, upload, k, deleted)
    BY <1>2, Zenon DEF Left, GalleryCards!ImagesWithAsset
  <1>4. \A k, n : GalleryCards!ListUploadImages(k, n) = RowsOfPage(MaxUploads, MaxImages, upload, k, deleted, n)
    BY <1>1, <1>3, Zenon DEF RowsOfPage, PageRows, Page, Newer, Cardinality,
       GalleryCards!ListUploadImages, GalleryCards!At, GalleryCards!Times, GalleryCards!Cardinality
  <1>5. \A t : GalleryCards!GetUploadImages(t) = InRank(RowsOf(MaxUploads, MaxImages, upload, deleted, t))
    BY <1>1, Zenon DEF RowsOf, GalleryCards!GetUploadImages, GalleryCards!At, GalleryCards!DisplayOrder,
       GalleryCards!Times, GalleryCards!Images
  <1>6. \A rows : GalleryCards!UploadCards(rows) = CardsOf(rows, upload)
    BY Zenon DEF CardsOf, Gathers, AddRow, Max, GalleryCards!UploadCards, GalleryCards!FoldLeft,
       GalleryCards!MapThenFoldSet, GalleryCards!Max, GalleryCards!At
  <1>7. \A k : GalleryCards!ListUploads(k, 5)
                 = CardsOf(RowsOfPage(MaxUploads, MaxImages, upload, k, deleted,
                                      ClampLimit(5, MaxLimit, MaxLimit)), upload)
    BY <1>4, <1>6, Zenon DEF ClampLimit, GalleryCards!ListUploads, GalleryCards!ClampLimit
  <1>8. \A k : GalleryCards!ListKeywordImages(k, GalleryCards!CountVisibleImages(k))
                 = {j \in Left(MaxUploads, MaxImages, upload, k, deleted) :
                      Cardinality({h \in Left(MaxUploads, MaxImages, upload, k, deleted) : Rank(h, j)})
                        < Cardinality(Given(MaxUploads, MaxImages, upload, k))}
    BY <1>2, <1>3, Zenon DEF Rank, Cardinality, GalleryCards!ListKeywordImages,
       GalleryCards!CountVisibleImages, GalleryCards!Before, GalleryCards!At, GalleryCards!DisplayOrder, GalleryCards!Cardinality
  <1>9. \A s : GalleryCards!FlattenSeq(s) = FlattenSeq(s)
    BY Zenon DEF FlattenSeq, GalleryCards!FlattenSeq
  <1>10. \A s : GalleryCards!Cardinality(s) = Cardinality(s)
    BY Zenon DEF Cardinality, GalleryCards!Cardinality
  <1> DEFINE limit == ClampLimit(5, MaxLimit, MaxLimit)
  <1>11. GalleryCards!ClampLimit(5, MaxLimit, MaxLimit) = limit
    BY Zenon DEF ClampLimit, GalleryCards!ClampLimit
  <1> HIDE DEF limit
  <1>12. ASSUME NEW k, NEW cards, CutOf(MaxUploads, MaxImages, upload, k, deleted, limit, cards)
         PROVE  /\ GalleryCards!FlattenSeq([c \in DOMAIN cards |-> cards[c].images])
                     = GalleryCards!InOrder({i \in GalleryCards!ListKeywordImages(k, GalleryCards!CountVisibleImages(k)) :
                                      \E c \in DOMAIN cards : cards[c].upload = GalleryCards!At(i)})
                /\ \A c \in DOMAIN cards :
                     cards[c].images = GalleryCards!GetUploadImages(cards[c].upload)
                /\ \A t \in GalleryCards!Times :
                     (/\ GalleryCards!GetUploadImages(t) # <<>> /\ upload[t].k = k
                      /\ GalleryCards!Cardinality({s \in GalleryCards!Times : upload[s].k = k /\ s > t})
                           < GalleryCards!ClampLimit(5, MaxLimit, MaxLimit))
                        => \E c \in DOMAIN cards : cards[c].upload = t
                /\ Len(cards) <= GalleryCards!ClampLimit(5, MaxLimit, MaxLimit)
    <2>1. GalleryCards!FlattenSeq([c \in DOMAIN cards |-> cards[c].images])
            = GalleryCards!InOrder({i \in GalleryCards!ListKeywordImages(k, GalleryCards!CountVisibleImages(k)) :
                             \E c \in DOMAIN cards : cards[c].upload = GalleryCards!At(i)})
      BY <1>1, <1>8, <1>9, <1>12, Zenon DEF CutOf, GalleryCards!At
    <2>2. \A c \in DOMAIN cards : cards[c].images = GalleryCards!GetUploadImages(cards[c].upload)
      BY <1>5, <1>12, Zenon DEF CutOf
    <2>3. ASSUME NEW t \in GalleryCards!Times, GalleryCards!GetUploadImages(t) # <<>>, upload[t].k = k,
                 GalleryCards!Cardinality({s \in GalleryCards!Times : upload[s].k = k /\ s > t})
                   < GalleryCards!ClampLimit(5, MaxLimit, MaxLimit)
          PROVE  \E c \in DOMAIN cards : cards[c].upload = t
      BY <1>5, <1>10, <1>11, <1>12, <2>3, Zenon DEF CutOf, Newer, GalleryCards!Times
    <2>4. Len(cards) <= GalleryCards!ClampLimit(5, MaxLimit, MaxLimit)
      BY <1>11, <1>12, Zenon DEF CutOf
    <2>5. QED
      BY <2>1, <2>2, <2>3, <2>4, Zenon
  <1>13. SUFFICES ASSUME CardsAgree({Keyword}, MaxUploads, MaxImages, limit) PROVE GalleryCards!CardsAreTheGallery
    BY Zenon DEF limit
  <1>14. \A k \in {Keyword} : CutOf(MaxUploads, MaxImages, upload, k, deleted, limit, GalleryCards!ListUploads(k, 5))
    BY <1>7, <1>13, Zenon DEF CardsAgree, limit
  <1>15. ASSUME NEW k \in {Keyword}, NEW cards, cards = GalleryCards!ListUploads(k, 5)
         PROVE  /\ GalleryCards!FlattenSeq([c \in DOMAIN cards |-> cards[c].images])
                     = GalleryCards!InOrder({i \in GalleryCards!ListKeywordImages(k, GalleryCards!CountVisibleImages(k)) :
                                      \E c \in DOMAIN cards : cards[c].upload = GalleryCards!At(i)})
                /\ \A c \in DOMAIN cards :
                     cards[c].images = GalleryCards!GetUploadImages(cards[c].upload)
                /\ \A t \in GalleryCards!Times :
                     (/\ GalleryCards!GetUploadImages(t) # <<>> /\ upload[t].k = k
                      /\ GalleryCards!Cardinality({s \in GalleryCards!Times : upload[s].k = k /\ s > t})
                           < GalleryCards!ClampLimit(5, MaxLimit, MaxLimit))
                        => \E c \in DOMAIN cards : cards[c].upload = t
                /\ Len(cards) <= GalleryCards!ClampLimit(5, MaxLimit, MaxLimit)
    <2>1. CutOf(MaxUploads, MaxImages, upload, k, deleted, limit, cards)
      BY <1>14, <1>15, Zenon
    <2>2. QED
      BY <1>12, <2>1, Zenon
  <1>16. QED
    BY <1>15, Zenon DEF GalleryCards!CardsAreTheGallery

LEMMA ThreeCardsAgree ==
  CardsAgree({Keyword}, 3, 2, ClampLimit(5, MaxLimit, MaxLimit))
    => ThreeCards!CardsAreTheGallery
  <1>1. \A S : ThreeCards!InOrder(S) = InRank(S)
    BY Zenon DEF InRank, Ranks, Rank, OrderBy, Cardinality, ThreeCards!InOrder, ThreeCards!OrderBy,
       ThreeCards!Before, ThreeCards!At, ThreeCards!DisplayOrder, ThreeCards!Cardinality
  <1>2. \A k : ThreeCards!VisibleImages(k) = Given(3, 2, upload, k)
    BY Zenon DEF Given, ThreeCards!VisibleImages, ThreeCards!At, ThreeCards!DisplayOrder, ThreeCards!Times, ThreeCards!Images
  <1>3. \A k : ThreeCards!ImagesWithAsset(k) = Left(3, 2, upload, k, deleted)
    BY <1>2, Zenon DEF Left, ThreeCards!ImagesWithAsset
  <1>4. \A k, n : ThreeCards!ListUploadImages(k, n) = RowsOfPage(3, 2, upload, k, deleted, n)
    BY <1>1, <1>3, Zenon DEF RowsOfPage, PageRows, Page, Newer, Cardinality,
       ThreeCards!ListUploadImages, ThreeCards!At, ThreeCards!Times, ThreeCards!Cardinality
  <1>5. \A t : ThreeCards!GetUploadImages(t) = InRank(RowsOf(3, 2, upload, deleted, t))
    BY <1>1, Zenon DEF RowsOf, ThreeCards!GetUploadImages, ThreeCards!At, ThreeCards!DisplayOrder,
       ThreeCards!Times, ThreeCards!Images
  <1>6. \A rows : ThreeCards!UploadCards(rows) = CardsOf(rows, upload)
    BY Zenon DEF CardsOf, Gathers, AddRow, Max, ThreeCards!UploadCards, ThreeCards!FoldLeft,
       ThreeCards!MapThenFoldSet, ThreeCards!Max, ThreeCards!At
  <1>7. \A k : ThreeCards!ListUploads(k, 5)
                 = CardsOf(RowsOfPage(3, 2, upload, k, deleted,
                                      ClampLimit(5, MaxLimit, MaxLimit)), upload)
    BY <1>4, <1>6, Zenon DEF ClampLimit, ThreeCards!ListUploads, ThreeCards!ClampLimit
  <1>8. \A k : ThreeCards!ListKeywordImages(k, ThreeCards!CountVisibleImages(k))
                 = {j \in Left(3, 2, upload, k, deleted) :
                      Cardinality({h \in Left(3, 2, upload, k, deleted) : Rank(h, j)})
                        < Cardinality(Given(3, 2, upload, k))}
    BY <1>2, <1>3, Zenon DEF Rank, Cardinality, ThreeCards!ListKeywordImages,
       ThreeCards!CountVisibleImages, ThreeCards!Before, ThreeCards!At, ThreeCards!DisplayOrder, ThreeCards!Cardinality
  <1>9. \A s : ThreeCards!FlattenSeq(s) = FlattenSeq(s)
    BY Zenon DEF FlattenSeq, ThreeCards!FlattenSeq
  <1>10. \A s : ThreeCards!Cardinality(s) = Cardinality(s)
    BY Zenon DEF Cardinality, ThreeCards!Cardinality
  <1> DEFINE limit == ClampLimit(5, MaxLimit, MaxLimit)
  <1>11. ThreeCards!ClampLimit(5, MaxLimit, MaxLimit) = limit
    BY Zenon DEF ClampLimit, ThreeCards!ClampLimit
  <1> HIDE DEF limit
  <1>12. ASSUME NEW k, NEW cards, CutOf(3, 2, upload, k, deleted, limit, cards)
         PROVE  /\ ThreeCards!FlattenSeq([c \in DOMAIN cards |-> cards[c].images])
                     = ThreeCards!InOrder({i \in ThreeCards!ListKeywordImages(k, ThreeCards!CountVisibleImages(k)) :
                                      \E c \in DOMAIN cards : cards[c].upload = ThreeCards!At(i)})
                /\ \A c \in DOMAIN cards :
                     cards[c].images = ThreeCards!GetUploadImages(cards[c].upload)
                /\ \A t \in ThreeCards!Times :
                     (/\ ThreeCards!GetUploadImages(t) # <<>> /\ upload[t].k = k
                      /\ ThreeCards!Cardinality({s \in ThreeCards!Times : upload[s].k = k /\ s > t})
                           < ThreeCards!ClampLimit(5, MaxLimit, MaxLimit))
                        => \E c \in DOMAIN cards : cards[c].upload = t
                /\ Len(cards) <= ThreeCards!ClampLimit(5, MaxLimit, MaxLimit)
    <2>1. ThreeCards!FlattenSeq([c \in DOMAIN cards |-> cards[c].images])
            = ThreeCards!InOrder({i \in ThreeCards!ListKeywordImages(k, ThreeCards!CountVisibleImages(k)) :
                             \E c \in DOMAIN cards : cards[c].upload = ThreeCards!At(i)})
      BY <1>1, <1>8, <1>9, <1>12, Zenon DEF CutOf, ThreeCards!At
    <2>2. \A c \in DOMAIN cards : cards[c].images = ThreeCards!GetUploadImages(cards[c].upload)
      BY <1>5, <1>12, Zenon DEF CutOf
    <2>3. ASSUME NEW t \in ThreeCards!Times, ThreeCards!GetUploadImages(t) # <<>>, upload[t].k = k,
                 ThreeCards!Cardinality({s \in ThreeCards!Times : upload[s].k = k /\ s > t})
                   < ThreeCards!ClampLimit(5, MaxLimit, MaxLimit)
          PROVE  \E c \in DOMAIN cards : cards[c].upload = t
      BY <1>5, <1>10, <1>11, <1>12, <2>3, Zenon DEF CutOf, Newer, ThreeCards!Times
    <2>4. Len(cards) <= ThreeCards!ClampLimit(5, MaxLimit, MaxLimit)
      BY <1>11, <1>12, Zenon DEF CutOf
    <2>5. QED
      BY <2>1, <2>2, <2>3, <2>4, Zenon
  <1>13. SUFFICES ASSUME CardsAgree({Keyword}, 3, 2, limit) PROVE ThreeCards!CardsAreTheGallery
    BY Zenon DEF limit
  <1>14. \A k \in {Keyword} : CutOf(3, 2, upload, k, deleted, limit, ThreeCards!ListUploads(k, 5))
    BY <1>7, <1>13, Zenon DEF CardsAgree, limit
  <1>15. ASSUME NEW k \in {Keyword}, NEW cards, cards = ThreeCards!ListUploads(k, 5)
         PROVE  /\ ThreeCards!FlattenSeq([c \in DOMAIN cards |-> cards[c].images])
                     = ThreeCards!InOrder({i \in ThreeCards!ListKeywordImages(k, ThreeCards!CountVisibleImages(k)) :
                                      \E c \in DOMAIN cards : cards[c].upload = ThreeCards!At(i)})
                /\ \A c \in DOMAIN cards :
                     cards[c].images = ThreeCards!GetUploadImages(cards[c].upload)
                /\ \A t \in ThreeCards!Times :
                     (/\ ThreeCards!GetUploadImages(t) # <<>> /\ upload[t].k = k
                      /\ ThreeCards!Cardinality({s \in ThreeCards!Times : upload[s].k = k /\ s > t})
                           < ThreeCards!ClampLimit(5, MaxLimit, MaxLimit))
                        => \E c \in DOMAIN cards : cards[c].upload = t
                /\ Len(cards) <= ThreeCards!ClampLimit(5, MaxLimit, MaxLimit)
    <2>1. CutOf(3, 2, upload, k, deleted, limit, cards)
      BY <1>14, <1>15, Zenon
    <2>2. QED
      BY <1>12, <2>1, Zenon
  <1>16. QED
    BY <1>15, Zenon DEF ThreeCards!CardsAreTheGallery

-----------------------------------------------------------------------------
(* The feeds and reviews of the composition: what ReadModelProofs shows of *)
(* any of them.                                                            *)

FeedsFacts == INSTANCE ReadModelProofs WITH
    Requests <- {}, Users <- {Author}, Days <- 1..2, Keywords <- {1}, MaxUploads <- 3,
    MaxImages <- 1, MaxKey <- 2, MaxHidden <- 1, upload <- works, req <- reading
ReviewFacts == INSTANCE ReadModelProofs WITH
    Requests <- {Slot}, Days <- 1..2, Keywords <- 1..2, MaxUploads <- 2,
    MaxImages <- 2, MaxKey <- 0, MaxHidden <- 1, upload <- works, req <- reading

(* The feeds are those of the proofs, definition by definition.            *)
LEMMA FeedsAreRead ==
  /\ Feeds!DayAssumption <=> FeedsFacts!DayAssumption
  /\ Feeds!UserAssumption <=> FeedsFacts!UserAssumption
  /\ Feeds!BoundAssumption <=> FeedsFacts!BoundAssumption
  /\ Feeds!Init <=> FeedsFacts!Init
  /\ Feeds!Next <=> FeedsFacts!Next
  /\ Feeds!TypeOK <=> FeedsFacts!TypeOK
  /\ Feeds!FeedsAreComplete <=> FeedsFacts!FeedsAreComplete
  /\ Feeds!SameSeedSameOrder <=> FeedsFacts!SameSeedSameOrder
  <1> USE DEF
        Feeds!BoundAssumption, FeedsFacts!BoundAssumption, Feeds!Cardinality,
        FeedsFacts!Cardinality, Feeds!CountDays, FeedsFacts!CountDays,
        Feeds!CountImages, FeedsFacts!CountImages, Feeds!CountMyReviewImageTotal,
        FeedsFacts!CountMyReviewImageTotal, Feeds!CountMyReviewParticipationDays,
        FeedsFacts!CountMyReviewParticipationDays, Feeds!DayAssumption,
        FeedsFacts!DayAssumption, Feeds!DaysOf, FeedsFacts!DaysOf,
        Feeds!FeedsAreComplete, FeedsFacts!FeedsAreComplete, Feeds!FirstOf,
        FeedsFacts!FirstOf, Feeds!FoldFunctionOnSet, FeedsFacts!FoldFunctionOnSet,
        Feeds!FromSeed, FeedsFacts!FromSeed, Feeds!GetMyReviewUploadCard,
        FeedsFacts!GetMyReviewUploadCard, Feeds!GetOfficialUpload,
        FeedsFacts!GetOfficialUpload, Feeds!GetOwnCard, FeedsFacts!GetOwnCard,
        Feeds!GetPublicUploadCard, FeedsFacts!GetPublicUploadCard,
        Feeds!GetReviewUpload, FeedsFacts!GetReviewUpload, Feeds!Hide,
        FeedsFacts!Hide, Feeds!Idle, FeedsFacts!Idle, Feeds!ImagesOf,
        FeedsFacts!ImagesOf, Feeds!Init, FeedsFacts!Init, Feeds!IsInjective,
        FeedsFacts!IsInjective, Feeds!Keeps, FeedsFacts!Keeps, Feeds!Latest,
        FeedsFacts!Latest, Feeds!ListPublicUploadsByDateLatest,
        FeedsFacts!ListPublicUploadsByDateLatest,
        Feeds!ListPublicUploadsByDateRandom,
        FeedsFacts!ListPublicUploadsByDateRandom,
        Feeds!ListPublicUploadsByKeywordRandom,
        FeedsFacts!ListPublicUploadsByKeywordRandom, Feeds!ListReviewDates,
        FeedsFacts!ListReviewDates, Feeds!ListUploadImages,
        FeedsFacts!ListUploadImages, Feeds!MapThenFoldSet,
        FeedsFacts!MapThenFoldSet, Feeds!Min, FeedsFacts!Min, Feeds!Mine,
        FeedsFacts!Mine, Feeds!Next, FeedsFacts!Next, Feeds!NotFound,
        FeedsFacts!NotFound, Feeds!Official, FeedsFacts!Official, Feeds!OnDay,
        FeedsFacts!OnDay, Feeds!OrderBy, FeedsFacts!OrderBy, Feeds!Public,
        FeedsFacts!Public, Feeds!Publish, FeedsFacts!Publish, Feeds!ReviewDateStats,
        FeedsFacts!ReviewDateStats, Feeds!ReviewDay, FeedsFacts!ReviewDay,
        Feeds!SameSeedSameOrder, FeedsFacts!SameSeedSameOrder, Feeds!Seeds,
        FeedsFacts!Seeds, Feeds!Set, FeedsFacts!Set, Feeds!SumFunction,
        FeedsFacts!SumFunction, Feeds!SumFunctionOnSet, FeedsFacts!SumFunctionOnSet,
        Feeds!Times, FeedsFacts!Times, Feeds!ToSet, FeedsFacts!ToSet, Feeds!TypeOK,
        FeedsFacts!TypeOK, Feeds!Under, FeedsFacts!Under, Feeds!Upload,
        FeedsFacts!Upload, Feeds!Uploads, FeedsFacts!Uploads, Feeds!UserAssumption,
        FeedsFacts!UserAssumption
  <1>1. Feeds!DayAssumption <=> FeedsFacts!DayAssumption
    BY Zenon
  <1>2. Feeds!UserAssumption <=> FeedsFacts!UserAssumption
    BY Zenon
  <1>3. Feeds!BoundAssumption <=> FeedsFacts!BoundAssumption
    BY Zenon
  <1>4. Feeds!Init <=> FeedsFacts!Init
    BY Zenon
  <1>5. Feeds!Next <=> FeedsFacts!Next
    BY Zenon
  <1>6. Feeds!TypeOK <=> FeedsFacts!TypeOK
    BY Zenon
  <1>7. Feeds!FeedsAreComplete <=> FeedsFacts!FeedsAreComplete
    BY Zenon
  <1>8. Feeds!SameSeedSameOrder <=> FeedsFacts!SameSeedSameOrder
    BY Zenon
  <1> HIDE DEF
        Feeds!BoundAssumption, FeedsFacts!BoundAssumption, Feeds!Cardinality,
        FeedsFacts!Cardinality, Feeds!CountDays, FeedsFacts!CountDays,
        Feeds!CountImages, FeedsFacts!CountImages, Feeds!CountMyReviewImageTotal,
        FeedsFacts!CountMyReviewImageTotal, Feeds!CountMyReviewParticipationDays,
        FeedsFacts!CountMyReviewParticipationDays, Feeds!DayAssumption,
        FeedsFacts!DayAssumption, Feeds!DaysOf, FeedsFacts!DaysOf,
        Feeds!FeedsAreComplete, FeedsFacts!FeedsAreComplete, Feeds!FirstOf,
        FeedsFacts!FirstOf, Feeds!FoldFunctionOnSet, FeedsFacts!FoldFunctionOnSet,
        Feeds!FromSeed, FeedsFacts!FromSeed, Feeds!GetMyReviewUploadCard,
        FeedsFacts!GetMyReviewUploadCard, Feeds!GetOfficialUpload,
        FeedsFacts!GetOfficialUpload, Feeds!GetOwnCard, FeedsFacts!GetOwnCard,
        Feeds!GetPublicUploadCard, FeedsFacts!GetPublicUploadCard,
        Feeds!GetReviewUpload, FeedsFacts!GetReviewUpload, Feeds!Hide,
        FeedsFacts!Hide, Feeds!Idle, FeedsFacts!Idle, Feeds!ImagesOf,
        FeedsFacts!ImagesOf, Feeds!Init, FeedsFacts!Init, Feeds!IsInjective,
        FeedsFacts!IsInjective, Feeds!Keeps, FeedsFacts!Keeps, Feeds!Latest,
        FeedsFacts!Latest, Feeds!ListPublicUploadsByDateLatest,
        FeedsFacts!ListPublicUploadsByDateLatest,
        Feeds!ListPublicUploadsByDateRandom,
        FeedsFacts!ListPublicUploadsByDateRandom,
        Feeds!ListPublicUploadsByKeywordRandom,
        FeedsFacts!ListPublicUploadsByKeywordRandom, Feeds!ListReviewDates,
        FeedsFacts!ListReviewDates, Feeds!ListUploadImages,
        FeedsFacts!ListUploadImages, Feeds!MapThenFoldSet,
        FeedsFacts!MapThenFoldSet, Feeds!Min, FeedsFacts!Min, Feeds!Mine,
        FeedsFacts!Mine, Feeds!Next, FeedsFacts!Next, Feeds!NotFound,
        FeedsFacts!NotFound, Feeds!Official, FeedsFacts!Official, Feeds!OnDay,
        FeedsFacts!OnDay, Feeds!OrderBy, FeedsFacts!OrderBy, Feeds!Public,
        FeedsFacts!Public, Feeds!Publish, FeedsFacts!Publish, Feeds!ReviewDateStats,
        FeedsFacts!ReviewDateStats, Feeds!ReviewDay, FeedsFacts!ReviewDay,
        Feeds!SameSeedSameOrder, FeedsFacts!SameSeedSameOrder, Feeds!Seeds,
        FeedsFacts!Seeds, Feeds!Set, FeedsFacts!Set, Feeds!SumFunction,
        FeedsFacts!SumFunction, Feeds!SumFunctionOnSet, FeedsFacts!SumFunctionOnSet,
        Feeds!Times, FeedsFacts!Times, Feeds!ToSet, FeedsFacts!ToSet, Feeds!TypeOK,
        FeedsFacts!TypeOK, Feeds!Under, FeedsFacts!Under, Feeds!Upload,
        FeedsFacts!Upload, Feeds!Uploads, FeedsFacts!Uploads, Feeds!UserAssumption,
        FeedsFacts!UserAssumption
  <1>9. QED
    BY <1>1, <1>2, <1>3, <1>4, <1>5, <1>6, <1>7, <1>8

(* So are the reviews.                                                     *)
LEMMA ReviewAreRead ==
  /\ Review!DayAssumption <=> ReviewFacts!DayAssumption
  /\ Review!UserAssumption <=> ReviewFacts!UserAssumption
  /\ Review!BoundAssumption <=> ReviewFacts!BoundAssumption
  /\ Review!Init <=> ReviewFacts!Init
  /\ Review!Next <=> ReviewFacts!Next
  /\ Review!TypeOK <=> ReviewFacts!TypeOK
  /\ Review!ReviewAddsUp <=> ReviewFacts!ReviewAddsUp
  /\ Review!ReviewViewsAgree <=> ReviewFacts!ReviewViewsAgree
  /\ Review!CustomStaysPrivate <=> ReviewFacts!CustomStaysPrivate
  <1> USE DEF
        Review!BoundAssumption, ReviewFacts!BoundAssumption, Review!Cardinality,
        ReviewFacts!Cardinality, Review!CountDays, ReviewFacts!CountDays,
        Review!CountImages, ReviewFacts!CountImages, Review!CountMyReviewImageTotal,
        ReviewFacts!CountMyReviewImageTotal, Review!CountMyReviewParticipationDays,
        ReviewFacts!CountMyReviewParticipationDays, Review!CustomStaysPrivate,
        ReviewFacts!CustomStaysPrivate, Review!DayAssumption,
        ReviewFacts!DayAssumption, Review!DaysOf, ReviewFacts!DaysOf,
        Review!FirstOf, ReviewFacts!FirstOf, Review!FoldFunctionOnSet,
        ReviewFacts!FoldFunctionOnSet, Review!GetMyReviewUploadCard,
        ReviewFacts!GetMyReviewUploadCard, Review!GetOfficialUpload,
        ReviewFacts!GetOfficialUpload, Review!GetOwnCard, ReviewFacts!GetOwnCard,
        Review!GetPublicUploadCard, ReviewFacts!GetPublicUploadCard,
        Review!GetReviewUpload, ReviewFacts!GetReviewUpload, Review!Hide,
        ReviewFacts!Hide, Review!Idle, ReviewFacts!Idle, Review!ImagesListed,
        ReviewFacts!ImagesListed, Review!ImagesOf, ReviewFacts!ImagesOf,
        Review!Init, ReviewFacts!Init, Review!Latest, ReviewFacts!Latest,
        Review!ListPublicUploadsByKeywordLatest,
        ReviewFacts!ListPublicUploadsByKeywordLatest, Review!ListReviewDates,
        ReviewFacts!ListReviewDates, Review!ListUploadImages,
        ReviewFacts!ListUploadImages, Review!MapThenFoldSet,
        ReviewFacts!MapThenFoldSet, Review!Min, ReviewFacts!Min, Review!Mine,
        ReviewFacts!Mine, Review!Next, ReviewFacts!Next, Review!NotFound,
        ReviewFacts!NotFound, Review!Official, ReviewFacts!Official, Review!OrderBy,
        ReviewFacts!OrderBy, Review!Public, ReviewFacts!Public, Review!Publish,
        ReviewFacts!Publish, Review!ReviewAddsUp, ReviewFacts!ReviewAddsUp,
        Review!ReviewDateStats, ReviewFacts!ReviewDateStats, Review!ReviewDay,
        ReviewFacts!ReviewDay, Review!ReviewKeywordCounts,
        ReviewFacts!ReviewKeywordCounts, Review!ReviewUploadsByDate,
        ReviewFacts!ReviewUploadsByDate, Review!ReviewUploadsByKeyword,
        ReviewFacts!ReviewUploadsByKeyword, Review!ReviewViewsAgree,
        ReviewFacts!ReviewViewsAgree, Review!Set, ReviewFacts!Set,
        Review!SumFunction, ReviewFacts!SumFunction, Review!SumFunctionOnSet,
        ReviewFacts!SumFunctionOnSet, Review!Times, ReviewFacts!Times, Review!ToSet,
        ReviewFacts!ToSet, Review!TypeOK, ReviewFacts!TypeOK, Review!Under,
        ReviewFacts!Under, Review!Upload, ReviewFacts!Upload, Review!Uploads,
        ReviewFacts!Uploads, Review!UserAssumption, ReviewFacts!UserAssumption
  <1>1. Review!DayAssumption <=> ReviewFacts!DayAssumption
    BY Zenon
  <1>2. Review!UserAssumption <=> ReviewFacts!UserAssumption
    BY Zenon
  <1>3. Review!BoundAssumption <=> ReviewFacts!BoundAssumption
    BY Zenon
  <1>4. Review!Init <=> ReviewFacts!Init
    BY Zenon
  <1>5. Review!Next <=> ReviewFacts!Next
    BY Zenon
  <1>6. Review!TypeOK <=> ReviewFacts!TypeOK
    BY Zenon
  <1>7. Review!ReviewAddsUp <=> ReviewFacts!ReviewAddsUp
    BY Zenon
  <1>8. Review!ReviewViewsAgree <=> ReviewFacts!ReviewViewsAgree
    BY Zenon
  <1>9. Review!CustomStaysPrivate <=> ReviewFacts!CustomStaysPrivate
    BY Zenon
  <1> HIDE DEF
        Review!BoundAssumption, ReviewFacts!BoundAssumption, Review!Cardinality,
        ReviewFacts!Cardinality, Review!CountDays, ReviewFacts!CountDays,
        Review!CountImages, ReviewFacts!CountImages, Review!CountMyReviewImageTotal,
        ReviewFacts!CountMyReviewImageTotal, Review!CountMyReviewParticipationDays,
        ReviewFacts!CountMyReviewParticipationDays, Review!CustomStaysPrivate,
        ReviewFacts!CustomStaysPrivate, Review!DayAssumption,
        ReviewFacts!DayAssumption, Review!DaysOf, ReviewFacts!DaysOf,
        Review!FirstOf, ReviewFacts!FirstOf, Review!FoldFunctionOnSet,
        ReviewFacts!FoldFunctionOnSet, Review!GetMyReviewUploadCard,
        ReviewFacts!GetMyReviewUploadCard, Review!GetOfficialUpload,
        ReviewFacts!GetOfficialUpload, Review!GetOwnCard, ReviewFacts!GetOwnCard,
        Review!GetPublicUploadCard, ReviewFacts!GetPublicUploadCard,
        Review!GetReviewUpload, ReviewFacts!GetReviewUpload, Review!Hide,
        ReviewFacts!Hide, Review!Idle, ReviewFacts!Idle, Review!ImagesListed,
        ReviewFacts!ImagesListed, Review!ImagesOf, ReviewFacts!ImagesOf,
        Review!Init, ReviewFacts!Init, Review!Latest, ReviewFacts!Latest,
        Review!ListPublicUploadsByKeywordLatest,
        ReviewFacts!ListPublicUploadsByKeywordLatest, Review!ListReviewDates,
        ReviewFacts!ListReviewDates, Review!ListUploadImages,
        ReviewFacts!ListUploadImages, Review!MapThenFoldSet,
        ReviewFacts!MapThenFoldSet, Review!Min, ReviewFacts!Min, Review!Mine,
        ReviewFacts!Mine, Review!Next, ReviewFacts!Next, Review!NotFound,
        ReviewFacts!NotFound, Review!Official, ReviewFacts!Official, Review!OrderBy,
        ReviewFacts!OrderBy, Review!Public, ReviewFacts!Public, Review!Publish,
        ReviewFacts!Publish, Review!ReviewAddsUp, ReviewFacts!ReviewAddsUp,
        Review!ReviewDateStats, ReviewFacts!ReviewDateStats, Review!ReviewDay,
        ReviewFacts!ReviewDay, Review!ReviewKeywordCounts,
        ReviewFacts!ReviewKeywordCounts, Review!ReviewUploadsByDate,
        ReviewFacts!ReviewUploadsByDate, Review!ReviewUploadsByKeyword,
        ReviewFacts!ReviewUploadsByKeyword, Review!ReviewViewsAgree,
        ReviewFacts!ReviewViewsAgree, Review!Set, ReviewFacts!Set,
        Review!SumFunction, ReviewFacts!SumFunction, Review!SumFunctionOnSet,
        ReviewFacts!SumFunctionOnSet, Review!Times, ReviewFacts!Times, Review!ToSet,
        ReviewFacts!ToSet, Review!TypeOK, ReviewFacts!TypeOK, Review!Under,
        ReviewFacts!Under, Review!Upload, ReviewFacts!Upload, Review!Uploads,
        ReviewFacts!Uploads, Review!UserAssumption, ReviewFacts!UserAssumption
  <1>10. QED
    BY <1>1, <1>2, <1>3, <1>4, <1>5, <1>6, <1>7, <1>8, <1>9

-----------------------------------------------------------------------------
(* The composition.                                                        *)

PartIs == part \in {"races", "gallery", "cards", "fixed", "changing", "feeds", "review"}

KeywordsInv ==
    /\ PartIs
    /\ part = "races" => CustomInv(Requests, Keywords, MaxUploads, MaxImages)
    /\ part = "gallery" => CustomInv(Requests, {Keyword}, MaxUploads, MaxImages)
    /\ part = "cards" => CustomInv({Slot}, {Keyword}, 3, 2)
    /\ part = "fixed" => DayInv(1..3, -2, 1, FALSE)
    /\ part = "changing" => DayInv(1..2, 0, 1, TRUE)
    /\ part = "feeds" => FeedsFacts!ReadInv
    /\ part = "review" => ReviewFacts!ReadInv

(* The values of the constants are such as the lemmas ask for.             *)
LEMMA KeywordsConstants ==
  /\ CustomConstants(Keywords, MaxUploads, MaxImages)
  /\ CustomConstants({Keyword}, MaxUploads, MaxImages)
  /\ CustomConstants({Keyword}, 3, 2)
  /\ DayConstants(1..3, -2, 1)
  /\ DayConstants(1..2, 0, 1)
  <1>1. \A U, I \in Nat : ImagesOf(U, I) \subseteq Nat \X Nat
    BY DEF ImagesOf
  <1>2. None \notin Keywords \cup (Nat \X Nat) /\ None \notin {Keyword} \cup (Nat \X Nat)
    BY KeywordAssumption, GalleryAssumption DEF Gallery!KeywordAssumption
  <1>3. CustomConstants(Keywords, MaxUploads, MaxImages)
    BY <1>1, <1>2, BoundAssumption DEF CustomConstants
  <1>4. CustomConstants({Keyword}, MaxUploads, MaxImages)
    BY <1>1, <1>2, BoundAssumption DEF CustomConstants
  <1>5. CustomConstants({Keyword}, 3, 2)
    BY <1>1, <1>2 DEF CustomConstants
  <1>6. IsFiniteSet(1..3) /\ IsFiniteSet(1..2)
    <2>1. \A b \in Nat : IsFiniteSet(1..b)
      BY FS_Interval
    <2>2. QED
      BY <2>1
  <1>7. DayConstants(1..3, -2, 1)
    BY <1>6, FixedAssumption DEF Fixed!KeywordAssumption, DayConstants
  <1>8. DayConstants(1..2, 0, 1)
    BY SMTT(30), <1>6, ChangingAssumption DEF Changing!KeywordAssumption, DayConstants
  <1>9. QED
    BY <1>3, <1>4, <1>5, <1>7, <1>8

(* The parts that do not move stay as they are.                            *)
LEMMA CustomKept ==
  ASSUME NEW R, NEW K, NEW U, NEW I, CustomInv(R, K, U, I), UNCHANGED customVars
  PROVE  CustomInv(R, K, U, I)'
  BY DEF customVars, CustomInv, CustomTypes, ReqSound, NotNewer, Shown, PlacesOwn, CoversOwn

(* Whatever the sets of keywords, publications and images are, and whoever  *)
(* asks: a cover was published under its keyword and no newer image should  *)
(* have replaced it, a work goes to a keyword that was active since its     *)
(* commit began, and a deleted keyword is changed by nobody.                *)
THEOREM EveryKeywordIsKept ==
  ASSUME NEW CONSTANT R, NEW CONSTANT K, NEW CONSTANT U, NEW CONSTANT I,
         NEW CONSTANT Lim, NEW CONSTANT Rem, CustomConstants(K, U, I)
  PROVE  Custom(R, K, U, I, Lim, Rem)!Spec =>
           /\ [](/\ Custom(R, K, U, I, Lim, Rem)!CoverOfKeyword
                 /\ Custom(R, K, U, I, Lim, Rem)!PublishedWhileOpen
                 /\ Custom(R, K, U, I, Lim, Rem)!GalleryCoverIsNewest)
           /\ [][Custom(R, K, U, I, Lim, Rem)!DeletedStays]_(Custom(R, K, U, I, Lim, Rem)!vars)
  <1>1. Custom(R, K, U, I, Lim, Rem)!Init => CustomInv(R, K, U, I)
    BY CustomStart
  <1>2. CustomInv(R, K, U, I)
          /\ [Custom(R, K, U, I, Lim, Rem)!Next]_(Custom(R, K, U, I, Lim, Rem)!vars)
          => CustomInv(R, K, U, I)'
    BY CustomStep, CustomKept DEF Custom!vars, customVars
  <1>3. CustomInv(R, K, U, I) =>
          /\ Custom(R, K, U, I, Lim, Rem)!CoverOfKeyword
          /\ Custom(R, K, U, I, Lim, Rem)!PublishedWhileOpen
          /\ Custom(R, K, U, I, Lim, Rem)!GalleryCoverIsNewest
    BY CustomHolds
  <1>4. CustomInv(R, K, U, I)
          /\ [Custom(R, K, U, I, Lim, Rem)!Next]_(Custom(R, K, U, I, Lim, Rem)!vars)
          => [Custom(R, K, U, I, Lim, Rem)!DeletedStays]_(Custom(R, K, U, I, Lim, Rem)!vars)
    BY DeletedIsLeft
  <1>5. QED
    BY <1>1, <1>2, <1>3, <1>4, PTL DEF Custom!Spec

(* And whatever was published and removed, the cards of a keyword are its  *)
(* gallery, cut into at most n uploads.                                    *)
THEOREM EveryGalleryIsCut ==
  ASSUME NEW CONSTANT R, NEW CONSTANT K, NEW CONSTANT U, NEW CONSTANT I,
         NEW CONSTANT Lim, NEW CONSTANT Rem, NEW CONSTANT n \in Nat, CustomConstants(K, U, I)
  PROVE  Custom(R, K, U, I, Lim, Rem)!Spec => []CardsAgree(K, U, I, n)
  <1>1. Custom(R, K, U, I, Lim, Rem)!Init => CustomInv(R, K, U, I)
    BY CustomStart
  <1>2. CustomInv(R, K, U, I)
          /\ [Custom(R, K, U, I, Lim, Rem)!Next]_(Custom(R, K, U, I, Lim, Rem)!vars)
          => CustomInv(R, K, U, I)'
    BY CustomStep, CustomKept DEF Custom!vars, customVars
  <1>3. CustomInv(R, K, U, I) => CardsAgree(K, U, I, n)
    BY CardsAgreeAlways DEF CustomInv, CustomConstants
  <1>4. QED
    BY <1>1, <1>2, <1>3, PTL DEF Custom!Spec

(* The same of the days.                                                   *)
LEMMA DayKept ==
  ASSUME NEW K, NEW F, NEW L, NEW C, DayInv(K, F, L, C), UNCHANGED dailyVars
  PROVE  DayInv(K, F, L, C)'
  BY DEF dailyVars, DayInv, DayTypes, TurnsKept

(* Whatever the keywords and the dates are, all requests for a date get one *)
(* keyword, keywords take turns while they stay, and an assignment is       *)
(* overwritten only by a request that had found none                        *)
(* (EnsureDailyKeywordAssignment).                                          *)
THEOREM EveryDayHasItsKeyword ==
  ASSUME NEW CONSTANT K, NEW CONSTANT F, NEW CONSTANT L, NEW CONSTANT C,
         DayConstants(K, F, L)
  PROVE  Day(K, F, L, C)!Spec =>
           /\ [](Day(K, F, L, C)!OneKeywordPerDay /\ Day(K, F, L, C)!RotationFair)
           /\ [][Day(K, F, L, C)!AssignmentSettles]_(Day(K, F, L, C)!vars)
  <1>1. Day(K, F, L, C)!Init => DayInv(K, F, L, C)
    BY DayInit
  <1>2. DayInv(K, F, L, C) /\ [Day(K, F, L, C)!Next]_(Day(K, F, L, C)!vars)
          => DayInv(K, F, L, C)'
    BY DayStep, DayKept DEF Day!vars, dailyVars
  <1>3. DayInv(K, F, L, C) =>
          Day(K, F, L, C)!OneKeywordPerDay /\ Day(K, F, L, C)!RotationFair
    BY DayFair
  <1>4. DayInv(K, F, L, C) /\ [Day(K, F, L, C)!Next]_(Day(K, F, L, C)!vars)
          => [Day(K, F, L, C)!AssignmentSettles]_(Day(K, F, L, C)!vars)
    BY DaySettles
  <1>5. QED
    BY <1>1, <1>2, <1>3, <1>4, PTL DEF Day!Spec

(* Each part begins in order.                                              *)
LEMMA KeywordsInitInv == KeywordsInit => KeywordsInv
  <1> SUFFICES ASSUME KeywordsInit PROVE KeywordsInv
    OBVIOUS
  <1>1. part = "races" => CustomInv(Requests, Keywords, MaxUploads, MaxImages)
    BY KeywordsConstants, RacesAreCustom, CustomStart DEF KeywordsInit
  <1>2. part = "gallery" => CustomInv(Requests, {Keyword}, MaxUploads, MaxImages)
    BY KeywordsConstants, GalleryIsCustom, CustomStart DEF KeywordsInit
  <1>3. part = "cards" => CustomInv({Slot}, {Keyword}, 3, 2)
    BY KeywordsConstants, CardsAreCustom, CustomStart DEF KeywordsInit
  <1>4. part = "fixed" => DayInv(1..3, -2, 1, FALSE)
    BY KeywordsConstants, FixedIsDay, DayInit DEF KeywordsInit
  <1>5. part = "changing" => DayInv(1..2, 0, 1, TRUE)
    BY KeywordsConstants, ChangingIsDay, DayInit DEF KeywordsInit
  <1>6. part = "feeds" => FeedsFacts!ReadInv
    BY FeedsAreRead, FeedsAssumption, FeedsFacts!ReadInit DEF KeywordsInit
  <1>7. part = "review" => ReviewFacts!ReadInv
    BY ReviewAreRead, ReviewAssumption, ReviewFacts!ReadInit DEF KeywordsInit
  <1>8. PartIs
    BY DEF KeywordsInit, PartIs
  <1>9. QED
    BY <1>1, <1>2, <1>3, <1>4, <1>5, <1>6, <1>7, <1>8 DEF KeywordsInv

(* A step moves one of them, and keeps it so.                              *)
LEMMA KeywordsStepInv ==
  KeywordsInv /\ [KeywordsNext]_<<part, customVars, dailyVars, readVars>> => KeywordsInv'
  <1> SUFFICES ASSUME KeywordsInv, [KeywordsNext]_<<part, customVars, dailyVars, readVars>>
               PROVE  KeywordsInv'
    OBVIOUS
  <1>1. /\ part' = part
        /\ \/ UNCHANGED customVars
           \/ part = "races" /\ Next
           \/ part = "gallery" /\ Gallery!Next
           \/ part = "cards" /\ Cards!Next
        /\ \/ UNCHANGED dailyVars
           \/ part = "fixed" /\ Fixed!Next
           \/ part = "changing" /\ Changing!Next
        /\ \/ UNCHANGED readVars
           \/ part = "feeds" /\ Feeds!Next
           \/ part = "review" /\ Review!Next
    BY DEF KeywordsNext
  <1>2. part = "races" => CustomInv(Requests, Keywords, MaxUploads, MaxImages)'
    BY <1>1, KeywordsConstants, RacesAreCustom, CustomStep, CustomKept DEF KeywordsInv
  <1>3. part = "gallery" => CustomInv(Requests, {Keyword}, MaxUploads, MaxImages)'
    BY <1>1, KeywordsConstants, GalleryIsCustom, CustomStep, CustomKept DEF KeywordsInv
  <1>4. part = "cards" => CustomInv({Slot}, {Keyword}, 3, 2)'
    BY <1>1, KeywordsConstants, CardsAreCustom, CustomStep, CustomKept DEF KeywordsInv
  <1>5. part = "fixed" => DayInv(1..3, -2, 1, FALSE)'
    BY <1>1, KeywordsConstants, FixedIsDay, DayStep, DayKept DEF KeywordsInv
  <1>6. part = "changing" => DayInv(1..2, 0, 1, TRUE)'
    BY <1>1, KeywordsConstants, ChangingIsDay, DayStep, DayKept DEF KeywordsInv
  <1>7. part = "feeds" => FeedsFacts!ReadInv'
    <2> SUFFICES ASSUME part = "feeds" PROVE FeedsFacts!ReadInv'
      OBVIOUS
    <2>1. [FeedsFacts!Next]_(FeedsFacts!vars) /\ FeedsFacts!ReadInv
      BY <1>1, FeedsAreRead DEF KeywordsInv, readVars, FeedsFacts!vars
    <2>2. QED
      BY <2>1, FeedsAreRead, FeedsAssumption, FeedsFacts!ReadStep
  <1>8. part = "review" => ReviewFacts!ReadInv'
    <2> SUFFICES ASSUME part = "review" PROVE ReviewFacts!ReadInv'
      OBVIOUS
    <2>1. [ReviewFacts!Next]_(ReviewFacts!vars) /\ ReviewFacts!ReadInv
      BY <1>1, ReviewAreRead DEF KeywordsInv, readVars, ReviewFacts!vars
    <2>2. QED
      BY <2>1, ReviewAreRead, ReviewAssumption, ReviewFacts!ReadStep
  <1>9. PartIs'
    BY <1>1 DEF KeywordsInv, PartIs
  <1>10. QED
    BY <1>1, <1>2, <1>3, <1>4, <1>5, <1>6, <1>7, <1>8, <1>9 DEF KeywordsInv

(* Keywords and what is shown under them are in order in every reachable   *)
(* state.                                                                  *)
THEOREM KeywordsHold == KeywordsSpec => []KeywordsInv
  BY KeywordsInitInv, KeywordsStepInv, PTL DEF KeywordsSpec

(* All requests that race for a date get one keyword for it, and keywords  *)
(* take turns; when keywords change, an assignment is overwritten only by  *)
(* a request that had found none.                                          *)
THEOREM DatesKeepTheirKeyword == KeywordsSpec => DateKeepsKeyword
  <1>1. KeywordsInv => (part = "fixed" => Fixed!OneKeywordPerDay /\ Fixed!RotationFair)
    BY KeywordsConstants, DayFair, FixedIsDay DEF KeywordsInv
  <1>2. KeywordsInv /\ [KeywordsNext]_<<part, customVars, dailyVars, readVars>>
          => [part = "changing" => Changing!AssignmentSettles]_dailyVars
    <2> SUFFICES ASSUME KeywordsInv, part = "changing", dailyVars' # dailyVars,
                        [KeywordsNext]_<<part, customVars, dailyVars, readVars>>
                 PROVE  Changing!AssignmentSettles
      OBVIOUS
    <2>1. Changing!Next /\ DayInv(1..2, 0, 1, TRUE)
      BY DEF KeywordsNext, KeywordsInv
    <2>2. QED
      BY <2>1, ChangingIsDay, DaySettles
  <1>3. QED
    BY <1>1, <1>2, KeywordsHold, PTL DEF KeywordsSpec, DateKeepsKeyword

(* A cover is always an image of its keyword and none that a newer one     *)
(* should have replaced, a work goes to a keyword that was active since    *)
(* the commit began, and no step changes a deleted keyword.                *)
THEOREM KeywordsAreKept == KeywordsSpec => KeywordKept
  <1> DEFINE Kept ==
        CASE part = "races" -> CoverOfKeyword /\ GalleryCoverIsNewest /\ PublishedWhileOpen
          [] part = "gallery" -> /\ Gallery!CoverOfKeyword /\ Gallery!GalleryCoverIsNewest
                                 /\ Gallery!PublishedWhileOpen
          [] part = "cards" -> /\ Cards!CoverOfKeyword /\ Cards!GalleryCoverIsNewest
                               /\ Cards!PublishedWhileOpen
          [] OTHER -> TRUE
  <1>1. KeywordsInv => Kept
    <2> SUFFICES ASSUME KeywordsInv PROVE Kept
      OBVIOUS
    <2>1. part = "races" => CoverOfKeyword /\ GalleryCoverIsNewest /\ PublishedWhileOpen
      BY KeywordsConstants, RacesAreCustom, CustomHolds DEF KeywordsInv
    <2>2. part = "gallery" => /\ Gallery!CoverOfKeyword /\ Gallery!GalleryCoverIsNewest
                              /\ Gallery!PublishedWhileOpen
      BY KeywordsConstants, GalleryIsCustom, CustomHolds DEF KeywordsInv
    <2>3. part = "cards" => /\ Cards!CoverOfKeyword /\ Cards!GalleryCoverIsNewest
                            /\ Cards!PublishedWhileOpen
      BY KeywordsConstants, CardsAreCustom, CustomHolds DEF KeywordsInv
    <2>4. QED
      BY <2>1, <2>2, <2>3
  <1>2. KeywordsInv /\ [KeywordsNext]_<<part, customVars, dailyVars, readVars>>
          => [part = "races" => DeletedStays]_customVars
    <2> SUFFICES ASSUME KeywordsInv, part = "races", customVars' # customVars,
                        [KeywordsNext]_<<part, customVars, dailyVars, readVars>>
                 PROVE  DeletedStays
      OBVIOUS
    <2>1. Next /\ CustomInv(Requests, Keywords, MaxUploads, MaxImages)
      BY DEF KeywordsNext, KeywordsInv
    <2>2. QED
      BY <2>1, RacesAreCustom, DeletedIsLeft
  <1>3. QED
    BY <1>1, <1>2, KeywordsHold, PTL DEF KeywordsSpec, KeywordKept

(* Feeds are complete and show nothing twice, and a seed that comes back   *)
(* gives the order it gave before, whatever is published meanwhile.        *)
THEOREM FeedsAreSteady == KeywordsSpec => FeedsSteady
  <1>1. KeywordsInv => (part = "feeds" => Feeds!FeedsAreComplete)
    <2> SUFFICES ASSUME KeywordsInv, part = "feeds" PROVE Feeds!FeedsAreComplete
      OBVIOUS
    <2>1. FeedsFacts!TypeOK
      BY FeedsFacts!InvIsTyped DEF KeywordsInv
    <2>2. QED
      BY <2>1, FeedsAreRead, FeedsAssumption, FeedsFacts!FeedsComplete
  <1>2. KeywordsInv /\ [KeywordsNext]_<<part, customVars, dailyVars, readVars>>
          => [part = "feeds" => Feeds!SameSeedSameOrder]_readVars
    <2> SUFFICES ASSUME KeywordsInv, part = "feeds", readVars' # readVars,
                        [KeywordsNext]_<<part, customVars, dailyVars, readVars>>
                 PROVE  Feeds!SameSeedSameOrder
      OBVIOUS
    <2>1. [FeedsFacts!Next]_(FeedsFacts!vars) /\ FeedsFacts!ReadInv
      BY FeedsAreRead DEF KeywordsNext, KeywordsInv
    <2>2. QED
      BY <2>1, FeedsAreRead, FeedsAssumption, FeedsFacts!SeedStep
  <1>3. QED
    BY <1>1, <1>2, KeywordsHold, PTL DEF KeywordsSpec, FeedsSteady

(* The parts of a review that are read one after the other agree, and      *)
(* neither a feed nor a detail shows to others what is private.            *)
THEOREM ReviewsAgree == KeywordsSpec => []ReviewAgrees
  <1>1. KeywordsInv => ReviewAgrees
    <2> SUFFICES ASSUME KeywordsInv, part = "review"
                 PROVE  Review!ReviewAddsUp /\ Review!ReviewViewsAgree
                          /\ Review!CustomStaysPrivate
      BY DEF ReviewAgrees
    <2>1. ReviewFacts!ReadInv
      BY DEF KeywordsInv
    <2>2. QED
      BY <2>1, ReviewAreRead, ReviewAssumption, ReviewFacts!ReviewHolds
  <1>2. QED
    BY <1>1, KeywordsHold, PTL

(* Keywords, dates, feeds and requests keep their types in every part.     *)
THEOREM KeywordsTyped == KeywordsSpec => []TypesOK
  <1>1. KeywordsInv => TypesOK
    <2> SUFFICES ASSUME KeywordsInv PROVE TypesOK
      OBVIOUS
    <2> USE DEF CustomInv, CustomTypes, KeywordRows, Reqs, Steps, Operations, ImagesOf, CoversOwn
    <2>1. part = "races" => TypeOK
      BY DEF KeywordsInv, TypeOK, Times, Images, KeywordRow
    <2>2. part = "gallery" => Gallery!TypeOK
      BY DEF KeywordsInv, Gallery!TypeOK, Gallery!Times, Gallery!Images, Gallery!KeywordRow
    <2>3. part = "cards" => Cards!TypeOK
      BY DEF KeywordsInv, Cards!TypeOK, Cards!Times, Cards!Images, Cards!KeywordRow
    <2>4. part = "fixed" => Fixed!TypeOK
      BY DEF KeywordsInv, Fixed!TypeOK, Fixed!Days, DayInv, DayTypes, AskSound, Asks,
         DaySessions
    <2>5. part = "changing" => Changing!TypeOK
      BY DEF KeywordsInv, Changing!TypeOK, Changing!Days, DayInv, DayTypes, AskSound, Asks,
         DaySessions
    <2>6. part = "feeds" => Feeds!TypeOK
      BY FeedsAreRead, FeedsFacts!InvIsTyped DEF KeywordsInv
    <2>7. part = "review" => Review!TypeOK
      BY ReviewAreRead, ReviewFacts!InvIsTyped DEF KeywordsInv
    <2>8. PartIs
      BY DEF KeywordsInv
    <2>9. QED
      BY <2>1, <2>2, <2>3, <2>4, <2>5, <2>6, <2>7, <2>8 DEF TypesOK, PartIs
  <1>2. QED
    BY <1>1, KeywordsHold, PTL

(* The cards of a keyword are its gallery, cut into uploads, whatever was  *)
(* published and removed before (ListImages, ListUploads).                 *)
THEOREM GalleriesAgree == KeywordsSpec => []GalleryAgrees
  <1> DEFINE limit == ClampLimit(5, MaxLimit, MaxLimit)
  <1>1. limit \in Nat
    BY BoundAssumption DEF ClampLimit
  <1>2. MaxUploads \in Nat /\ MaxImages \in Nat
    BY BoundAssumption
  <1> HIDE DEF limit
  <1>3. KeywordsInv /\ part = "gallery" => GalleryCards!CardsAreTheGallery
    <2> SUFFICES ASSUME KeywordsInv, part = "gallery" PROVE GalleryCards!CardsAreTheGallery
      OBVIOUS
    <2>1. CustomTypes(Requests, {Keyword}, MaxUploads, MaxImages)
      BY DEF KeywordsInv, CustomInv
    <2>2. CardsAgree({Keyword}, MaxUploads, MaxImages, limit)
      BY <1>1, <1>2, <2>1, CardsAgreeAlways
    <2>3. QED
      BY <2>2, GalleryCardsAgree DEF limit
  <1>4. KeywordsInv /\ part = "cards" => ThreeCards!CardsAreTheGallery
    <2> SUFFICES ASSUME KeywordsInv, part = "cards" PROVE ThreeCards!CardsAreTheGallery
      OBVIOUS
    <2>1. CustomTypes({Slot}, {Keyword}, 3, 2)
      BY DEF KeywordsInv, CustomInv
    <2>2. CardsAgree({Keyword}, 3, 2, limit)
      BY <1>1, <2>1, CardsAgreeAlways
    <2>3. QED
      BY <2>2, ThreeCardsAgree DEF limit
  <1>5. KeywordsInv => GalleryAgrees
    BY <1>3, <1>4 DEF GalleryAgrees
  <1>6. QED
    BY <1>5, KeywordsHold, PTL

=============================================================================
