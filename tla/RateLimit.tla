------------------------------ MODULE RateLimit ------------------------------
(***************************************************************************)
(* The rate limit of the HTTP server: a token bucket per client in a map,  *)
(* whose entries are dropped when they have not been used for EntryTTL.    *)
(* A request reads the clock, takes its limiter under the mutex, and asks  *)
(* it for a token outside; others come in between.                         *)
(***************************************************************************)
EXTENDS Naturals, FiniteSets

CONSTANTS
    Requests,   \* slots for the requests in progress
    Clients,    \* keys: client addresses
    Limiters,   \* limiters that may exist at a time, unreachable ones included
    Rate,       \* RPS: tokens for each unit of time
    Burst,
    EntryTTL,
    MaxStall,   \* how long a request may take from reading the clock to its token
    MaxTime,    \* bound on the time
    None

LimitAssumption == Rate \in Nat \ {0} /\ Burst \in Nat \ {0}
(* There is always a limiter to allocate.                                  *)
LimiterAssumption == /\ IsFiniteSet(Clients) /\ IsFiniteSet(Requests) /\ IsFiniteSet(Limiters)
                     /\ Cardinality(Limiters) > Cardinality(Clients) + Cardinality(Requests)
                     /\ None \notin Limiters
(* A bucket that is dropped would be full by now, even if lastSeen is old: *)
(* two requests read the clock MaxStall apart, the later one comes to the  *)
(* mutex first, and takes its token MaxStall after the other wrote its     *)
(* lastSeen.  NewRouter leaves EntryTTL at ten minutes, so this allows     *)
(* every burst up to some six hundred times RPS.                           *)
TTLAssumption == /\ EntryTTL \in Nat /\ MaxStall \in Nat /\ EntryTTL > 2 * MaxStall
                 /\ Rate * (EntryTTL + 1 - 2 * MaxStall) >= Burst
TimeAssumption == MaxTime \in Nat /\ MaxTime > EntryTTL

VARIABLES
    now,
    clients,      \* the map: the limiter of a client and lastSeen
    lastCleanup,
    bucket,       \* the tokens of a limiter
    req,          \* the requests in progress
    fair          \* what a bucket that is never dropped would hold

vars == <<now, clients, lastCleanup, bucket, req, fair>>

NoEntry == [limiter |-> None, lastSeen |-> 0]
Idle == [pc |-> "idle", client |-> None, clock |-> 0, limiter |-> None]

TypeOK ==
    /\ now \in 0..MaxTime
    /\ clients \in [Clients -> [limiter : Limiters \cup {None}, lastSeen : 0..MaxTime]]
    /\ lastCleanup \in 0..MaxTime
    /\ bucket \in [Limiters -> 0..Burst]
    /\ req \in [Requests -> [pc : {"idle", "get", "allow"}, client : Clients \cup {None},
                             clock : 0..MaxTime, limiter : Limiters \cup {None}]]
    /\ \A r \in Requests : req[r].pc = "allow" => req[r].limiter # None
    /\ \A c, d \in Clients : clients[c].limiter = clients[d].limiter
                                => c = d \/ clients[c].limiter = None

Init ==
    /\ now = EntryTTL + 1       \* lastCleanup is the zero time, long ago
    /\ clients = [c \in Clients |-> NoEntry]
    /\ lastCleanup = 0
    /\ bucket = [l \in Limiters |-> 0]
    /\ req = [r \in Requests |-> Idle]
    /\ fair = [c \in Clients |-> Burst]

(* The key: ClientIP, and "unknown" when there is none.                    *)
RateLimit(r, c) ==
    /\ req[r].pc = "idle"
    /\ req' = [req EXCEPT ![r] = [Idle EXCEPT !.pc = "get", !.client = c, !.clock = now]]
    /\ UNCHANGED <<now, clients, lastCleanup, bucket, fair>>

Unreachable(l) == /\ \A c \in Clients : clients[c].limiter # l
                  /\ \A r \in Requests : req[r].limiter # l

(* A plausible bug: lastSeen is when the entry was made. *)
SeenFirst(c, clock) ==
    IF clients[c].limiter = None
    THEN [limiter |-> CHOOSE l \in Limiters : Unreachable(l), lastSeen |-> clock]
    ELSE clients[c]

(* A plausible bug: clients share a limiter. *)
SeenShared(c, clock) ==
    [limiter |-> CHOOSE l \in Limiters : TRUE, lastSeen |-> clock]

(* The entry of a client after a request: rate.NewLimiter starts full.     *)
Seen(c, clock) ==
    [limiter |-> IF clients[c].limiter = None
                 THEN CHOOSE l \in Limiters : Unreachable(l)
                 ELSE clients[c].limiter,
     lastSeen |-> clock]

Older(a, b) == IF b > a THEN b - a ELSE 0   \* for "> ttl" a negative difference is as good as 0

Cleaned(entries, clock) ==
    IF Older(lastCleanup, clock) > EntryTTL
    THEN [c \in Clients |-> IF Older(entries[c].lastSeen, clock) > EntryTTL
                            THEN NoEntry ELSE entries[c]]
    ELSE entries

(* A plausible bug: every request puts the next cleanup off. *)
CleanedAtRequest(clock) == clock

CleanedAt(clock) == IF Older(lastCleanup, clock) > EntryTTL THEN clock ELSE lastCleanup

Get(r) ==
    /\ req[r].pc = "get"
    /\ LET c == req[r].client
           entry == Seen(c, req[r].clock)
       IN  /\ clients' = Cleaned([clients EXCEPT ![c] = entry], req[r].clock)
           /\ bucket' = IF entry.limiter = clients[c].limiter THEN bucket
                        ELSE [bucket EXCEPT ![entry.limiter] = Burst]
           /\ req' = [req EXCEPT ![r].pc = "allow", ![r].limiter = entry.limiter]
    /\ lastCleanup' = CleanedAt(req[r].clock)
    /\ UNCHANGED <<now, fair>>

(* Limiter.Allow takes a token if there is one.                            *)
Allow(r) ==
    /\ req[r].pc = "allow"
    /\ bucket[req[r].limiter] > 0
    /\ bucket' = [bucket EXCEPT ![req[r].limiter] = @ - 1]
    /\ fair' = [fair EXCEPT ![req[r].client] = @ - 1]
    /\ req' = [req EXCEPT ![r] = Idle]
    /\ UNCHANGED <<now, clients, lastCleanup>>

(* 429                                                                     *)
TooManyRequests(r) ==
    /\ req[r].pc = "allow"
    /\ bucket[req[r].limiter] = 0
    /\ req' = [req EXCEPT ![r] = Idle]
    /\ UNCHANGED <<now, clients, lastCleanup, bucket, fair>>

Refilled(tokens) == IF tokens + Rate > Burst THEN Burst ELSE tokens + Rate

Tick ==
    /\ now < MaxTime
    /\ \A r \in Requests : req[r].pc # "idle" => now - req[r].clock < MaxStall
    /\ now' = now + 1
    /\ bucket' = [l \in Limiters |-> IF Unreachable(l) THEN 0 ELSE Refilled(bucket[l])]
    /\ fair' = [c \in Clients |-> Refilled(fair[c])]
    /\ UNCHANGED <<clients, lastCleanup, req>>

Next ==
    \/ \E r \in Requests :
          \/ \E c \in Clients : RateLimit(r, c)
          \/ Get(r) \/ Allow(r) \/ TooManyRequests(r)
    \/ Tick

Spec == Init /\ [][Next]_vars

-----------------------------------------------------------------------------
(* Dropping entries never lets a client have more than a bucket of its own *)
(* that is never dropped, though lastSeen may be older than the last use:  *)
(* the clock is read before the mutex is waited for (limiterStore.get).    *)
NeverLooser == \A c \in Clients : fair[c] \in 0..Burst

(* Nor less: a request is refused only when that bucket is empty, so what  *)
(* other clients do, and the cleanup, cost a client nothing.               *)
NeverStricter ==
    [][\A r \in Requests :
         (req[r].pc = "allow" /\ req'[r].pc = "idle" /\ fair' = fair)
            => fair[req[r].client] = 0]_vars

(* The map does not grow with the clients of the past: what has not been   *)
(* used for two times EntryTTL is gone after the next request of anybody,  *)
(* however busy the server is (limiterStore.get).                          *)
IdleEntriesGo ==
    [][\A r \in Requests :
         (req[r].pc = "get" /\ req'[r].pc = "allow") =>
            \A c \in Clients : clients'[c].limiter # None
                => Older(clients'[c].lastSeen, req[r].clock) <= 2 * EntryTTL]_vars
=============================================================================
