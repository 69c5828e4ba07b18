------------------------------ MODULE MCServing ------------------------------
(* What serves requests: the process that opens and closes what they use    *)
(* (Server), the chain of middlewares and handlers that each goes through   *)
(* (HttpApi), and the buckets of the rate limiter (RateLimit).  They share  *)
(* no state, so one behaviour moves one of them and leaves the others where *)
(* they began: all behaviours of each part are explored, side by side.      *)
EXTENDS Server, TLC

CONSTANTS
    Slots, Clients, Limiters, Rate, Burst, EntryTTL, MaxStall, MaxTime,
    Intents, Users, MaxTries, NoValue

VARIABLES
    part,                                           \* the part that moves
    now, clients, lastCleanup, bucket, limited, fair,
    intent, valid, sent, created

Bucket == INSTANCE RateLimit WITH Requests <- Slots, req <- limited, None <- NoValue
Api == INSTANCE HttpApi WITH req <- sent, None <- NoValue

ASSUME BucketAssumption == /\ Bucket!LimitAssumption /\ Bucket!LimiterAssumption
                           /\ Bucket!TTLAssumption /\ Bucket!TimeAssumption
ASSUME ApiAssumption == Api!TriesAssumption /\ Api!NoneAssumption

-----------------------------------------------------------------------------
bucketVars == <<now, clients, lastCleanup, bucket, limited, fair>>
apiVars == <<intent, valid, sent, created>>
servingVars == <<part, vars, bucketVars, apiVars>>

ServingInit ==
    /\ Init /\ Bucket!Init /\ Api!Init
    /\ part \in {"process", "buckets", "api"}
    /\ part # "api" => valid = {}

ServingNext ==
    /\ UNCHANGED part
    /\ \/ part = "process" /\ Next /\ UNCHANGED <<bucketVars, apiVars>>
       \/ part = "buckets" /\ Bucket!Next /\ UNCHANGED <<vars, apiVars>>
       \/ part = "api" /\ Api!Next /\ UNCHANGED <<vars, bucketVars>>

ServingSpec == ServingInit /\ [][ServingNext]_servingVars

Symmetry == Permutations(Slots) \cup Permutations(Clients)

-----------------------------------------------------------------------------
TypesOK ==
    CASE part = "process" -> TypeOK
      [] part = "buckets" -> Bucket!TypeOK
      [] part = "api" -> Api!TypeOK

(* The limiter gives a client what one bucket of its own would, neither     *)
(* more nor less, however entries are dropped and clocks are read           *)
(* (limiterStore.get), and idle entries go.                                 *)
OwnBucket == []Bucket!NeverLooser /\ Bucket!NeverStricter /\ Bucket!IdleEntriesGo

(* The middlewares agree on who is refused: who is refused is not served, a *)
(* token that was valid when it was read suffices, and a stale one does no  *)
(* harm where none is needed (AuthOptional, authFunc, response.Write).      *)
RefusalsAgree ==
    Api!RefusedIsNotServed /\ Api!ValidTokenSuffices /\ Api!StaleTokenDoesNotHurt
=============================================================================
