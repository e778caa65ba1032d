----------------------------- MODULE RankingLocal -----------------------------
(***************************************************************************)
(* cmd/ranking: the local cache of one node, in front of the ranking in    *)
(* Redis.  Its three values (list, deadline, hash of the ids) are three    *)
(* atomics, each stored on its own, by several writers at once: the node's *)
(* own run of the ranking job, fetches from Redis (the refresh job, and    *)
(* queries that found the cache expired), and the consumer of the events   *)
(* that other nodes send.  What the other nodes do is external.            *)
(*                                                                         *)
(* A list is the number of the ranking and its form: the job stores all of *)
(* it, Redis gives out the first hundred.  Equal hashes are equal lists.   *)
(***************************************************************************)
EXTENDS Integers

CONSTANTS
    Fetchers,    \* bound: fetches from Redis at the same time
    MaxWorld,    \* bound: rankings
    MaxOutside   \* bound: changes of Redis and events by other nodes

ASSUME FetchersAssumption == Fetchers \intersect {"job", "event"} = {}
ASSUME MaxWorldAssumption == MaxWorld \in Nat \ {0}
ASSUME MaxOutsideAssumption == MaxOutside \in Nat

VARIABLES
    world,    \* the ranking the articles have now
    redis,    \* the ranking in Redis, 0 if there is none
    topN,     \* local: the list
    fresh,    \* local: the deadline ddl is not over
    hash,     \* local: the hash, as the list it was computed from
    writer,   \* what each writer is about to store
    cooling,  \* the consumer updated the cache less than ten seconds ago
    outside   \* what other nodes have done so far

local == <<topN, fresh, hash>>
vars == <<world, redis, topN, fresh, hash, writer, cooling, outside>>

Rankings == 1..MaxWorld
List == Rankings \X {"all", "top"}
NoList == <<0, "none">>
Writers == Fetchers \union {"job", "event"}
Resting == [at |-> "idle", list |-> NoList]

Init ==
    /\ world = 1
    /\ redis \in {0, 1}
    /\ topN = NoList /\ fresh = FALSE /\ hash = NoList
    /\ writer = [w \in Writers |-> Resting]
    /\ cooling = FALSE
    /\ outside = 0

Start(w, at, l) ==
    /\ writer[w] = Resting
    /\ writer' = [writer EXCEPT ![w] = [at |-> at, list |-> l]]

\* After the local cache, the job goes on to Redis.
AfterSet(w) ==
    writer' = [writer EXCEPT ![w] = IF w = "job" THEN [@ EXCEPT !.at = "redis"] ELSE Resting]

-----------------------------------------------------------------------------
(* Who writes.                                                             *)

\* ReplaceTopN, with a ranking just computed.
StartJob ==
    /\ Start("job", "set", <<world, "all">>)
    /\ UNCHANGED <<world, redis, local, cooling, outside>>

\* RefreshLocalCache, or GetTopN after the deadline: Redis is read.  An empty
\* answer is refused by Set, an error ends the call.
StartFetch(f) ==
    /\ redis # 0
    /\ Start(f, "set", <<redis, "top">>)
    /\ UNCHANGED <<world, redis, local, cooling, outside>>

\* Consume, for an event of another node, late or not; in the ten seconds
\* after an update an event is dropped, which changes nothing.
StartEvent(l) ==
    /\ outside < MaxOutside /\ outside' = outside + 1
    /\ ~cooling
    /\ l[1] <= world
    /\ Start("event", "ddl", l)
    /\ UNCHANGED <<world, redis, local, cooling>>

-----------------------------------------------------------------------------
(* RankingLocalCache.Set and UpdateFromMessage.                            *)

\* Mutant: an equal hash renews the deadline.
CompareHashRenews(w) ==
    /\ writer[w].at = "set"
    /\ IF hash = writer[w].list THEN AfterSet(w) /\ fresh' = TRUE
       ELSE writer' = [writer EXCEPT ![w].at = "ddl"] /\ fresh' = fresh
    /\ UNCHANGED <<world, redis, topN, hash, cooling, outside>>

\* Set stores nothing when the hash is that of the list.
CompareHash(w) ==
    /\ writer[w].at = "set"
    /\ IF hash = writer[w].list THEN AfterSet(w)
       ELSE writer' = [writer EXCEPT ![w].at = "ddl"]
    /\ UNCHANGED <<world, redis, local, cooling, outside>>

StoreDdl(w) ==
    /\ writer[w].at = "ddl"
    /\ fresh' = TRUE
    /\ writer' = [writer EXCEPT ![w].at = "topN"]
    /\ UNCHANGED <<world, redis, topN, hash, cooling, outside>>

StoreTopN(w) ==
    /\ writer[w].at = "topN"
    /\ topN' = writer[w].list
    /\ writer' = [writer EXCEPT ![w].at = "hash"]
    /\ UNCHANGED <<world, redis, fresh, hash, cooling, outside>>

\* Set then sends an event, which this node's consumer skips.
StoreHash(w) ==
    /\ writer[w].at = "hash"
    /\ hash' = writer[w].list
    /\ AfterSet(w)
    /\ cooling' = (cooling \/ w = "event")
    /\ UNCHANGED <<world, redis, topN, fresh, outside>>

\* The job's own write of Redis, or its failure.
StoreRedis ==
    /\ writer["job"].at = "redis"
    /\ redis' \in {redis, writer["job"].list[1]}
    /\ writer' = [writer EXCEPT !["job"] = Resting]
    /\ UNCHANGED <<world, local, cooling, outside>>

-----------------------------------------------------------------------------
(* Time and the rest of the world.                                         *)

DdlPasses ==
    /\ fresh
    /\ fresh' = FALSE
    /\ UNCHANGED <<world, redis, topN, hash, writer, cooling, outside>>

CooldownEnds ==
    /\ cooling
    /\ cooling' = FALSE
    /\ UNCHANGED <<world, redis, local, writer, outside>>

WorldChanges ==
    /\ world < MaxWorld
    /\ world' = world + 1
    /\ UNCHANGED <<redis, local, writer, cooling, outside>>

\* Another node writes a ranking, an old one if it lost its lease, or the key
\* expires.
RedisChanges ==
    /\ outside < MaxOutside /\ outside' = outside + 1
    /\ redis' \in 0..world
    /\ UNCHANGED <<world, local, writer, cooling>>

Write(w) == CompareHash(w) \/ StoreDdl(w) \/ StoreTopN(w) \/ StoreHash(w)

Next ==
    \/ StartJob \/ (\E f \in Fetchers : StartFetch(f)) \/ (\E l \in List : StartEvent(l))
    \/ (\E w \in Writers : Write(w)) \/ StoreRedis
    \/ DdlPasses \/ CooldownEnds \/ WorldChanges \/ RedisChanges

Spec == Init /\ [][Next]_vars

\* A writer that has begun goes on, and the deadline passes.
FairSpec ==
    /\ Spec
    /\ \A w \in Writers : WF_vars(Write(w))
    /\ WF_vars(StoreRedis)
    /\ WF_vars(DdlPasses)

-----------------------------------------------------------------------------
(* Properties.                                                             *)

\* GetTopN: the local list until its deadline, then the ranking of Redis.
Served == IF topN # NoList /\ fresh THEN topN[1] ELSE redis

\* Once Redis has the current ranking for good (RankingJob!RankingConverges),
\* a node serves it for good, even when writers that crossed left the hash of
\* one list beside another list: an equal hash must not renew the deadline of
\* a list it does not describe.
ServedConverges == <>[](redis = world) => <>[](Served = world)
================================================================================
