------------------------------ MODULE Interactive ------------------------------
(***************************************************************************)
(* The counters of one resource in the interactive service: the row of     *)
(* interactives with the like and collection records behind it, the hash   *)
(* Redis keeps for 15 minutes in front of it, the calls of the service's   *)
(* gRPC interface, and InteractiveReadEventConsumer, the Handler ("sync")  *)
(* of pkg/saramax that counts the read events.                             *)
(*                                                                         *)
(* Every write is a transaction and then, as a step of its own, a script   *)
(* that adds to the hash if it is there.  Get answers from the hash, and   *)
(* otherwise from the row, with a goroutine that writes the hash and then  *)
(* sets its time to live.                                                  *)
(***************************************************************************)
EXTENDS SaramaSession, FiniteSets

CONSTANTS
    Users,      \* users that like and collect the resource
    Calls,      \* bound: calls (with the goroutine of a Get) in progress at once
    MaxWrites,  \* bound: writing calls
    MaxFaults,  \* bound: errors MySQL and Redis return to the consumer
    Absent      \* no row, no key

Fields == {"read", "like", "collect"}
Counters == [Fields -> Int]
MaxTries == 3

ASSUME UsersAssumption == IsFiniteSet(Users)
ASSUME MaxWritesAssumption == MaxWrites \in Nat
ASSUME MaxFaultsAssumption == MaxFaults \in Nat
ASSUME AbsentAssumption == Absent \notin Counters

VARIABLES
    row,        \* the row of interactives
    liked,      \* users with a row of user_like_bizs whose status is 1
    collected,  \* users with a row of user_collection_bizs
    cache,      \* the hash in Redis
    ttl,        \* the hash has a time to live
    job,        \* what each call has still to do
    pc,         \* the consumer: "collect", "tx" (MySQL) or "incr" (Redis)
    tries,      \* failed calls of Consume for the event at hand
    writes,     \* bound: writing calls so far
    faults,     \* bound: errors so far
    relikes,    \* history: likes by a user who already liked
    counted,    \* history: how often each event was added to the row
    orphaned    \* history: a hash was written and its Expire did not happen

store    == <<row, liked, collected>>
consumer == <<pc, tries>>
history  == <<relikes, counted, orphaned>>
vars == <<next, committed, stored, running, stops, crashes,
          row, liked, collected, cache, ttl, job, pc, tries, writes, faults,
          relikes, counted, orphaned>>

Idle == [at |-> "idle"]
Jobs == {Idle} \cup [at : {"load", "expire"}]
        \cup [at : {"incr"}, field : Fields, delta : {1, -1}]
        \cup [at : {"set"}, snap : Counters]

TypeOK ==
    /\ SessionTypeOK
    /\ row \in Counters \cup {Absent}
    /\ liked \subseteq Users
    /\ collected \subseteq Users
    /\ cache \in Counters \cup {Absent}
    /\ ttl \in BOOLEAN
    /\ job \in [Calls -> Jobs]
    /\ pc \in {"collect", "tx", "incr"}
    /\ tries \in 0..(MaxTries - 1)
    /\ writes \in 0..MaxWrites
    /\ faults \in 0..MaxFaults
    /\ relikes \in Nat
    /\ counted \in [Msgs -> Nat]
    /\ orphaned \in BOOLEAN

Init ==
    /\ SessionInit
    /\ row = Absent
    /\ liked = {}
    /\ collected = {}
    /\ cache = Absent
    /\ ttl = FALSE
    /\ job = [c \in Calls |-> Idle]
    /\ pc = "collect"
    /\ tries = 0
    /\ writes = 0
    /\ faults = 0
    /\ relikes = 0
    /\ counted = [m \in Msgs |-> 0]
    /\ orphaned = FALSE

\* An error returned to the consumer; the call may have taken effect.
Fault == faults < MaxFaults /\ faults' = faults + 1

Count(f) == IF row = Absent THEN 0 ELSE row[f]

\* INSERT ... ON DUPLICATE KEY UPDATE f = f + delta
Upserted(f, delta) == [g \in Fields |-> Count(g) + (IF g = f THEN delta ELSE 0)]

\* Mutant of AddedIfPresent: HINCRBY without EXISTS makes a hash of one field.
AddedAlways(f, delta) ==
    [g \in Fields |-> (IF cache = Absent THEN 0 ELSE cache[g]) + (IF g = f THEN delta ELSE 0)]

\* interactive_incr_cnt.lua
AddedIfPresent(f, delta) ==
    IF cache = Absent THEN Absent ELSE [cache EXCEPT ![f] = @ + delta]

-----------------------------------------------------------------------------
(* The writing calls: the transaction, then the script.                    *)

Commits(c, f, delta) ==
    /\ job[c] = Idle
    /\ writes < MaxWrites
    /\ writes' = writes + 1
    /\ job' = [job EXCEPT ![c] = [at |-> "incr", field |-> f, delta |-> delta]]
    /\ UNCHANGED <<sessionVars, consumer, cache, ttl, faults, counted, orphaned>>

IncrReadCnt(c) ==
    /\ Commits(c, "read", 1)
    /\ row' = Upserted("read", 1)
    /\ UNCHANGED <<liked, collected, relikes>>

\* Neither the service nor the transaction looks whether u liked already.
IncrLike(c, u) ==
    /\ Commits(c, "like", 1)
    /\ liked' = liked \cup {u}
    /\ row' = Upserted("like", 1)
    /\ relikes' = IF u \in liked THEN relikes + 1 ELSE relikes
    /\ UNCHANGED collected

\* CASE WHEN like_cnt > 0 THEN like_cnt - 1 ELSE 0 END
Unliked == [row EXCEPT !["like"] = IF @ > 0 THEN @ - 1 ELSE 0]

\* Mutant of DecrLike: RowsAffected is not looked at.
DecrLikeAlways(c, u) ==
    /\ Commits(c, "like", -1)
    /\ liked' = liked \ {u}
    /\ row' = IF row = Absent THEN row ELSE Unliked
    /\ UNCHANGED <<collected, relikes>>

\* A cancel that finds no like leaves the row alone; the script runs anyway.
DecrLike(c, u) ==
    /\ Commits(c, "like", -1)
    /\ liked' = liked \ {u}
    /\ row' = IF u \in liked THEN Unliked ELSE row
    /\ UNCHANGED <<collected, relikes>>

\* The unique index refuses a second record, and the transaction fails.
AddCollectionItem(c, u) ==
    /\ u \notin collected
    /\ Commits(c, "collect", 1)
    /\ collected' = collected \cup {u}
    /\ row' = Upserted("collect", 1)
    /\ UNCHANGED <<liked, relikes>>

IncrIfPresent(c) ==
    /\ job[c].at = "incr"
    /\ cache' = AddedIfPresent(job[c].field, job[c].delta)
    /\ job' = [job EXCEPT ![c] = Idle]
    /\ UNCHANGED <<sessionVars, store, ttl, consumer, writes, faults, history>>

-----------------------------------------------------------------------------
(* Get, and the goroutine that fills the hash.  A Get that finds the hash  *)
(* changes nothing.                                                        *)

\* HGetAll finds no hash, or fails although there is one.
Get(c) ==
    /\ job[c] = Idle
    /\ job' = [job EXCEPT ![c] = [at |-> "load"]]
    /\ UNCHANGED <<sessionVars, store, cache, ttl, consumer, writes, faults, history>>

\* Without a row there is nothing to fill the hash with.
Load(c) ==
    /\ job[c].at = "load"
    /\ job' = [job EXCEPT ![c] = IF row = Absent THEN Idle ELSE [at |-> "set", snap |-> row]]
    /\ UNCHANGED <<sessionVars, store, cache, ttl, consumer, writes, faults, history>>

\* HMSET keeps the time to live of a hash that is there.
SetHash(c) ==
    /\ job[c].at = "set"
    /\ cache' = job[c].snap
    /\ job' = [job EXCEPT ![c] = [at |-> "expire"]]
    /\ UNCHANGED <<sessionVars, store, ttl, consumer, writes, faults, history>>

\* EXPIRE does nothing to a key that is not there.
Expire(c) ==
    /\ job[c].at = "expire"
    /\ ttl' = (cache # Absent)
    /\ job' = [job EXCEPT ![c] = Idle]
    /\ UNCHANGED <<sessionVars, store, cache, consumer, writes, faults, history>>

\* The rest of a call is not done: MySQL or Redis returns an error, the
\* process dies, or the context of the request is cancelled.  The goroutine
\* of a Get runs under that context too, which ends with the answer.
GiveUp(c) ==
    /\ job[c] # Idle
    /\ job' = [job EXCEPT ![c] = Idle]
    /\ orphaned' = (orphaned \/ job[c].at = "expire")
    /\ UNCHANGED <<sessionVars, store, cache, ttl, consumer, writes, faults, relikes, counted>>

KeyExpires ==
    /\ ttl
    /\ cache' = Absent
    /\ ttl' = FALSE
    /\ UNCHANGED <<sessionVars, store, job, consumer, writes, faults, history>>

-----------------------------------------------------------------------------
(* The consumer of the read events.                                        *)

Take ==
    /\ pc = "collect"
    /\ Deliver
    /\ pc' = "tx"
    /\ UNCHANGED <<committed, store, cache, ttl, job, tries, writes, faults, history>>

CountEvent ==
    /\ row' = Upserted("read", 1)
    /\ counted' = [counted EXCEPT ![next - 1] = @ + 1]

\* Mutant of Failed: Consume logs its error and returns nil.
FailedSilently == pc' = "collect" /\ tries' = 0

\* Mutant of Failed: the loop of three has no end.
FailedForEver == pc' = "tx" /\ tries' = tries + 1

\* Consume returned an error: try again, or give the event up unmarked.
Failed ==
    IF tries + 1 = MaxTries
      THEN pc' = "collect" /\ tries' = 0
      ELSE pc' = "tx" /\ tries' = tries + 1

ConsumeTx ==
    /\ running
    /\ pc = "tx"
    /\ \/ CountEvent /\ pc' = "incr" /\ UNCHANGED <<tries, faults>>
       \/ CountEvent /\ Fault /\ Failed
       \/ Fault /\ Failed /\ UNCHANGED <<row, counted>>
    /\ UNCHANGED <<sessionVars, liked, collected, cache, ttl, job, writes,
                   relikes, orphaned>>

\* Mutant of Accepted: the loop of three does not break on success.
AcceptedGoesOn ==
    IF tries + 1 = MaxTries
      THEN pc' = "collect" /\ tries' = 0 /\ MarkMessages({next - 1})
      ELSE pc' = "tx" /\ tries' = tries + 1 /\ UNCHANGED committed

Accepted == pc' = "collect" /\ tries' = 0 /\ MarkMessages({next - 1})

\* An error of the script is an error of Consume, and the event is counted again.
ConsumeIncr ==
    /\ running
    /\ pc = "incr"
    /\ \/ /\ cache' = AddedIfPresent("read", 1)
          /\ Accepted
          /\ UNCHANGED faults
       \/ /\ Fault
          /\ cache' \in {cache, AddedIfPresent("read", 1)}
          /\ Failed
          /\ UNCHANGED committed
    /\ UNCHANGED <<next, stored, running, stops, crashes, store, ttl, job, writes, history>>

-----------------------------------------------------------------------------
(* Sessions and processes.                                                 *)

rest == <<store, cache, ttl, job, writes, faults, history>>

Commit == AutoCommit /\ UNCHANGED <<rest, consumer>>

Rebalance == pc = "collect" /\ EndSession /\ UNCHANGED <<rest, consumer>>

Crash == CrashSession /\ pc' = "collect" /\ tries' = 0 /\ UNCHANGED rest

Start == StartSession /\ UNCHANGED <<rest, consumer>>

Finish(c) == IncrIfPresent(c) \/ Load(c) \/ SetHash(c) \/ Expire(c) \/ GiveUp(c)

Next ==
    \/ \E c \in Calls :
           \/ IncrReadCnt(c) \/ Get(c) \/ Finish(c)
           \/ \E u \in Users : IncrLike(c, u) \/ DecrLike(c, u) \/ AddCollectionItem(c, u)
    \/ KeyExpires \/ Take \/ ConsumeTx \/ ConsumeIncr
    \/ Commit \/ Rebalance \/ Crash \/ Start

Spec == Init /\ [][Next]_vars

\* A call that has begun goes on, and Redis deletes a key whose time is up.
Fairness == WF_vars(KeyExpires) /\ \A c \in Calls : WF_vars(Finish(c))

FairSpec == Spec /\ Fairness

-----------------------------------------------------------------------------
(* Properties.                                                             *)

\* like_cnt is the number of users who like, plus one for every like that
\* came from a user who already liked: cancels never take such a surplus
\* back, and never take more than they should.  collect_cnt is the number of
\* users who collected.  (InsertLikeInfo, DeleteLikeInfo, InsertCollectionBiz)
CountsMatchRecords ==
    /\ Count("like") = Cardinality(liked) + relikes
    /\ Count("collect") = Cardinality(collected)

\* The consumer counts an event more than once only for an error or a crash:
\* none of them repeats the same event twice.  (Handler.ConsumeClaim,
\* InteractiveReadEventConsumer.Consume)
RepeatsHaveCause == \A m \in Msgs : counted[m] <= 1 + faults + crashes

\* The events no session will be given again unless it starts over.
Passed == 1..(IF ~running THEN stored ELSE IF pc = "collect" THEN next - 1 ELSE next - 2)

\* An event the consumer has left behind uncounted was refused three times:
\* MySQL failed for each of the three.  (Handler.ConsumeClaim, Consume)
LossNeedsThreeErrors == MaxTries * Cardinality({m \in Passed : counted[m] = 0}) <= faults

\* Whatever races with whatever, once the writes stop the hash ends up gone
\* or equal to the row.  The exception is a hash whose Expire was not done:
\* it may stay wrong for good.  (RedisInteractiveCache.Set, Get)
CacheConverges ==
    <>[](cache = Absent \/ cache = row \/ (orphaned /\ ~ttl))
=============================================================================
