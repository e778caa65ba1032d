------------------------------ MODULE RankingJob ------------------------------
(***************************************************************************)
(* cmd/ranking: the cron job that computes the ranking on whichever node   *)
(* holds the Redis lock, and the Redis keys it writes.  The lock is a      *)
(* lease of the library redis-lock: a goroutine refreshes it, and when     *)
(* that ends it clears j.lock, for which it needs the mutex that a run     *)
(* holds.  While j.lock is set a run does not ask who has the lease.       *)
(*                                                                         *)
(* A ranking is the number of the state of the articles it was computed    *)
(* from.  A sorted set is the set of the rankings its entries come from,   *)
(* so a whole one is a singleton.  Some states cannot be ranked: every run *)
(* on every node fails, or panics, for as long as the articles stay so.    *)
(***************************************************************************)
EXTENDS Integers, FiniteSets

CONSTANTS
    Nodes,
    MaxWorld,   \* bound: states of the articles
    NoData,     \* the states with a page that has no counters: an empty last page, after
                \* none or a multiple of the batch size, or articles nobody has read yet
    Uncounted,  \* the states with a page that has counters, but not of all its articles
    MaxFaults,  \* bound: failed calls, lost leases and crashes
    NoNode      \* the lease is free

ASSUME NoNodeAssumption == NoNode \notin Nodes
ASSUME UncountedAssumption == NoData \intersect Uncounted = {}
ASSUME MaxWorldAssumption == MaxWorld \in Nat \ {0}
ASSUME MaxFaultsAssumption == MaxFaults \in Nat

VARIABLES
    world,     \* the ranking that the articles have now
    lease,     \* the node whose token the lock key holds
    refresh,   \* AutoRefresh of j.lock; "none" is j.lock = nil
    pc,        \* where a run is; not "idle" is localLock taken
    list,      \* what a run has computed
    temp,      \* the sorted set ranking:article:temp
    ranking,   \* the sorted set ranking:article
    faults     \* history: faults so far

redis == <<temp, ranking>>
vars == <<world, lease, refresh, pc, list, temp, ranking, faults>>

Worlds == 1..MaxWorld
Rankings == Worlds \ (NoData \union Uncounted)

TypeOK ==
    /\ world \in Worlds
    /\ lease \in Nodes \union {NoNode}
    /\ refresh \in [Nodes -> {"none", "running", "ended"}]
    /\ pc \in [Nodes -> {"idle", "computing", "computed", "stored"}]
    /\ list \in [Nodes -> Rankings \union {0}]
    /\ \A n \in Nodes : pc[n] \in {"computed", "stored"} => list[n] # 0
    /\ temp \subseteq Rankings
    /\ ranking \subseteq Rankings
    /\ faults \in 0..MaxFaults

Init ==
    /\ world = 1
    /\ lease = NoNode
    /\ refresh = [n \in Nodes |-> "none"]
    /\ pc = [n \in Nodes |-> "idle"]
    /\ list = [n \in Nodes |-> 0]
    /\ temp = {}
    /\ ranking = {}
    /\ faults = 0

Fault == faults < MaxFaults /\ faults' = faults + 1
Goto(n, p) == pc' = [pc EXCEPT ![n] = p]
Abandon(n) == Goto(n, "idle") /\ list' = [list EXCEPT ![n] = 0]

\* The process dies and starts again: the lease stays, its refresh does not.
Restart(n) == Abandon(n) /\ refresh' = [refresh EXCEPT ![n] = "none"]

-----------------------------------------------------------------------------
(* RankingJob.Run.                                                         *)

\* Mutant: the lock key is set whether it is free or not.
AcquireAnyway(n) ==
    /\ pc[n] = "idle" /\ refresh[n] = "none"
    /\ lease' = n
    /\ refresh' = [refresh EXCEPT ![n] = "running"]
    /\ Goto(n, "computing")
    /\ UNCHANGED <<world, list, redis, faults>>

\* j.lock is nil and the lock key is free.  When it is not, or when the call
\* fails, the run ends without an error.
Acquire(n) ==
    /\ pc[n] = "idle" /\ refresh[n] = "none" /\ lease = NoNode
    /\ lease' = n
    /\ refresh' = [refresh EXCEPT ![n] = "running"]
    /\ Goto(n, "computing")
    /\ UNCHANGED <<world, list, redis, faults>>

\* The key was set but the answer is lost: a lease that nobody refreshes.
AcquireLost(n) ==
    /\ pc[n] = "idle" /\ refresh[n] = "none" /\ lease = NoNode
    /\ lease' = n
    /\ Fault
    /\ UNCHANGED <<world, refresh, pc, list, redis>>

\* j.lock is set, whoever has the lease by now.
RunWithLock(n) ==
    /\ pc[n] = "idle" /\ refresh[n] # "none"
    /\ Goto(n, "computing")
    /\ UNCHANGED <<world, lease, refresh, list, redis, faults>>

\* Mutant: the error of rankTopN is ignored.
ComputeAnyway(n) ==
    /\ pc[n] = "computing"
    /\ Goto(n, "computed")
    /\ \/ list' = [list EXCEPT ![n] = world] /\ UNCHANGED faults
       \/ list' = list /\ Fault
    /\ UNCHANGED <<world, lease, refresh, redis>>

\* rankTopN: a list, its own error of a page without counters, a panic that
\* nothing recovers on an article without them, or the error of a call.  An error
\* ends the run.  (The node's local cache, which is set here too, is
\* RankingLocal.)
Compute(n) ==
    /\ pc[n] = "computing"
    /\ \/ /\ world \in Rankings
          /\ Goto(n, "computed")
          /\ list' = [list EXCEPT ![n] = world]
          /\ UNCHANGED <<refresh, faults>>
       \/ world \in NoData /\ Abandon(n) /\ UNCHANGED <<refresh, faults>>
       \/ world \in Uncounted /\ Restart(n) /\ UNCHANGED faults
       \/ Abandon(n) /\ Fault /\ UNCHANGED refresh
    /\ UNCHANGED <<world, lease, redis>>

\* Mutant: the temporary key is not deleted first.
StoreTempNoDel(n) ==
    /\ pc[n] = "computed"
    /\ temp' = temp \union {list[n]}
    /\ \/ Goto(n, "stored") /\ UNCHANGED <<list, faults>>
       \/ Abandon(n) /\ Fault
    /\ UNCHANGED <<world, lease, refresh, ranking>>

\* One transaction: DEL and ZADD of the temporary key.
StoreTemp(n) ==
    /\ pc[n] = "computed"
    /\ \/ /\ temp' = {list[n]}
          /\ Goto(n, "stored")
          /\ UNCHANGED <<list, faults>>
       \/ temp' \in {temp, {list[n]}} /\ Abandon(n) /\ Fault
    /\ UNCHANGED <<world, lease, refresh, ranking>>

\* RENAME replaces the ranking, and fails if another node has just moved the
\* temporary key away.
Rename(n) ==
    /\ pc[n] = "stored"
    /\ Abandon(n)
    /\ \/ /\ temp # {}
          /\ ranking' = temp /\ temp' = {}
          /\ UNCHANGED faults
       \/ temp = {} /\ UNCHANGED <<redis, faults>>
       \/ Fault /\ UNCHANGED redis
    /\ UNCHANGED <<world, lease, refresh>>

-----------------------------------------------------------------------------
(* The lease and its goroutine.                                            *)

\* AutoRefresh ends: Redis answers with an error, or no longer has the token.
RefreshEnds(n) ==
    /\ refresh[n] = "running"
    /\ refresh' = [refresh EXCEPT ![n] = "ended"]
    /\ \/ lease # n /\ faults' = faults
       \/ Fault
    /\ UNCHANGED <<world, lease, pc, list, redis>>

\* Mutant: the end of the refresh is only logged.
ClearLockNever(n) == FALSE /\ UNCHANGED vars

\* The goroutine takes localLock, so it waits for the run, and clears j.lock.
ClearLock(n) ==
    /\ refresh[n] = "ended" /\ pc[n] = "idle"
    /\ refresh' = [refresh EXCEPT ![n] = "none"]
    /\ UNCHANGED <<world, lease, pc, list, redis, faults>>

\* A lease nobody refreshes expires; one that is refreshed only if the
\* refresh comes too late.
LeaseExpires ==
    /\ lease # NoNode
    /\ \/ refresh[lease] # "running" /\ faults' = faults
       \/ Fault
    /\ lease' = NoNode
    /\ UNCHANGED <<world, refresh, pc, list, redis>>

\* The process stops and starts again.
Crash(n) ==
    /\ Fault
    /\ Restart(n)
    /\ UNCHANGED <<world, lease, redis>>

-----------------------------------------------------------------------------
(* The articles change; the ranking is gone after ten minutes without one. *)

WorldChanges ==
    /\ world < MaxWorld
    /\ world' = world + 1
    /\ UNCHANGED <<lease, refresh, pc, list, redis, faults>>

\* While the articles can be ranked that takes runs that fail; while they cannot
\* it comes by itself.
RankingExpires ==
    /\ ranking # {}
    /\ \/ world \notin Rankings /\ faults' = faults
       \/ Fault
    /\ ranking' = {}
    /\ UNCHANGED <<world, lease, refresh, pc, list, temp>>

Run(n) ==
    \/ Acquire(n) \/ AcquireLost(n) \/ RunWithLock(n)
    \/ Compute(n) \/ StoreTemp(n) \/ Rename(n)

Next ==
    \/ \E n \in Nodes : Run(n) \/ RefreshEnds(n) \/ ClearLock(n) \/ Crash(n)
    \/ LeaseExpires
    \/ WorldChanges
    \/ RankingExpires

Spec == Init /\ [][Next]_vars

\* Cron calls Run again and again on every node, a run has a timeout, the
\* refresh has an interval and a lease an end.  Runs take localLock over and
\* over, but sync.Mutex hands it to a waiter after a millisecond: strong
\* fairness for the goroutine that waits for it.
FairSpec ==
    /\ Spec
    /\ \A n \in Nodes : WF_vars(Run(n)) /\ WF_vars(RefreshEnds(n)) /\ SF_vars(ClearLock(n))
    /\ WF_vars(LeaseExpires)

-----------------------------------------------------------------------------
(* Properties.                                                             *)

\* The ranking that readers get is one whole computed list, never a mixture
\* of two, though two nodes may write the same two keys at once (Set).
RankingWhole == Cardinality(ranking) <= 1 /\ Cardinality(temp) <= 1

\* Two nodes rank at the same time only after a lease was lost, a refresh
\* failed or a process was stopped; j.lock alone never lets a second one in,
\* and the panic of a run, which leaves its lease behind, does not either.
OverlapNeedsFault ==
    (\E m, n \in Nodes : m # n /\ pc[m] # "idle" /\ pc[n] # "idle") => faults > 0

\* Whatever stale run, panic or fault came in between, once the articles stop
\* changing the published ranking is for good the one they have, unless they
\* stop in a state that no run can rank; and one node at most still takes
\* itself for the holder of the lock.
RankingConverges ==
    /\ <>[](world \notin Rankings) \/ <>[](ranking = {world})
    /\ <>[](Cardinality({n \in Nodes : refresh[n] # "none"}) <= 1)
================================================================================
