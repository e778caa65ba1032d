--------------------------- MODULE RankingJobProofs ---------------------------
(***************************************************************************)
(* The ranking in Redis and the lock of the job, for any number of nodes,  *)
(* states of the articles and faults.                                      *)
(***************************************************************************)
EXTENDS RankingJob, FiniteSetTheorems, TLAPS

USE DEF redis

LEMMA FaultType ==
    ASSUME faults \in 0..MaxFaults, Fault \/ faults' = faults
    PROVE  faults' \in 0..MaxFaults /\ (Fault => faults' > 0)
  BY MaxFaultsAssumption DEF Fault

LEMMA InitType == Init => TypeOK
  BY MaxWorldAssumption, MaxFaultsAssumption DEF Init, TypeOK, Worlds

\* The number 0, no list, is not a ranking.
LEMMA ZeroNoRanking == 0 \notin Rankings
  BY MaxWorldAssumption DEF Rankings, Worlds

\* The run of a node: what it leaves alone, and what it may write.
LEMMA RunType ==
    ASSUME TypeOK, NEW n \in Nodes, Run(n)
    PROVE  TypeOK'
  <1>1. CASE Acquire(n)
    BY <1>1 DEF Acquire, Goto, TypeOK
  <1>2. CASE AcquireLost(n)
    BY <1>2, FaultType DEF AcquireLost, TypeOK
  <1>3. CASE RunWithLock(n)
    BY <1>3 DEF RunWithLock, Goto, TypeOK
  <1>4. CASE Compute(n)
    <2>1. faults' \in 0..MaxFaults
      BY <1>4, FaultType DEF Compute, TypeOK
    <2>2. UNCHANGED <<world, lease, temp, ranking, Worlds, Rankings>>
      BY <1>4 DEF Compute, Worlds, Rankings
    <2>3. CASE /\ world \in Rankings
               /\ Goto(n, "computed") /\ list' = [list EXCEPT ![n] = world]
               /\ refresh' = refresh
      BY <2>1, <2>2, <2>3, ZeroNoRanking DEF Goto, TypeOK
    <2>4. CASE /\ Abandon(n)
               /\ refresh' \in {refresh, [refresh EXCEPT ![n] = "none"]}
      BY <2>1, <2>2, <2>4 DEF Abandon, Goto, TypeOK
    <2> QED
      BY <2>3, <2>4, <1>4 DEF Compute, Restart
  <1>5. CASE StoreTemp(n)
    <2>1. list[n] \in Rankings
      BY <1>5 DEF StoreTemp, TypeOK
    <2>2. faults' \in 0..MaxFaults
      BY <1>5, FaultType DEF StoreTemp, TypeOK
    <2>3. CASE Goto(n, "stored") /\ list' = list
      BY <2>1, <2>2, <2>3, <1>5 DEF StoreTemp, Goto, TypeOK
    <2>4. CASE Abandon(n)
      <3>1. temp' \subseteq Rankings
        BY <2>1, <1>5 DEF StoreTemp, TypeOK
      <3>2. /\ pc' \in [Nodes -> {"idle", "computing", "computed", "stored"}]
            /\ list' \in [Nodes -> Rankings \union {0}]
            /\ \A m \in Nodes : pc'[m] \in {"computed", "stored"} => list'[m] # 0
        BY <2>4 DEF Abandon, Goto, TypeOK
      <3>3. UNCHANGED <<world, lease, refresh, ranking, Worlds, Rankings>>
        BY <1>5 DEF StoreTemp, Worlds, Rankings
      <3> QED
        BY <2>2, <3>1, <3>2, <3>3 DEF TypeOK
    <2> QED
      BY <2>3, <2>4, <1>5 DEF StoreTemp
  <1>6. CASE Rename(n)
    <2>1. faults' \in 0..MaxFaults
      BY <1>6, FaultType DEF Rename, TypeOK
    <2>2. temp' \subseteq Rankings /\ ranking' \subseteq Rankings
      BY <1>6 DEF Rename, TypeOK
    <2> QED
      BY <2>1, <2>2, <1>6 DEF Rename, Abandon, Goto, TypeOK
  <1> QED
    BY <1>1, <1>2, <1>3, <1>4, <1>5, <1>6 DEF Run

LEMMA OtherType ==
    ASSUME TypeOK,
           \/ \E n \in Nodes : RefreshEnds(n) \/ ClearLock(n) \/ Crash(n)
           \/ LeaseExpires
           \/ WorldChanges
           \/ RankingExpires
    PROVE  TypeOK'
  <1>1. ASSUME NEW n \in Nodes, RefreshEnds(n) PROVE TypeOK'
    <2>1. faults' \in 0..MaxFaults
      BY <1>1, FaultType DEF RefreshEnds, TypeOK
    <2> QED
      BY <2>1, <1>1 DEF RefreshEnds, TypeOK
  <1>2. ASSUME NEW n \in Nodes, ClearLock(n) PROVE TypeOK'
    BY <1>2 DEF ClearLock, TypeOK
  <1>3. ASSUME NEW n \in Nodes, Crash(n) PROVE TypeOK'
    <2>1. faults' \in 0..MaxFaults
      BY <1>3, FaultType DEF Crash, TypeOK
    <2> QED
      BY <2>1, <1>3 DEF Crash, Restart, Abandon, Goto, TypeOK
  <1>4. CASE LeaseExpires
    <2>1. faults' \in 0..MaxFaults
      BY <1>4, FaultType DEF LeaseExpires, TypeOK
    <2> QED
      BY <2>1, <1>4 DEF LeaseExpires, TypeOK
  <1>5. CASE WorldChanges
    BY <1>5, MaxWorldAssumption DEF WorldChanges, TypeOK, Worlds
  <1>6. CASE RankingExpires
    BY <1>6, FaultType DEF RankingExpires, TypeOK
  <1> QED
    BY <1>1, <1>2, <1>3, <1>4, <1>5, <1>6

LEMMA NextType ==
    ASSUME TypeOK, [Next]_vars
    PROVE  TypeOK'
  <1>1. CASE UNCHANGED vars
    BY <1>1 DEF TypeOK, vars
  <1> QED
    BY <1>1, RunType, OtherType DEF Next

\* The type invariant.
THEOREM TypeCorrect == Spec => []TypeOK
  <1> QED
    BY InitType, NextType, PTL DEF Spec

-----------------------------------------------------------------------------
(* The sorted sets.                                                        *)

Whole(S) == S = {} \/ \E v \in Rankings : S = {v}

WholeInv == Whole(temp) /\ Whole(ranking)

LEMMA WholeCardinality ==
    ASSUME NEW S, Whole(S)
    PROVE  Cardinality(S) <= 1
  <1>1. CASE S = {}
    BY <1>1, FS_EmptySet
  <1>2. ASSUME NEW v \in Rankings, S = {v} PROVE Cardinality(S) <= 1
    BY <1>2, FS_Singleton
  <1> QED
    BY <1>1, <1>2 DEF Whole

LEMMA WholeNext ==
    ASSUME TypeOK, WholeInv, [Next]_vars
    PROVE  WholeInv'
  <1>1. ASSUME NEW n \in Nodes, StoreTemp(n) PROVE WholeInv'
    <2>1. list[n] \in Rankings
      BY <1>1 DEF StoreTemp, TypeOK
    <2>2. temp' \in {temp, {list[n]}} /\ ranking' = ranking
      BY <1>1 DEF StoreTemp
    <2> QED
      BY <2>1, <2>2 DEF WholeInv, Whole
  <1>2. ASSUME NEW n \in Nodes, Rename(n) PROVE WholeInv'
    <2>1. \/ ranking' = temp /\ temp' = {}
          \/ ranking' = ranking /\ temp' = temp
      BY <1>2 DEF Rename
    <2> QED
      BY <2>1 DEF WholeInv, Whole
  <1>3. CASE RankingExpires
    BY <1>3 DEF RankingExpires, WholeInv, Whole
  <1>4. CASE UNCHANGED redis
    BY <1>4 DEF WholeInv
  <1>5. ASSUME NEW n \in Nodes, Run(n), ~StoreTemp(n), ~Rename(n) PROVE UNCHANGED redis
    BY <1>5 DEF Run, Acquire, AcquireLost, RunWithLock, Compute
  <1>6. ASSUME NEW n \in Nodes, RefreshEnds(n) \/ ClearLock(n) \/ Crash(n) PROVE UNCHANGED redis
    BY <1>6 DEF RefreshEnds, ClearLock, Crash
  <1>7. LeaseExpires \/ WorldChanges \/ UNCHANGED vars => UNCHANGED redis
    BY DEF LeaseExpires, WorldChanges, vars
  <1> QED
    BY <1>1, <1>2, <1>3, <1>4, <1>5, <1>6, <1>7 DEF Next

\* Readers never see a mixture of two rankings.
THEOREM RankingIsWhole == Spec => []RankingWhole
  <1>1. Init => WholeInv
    BY DEF Init, WholeInv, Whole
  <1>2. TypeOK /\ WholeInv /\ [Next]_vars => WholeInv'
    BY WholeNext
  <1>3. WholeInv => RankingWhole
    BY WholeCardinality DEF WholeInv, RankingWhole
  <1> QED
    BY <1>1, <1>2, <1>3, TypeCorrect, PTL DEF Spec

-----------------------------------------------------------------------------
(* The lock.  Until the first fault, j.lock is set only on the node that    *)
(* has the lease, its refresh runs, and only this node can be in a run.  (A  *)
(* run that panicked leaves a lease without j.lock.)                         *)

LockInv ==
    faults = 0 =>
        \A n \in Nodes :
            /\ refresh[n] \in {"none", "running"}
            /\ refresh[n] = "running" => lease = n
            /\ pc[n] # "idle" => refresh[n] = "running"

LEMMA FaultCounts ==
    ASSUME TypeOK, Fault
    PROVE  faults' # 0
  BY MaxFaultsAssumption DEF TypeOK, Fault

LEMMA RunLock ==
    ASSUME TypeOK, LockInv, NEW n \in Nodes, Run(n)
    PROVE  LockInv'
  <1>1. CASE Acquire(n)
    BY <1>1, NoNodeAssumption DEF Acquire, Goto, LockInv, TypeOK
  <1>2. CASE AcquireLost(n)
    BY <1>2, FaultCounts DEF AcquireLost, LockInv
  <1>3. CASE RunWithLock(n)
    BY <1>3 DEF RunWithLock, Goto, LockInv, TypeOK
  <1>4. CASE Compute(n)
    BY <1>4, FaultCounts DEF Compute, Restart, Abandon, Goto, LockInv, TypeOK
  <1>5. CASE StoreTemp(n)
    BY <1>5, FaultCounts DEF StoreTemp, Goto, LockInv, TypeOK
  <1>6. CASE Rename(n)
    BY <1>6, FaultCounts DEF Rename, Abandon, Goto, LockInv, TypeOK
  <1> QED
    BY <1>1, <1>2, <1>3, <1>4, <1>5, <1>6 DEF Run

LEMMA OtherLock ==
    ASSUME TypeOK, LockInv,
           \/ \E n \in Nodes : RefreshEnds(n) \/ ClearLock(n) \/ Crash(n)
           \/ LeaseExpires
           \/ WorldChanges
           \/ RankingExpires
    PROVE  LockInv'
  <1>1. ASSUME NEW n \in Nodes, RefreshEnds(n) PROVE LockInv'
    BY <1>1, FaultCounts DEF RefreshEnds, LockInv, TypeOK
  <1>2. ASSUME NEW n \in Nodes, ClearLock(n) PROVE LockInv'
    BY <1>2 DEF ClearLock, LockInv, TypeOK
  <1>3. ASSUME NEW n \in Nodes, Crash(n) PROVE LockInv'
    BY <1>3, FaultCounts DEF Crash, LockInv
  <1>4. CASE LeaseExpires
    BY <1>4, FaultCounts, NoNodeAssumption DEF LeaseExpires, LockInv, TypeOK
  <1>5. CASE WorldChanges
    BY <1>5 DEF WorldChanges, LockInv
  <1>6. CASE RankingExpires
    BY <1>6, FaultCounts DEF RankingExpires, LockInv
  <1> QED
    BY <1>1, <1>2, <1>3, <1>4, <1>5, <1>6

\* Without a fault at most one node ranks.
THEOREM OverlapIsFault == Spec => []OverlapNeedsFault
  <1>1. Init => LockInv
    BY NoNodeAssumption DEF Init, LockInv
  <1>2. TypeOK /\ LockInv /\ [Next]_vars => LockInv'
    <2>1. LockInv /\ UNCHANGED vars => LockInv'
      BY DEF LockInv, vars
    <2> QED
      BY <2>1, RunLock, OtherLock DEF Next
  <1>3. TypeOK /\ LockInv => OverlapNeedsFault
    BY MaxFaultsAssumption DEF TypeOK, LockInv, OverlapNeedsFault
  <1> QED
    BY <1>1, <1>2, <1>3, TypeCorrect, PTL DEF Spec

-----------------------------------------------------------------------------
(* The settled ranking.                                                    *)

\* Readers get the ranking of the articles as they are, and whatever a run has
\* under way is that ranking too.
Settled ==
    /\ ranking = {world}
    /\ temp \subseteq {world}
    /\ \A n \in Nodes : list[n] \in {0, world}

LEMMA RunSettled ==
    ASSUME TypeOK, Settled, NEW n \in Nodes, Run(n)
    PROVE  Settled'
  <1>1. list \in [Nodes -> Rankings \union {0}]
    BY DEF TypeOK
  <1>2. CASE Acquire(n) \/ AcquireLost(n) \/ RunWithLock(n)
    BY <1>2 DEF Acquire, AcquireLost, RunWithLock, Settled
  <1>3. CASE Compute(n)
    BY <1>1, <1>3 DEF Compute, Restart, Abandon, Settled
  <1>4. CASE StoreTemp(n)
    <2>1. list[n] # 0
      BY <1>4, ZeroNoRanking DEF StoreTemp, TypeOK
    <2>2. temp' \subseteq {world} /\ world' = world /\ ranking' = ranking
      BY <1>4, <2>1 DEF StoreTemp, Settled
    <2>3. list' = list \/ list' = [list EXCEPT ![n] = 0]
      BY <1>4 DEF StoreTemp, Abandon
    <2> QED
      BY <1>1, <2>2, <2>3 DEF Settled
  <1>5. CASE Rename(n)
    <2>1. /\ world' = world /\ list' = [list EXCEPT ![n] = 0]
          /\ \/ temp # {} /\ ranking' = temp /\ temp' = {}
             \/ ranking' = ranking /\ temp' = temp
      BY <1>5 DEF Rename, Abandon
    <2> QED
      BY <1>1, <2>1 DEF Settled
  <1> QED
    BY <1>2, <1>3, <1>4, <1>5 DEF Run

\* What RankingConverges reaches cannot be lost again: while the articles stay
\* as they are, no run, late or parallel, no fault and no change of the lease
\* replaces a settled ranking; only its expiry takes it away.
THEOREM SettledStays ==
    Spec => [][Settled /\ world' = world /\ ranking' # {} => Settled']_vars
  <1>1. TypeOK /\ [Next]_vars =>
            [Settled /\ world' = world /\ ranking' # {} => Settled']_vars
    <2> SUFFICES ASSUME TypeOK, Next, Settled, world' = world, ranking' # {}
                 PROVE  Settled'
      OBVIOUS
    <2>1. ASSUME NEW n \in Nodes, Crash(n)
          PROVE  Settled'
      BY <2>1 DEF Crash, Restart, Abandon, Settled, TypeOK
    <2>2. ASSUME NEW n \in Nodes, RefreshEnds(n) \/ ClearLock(n)
          PROVE  Settled'
      BY <2>2 DEF RefreshEnds, ClearLock, Settled
    <2>3. CASE LeaseExpires
      BY <2>3 DEF LeaseExpires, Settled
    <2>4. ~RankingExpires /\ ~WorldChanges
      BY DEF RankingExpires, WorldChanges, TypeOK, Worlds
    <2> QED
      BY <2>1, <2>2, <2>3, <2>4, RunSettled DEF Next
  <1> QED
    BY <1>1, TypeCorrect, PTL DEF Spec
=============================================================================
