--------------------------- MODULE InteractiveProofs ---------------------------
(***************************************************************************)
(* What the counters of interactive promise, for any number of users,      *)
(* calls, events, errors and sessions.                                     *)
(***************************************************************************)
EXTENDS Interactive, FiniteSetTheorems, TLAPS

-----------------------------------------------------------------------------
(* The counts and the records behind them.                                 *)

countVars == <<row, liked, collected, relikes>>

CountInv ==
    /\ row \in Counters \cup {Absent}
    /\ liked \subseteq Users
    /\ collected \subseteq Users
    /\ relikes \in Nat
    /\ CountsMatchRecords

\* What an upsert leaves in each column.
LEMMA UpsertedCount ==
    ASSUME row \in Counters \cup {Absent}, NEW f \in Fields, row' = Upserted(f, 1)
    PROVE  /\ row' \in Counters
           /\ \A g \in Fields : Count(g)' = Count(g) + (IF g = f THEN 1 ELSE 0)
  <1>1. \A g \in Fields : Count(g) \in Int
    BY DEF Count, Counters
  <1>2. row' \in Counters
    BY <1>1 DEF Upserted, Counters
  <1>3. row' # Absent
    BY <1>2, AbsentAssumption
  <1> QED
    BY <1>1, <1>2, <1>3 DEF Upserted, Count

\* The cardinalities a record more or less makes.
LEMMA RecordSets ==
    ASSUME NEW S, S \subseteq Users, NEW u \in Users
    PROVE  /\ Cardinality(S) \in Nat
           /\ Cardinality(S \cup {u}) = Cardinality(S) + (IF u \in S THEN 0 ELSE 1)
           /\ Cardinality(S \ {u}) = Cardinality(S) - (IF u \in S THEN 1 ELSE 0)
  <1>1. IsFiniteSet(S)
    BY UsersAssumption, FS_Subset
  <1>2. Cardinality(S) \in Nat
    BY <1>1, FS_CardinalityType
  <1>3. Cardinality(S \cup {u}) = IF u \in S THEN Cardinality(S) ELSE Cardinality(S) + 1
    BY <1>1, FS_AddElement
  <1>4. Cardinality(S \ {u}) = IF u \in S THEN Cardinality(S) - 1 ELSE Cardinality(S)
    BY <1>1, FS_RemoveElement
  <1> QED
    BY <1>2, <1>3, <1>4

LEMMA CountInit ==
    Init => CountInv
  BY FS_EmptySet DEF Init, CountInv, CountsMatchRecords, Count

LEMMA CountFrame ==
    ASSUME CountInv, UNCHANGED countVars
    PROVE  CountInv'
  BY DEF CountInv, countVars, CountsMatchRecords, Count

\* A read adds to a column no record stands behind.
LEMMA ReadCounts ==
    ASSUME CountInv, row' = Upserted("read", 1), UNCHANGED <<liked, collected, relikes>>
    PROVE  CountInv'
  <1>1. /\ row' \in Counters
        /\ Count("like")' = Count("like")
        /\ Count("collect")' = Count("collect")
    <2>1. Count("like") \in Int /\ Count("collect") \in Int
      BY DEF CountInv, Count, Counters, Fields
    <2> QED
      BY <2>1, UpsertedCount DEF CountInv, Fields
  <1> QED
    BY <1>1 DEF CountInv, CountsMatchRecords

LEMMA LikeCounts ==
    ASSUME CountInv, NEW c \in Calls, NEW u \in Users, IncrLike(c, u)
    PROVE  CountInv'
  <1>1. row' = Upserted("like", 1) /\ liked' = liked \cup {u} /\ collected' = collected
    BY DEF IncrLike
  <1>2. relikes' = IF u \in liked THEN relikes + 1 ELSE relikes
    BY DEF IncrLike
  <1>3. Count("like") \in Int /\ Count("collect") \in Int
    BY DEF CountInv, Count, Counters, Fields
  <1>4. /\ row' \in Counters
        /\ Count("like")' = Count("like") + 1
        /\ Count("collect")' = Count("collect")
    BY <1>1, <1>3, UpsertedCount DEF CountInv, Fields
  <1>5. /\ Cardinality(liked) \in Nat
        /\ Cardinality(liked') = Cardinality(liked) + (IF u \in liked THEN 0 ELSE 1)
    BY <1>1, RecordSets DEF CountInv
  <1> QED
    BY <1>1, <1>2, <1>3, <1>4, <1>5 DEF CountInv, CountsMatchRecords

\* The floor of the CASE is never needed: a like that is taken back is counted.
LEMMA CancelCounts ==
    ASSUME CountInv, NEW c \in Calls, NEW u \in Users, DecrLike(c, u)
    PROVE  CountInv'
  <1>1. /\ liked' = liked \ {u} /\ collected' = collected /\ relikes' = relikes
        /\ row' = IF u \in liked THEN Unliked ELSE row
    BY DEF DecrLike
  <1>2. CASE u \notin liked
    BY <1>1, <1>2, CountFrame DEF countVars
  <1>3. CASE u \in liked
    <2>1. /\ Cardinality(liked) \in Nat
          /\ Cardinality(liked') = Cardinality(liked) - 1
          /\ Cardinality(liked') \in Nat
      BY <1>1, <1>3, RecordSets DEF CountInv
    <2>2. Count("like") > 0
      BY <2>1 DEF CountInv, CountsMatchRecords
    <2>3. row \in Counters /\ row # Absent
      BY <2>2, AbsentAssumption DEF CountInv, Count
    <2>4. row["like"] = Count("like") /\ row["like"] \in Int
      BY <2>3 DEF Count, Counters, Fields
    <2>5. row' = [row EXCEPT !["like"] = row["like"] - 1]
      BY <1>1, <1>3, <2>2, <2>4 DEF Unliked
    <2>6. /\ row' \in Counters
          /\ row'["like"] = row["like"] - 1
          /\ row'["collect"] = row["collect"]
      BY <2>3, <2>4, <2>5 DEF Counters, Fields
    <2>7. row' # Absent
      BY <2>6, AbsentAssumption
    <2>8. Count("like")' = Count("like") - 1 /\ Count("collect")' = Count("collect")
      BY <2>3, <2>4, <2>6, <2>7 DEF Count
    <2> QED
      BY <1>1, <2>1, <2>4, <2>6, <2>8 DEF CountInv, CountsMatchRecords
  <1> QED
    BY <1>2, <1>3

LEMMA CollectCounts ==
    ASSUME CountInv, NEW c \in Calls, NEW u \in Users, AddCollectionItem(c, u)
    PROVE  CountInv'
  <1>1. /\ row' = Upserted("collect", 1) /\ collected' = collected \cup {u}
        /\ u \notin collected /\ liked' = liked /\ relikes' = relikes
    BY DEF AddCollectionItem
  <1>2. Count("like") \in Int /\ Count("collect") \in Int
    BY DEF CountInv, Count, Counters, Fields
  <1>3. /\ row' \in Counters
        /\ Count("like")' = Count("like")
        /\ Count("collect")' = Count("collect") + 1
    BY <1>1, <1>2, UpsertedCount DEF CountInv, Fields
  <1>4. Cardinality(collected) \in Nat /\ Cardinality(collected') = Cardinality(collected) + 1
    BY <1>1, RecordSets DEF CountInv
  <1> QED
    BY <1>1, <1>2, <1>3, <1>4 DEF CountInv, CountsMatchRecords

LEMMA CountStep ==
    CountInv /\ [Next]_vars => CountInv'
  <1> SUFFICES ASSUME CountInv, [Next]_vars
               PROVE  CountInv'
    OBVIOUS
  <1>1. ASSUME NEW c \in Calls, IncrReadCnt(c)
        PROVE  CountInv'
    BY <1>1, ReadCounts DEF IncrReadCnt
  <1>2. ASSUME NEW c \in Calls, Get(c) \/ Finish(c)
        PROVE  CountInv'
    BY <1>2, CountFrame DEF Get, Finish, IncrIfPresent, Load, SetHash, Expire, GiveUp,
       store, history, countVars
  <1>3. ASSUME ConsumeTx
        PROVE  CountInv'
    BY <1>3, ReadCounts, CountFrame DEF ConsumeTx, CountEvent, countVars
  <1>4. ASSUME \/ KeyExpires \/ Take \/ ConsumeIncr \/ Commit \/ Rebalance \/ Crash
               \/ Start \/ UNCHANGED vars
        PROVE  CountInv'
    BY <1>4, CountFrame DEF KeyExpires, Take, ConsumeIncr, Commit, Rebalance, Crash, Start,
       vars, rest, store, history, countVars
  <1> QED
    BY <1>1, <1>2, <1>3, <1>4, LikeCounts, CancelCounts, CollectCounts DEF Next

\* like_cnt is the likes there are plus the repeated ones, collect_cnt the
\* collections, whatever calls, events, errors and restarts come together
\* (dao/interactive.go, InsertLikeInfo, DeleteLikeInfo, InsertCollectionBiz).
THEOREM CountsCorrect ==
    Spec => []CountsMatchRecords
  <1>1. CountInv => CountsMatchRecords
    BY DEF CountInv
  <1> QED
    BY <1>1, CountInit, CountStep, PTL DEF Spec

-----------------------------------------------------------------------------
(* The consumer.                                                           *)

consVars == <<next, committed, stored, running, crashes, pc, tries, faults, counted>>

\* The mark the next session would start from, if this one were to end well.
Mark == IF running THEN committed ELSE stored

AtHand == pc # "collect"

ConsumerInv ==
    /\ next \in 1..(NumMsgs + 1)
    /\ committed \in 0..NumMsgs
    /\ stored \in 0..NumMsgs
    /\ running \in BOOLEAN
    /\ crashes \in Nat
    /\ pc \in {"collect", "tx", "incr"}
    /\ tries \in 0..(MaxTries - 1)
    /\ faults \in Nat
    /\ counted \in [Msgs -> Nat]
    /\ running => stored <= committed /\ committed < next
    /\ AtHand => running /\ committed < next - 1
    /\ ~AtHand => tries = 0

\* An event above the mark has been counted for errors and crashes only, but
\* for the one whose transaction has just committed.
RepeatInv ==
    /\ RepeatsHaveCause
    /\ \A m \in Msgs : m > Mark /\ ~(pc = "incr" /\ m = next - 1)
                          => counted[m] <= faults + crashes

Lost == {m \in Passed : counted[m] = 0}

\* The errors behind the lost events, and behind the failed tries so far.
LossInv ==
    /\ MaxTries * Cardinality(Lost) + tries <= faults
    /\ pc = "incr" => counted[next - 1] > 0

ConsInv == ConsumerInv /\ RepeatInv /\ LossInv

LEMMA HighWaterAbove ==
    ASSUME NEW m \in Int, NEW mark \in Int, mark < m
    PROVE  HighWater({m}, mark) = m
  <1>1. \E h \in {m} \cup {mark} : \A n \in {m} \cup {mark} : n <= h
    OBVIOUS
  <1>2. /\ HighWater({m}, mark) \in {m} \cup {mark}
        /\ \A n \in {m} \cup {mark} : n <= HighWater({m}, mark)
    BY <1>1 DEF HighWater
  <1> QED
    BY <1>2

LEMMA LostFinite ==
    ASSUME ConsumerInv
    PROVE  IsFiniteSet(Lost) /\ Cardinality(Lost) \in Nat
  <1> DEFINE last == IF ~running THEN stored ELSE IF pc = "collect" THEN next - 1 ELSE next - 2
  <1>1. last \in Int
    BY DEF ConsumerInv
  <1>2. IsFiniteSet(1..last)
    BY <1>1, FS_Interval
  <1>3. Lost \subseteq 1..last
    BY DEF Lost, Passed
  <1> HIDE DEF last
  <1>4. IsFiniteSet(Lost)
    BY <1>2, <1>3, FS_Subset
  <1> QED
    BY <1>4, FS_CardinalityType

\* Losing fewer events is no worse.
LEMMA LossShrinks ==
    ASSUME ConsumerInv, Lost' \subseteq Lost
    PROVE  Cardinality(Lost') \in Nat /\ Cardinality(Lost') <= Cardinality(Lost)
  <1>1. IsFiniteSet(Lost)
    BY LostFinite
  <1>2. IsFiniteSet(Lost') /\ Cardinality(Lost') <= Cardinality(Lost)
    BY <1>1, FS_Subset
  <1> QED
    BY <1>2, FS_CardinalityType

LEMMA ConsInit ==
    Init => ConsInv
  <1> SUFFICES ASSUME Init
               PROVE  ConsInv
    OBVIOUS
  <1>1. ConsumerInv
    BY NumMsgsAssumption DEF Init, SessionInit, ConsumerInv, AtHand, MaxTries, Msgs
  <1>2. RepeatInv
    BY DEF Init, SessionInit, RepeatInv, RepeatsHaveCause, Mark, Msgs
  <1>3. Lost = {}
    BY DEF Init, SessionInit, Lost, Passed
  <1>4. LossInv
    BY <1>3, FS_EmptySet DEF Init, SessionInit, LossInv, MaxTries
  <1> QED
    BY <1>1, <1>2, <1>4 DEF ConsInv

LEMMA ConsFrame ==
    ASSUME ConsInv, UNCHANGED consVars
    PROVE  ConsInv'
  BY DEF ConsInv, consVars, ConsumerInv, RepeatInv, RepeatsHaveCause, LossInv, Lost, Passed,
     Mark, AtHand

LEMMA TakeStep ==
    ASSUME ConsInv, Take
    PROVE  ConsInv'
  <1> USE DEF Take, Deliver, history
  <1>1. ConsumerInv'
    BY NumMsgsAssumption DEF ConsInv, ConsumerInv, AtHand, Msgs
  <1>2. RepeatInv'
    BY DEF ConsInv, ConsumerInv, RepeatInv, RepeatsHaveCause, Mark
  <1>3. Lost' = Lost
    BY DEF ConsInv, ConsumerInv, Lost, Passed
  <1>4. LossInv'
    BY <1>3 DEF ConsInv, LossInv
  <1> QED
    BY <1>1, <1>2, <1>4 DEF ConsInv

\* A step that fails for the event at hand, whether it counts the event or not.
LEMMA FailedStep ==
    ASSUME ConsInv, AtHand, Fault, Failed,
           UNCHANGED <<next, committed, stored, running, crashes>>,
           \/ counted' = counted
           \/ pc = "tx" /\ counted' = [counted EXCEPT ![next - 1] = @ + 1]
    PROVE  ConsInv'
  <1>1. /\ running /\ next - 1 \in Msgs /\ committed < next - 1
        /\ faults' = faults + 1 /\ faults \in Nat /\ counted \in [Msgs -> Nat]
    BY NumMsgsAssumption DEF ConsInv, ConsumerInv, AtHand, Fault, Msgs
  <1>2. /\ counted' \in [Msgs -> Nat]
        /\ \A m \in Msgs : m # next - 1 => counted'[m] = counted[m]
        /\ counted'[next - 1] \in {counted[next - 1], counted[next - 1] + 1}
        /\ pc = "incr" => counted' = counted
    BY <1>1
  <1>3. ConsumerInv'
    BY <1>1, <1>2 DEF ConsInv, ConsumerInv, AtHand, Failed, MaxTries
  <1>4. \A m \in Msgs : counted'[m] <= 1 + faults' + crashes'
    BY <1>1, <1>2 DEF ConsInv, ConsumerInv, RepeatInv, RepeatsHaveCause, Mark, AtHand
  <1>5. \A m \in Msgs : m > Mark => counted'[m] <= faults' + crashes'
    BY <1>1, <1>2 DEF ConsInv, ConsumerInv, RepeatInv, RepeatsHaveCause, Mark, AtHand
  <1>6. RepeatInv'
    BY <1>4, <1>5 DEF RepeatInv, RepeatsHaveCause, Mark
  <1>7. LossInv'
    <2>1. IsFiniteSet(Lost) /\ Cardinality(Lost) \in Nat
      BY LostFinite DEF ConsInv
    <2>2. MaxTries * Cardinality(Lost) + tries <= faults
      BY DEF ConsInv, LossInv
    <2>3. /\ Passed = 1..(next - 2) /\ next \in Int
          /\ tries \in Nat /\ tries <= 2
      BY <1>1 DEF Passed, AtHand, ConsInv, ConsumerInv, MaxTries
    <2>4. \A m \in 1..(next - 2) : counted'[m] = counted[m]
      BY <1>1, <1>2, <2>3, NumMsgsAssumption DEF Msgs
    <2>5. CASE tries + 1 = MaxTries
      <3>1. pc' = "collect" /\ tries' = 0
        BY <2>5 DEF Failed
      <3>2. Lost' \subseteq Lost \cup {next - 1}
        <4>1. Passed' = 1..(next - 1)
          BY <1>1, <3>1 DEF Passed, ConsInv, ConsumerInv
        <4> QED
          BY <2>3, <2>4, <4>1 DEF Lost
      <3>3. /\ IsFiniteSet(Lost \cup {next - 1})
            /\ Cardinality(Lost \cup {next - 1}) <= Cardinality(Lost) + 1
        BY <2>1, FS_AddElement
      <3>4. IsFiniteSet(Lost') /\ Cardinality(Lost') <= Cardinality(Lost \cup {next - 1})
        BY <3>2, <3>3, FS_Subset
      <3>5. Cardinality(Lost') \in Nat /\ Cardinality(Lost \cup {next - 1}) \in Nat
        BY <3>3, <3>4, FS_CardinalityType
      <3> QED
        BY <1>1, <2>1, <2>2, <2>5, <2>3, <3>1, <3>3, <3>4, <3>5 DEF LossInv, MaxTries
    <2>6. CASE tries + 1 # MaxTries
      <3>1. pc' = "tx" /\ tries' = tries + 1 /\ tries \in Nat
        BY <2>6 DEF Failed, ConsInv, ConsumerInv, MaxTries
      <3>2. Lost' \subseteq Lost
        <4>1. Passed' = 1..(next - 2)
          BY <1>1, <3>1 DEF Passed, ConsInv, ConsumerInv
        <4> QED
          BY <2>3, <2>4, <4>1 DEF Lost
      <3>3. Cardinality(Lost') \in Nat /\ Cardinality(Lost') <= Cardinality(Lost)
        BY <3>2, LossShrinks DEF ConsInv
      <3> QED
        BY <1>1, <2>1, <2>2, <3>1, <3>3 DEF LossInv, MaxTries
    <2> QED
      BY <2>5, <2>6
  <1> QED
    BY <1>3, <1>6, <1>7 DEF ConsInv

LEMMA ConsumeTxStep ==
    ASSUME ConsInv, ConsumeTx
    PROVE  ConsInv'
  <1>1. /\ running /\ pc = "tx"
        /\ UNCHANGED <<next, committed, stored, running, crashes>>
    BY DEF ConsumeTx, sessionVars
  <1>2. CASE Fault /\ Failed
    <2>1. counted' = counted \/ counted' = [counted EXCEPT ![next - 1] = @ + 1]
      BY DEF ConsumeTx, CountEvent
    <2> QED
      BY <1>1, <1>2, <2>1, FailedStep DEF AtHand
  <1>3. CASE CountEvent /\ pc' = "incr" /\ UNCHANGED <<tries, faults>>
    <2>1. next - 1 \in Msgs /\ committed < next - 1 /\ counted \in [Msgs -> Nat]
      BY <1>1, NumMsgsAssumption DEF ConsInv, ConsumerInv, AtHand, Msgs
    <2>2. /\ counted' \in [Msgs -> Nat]
          /\ counted'[next - 1] = counted[next - 1] + 1
          /\ \A m \in Msgs : m # next - 1 => counted'[m] = counted[m]
      BY <1>3, <2>1 DEF CountEvent
    <2>3. ConsumerInv'
      BY <1>1, <1>3, <2>2 DEF ConsInv, ConsumerInv, AtHand
    <2>4. \A m \in Msgs : /\ counted'[m] <= 1 + faults + crashes
                          /\ m > Mark /\ m # next - 1 => counted'[m] <= faults + crashes
      BY <1>1, <2>1, <2>2 DEF ConsInv, ConsumerInv, RepeatInv, RepeatsHaveCause, Mark
    <2>5. RepeatInv'
      <3>1. Mark' = Mark /\ faults' = faults /\ crashes' = crashes /\ next' = next
        BY <1>1, <1>3 DEF Mark
      <3> QED
        BY <1>3, <2>4, <3>1 DEF RepeatInv, RepeatsHaveCause
    <2>6. Lost' = Lost
      <3>1. Passed' = Passed /\ \A m \in Passed : m \in Msgs /\ m # next - 1
        BY <1>1, <1>3, <2>1, NumMsgsAssumption DEF Passed, Msgs, ConsInv, ConsumerInv
      <3> QED
        BY <2>2, <3>1 DEF Lost
    <2>7. LossInv'
      BY <1>1, <1>3, <2>1, <2>2, <2>6 DEF ConsInv, LossInv
    <2> QED
      BY <2>3, <2>5, <2>7 DEF ConsInv
  <1> QED
    BY <1>2, <1>3 DEF ConsumeTx

LEMMA ConsumeIncrStep ==
    ASSUME ConsInv, ConsumeIncr
    PROVE  ConsInv'
  <1>1. /\ running /\ pc = "incr"
        /\ UNCHANGED <<next, stored, running, crashes, counted>>
    BY DEF ConsumeIncr, history
  <1>2. CASE Fault /\ Failed /\ UNCHANGED committed
    BY <1>1, <1>2, FailedStep DEF AtHand
  <1>3. CASE Accepted /\ UNCHANGED faults
    <2>1. /\ next - 1 \in Msgs /\ committed < next - 1 /\ committed \in Int
          /\ next - 1 \in 0..NumMsgs
      BY <1>1, NumMsgsAssumption DEF ConsInv, ConsumerInv, AtHand, Msgs
    <2>2. committed' = next - 1 /\ pc' = "collect" /\ tries' = 0
      BY <1>3, <2>1, HighWaterAbove DEF Accepted, MarkMessages
    <2>3. ConsumerInv'
      BY <1>1, <1>3, <2>1, <2>2 DEF ConsInv, ConsumerInv, AtHand, MaxTries
    <2>4. RepeatInv'
      BY <1>1, <1>3, <2>1, <2>2 DEF ConsInv, ConsumerInv, RepeatInv, RepeatsHaveCause, Mark, Msgs
    <2>5. Lost' = Lost
      <3>1. Passed' = 1..(next - 1) /\ Passed = 1..(next - 2) /\ next \in Int
        BY <1>1, <2>2 DEF Passed, ConsInv, ConsumerInv
      <3>2. counted[next - 1] # 0
        BY <1>1, <2>1 DEF ConsInv, ConsumerInv, LossInv
      <3> QED
        BY <1>1, <3>1, <3>2 DEF Lost
    <2>6. LossInv'
      BY <1>3, <2>2, <2>5, LostFinite DEF ConsInv, ConsumerInv, LossInv, MaxTries
    <2> QED
      BY <2>3, <2>4, <2>6 DEF ConsInv
  <1> QED
    BY <1>2, <1>3 DEF ConsumeIncr

LEMMA CommitStep ==
    ASSUME ConsInv, Commit
    PROVE  ConsInv'
  <1> USE DEF Commit, AutoCommit, rest, history, consumer
  <1>1. ConsumerInv'
    BY DEF ConsInv, ConsumerInv, AtHand
  <1>2. RepeatInv'
    BY DEF ConsInv, RepeatInv, RepeatsHaveCause, Mark
  <1>3. LossInv'
    BY DEF ConsInv, LossInv, Lost, Passed
  <1> QED
    BY <1>1, <1>2, <1>3 DEF ConsInv

\* The session ends, well or in a crash: the next one starts after the mark.
LEMMA EndStep ==
    ASSUME ConsInv, Rebalance \/ Crash
    PROVE  ConsInv'
  <1>1. /\ UNCHANGED <<next, committed, faults, counted>>
        /\ running' = FALSE /\ pc' = "collect" /\ tries' = 0
        /\ \/ ~AtHand /\ running /\ stored' = committed /\ crashes' = crashes
           \/ stored' = stored /\ crashes' = crashes + 1
    BY DEF Rebalance, EndSession, Crash, CrashSession, rest, history, consumer, ConsInv,
       ConsumerInv, AtHand
  <1>2. ConsumerInv'
    <2>1. stored' \in 0..NumMsgs /\ crashes' \in Nat /\ 0 \in 0..(MaxTries - 1)
      BY <1>1 DEF ConsInv, ConsumerInv, MaxTries
    <2> QED
      BY <1>1, <2>1 DEF ConsInv, ConsumerInv, AtHand
  <1>3. RepeatInv'
    BY <1>1 DEF ConsInv, ConsumerInv, RepeatInv, RepeatsHaveCause, Mark, AtHand
  <1>4. Passed' \subseteq Passed
    BY <1>1 DEF ConsInv, ConsumerInv, Passed, AtHand
  <1>5. Lost' \subseteq Lost
    BY <1>1, <1>4 DEF Lost
  <1>6. LossInv'
    BY <1>1, <1>5, LossShrinks, LostFinite DEF ConsInv, ConsumerInv, LossInv, MaxTries
  <1> QED
    BY <1>2, <1>3, <1>6 DEF ConsInv

LEMMA StartStep ==
    ASSUME ConsInv, Start
    PROVE  ConsInv'
  <1>1. /\ ~running /\ running' = TRUE /\ next' = stored + 1 /\ committed' = stored
        /\ UNCHANGED <<stored, crashes, faults, counted, pc, tries>>
    BY DEF Start, StartSession, rest, history, consumer
  <1>2. ConsumerInv'
    BY <1>1, NumMsgsAssumption DEF ConsInv, ConsumerInv, AtHand
  <1>3. RepeatInv'
    BY <1>1 DEF ConsInv, ConsumerInv, RepeatInv, RepeatsHaveCause, Mark, AtHand
  <1>4. Lost' = Lost
    BY <1>1 DEF ConsInv, ConsumerInv, Lost, Passed, AtHand
  <1>5. LossInv'
    BY <1>1, <1>4 DEF ConsInv, ConsumerInv, LossInv, AtHand
  <1> QED
    BY <1>2, <1>3, <1>5 DEF ConsInv

LEMMA ConsStep ==
    ConsInv /\ [Next]_vars => ConsInv'
  <1> SUFFICES ASSUME ConsInv, [Next]_vars
               PROVE  ConsInv'
    OBVIOUS
  <1>1. ASSUME NEW c \in Calls, IncrReadCnt(c) \/ Get(c) \/ Finish(c)
        PROVE  ConsInv'
    BY <1>1, ConsFrame DEF IncrReadCnt, Commits, Get, Finish, IncrIfPresent, Load, SetHash,
       Expire, GiveUp, sessionVars, consumer, history, consVars
  <1>2. ASSUME NEW c \in Calls, NEW u \in Users,
               IncrLike(c, u) \/ DecrLike(c, u) \/ AddCollectionItem(c, u)
        PROVE  ConsInv'
    BY <1>2, ConsFrame DEF IncrLike, DecrLike, AddCollectionItem, Commits, sessionVars,
       consumer, consVars
  <1>3. ASSUME KeyExpires \/ UNCHANGED vars
        PROVE  ConsInv'
    BY <1>3, ConsFrame DEF KeyExpires, sessionVars, consumer, history, vars, consVars
  <1> QED
    BY <1>1, <1>2, <1>3, TakeStep, ConsumeTxStep, ConsumeIncrStep, CommitStep, EndStep,
       StartStep DEF Next

\* An event is counted once, and once more for every error and every crash at
\* most (InteractiveReadEventConsumer.Consume, "not idempotent").
THEOREM RepeatsCorrect ==
    Spec => []RepeatsHaveCause
  <1>1. ConsInv => RepeatsHaveCause
    BY DEF ConsInv, RepeatInv
  <1> QED
    BY <1>1, ConsInit, ConsStep, PTL DEF Spec

\* Every event left behind uncounted has cost three errors (Handler.ConsumeClaim).
THEOREM LossCorrect ==
    Spec => []LossNeedsThreeErrors
  <1>1. ConsInv => LossNeedsThreeErrors
    BY LostFinite DEF ConsInv, ConsumerInv, LossInv, Lost, LossNeedsThreeErrors, MaxTries
  <1> QED
    BY <1>1, ConsInit, ConsStep, PTL DEF Spec

-----------------------------------------------------------------------------
(* Types.                                                                  *)

LEMMA AddedType ==
    ASSUME cache \in Counters \cup {Absent}, NEW f \in Fields, NEW d \in {1, -1}
    PROVE  AddedIfPresent(f, d) \in Counters \cup {Absent}
  BY DEF AddedIfPresent, Counters

\* A job is idle, or says what is left.
LEMMA JobTypes ==
    /\ Idle \in Jobs
    /\ [at |-> "load"] \in Jobs
    /\ [at |-> "expire"] \in Jobs
    /\ \A f \in Fields, d \in {1, -1} : [at |-> "incr", field |-> f, delta |-> d] \in Jobs
    /\ \A s \in Counters : [at |-> "set", snap |-> s] \in Jobs
  BY DEF Jobs, Idle

LEMMA JobFields ==
    ASSUME NEW j \in Jobs
    PROVE  /\ j.at = "incr" => j.field \in Fields /\ j.delta \in {1, -1}
           /\ j.at = "set" => j.snap \in Counters
  BY DEF Jobs, Idle

LEMMA WriteTypes ==
    ASSUME TypeOK, NEW c \in Calls, NEW f \in Fields, NEW d \in {1, -1}, Commits(c, f, d),
           row' \in Counters \cup {Absent}, liked' \subseteq Users, collected' \subseteq Users,
           relikes' \in Nat
    PROVE  TypeOK'
  <1>1. job' \in [Calls -> Jobs]
    BY JobTypes DEF Commits, TypeOK
  <1>2. writes' \in 0..MaxWrites
    BY MaxWritesAssumption DEF Commits, TypeOK
  <1> QED
    BY <1>1, <1>2 DEF Commits, TypeOK, SessionTypeOK, sessionVars, consumer

LEMMA JobStepTypes ==
    ASSUME TypeOK, NEW c \in Calls, Get(c) \/ Finish(c)
    PROVE  TypeOK'
  <1>1. job[c] \in Jobs /\ \A j \in Jobs : [job EXCEPT ![c] = j] \in [Calls -> Jobs]
    BY DEF TypeOK
  <1>2. job' \in [Calls -> Jobs]
    <2>1. CASE Load(c)
      <3>1. row = Absent \/ row \in Counters
        BY DEF TypeOK
      <3> QED
        BY <1>1, <2>1, <3>1, JobTypes DEF Load
    <2> QED
      BY <1>1, <2>1, JobTypes DEF Get, Finish, IncrIfPresent, SetHash, Expire, GiveUp
  <1>3. cache' \in Counters \cup {Absent}
    BY <1>1, JobFields, AddedType DEF Get, Finish, IncrIfPresent, Load, SetHash, Expire, GiveUp,
       TypeOK
  <1>4. ttl' \in BOOLEAN /\ orphaned' \in BOOLEAN
    BY DEF Get, Finish, IncrIfPresent, Load, SetHash, Expire, GiveUp, TypeOK, history
  <1> QED
    BY <1>2, <1>3, <1>4 DEF Get, Finish, IncrIfPresent, Load, SetHash, Expire, GiveUp, TypeOK,
       SessionTypeOK, sessionVars, store, consumer, history

LEMMA ConsumerTypes ==
    ASSUME TypeOK, ConsInv, Take \/ ConsumeTx \/ ConsumeIncr
    PROVE  TypeOK'
  <1>1. ConsInv'
    BY TakeStep, ConsumeTxStep, ConsumeIncrStep
  <1>2. row' \in Counters \cup {Absent}
    BY UpsertedCount DEF Take, ConsumeTx, ConsumeIncr, CountEvent, TypeOK, store, Fields
  <1>3. cache' \in Counters \cup {Absent}
    BY AddedType DEF Take, ConsumeTx, ConsumeIncr, TypeOK, Fields
  <1>4. faults' \in 0..MaxFaults
    BY MaxFaultsAssumption DEF Take, ConsumeTx, ConsumeIncr, Fault, TypeOK
  <1>5. UNCHANGED <<stored, running, stops, crashes, liked, collected, ttl, job, writes,
                    relikes, orphaned>>
    BY DEF Take, Deliver, ConsumeTx, ConsumeIncr, sessionVars, store, history
  <1> QED
    BY <1>1, <1>2, <1>3, <1>4, <1>5 DEF TypeOK, SessionTypeOK, ConsInv, ConsumerInv

\* A crash ends a session, so there are no more of them than of stops.
TypeInv == TypeOK /\ crashes <= stops

LEMMA SessionTypes ==
    ASSUME TypeInv, ConsInv, Commit \/ Rebalance \/ Crash \/ Start
    PROVE  TypeInv'
  <1>1. ConsInv'
    BY CommitStep, EndStep, StartStep
  <1>2. stops' \in 0..MaxStops /\ crashes' \in 0..MaxStops /\ crashes' <= stops'
    BY MaxStopsAssumption DEF Commit, AutoCommit, Rebalance, EndSession, Crash, CrashSession, Start,
       StartSession, TypeInv, TypeOK, SessionTypeOK
  <1>3. UNCHANGED rest
    BY DEF Commit, Rebalance, Crash, Start
  <1> QED
    BY <1>1, <1>2, <1>3 DEF rest, store, history, TypeInv, TypeOK, SessionTypeOK, ConsInv,
       ConsumerInv

LEMMA TypeInit ==
    Init => TypeInv
  <1> SUFFICES ASSUME Init
               PROVE  TypeInv
    OBVIOUS
  <1>1. job \in [Calls -> Jobs]
    BY JobTypes DEF Init
  <1>2. SessionTypeOK /\ crashes <= stops
    BY NumMsgsAssumption, MaxStopsAssumption DEF Init, SessionInit, SessionTypeOK
  <1>3. writes \in 0..MaxWrites /\ faults \in 0..MaxFaults /\ tries \in 0..(MaxTries - 1)
    BY MaxWritesAssumption, MaxFaultsAssumption DEF Init, MaxTries
  <1>4. counted \in [Msgs -> Nat]
    BY DEF Init
  <1>5. /\ row \in Counters \cup {Absent} /\ cache \in Counters \cup {Absent}
        /\ liked \subseteq Users /\ collected \subseteq Users
        /\ ttl \in BOOLEAN /\ orphaned \in BOOLEAN /\ relikes \in Nat
        /\ pc \in {"collect", "tx", "incr"}
    BY DEF Init
  <1> QED
    BY <1>1, <1>2, <1>3, <1>4, <1>5 DEF TypeInv, TypeOK

LEMMA TypeStep ==
    TypeInv /\ CountInv /\ ConsInv /\ [Next]_vars => TypeInv'
  <1> SUFFICES ASSUME TypeInv, CountInv, ConsInv, [Next]_vars
               PROVE  TypeInv'
    OBVIOUS
  <1> USE DEF TypeInv
  <1>1. row \in Counters \cup {Absent} /\ 1 \in {1, -1} /\ -1 \in {1, -1}
        /\ Fields = {"read", "like", "collect"}
    BY DEF TypeOK, Fields
  <1>2. ASSUME NEW c \in Calls, IncrReadCnt(c)
        PROVE  TypeInv'
    <2>1. row' \in Counters
      BY <1>1, <1>2, UpsertedCount DEF IncrReadCnt
    <2>2. TypeOK'
      BY <1>1, <1>2, <2>1, WriteTypes DEF IncrReadCnt, TypeOK
    <2> QED
      BY <1>2, <2>2 DEF IncrReadCnt, Commits, sessionVars
  <1>3. ASSUME NEW c \in Calls, NEW u \in Users, IncrLike(c, u)
        PROVE  TypeInv'
    <2>1. row' \in Counters
      BY <1>1, <1>3, UpsertedCount DEF IncrLike
    <2>2. TypeOK'
      BY <1>1, <1>3, <2>1, WriteTypes DEF IncrLike, TypeOK
    <2> QED
      BY <1>3, <2>2 DEF IncrLike, Commits, sessionVars
  <1>4. ASSUME NEW c \in Calls, NEW u \in Users, DecrLike(c, u)
        PROVE  TypeInv'
    <2>1. CountInv'
      BY <1>4, CancelCounts
    <2>2. TypeOK'
      BY <1>1, <1>4, <2>1, WriteTypes DEF DecrLike, TypeOK, CountInv
    <2> QED
      BY <1>4, <2>2 DEF DecrLike, Commits, sessionVars
  <1>5. ASSUME NEW c \in Calls, NEW u \in Users, AddCollectionItem(c, u)
        PROVE  TypeInv'
    <2>1. row' \in Counters
      BY <1>1, <1>5, UpsertedCount DEF AddCollectionItem
    <2>2. TypeOK'
      BY <1>1, <1>5, <2>1, WriteTypes DEF AddCollectionItem, TypeOK
    <2> QED
      BY <1>5, <2>2 DEF AddCollectionItem, Commits, sessionVars
  <1>6. ASSUME NEW c \in Calls, Get(c) \/ Finish(c)
        PROVE  TypeInv'
    <2>1. stops' = stops /\ crashes' = crashes
      BY <1>6 DEF Get, Finish, IncrIfPresent, Load, SetHash, Expire, GiveUp, sessionVars
    <2> QED
      BY <1>6, <2>1, JobStepTypes
  <1>7. ASSUME Take \/ ConsumeTx \/ ConsumeIncr
        PROVE  TypeInv'
    <2>1. stops' = stops /\ crashes' = crashes
      BY <1>7 DEF Take, Deliver, ConsumeTx, ConsumeIncr, sessionVars
    <2> QED
      BY <1>7, <2>1, ConsumerTypes
  <1>8. ASSUME KeyExpires \/ UNCHANGED vars
        PROVE  TypeInv'
    BY <1>8 DEF KeyExpires, TypeOK, SessionTypeOK, sessionVars, store, consumer, history, vars
  <1> QED
    BY <1>2, <1>3, <1>4, <1>5, <1>6, <1>7, <1>8, SessionTypes DEF Next

\* Row, hash, jobs and session keep their shape, and the bounds hold.
THEOREM TypeCorrect ==
    Spec => []TypeOK
  <1>1. Init => TypeInv /\ CountInv /\ ConsInv
    BY TypeInit, CountInit, ConsInit
  <1>2. TypeInv /\ CountInv /\ ConsInv /\ [Next]_vars => (TypeInv /\ CountInv /\ ConsInv)'
    BY TypeStep, CountStep, ConsStep
  <1>3. TypeInv => TypeOK
    BY DEF TypeInv
  <1> QED
    BY <1>1, <1>2, <1>3, PTL DEF Spec

-----------------------------------------------------------------------------
(* The hash in Redis.                                                      *)

\* The hash is the row, and nobody is about to change it to anything else.
InStep ==
    /\ cache \in {Absent, row}
    /\ pc # "incr"
    /\ \A c \in Calls : /\ job[c].at # "incr"
                        /\ job[c].at = "set" => job[c].snap = row

\* An event that is counted changes the row.
LEMMA CountEventMoves ==
    ASSUME TypeOK, CountEvent
    PROVE  row' # row
  <1>1. "read" \in Fields /\ row \in Counters \cup {Absent}
    BY DEF Fields, TypeOK
  <1>2. row' \in Counters /\ Count("read")' = Count("read") + 1 /\ Count("read") \in Int
    <2>1. Count("read") \in Int
      BY <1>1 DEF Count, Counters
    <2> QED
      BY <1>1, <2>1, UpsertedCount DEF CountEvent
  <1> QED
    BY <1>2 DEF Count

\* The step of a call that is no write.
LEMMA CallInStep ==
    ASSUME TypeOK, InStep, NEW c \in Calls, Get(c) \/ Finish(c)
    PROVE  InStep'
  <1>1. job \in [Calls -> Jobs]
    BY DEF TypeOK
  <1>2. ASSUME NEW j, job' = [job EXCEPT ![c] = j], j.at # "incr", j.at = "set" => j.snap = row,
               UNCHANGED <<row, pc>>, cache' \in {Absent, row}
        PROVE  InStep'
    BY <1>1, <1>2 DEF InStep
  <1>3. CASE Get(c)
    BY <1>2, <1>3 DEF Get, store, consumer, InStep
  <1>4. CASE Load(c)
    BY <1>2, <1>4 DEF Load, Idle, store, consumer, InStep
  <1>5. CASE SetHash(c)
    BY <1>2, <1>5 DEF SetHash, store, consumer, InStep
  <1>6. CASE Expire(c) \/ GiveUp(c)
    BY <1>2, <1>6 DEF Expire, GiveUp, Idle, store, consumer, InStep
  <1>7. ~IncrIfPresent(c)
    BY DEF IncrIfPresent, InStep
  <1> QED
    BY <1>3, <1>4, <1>5, <1>6, <1>7 DEF Finish

\* What CacheConverges reaches is lost only by another write of the row, or by
\* a cancel, which counts in the hash even when there was nothing to cancel: no
\* Get, no error, no expiry and no crash takes the hash away from the row.
THEOREM HashStaysInStep ==
    Spec => [][InStep /\ UNCHANGED <<row, writes>> => InStep']_vars
  <1>1. TypeOK /\ [Next]_vars => [InStep /\ UNCHANGED <<row, writes>> => InStep']_vars
    <2> SUFFICES ASSUME TypeOK, Next, InStep, UNCHANGED <<row, writes>>
                 PROVE  InStep'
      OBVIOUS
    <2>1. ASSUME NEW c \in Calls,
                 \/ IncrReadCnt(c)
                 \/ \E u \in Users : IncrLike(c, u) \/ DecrLike(c, u) \/ AddCollectionItem(c, u)
          PROVE  FALSE
      <3>1. writes' = writes + 1 /\ writes \in Nat
        BY <2>1, MaxWritesAssumption
           DEF IncrReadCnt, IncrLike, DecrLike, AddCollectionItem, Commits, TypeOK
      <3> QED
        BY <3>1
    <2>2. CASE KeyExpires \/ Commit \/ Rebalance \/ Crash \/ Start \/ Take
      <3>1. job' = job /\ cache' \in {cache, Absent} /\ pc' \in {pc, "collect", "tx"}
        BY <2>2 DEF KeyExpires, Commit, Rebalance, Crash, Start, Take, consumer, rest
      <3> QED
        BY <3>1 DEF InStep
    <2>3. CASE ConsumeTx
      <3>1. /\ job' = job /\ cache' = cache
            /\ pc' \in {"collect", "tx"}
        BY <2>3, CountEventMoves DEF ConsumeTx, Failed
      <3> QED
        BY <3>1 DEF InStep
    <2>4. ~ConsumeIncr
      BY DEF ConsumeIncr, InStep
    <2> QED
      BY <2>1, <2>2, <2>3, <2>4, CallInStep DEF Next
  <1> QED
    BY <1>1, TypeCorrect, PTL DEF Spec
=============================================================================
