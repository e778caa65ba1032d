------------------------- MODULE ClaimHandlersProofs -------------------------
(***************************************************************************)
(* Theorems about the three simple handlers of pkg/saramax, for every      *)
(* partition, batch size, set of undecodable messages and number of        *)
(* sessions that end.                                                      *)
(*                                                                         *)
(* IInv is the inductive invariant.  LoopInv and BatchInv say what the     *)
(* loop holds at each of its control states: a batch is an interval that   *)
(* ends with the last message delivered.  OrderInv says where a message    *)
(* that is not settled can be; it extends MarksInOrder to the stored mark, *)
(* from which the next session starts.  DupInv bounds the acceptances of   *)
(* each message by the sessions that have had it.                          *)
(***************************************************************************)
EXTENDS ClaimHandlers, FiniteSetTheorems, TLAPS

\* The most a loop gathers.
Room == IF kind = "sync" THEN 1 ELSE BatchSize

LoopInv ==
    /\ kind = "sync" => pc \in {"collect", "fn", "mark"}
    /\ kind = "batch" => pc \in {"collect", "markBad", "fn", "mark"}
    /\ kind = "async" => pc \in {"collect", "wait"}
    /\ kind # "async" => tasks = {}
    /\ ~running => pc = "collect" /\ batch = {}

BatchInv ==
    /\ Cardinality(batch) < next
    /\ batch = (next - Cardinality(batch))..(next - 1)
    /\ pc = "collect" => Cardinality(batch) < Room
    /\ pc = "markBad" => batch # {}

MarkInv ==
    /\ stored <= committed
    /\ committed < next
    /\ crashes <= stops

\* The claim of MarksInOrder for any mark.
InOrderUpTo(mark) ==
    \A m \in (1..mark) \ settled :
        /\ kind = "batch"
        /\ \E b \in undecodable : m < b /\ b < m + BatchSize /\ b <= mark

\* Where a message that is not settled can be.
HeldInv ==
    /\ kind # "async" => batch \cap Bad \subseteq undecodable
    /\ pc = "markBad" => next - 1 \in undecodable
    /\ pc = "mark" => batch \subseteq settled
    /\ kind = "async" => \A m \in batch \ settled : <<stops, m>> \in tasks
    /\ running => \A m \in 1..(next - 1) : m \in settled \cup batch \/ m <= committed

OrderInv == HeldInv /\ InOrderUpTo(committed) /\ InOrderUpTo(stored)

\* The sessions whose goroutine for m is among T.
RunsIn(T, m) == {s \in 0..MaxStops : <<s, m>> \in T}

\* Handler and BatchHandler: what the session has not marked yet, and fn has
\* not just accepted, fn accepted at most once per crash.
FreshInv ==
    kind # "async" => \A m \in Msgs :
        IF running
          THEN (m > committed \/ m \in batch) /\ ~(pc = "mark" /\ m \in batch)
                  => successes[m] <= crashes
          ELSE m > stored => successes[m] <= crashes

\* AsyncHandler: each session that has received a message accounts for one
\* acceptance, or for one goroutine that may still get it.
SessionsInv ==
    kind = "async" => \A m \in Msgs :
        successes[m] + Cardinality(RunsIn(tasks, m))
            <= stops + (IF running /\ m < next THEN 1 ELSE 0)

DupInv == DuplicatesBounded /\ FreshInv /\ SessionsInv

IInv == TypeOK /\ LoopInv /\ BatchInv /\ MarkInv /\ OrderInv /\ DupInv

-----------------------------------------------------------------------------
(* Marks and batches.                                                      *)

USE NumMsgsAssumption, MaxStopsAssumption, HandlersAssumption, BadAssumption,
    BatchSizeAssumption

\* Marking an interval of offsets moves the mark to its end, or not at all.
LEMMA HighWaterOfInterval ==
    ASSUME NEW a \in Int, NEW b \in Int, NEW mark \in Int
    PROVE  HighWater(a..b, mark) = IF a <= b /\ b > mark THEN b ELSE mark
  <1> DEFINE top == IF a <= b /\ b > mark THEN b ELSE mark
             all == (a..b) \cup {mark}
  <1>1. top \in all /\ \A n \in all : n <= top
    OBVIOUS
  <1>2. \A m \in all : (\A n \in all : n <= m) => m = top
    BY <1>1
  <1>3. (CHOOSE m \in all : \A n \in all : n <= m) = top
    BY <1>1, <1>2
  <1> QED
    BY <1>3 DEF HighWater

LEMMA HighWaterOfOne ==
    ASSUME NEW n \in Int, NEW mark \in Int
    PROVE  HighWater({n}, mark) = IF n > mark THEN n ELSE mark
  <1>1. {n} = n..n
    OBVIOUS
  <1>2. HighWater(n..n, mark) = IF n <= n /\ n > mark THEN n ELSE mark
    BY HighWaterOfInterval
  <1> QED
    BY <1>1, <1>2

\* What IInv says of the batch, in one place.
LEMMA BatchFacts ==
    ASSUME TypeOK, BatchInv
    PROVE  /\ IsFiniteSet(batch)
           /\ Cardinality(batch) \in Nat
           /\ next \in Nat \ {0}
           /\ \A m \in batch : m \in Msgs /\ m < next
           /\ Cardinality(batch) = 0 <=> batch = {}
           /\ batch # {} => next - 1 \in batch
           /\ next \notin batch
  <1>1. next \in Nat \ {0} /\ batch \subseteq Msgs
    BY DEF TypeOK, SessionTypeOK
  <1>2. IsFiniteSet(Msgs)
    BY FS_Interval DEF Msgs
  <1>3. IsFiniteSet(batch)
    BY <1>1, <1>2, FS_Subset
  <1>4. Cardinality(batch) \in Nat
    BY <1>3, FS_CardinalityType
  <1>5. Cardinality(batch) = 0 <=> batch = {}
    BY <1>3, FS_EmptySet
  <1>6. batch = (next - Cardinality(batch))..(next - 1)
    BY DEF BatchInv
  <1>7. batch # {} => next - 1 \in batch
    BY <1>1, <1>4, <1>5, <1>6
  <1> QED
    BY <1>1, <1>3, <1>4, <1>5, <1>6, <1>7

\* Gathering the next message makes the batch longer by one at its end.
LEMMA Gather ==
    ASSUME TypeOK, BatchInv, next <= NumMsgs
    PROVE  LET b == batch \cup {next}
           IN  /\ b \subseteq Msgs
               /\ Cardinality(b) = Cardinality(batch) + 1
               /\ b = (next + 1 - Cardinality(b))..next
  <1> DEFINE b == batch \cup {next}
  <1>1. /\ IsFiniteSet(batch) /\ Cardinality(batch) \in Nat /\ next \in Nat \ {0}
        /\ next \notin batch /\ Cardinality(batch) < next /\ batch \subseteq Msgs
        /\ batch = (next - Cardinality(batch))..(next - 1)
    BY BatchFacts DEF BatchInv, TypeOK
  <1>2. Cardinality(b) = Cardinality(batch) + 1
    BY <1>1, FS_AddElement
  <1>3. b = (next - Cardinality(batch))..next
    BY <1>1
  <1>4. next \in Msgs
    BY <1>1 DEF Msgs
  <1> HIDE DEF b
  <1>5. b = (next + 1 - Cardinality(b))..next
    BY <1>1, <1>2, <1>3
  <1> QED
    BY <1>1, <1>2, <1>4, <1>5 DEF b

\* Marking the batch: the new mark is the old one or the last message of the
\* batch, and no message of the batch is above it.
LEMMA MarkBatch ==
    ASSUME IInv, MarkMessages(batch)
    PROVE  /\ committed' \in 0..NumMsgs
           /\ committed' < next
           /\ committed <= committed'
           /\ \A m \in batch : m <= committed'
           /\ committed' # committed => batch # {} /\ committed' = next - 1
  <1>1. /\ Cardinality(batch) \in Nat /\ next \in Nat \ {0} /\ next <= NumMsgs + 1
        /\ committed \in Nat /\ committed < next
        /\ batch = (next - Cardinality(batch))..(next - 1)
    BY BatchFacts DEF IInv, BatchInv, MarkInv, TypeOK, SessionTypeOK
  <1>2. committed' = IF next - Cardinality(batch) <= next - 1 /\ next - 1 > committed
                       THEN next - 1 ELSE committed
    BY <1>1, HighWaterOfInterval DEF MarkMessages
  <1>3. next - Cardinality(batch) <= next - 1 => next - 1 \in batch
    BY <1>1
  <1> QED
    BY <1>1, <1>2, <1>3

\* Marking the undecodable message that was delivered last.
LEMMA MarkLast ==
    ASSUME IInv, pc = "markBad", MarkMessages({next - 1})
    PROVE  committed' = next - 1 /\ committed <= next - 1 /\ next - 1 \in Msgs
  <1>1. next \in Nat /\ committed \in Nat /\ committed < next /\ next - 1 \in Msgs
    BY BatchFacts DEF IInv, BatchInv, MarkInv, TypeOK, SessionTypeOK
  <1>2. committed' = IF next - 1 > committed THEN next - 1 ELSE committed
    BY <1>1, HighWaterOfOne DEF MarkMessages
  <1> QED
    BY <1>1, <1>2

-----------------------------------------------------------------------------
(* Types, the loop and the batch: one step per action.  The bound on        *)
(* successes is left to DupInv.                                            *)

Types ==
    /\ SessionTypeOK
    /\ kind \in Handlers
    /\ pc \in {"collect", "markBad", "fn", "mark", "wait"}
    /\ batch \subseteq Msgs
    /\ Cardinality(batch) <= Room
    /\ tries \in 0..(MaxTries - 1)
    /\ tasks \subseteq (0..MaxStops) \X Msgs
    /\ successes \in [Msgs -> Nat]
    /\ refused \subseteq Msgs
    /\ undecodable \subseteq Msgs

ShapeInv == Types /\ LoopInv /\ BatchInv /\ MarkInv

\* An empty batch fits everywhere.
LEMMA EmptyBatch ==
    ASSUME batch' = {}, next' \in Nat \ {0}, kind' \in Handlers
    PROVE  /\ (Cardinality(batch) = 0)'
           /\ (Cardinality(batch) < next)'
           /\ (batch = (next - Cardinality(batch))..(next - 1))'
           /\ (Cardinality(batch) < Room)'
           /\ (batch \subseteq Msgs)'
  <1>1. Cardinality({}) = 0
    BY FS_EmptySet
  <1> QED
    BY <1>1 DEF Room

\* The message at hand, or the batch, is acceptable to fn.
LEMMA AcceptTypes ==
    ASSUME TypeOK, NEW S \in SUBSET Msgs, Accept(S)
    PROVE  /\ successes' \in [Msgs -> Nat]
           /\ \A m \in S : successes'[m] = successes[m] + 1
           /\ \A m \in Msgs \ S : successes'[m] = successes[m]
  BY DEF TypeOK, Accept

\* The handlers' steps that receive a message.
LEMMA CollectShape ==
    ASSUME IInv, Collect
    PROVE  ShapeInv'
  <1>1. /\ running /\ next <= NumMsgs /\ next' = next + 1
        /\ committed' = committed /\ stored' = stored /\ running' = running
        /\ stops' = stops /\ crashes' = crashes /\ kind' = kind /\ tries' = tries
        /\ successes' = successes /\ refused' = refused /\ pc = "collect"
        /\ undecodable' \in {undecodable, undecodable \cup {next}}
        /\ next \in Nat \ {0}
    BY DEF Collect, SyncTake, BatchCollect, AsyncCollect, Deliver, history, IInv, TypeOK,
       SessionTypeOK
  <1>9. next \in Msgs /\ undecodable' \subseteq Msgs
    BY <1>1 DEF IInv, TypeOK, Msgs
  <1>2. /\ batch \cup {next} \subseteq Msgs
        /\ Cardinality(batch \cup {next}) = Cardinality(batch) + 1
        /\ batch \cup {next} = (next + 1 - Cardinality(batch \cup {next}))..next
    BY <1>1, Gather DEF IInv
  <1>3. Cardinality(batch) \in Nat /\ (Cardinality(batch) = 0 <=> batch = {})
    BY BatchFacts DEF IInv
  <1>4. MarkInv' /\ SessionTypeOK'
    BY <1>1 DEF MarkInv, IInv, TypeOK, SessionTypeOK
  <1>5. successes \in [Msgs -> Nat]
    BY DEF IInv, TypeOK
  <1>6. Cardinality(batch) < Room
    BY <1>1 DEF IInv, BatchInv
  <1>7. CASE SyncTake
    <2>1. kind = "sync" /\ Room = 1 /\ Room' = 1 /\ batch = {} /\ tasks' = tasks /\ kind' = "sync"
      BY <1>1, <1>3, <1>6, <1>7 DEF SyncTake, Room
    <2>2. \/ batch' = {} /\ pc' = pc
          \/ batch' = batch \cup {next} /\ pc' = "fn"
      BY <1>7, <2>1 DEF SyncTake
    <2>3. Types'
      <3>1. batch' \subseteq Msgs /\ Cardinality(batch') <= 1
        <4>1. CASE batch' = {}
          BY <4>1, FS_EmptySet
        <4>2. CASE batch' = batch \cup {next}
          BY <4>2, <1>2, <1>3, <2>1
        <4> QED
          BY <2>2, <4>1, <4>2
      <3> QED
        BY <1>1, <1>4, <1>5, <1>9, <2>1, <2>2, <3>1 DEF Types, IInv, TypeOK
    <2>4. LoopInv'
      BY <1>1, <2>1, <2>2 DEF LoopInv, IInv
    <2>5. BatchInv'
      <3>1. CASE batch' = {} /\ pc' = pc
        BY <3>1, <1>1, EmptyBatch DEF BatchInv, IInv, TypeOK
      <3>2. CASE batch' = batch \cup {next} /\ pc' = "fn"
        <4>1. Cardinality(batch') = 1
          BY <1>2, <1>3, <2>1, <3>2
        <4>2. batch' = (next + 1 - Cardinality(batch'))..next
          BY <1>2, <3>2
        <4>3. batch' = (next' - Cardinality(batch'))..(next' - 1)
          BY <1>1, <4>1, <4>2
        <4> QED
          BY <1>1, <3>2, <4>1, <4>3 DEF BatchInv
      <3> QED
        BY <2>2, <3>1, <3>2
    <2> QED
      BY <2>3, <2>4, <2>5, <1>4 DEF ShapeInv
  <1>8. CASE BatchCollect \/ AsyncCollect
    <2>1. /\ batch' = batch \cup {next} /\ kind \in {"batch", "async"}
          /\ Room = BatchSize /\ Room' = BatchSize
      BY <1>1, <1>8 DEF BatchCollect, AsyncCollect, Room
    <2>2. Cardinality(batch') \in Nat /\ Cardinality(batch') <= BatchSize /\ batch' \subseteq Msgs
      BY <1>2, <1>3, <1>6, <2>1
    <2>3. tasks' \subseteq (0..MaxStops) \X Msgs
      BY <1>1, <1>9, <1>8 DEF BatchCollect, AsyncCollect, IInv, TypeOK, SessionTypeOK
    <2>4. kind = "batch" => tasks' = tasks /\ pc' \in {"markBad", "fn", "collect"}
      BY <1>8 DEF BatchCollect, AsyncCollect, AfterCollecting
    <2>5. kind = "async" => pc' \in {"wait", "collect"}
      BY <1>8 DEF BatchCollect, AsyncCollect
    <2>6. pc' = "collect" => Cardinality(batch') # BatchSize
      BY <1>8 DEF BatchCollect, AsyncCollect, AfterCollecting
    <2>7. Types'
      BY <1>1, <1>4, <1>5, <1>9, <2>1, <2>2, <2>3, <2>4, <2>5 DEF Types, IInv, TypeOK
    <2>8. LoopInv'
      BY <1>1, <2>1, <2>4, <2>5 DEF LoopInv, IInv
    <2>9. BatchInv'
      <3>1. Cardinality(batch') < next + 1
        BY <1>1, <1>2, <1>3, <2>1 DEF IInv, BatchInv
      <3>2. batch' = (next + 1 - Cardinality(batch'))..next
        BY <1>2, <2>1
      <3>3. batch' = (next' - Cardinality(batch'))..(next' - 1)
        BY <1>1, <2>2, <3>2
      <3>4. pc' = "collect" => Cardinality(batch') < Room'
        BY <2>1, <2>2, <2>6
      <3>5. batch' # {}
        BY <2>1
      <3> QED
        BY <1>1, <3>1, <3>3, <3>4, <3>5 DEF BatchInv
    <2> QED
      BY <2>7, <2>8, <2>9, <1>4 DEF ShapeInv
  <1> QED
    BY <1>7, <1>8 DEF Collect

LEMMA ShapeNow ==
    ASSUME IInv
    PROVE  ShapeInv
  <1>1. successes \in [Msgs -> Nat]
    BY DEF IInv, TypeOK
  <1> QED
    BY <1>1 DEF IInv, ShapeInv, TypeOK, Types, Room

\* The loop's other steps move pc, empty the batch or keep it.
LEMMA WorkShape ==
    ASSUME IInv, Timeout \/ Work
    PROVE  ShapeInv'
  <1> USE ShapeNow DEF ShapeInv
  <1>1. running /\ UNCHANGED <<next, stored, running, stops, crashes, kind, tasks>>
    BY DEF Timeout, BatchTimeout, AsyncTimeout, Work, SyncFnFails, BatchMarkBad, BatchFnFails,
       FnSucceeds, Mark, AsyncMark, sessionVars
  <1>2. next \in Nat \ {0} /\ next' \in Nat \ {0} /\ kind' \in Handlers
    BY <1>1 DEF Types, SessionTypeOK
  <1>3. /\ committed' \in 0..NumMsgs /\ committed' < next
        /\ committed <= committed'
    <2>1. CASE UNCHANGED committed
      BY <2>1 DEF Types, SessionTypeOK, MarkInv
    <2>2. CASE BatchMarkBad
      BY <2>2, <1>2, MarkLast DEF BatchMarkBad, Types, SessionTypeOK, Msgs
    <2>3. CASE Mark \/ AsyncMark
      BY <2>3, MarkBatch DEF Mark, AsyncMark
    <2> QED
      BY <2>1, <2>2, <2>3 DEF Timeout, BatchTimeout, AsyncTimeout, Work, SyncFnFails,
         BatchFnFails, FnSucceeds, sessionVars
  <1>4. SessionTypeOK' /\ MarkInv'
    BY <1>1, <1>2, <1>3 DEF Types, SessionTypeOK, MarkInv
  <1>5. successes' \in [Msgs -> Nat]
    <2>1. CASE FnSucceeds
      BY <2>1, AcceptTypes DEF FnSucceeds, IInv, TypeOK
    <2> QED
      BY <2>1 DEF Types, Timeout, BatchTimeout, AsyncTimeout, Work, SyncFnFails, BatchMarkBad,
         BatchFnFails, Mark, AsyncMark, history
  <1>6. tries' \in 0..(MaxTries - 1)
    BY DEF Types, Timeout, BatchTimeout, AsyncTimeout, Work, SyncFnFails, BatchMarkBad,
       BatchFnFails, FnSucceeds, Mark, AsyncMark, MaxTries
  <1>7. refused' \subseteq Msgs /\ undecodable' \subseteq Msgs
    BY DEF Types, Timeout, BatchTimeout, AsyncTimeout, Work, SyncFnFails, BatchMarkBad,
       BatchFnFails, FnSucceeds, Mark, AsyncMark, history
  <1>8. /\ \/ batch' = {} /\ pc' = "collect"
           \/ batch' = batch /\ pc' \in {"fn", "mark", "wait"}
           \/ batch' = batch /\ pc' = "collect" /\ pc = "markBad" /\ kind = "batch"
                 /\ Cardinality(batch) # BatchSize
        /\ pc' = "wait" => kind = "async"
        /\ pc' \in {"fn", "mark"} => kind # "async"
    BY DEF Timeout, BatchTimeout, AsyncTimeout, Work, SyncFnFails, BatchMarkBad,
       BatchFnFails, FnSucceeds, Mark, AsyncMark, AfterCollecting, LoopInv, Types
  <1>9. LoopInv'
    BY <1>1, <1>8, HandlersAssumption DEF LoopInv, Types
  <1>10. CASE batch' = {}
    <2>1. BatchInv'
      BY <1>2, <1>8, <1>10, EmptyBatch DEF BatchInv, LoopInv
    <2>2. Cardinality(batch') <= Room'
      BY <1>2, <1>10, EmptyBatch DEF Room
    <2> QED
      BY <1>1, <1>2, <1>4, <1>5, <1>6, <1>7, <1>8, <1>9, <1>10, <2>1, <2>2 DEF Types
  <1>11. CASE batch' = batch
    <2>1. Room' = Room
      BY <1>1 DEF Room
    <2>2. Cardinality(batch) \in Nat
      BY BatchFacts DEF IInv
    <2>3. pc' = "collect" => Cardinality(batch) < Room
      BY <1>8, <2>2, EmptyBatch, <1>2, <1>11, <2>1 DEF Room, Types
    <2>4. BatchInv'
      BY <1>1, <1>8, <1>11, <2>1, <2>3 DEF BatchInv
    <2> QED
      BY <1>1, <1>2, <1>4, <1>5, <1>6, <1>7, <1>8, <1>9, <1>11, <2>1, <2>4 DEF Types
  <1> QED
    BY <1>8, <1>10, <1>11

\* Goroutines, background commits, the ends and the starts of sessions.
LEMMA SessionShape ==
    ASSUME IInv, Task \/ Commit \/ ClaimClosed \/ Crash \/ Start \/ UNCHANGED vars
    PROVE  ShapeInv'
  <1> USE ShapeNow DEF ShapeInv
  <1>1. CASE Task \/ UNCHANGED vars
    <2>1. UNCHANGED <<sessionVars, kind, pc, batch, tries>> /\ tasks' \subseteq tasks
      BY <1>1 DEF Task, TaskEnds, vars, sessionVars
    <2>2. successes' \in [Msgs -> Nat] /\ refused' \subseteq Msgs /\ undecodable' \subseteq Msgs
      <3>1. CASE UNCHANGED vars
        BY <3>1 DEF vars, Types
      <3>2. ASSUME NEW t \in (0..MaxStops) \X Msgs, TaskEnds(t)
            PROVE  /\ successes' \in [Msgs -> Nat] /\ refused' \subseteq Msgs
                   /\ undecodable' \subseteq Msgs
        <4>1. t[2] \in Msgs
          OBVIOUS
        <4>2. Accept({t[2]}) => successes' \in [Msgs -> Nat]
          BY <4>1, AcceptTypes DEF IInv
        <4> QED
          BY <3>2, <4>1, <4>2 DEF TaskEnds, Types
      <3> QED
        BY <1>1, <3>1, <3>2 DEF Task
    <2> QED
      BY <2>1, <2>2 DEF sessionVars, Types, SessionTypeOK, LoopInv, BatchInv, MarkInv, Room
  <1>2. CASE Commit
    BY <1>2 DEF Commit, AutoCommit, loopVars, history, Types, SessionTypeOK, LoopInv, BatchInv,
       MarkInv, Room
  <1>3. CASE ClaimClosed \/ Crash \/ Start
    <2>1. /\ batch' = {} /\ pc' = "collect" /\ kind' = kind
          /\ tasks' \subseteq tasks /\ tries' \in 0..(MaxTries - 1)
          /\ UNCHANGED history
      BY <1>3 DEF ClaimClosed, Crash, Start, EndSession, CrashSession, StartSession, loopVars,
         Types, LoopInv, MaxTries
    <2>2. SessionTypeOK' /\ MarkInv'
      <3>1. /\ next \in 1..(NumMsgs + 1) /\ committed \in 0..NumMsgs /\ stored \in 0..NumMsgs
            /\ stops \in 0..MaxStops /\ crashes \in 0..MaxStops /\ crashes <= stops
            /\ stored <= committed /\ committed < next
        BY DEF Types, SessionTypeOK, MarkInv
      <3>2. CASE ClaimClosed
        <4>1. /\ stops < MaxStops /\ stops' = stops + 1 /\ running' = FALSE
              /\ stored' = committed /\ UNCHANGED <<next, committed, crashes>>
          BY <3>2 DEF ClaimClosed, EndSession
        <4>2. MarkInv'
          BY <3>1, <4>1 DEF MarkInv
        <4>3. stops' \in 0..MaxStops
          BY <3>1, <4>1
        <4> QED
          BY <3>1, <4>1, <4>2, <4>3 DEF SessionTypeOK
      <3>4. CASE Crash
        <4>1. /\ stops < MaxStops /\ stops' = stops + 1 /\ running' = FALSE
              /\ crashes' = crashes + 1 /\ UNCHANGED <<next, committed, stored>>
          BY <3>4 DEF Crash, CrashSession
        <4>2. MarkInv'
          BY <3>1, <4>1 DEF MarkInv
        <4>3. stops' \in 0..MaxStops /\ crashes' \in 0..MaxStops
          BY <3>1, <4>1
        <4> QED
          BY <3>1, <4>1, <4>2, <4>3 DEF SessionTypeOK
      <3>3. CASE Start
        BY <3>3 DEF Start, StartSession, Types, SessionTypeOK, MarkInv
      <3> QED
        BY <1>3, <3>2, <3>3, <3>4
    <2>3. next' \in Nat \ {0}
      BY <2>2 DEF SessionTypeOK
    <2>4. LoopInv'
      BY <2>1 DEF LoopInv, Types
    <2>5. BatchInv' /\ Cardinality(batch') <= Room'
      BY <2>1, <2>3, EmptyBatch DEF BatchInv, Types, Room
    <2> QED
      BY <2>1, <2>2, <2>4, <2>5 DEF Types, history
  <1> QED
    BY <1>1, <1>2, <1>3

-----------------------------------------------------------------------------
(* Settled messages and marks.                                             *)

\* What one step settles.
LEMMA SettledBy ==
    ASSUME IInv, [Next]_vars
    PROVE  /\ settled \subseteq settled'
           /\ undecodable \subseteq undecodable'
           /\ settled' \subseteq Msgs
  <1>1. successes \in [Msgs -> Nat] /\ undecodable \subseteq Msgs /\ refused \subseteq Msgs
    BY DEF IInv, TypeOK
  <1>2. undecodable \subseteq undecodable' /\ refused \subseteq refused'
    BY DEF Next, Collect, SyncTake, BatchCollect, AsyncCollect, Timeout, BatchTimeout,
       AsyncTimeout, Task, TaskEnds, Work, SyncFnFails, BatchMarkBad, BatchFnFails, FnSucceeds,
       Mark, AsyncMark, Commit, ClaimClosed, Crash, Start, loopVars, history, vars
  <1>3. ASSUME NEW S, Accept(S)
        PROVE  \A m \in Msgs : successes'[m] \in {successes[m], successes[m] + 1}
    BY <1>3, <1>1 DEF Accept
  <1>4. successes' = successes \/ \E S : Accept(S)
    BY DEF Next, Collect, SyncTake, BatchCollect, AsyncCollect, Timeout, BatchTimeout,
       AsyncTimeout, Task, TaskEnds, Work, SyncFnFails, BatchMarkBad, BatchFnFails, FnSucceeds,
       Mark, AsyncMark, Commit, ClaimClosed, Crash, Start, loopVars, history, vars
  <1>5. \A m \in Msgs : successes[m] > 0 => successes'[m] > 0
    BY <1>1, <1>3, <1>4
  <1>6. settled' \subseteq Msgs
    BY <1>1, ShapeNow, CollectShape, WorkShape, SessionShape DEF settled, ShapeInv, Types, Next
  <1> QED
    BY <1>1, <1>2, <1>5, <1>6 DEF settled

\* The accepted messages are settled.
LEMMA AcceptSettles ==
    ASSUME IInv, NEW S \in SUBSET Msgs, Accept(S)
    PROVE  S \subseteq settled'
  <1>1. \A m \in S : successes'[m] = successes[m] + 1 /\ successes[m] \in Nat
    BY AcceptTypes DEF IInv, TypeOK
  <1> QED
    BY <1>1 DEF settled

\* A mark that does not move keeps its order while more is settled.
LEMMA OrderKept ==
    ASSUME IInv, [Next]_vars, kind' = kind, NEW mark, NEW mark1, mark1 = mark,
           InOrderUpTo(mark)
    PROVE  \A m \in (1..mark1) \ settled' :
              /\ kind' = "batch"
              /\ \E b \in undecodable' : m < b /\ b < m + BatchSize /\ b <= mark1
  BY SettledBy DEF InOrderUpTo

\* Receiving: the new message is in the batch, or settled, or has a goroutine.
LEMMA CollectHeld ==
    ASSUME IInv, Collect
    PROVE  HeldInv'
  <1>1. settled \subseteq settled' /\ undecodable \subseteq undecodable'
    BY SettledBy DEF Next
  <1>2. /\ running /\ running' = running /\ next' = next + 1 /\ committed' = committed
        /\ kind' = kind /\ stops' = stops /\ next \in Nat \ {0} /\ pc = "collect"
        /\ kind \in {"sync", "batch", "async"}
    BY HandlersAssumption DEF Collect, SyncTake, BatchCollect, AsyncCollect, Deliver, IInv,
       TypeOK, SessionTypeOK
  <1>3. /\ \/ batch' = batch \cup {next}
           \/ batch' = batch /\ next \in undecodable'
        /\ kind # "async" /\ next \in Bad => next \in undecodable'
        /\ kind = "async" => tasks' = tasks \cup {<<stops, next>>}
        /\ pc' = "markBad" => next \in undecodable'
        /\ pc' # "mark"
    <2>1. CASE SyncTake
      <3>1. batch = {} /\ kind = "sync"
        <4>1. kind = "sync" /\ Cardinality(batch) < Room
          BY <1>2, <2>1 DEF SyncTake, IInv, BatchInv
        <4> QED
          BY <4>1, BatchFacts DEF IInv, Room
      <3> QED
        BY <1>2, <2>1, <3>1 DEF SyncTake
    <2>2. CASE BatchCollect
      <3>1. kind = "batch" /\ batch' = batch \cup {next}
        BY <2>2 DEF BatchCollect
      <3>2. CASE next \in Bad
        BY <2>2, <3>1, <3>2 DEF BatchCollect
      <3>3. CASE next \notin Bad
        <4>1. pc' \in {"fn", "collect"}
          BY <2>2, <3>3 DEF BatchCollect, AfterCollecting
        <4> QED
          BY <3>1, <3>3, <4>1
      <3> QED
        BY <3>2, <3>3
    <2>3. CASE AsyncCollect
      <3>1. kind = "async" /\ batch' = batch \cup {next} /\ pc' \in {"wait", "collect"}
        BY <2>3 DEF AsyncCollect
      <3>2. tasks' = tasks \cup {<<stops, next>>}
        BY <2>3 DEF AsyncCollect
      <3> QED
        BY <3>1, <3>2
    <2> QED
      BY <2>1, <2>2, <2>3 DEF Collect
  <1>5. next \in undecodable' => next \in settled'
    BY DEF settled
  <1>6. next' - 1 = next /\ \A m \in 1..(next' - 1) : m = next \/ m \in 1..(next - 1)
    BY <1>2
  <1>7. \A m \in 1..(next' - 1) : m \in settled' \cup batch' \/ m <= committed'
    BY <1>1, <1>2, <1>3, <1>5, <1>6 DEF IInv, OrderInv, HeldInv
  <1>8. kind' = "async" => \A m \in batch' \ settled' : <<stops', m>> \in tasks'
    BY <1>1, <1>2, <1>3, <1>5 DEF IInv, OrderInv, HeldInv
  <1>9. kind' # "async" => batch' \cap Bad \subseteq undecodable'
    BY <1>1, <1>2, <1>3 DEF IInv, OrderInv, HeldInv
  <1> QED
    BY <1>2, <1>3, <1>6, <1>7, <1>8, <1>9 DEF HeldInv

\* The end of a call of fn settles the batch, a mark covers it.
LEMMA WorkHeld ==
    ASSUME IInv, Timeout \/ Work
    PROVE  HeldInv'
  <1>1. /\ settled \subseteq settled' /\ undecodable \subseteq undecodable'
        /\ undecodable \subseteq settled /\ undecodable' \subseteq settled'
    BY SettledBy DEF Next, settled
  <1>2. running /\ UNCHANGED <<next, running, stops, kind, tasks>>
    BY DEF Timeout, BatchTimeout, AsyncTimeout, Work, SyncFnFails, BatchMarkBad, BatchFnFails,
       FnSucceeds, Mark, AsyncMark, sessionVars
  <1>3. /\ batch \subseteq Msgs
        /\ kind # "async" => batch \cap Bad \subseteq undecodable
        /\ kind = "async" => \A m \in batch \ settled : <<stops, m>> \in tasks
        /\ \A m \in 1..(next - 1) : m \in settled \cup batch \/ m <= committed
        /\ pc = "mark" => batch \subseteq settled
        /\ next \in Nat /\ committed \in Nat
    BY <1>2 DEF IInv, OrderInv, HeldInv, TypeOK, SessionTypeOK
  <1>4. CASE Timeout
    <2>1. UNCHANGED <<batch, committed, settled, undecodable>> /\ pc' \in {"fn", "wait"}
      BY <1>4 DEF Timeout, BatchTimeout, AsyncTimeout, sessionVars, history, settled
    <2> QED
      BY <1>2, <1>3, <2>1 DEF HeldInv
  <1>5. CASE SyncFnFails
    <2>1. /\ committed' = committed /\ pc' \in {"collect", "fn"}
          /\ batch' = batch \/ (batch' = {} /\ batch \subseteq refused')
      BY <1>5 DEF SyncFnFails, sessionVars
    <2>2. batch' = batch \/ (batch' = {} /\ batch \subseteq settled')
      BY <2>1 DEF settled
    <2> QED
      BY <1>1, <1>2, <1>3, <2>1, <2>2 DEF HeldInv
  <1>6. CASE BatchFnFails
    <2>1. committed' = committed /\ pc' = "collect" /\ batch' = {} /\ batch \ Bad \subseteq refused'
      BY <1>6 DEF BatchFnFails, sessionVars
    <2>2. batch \subseteq settled'
      <3>1. refused' \subseteq settled'
        BY DEF settled
      <3>2. kind = "batch"
        BY <1>6 DEF BatchFnFails
      <3> QED
        BY <1>1, <1>3, <2>1, <3>1, <3>2
    <2> QED
      BY <1>1, <1>2, <1>3, <2>1, <2>2 DEF HeldInv
  <1>7. CASE FnSucceeds
    <2>1. /\ committed' = committed /\ pc' = "mark" /\ batch' = batch /\ kind # "async"
          /\ Accept(batch \ Bad)
      BY <1>7 DEF FnSucceeds, sessionVars, IInv, LoopInv
    <2>2. batch \ Bad \subseteq settled'
      BY <1>3, <2>1, AcceptSettles
    <2>3. batch \subseteq settled'
      BY <1>1, <1>3, <2>1, <2>2
    <2> QED
      BY <1>1, <1>2, <1>3, <2>1, <2>3 DEF HeldInv
  <1>8. CASE BatchMarkBad
    <2>1. committed' = next - 1
      BY <1>8, MarkLast DEF BatchMarkBad
    <2>2. UNCHANGED <<batch, settled, undecodable>> /\ pc' \in {"fn", "collect"}
      BY <1>8 DEF BatchMarkBad, AfterCollecting, history, settled
    <2>3. \A m \in 1..(next - 1) : m <= committed'
      BY <2>1, <1>3
    <2> QED
      BY <1>2, <1>3, <2>2, <2>3 DEF HeldInv
  <1>9. CASE Mark \/ AsyncMark
    <2>1. committed' \in Nat /\ committed <= committed' /\ \A m \in batch : m <= committed'
      BY <1>9, MarkBatch DEF Mark, AsyncMark
    <2>2. UNCHANGED <<settled, undecodable>> /\ pc' = "collect" /\ batch' = {}
      BY <1>9 DEF Mark, AsyncMark, history, settled
    <2>3. \A m \in 1..(next - 1) : m \in settled \/ m <= committed'
      BY <1>3, <2>1
    <2> QED
      BY <1>2, <2>2, <2>3 DEF HeldInv
  <1> QED
    BY <1>4, <1>5, <1>6, <1>7, <1>8, <1>9 DEF Work

\* A goroutine that ends has settled its message; the next session has
\* delivered nothing above its mark yet.
LEMMA SessionHeld ==
    ASSUME IInv, Task \/ Commit \/ ClaimClosed \/ Crash \/ Start \/ UNCHANGED vars
    PROVE  HeldInv'
  <1>1. settled \subseteq settled' /\ undecodable \subseteq undecodable'
    BY SettledBy DEF Next
  <1>2. CASE Commit \/ UNCHANGED vars
    BY <1>2 DEF Commit, AutoCommit, loopVars, history, vars, settled, IInv, OrderInv, HeldInv
  <1>3. CASE ClaimClosed \/ Crash
    BY <1>3 DEF ClaimClosed, Crash, EndSession, CrashSession, HeldInv
  <1>4. CASE Start
    <2>1. batch' = {} /\ pc' = "collect" /\ next' = stored + 1 /\ committed' = stored /\ stored \in Nat
      BY <1>4 DEF Start, StartSession, loopVars, IInv, LoopInv, TypeOK, SessionTypeOK
    <2> QED
      BY <2>1 DEF HeldInv
  <1>5. ASSUME NEW t \in (0..MaxStops) \X Msgs, TaskEnds(t)
        PROVE  HeldInv'
    <2>1. /\ UNCHANGED <<next, committed, running, stops, kind, pc, batch>>
          /\ tasks' = tasks \ {t} /\ t \in tasks
      BY <1>5 DEF TaskEnds, sessionVars
    <2>2. t[2] \in settled'
      <3>1. t[2] \in Msgs
        OBVIOUS
      <3>2. Accept({t[2]}) => t[2] \in settled'
        BY <3>1, AcceptSettles
      <3> QED
        BY <1>5, <3>2 DEF TaskEnds, settled
    <2>3. \A m \in Msgs : <<stops, m>> \in tasks => <<stops, m>> \in tasks' \/ m = t[2]
      BY <2>1
    <2>4. batch \subseteq Msgs /\ kind = "async"
      BY <2>1 DEF IInv, TypeOK, LoopInv
    <2>5. kind = "async" => pc # "markBad" /\ pc # "mark"
      BY DEF IInv, LoopInv
    <2>6. \A m \in batch' \ settled' : <<stops', m>> \in tasks'
      BY <1>1, <2>1, <2>2, <2>3, <2>4 DEF IInv, OrderInv, HeldInv
    <2>7. running' => \A m \in 1..(next' - 1) : m \in settled' \cup batch' \/ m <= committed'
      BY <1>1, <2>1 DEF IInv, OrderInv, HeldInv
    <2> QED
      BY <2>1, <2>4, <2>5, <2>6, <2>7 DEF HeldInv
  <1> QED
    BY <1>2, <1>3, <1>4, <1>5 DEF Task

-----------------------------------------------------------------------------
(* The marks.                                                              *)

LEMMA KindKept ==
    ASSUME [Next]_vars
    PROVE  kind' = kind
  BY DEF Next, Collect, SyncTake, BatchCollect, AsyncCollect, Timeout, BatchTimeout,
     AsyncTimeout, Task, TaskEnds, Work, SyncFnFails, BatchMarkBad, BatchFnFails, FnSucceeds,
     Mark, AsyncMark, Commit, ClaimClosed, Crash, Start, vars

\* Which steps move the marks.
LEMMA MarksMove ==
    ASSUME [Next]_vars
    PROVE  /\ committed' = committed \/ Start \/ BatchMarkBad \/ Mark \/ AsyncMark
           /\ stored' = stored \/ stored' = committed
           /\ Start => committed' = stored
  BY DEF Next, Collect, SyncTake, BatchCollect, AsyncCollect, Timeout, BatchTimeout,
     AsyncTimeout, Task, TaskEnds, Work, SyncFnFails, BatchMarkBad, BatchFnFails, FnSucceeds,
     Mark, AsyncMark, Commit, ClaimClosed, Crash, Start, vars, Deliver, sessionVars, AutoCommit,
     EndSession, CrashSession, StartSession

\* A batch is settled before it is marked.
LEMMA MarkedIsSettled ==
    ASSUME IInv, Mark \/ AsyncMark
    PROVE  batch \subseteq settled
  <1>1. CASE Mark
    BY <1>1 DEF Mark, IInv, OrderInv, HeldInv
  <1>2. CASE AsyncMark
    <2>1. kind = "async"
      BY <1>2, HandlersAssumption DEF AsyncMark, IInv, LoopInv, TypeOK
    <2>2. \A m \in batch : <<stops, m>> \notin tasks
      BY <1>2 DEF AsyncMark
    <2> QED
      BY <2>1, <2>2 DEF IInv, OrderInv, HeldInv
  <1> QED
    BY <1>1, <1>2

\* The mark of the session.
LEMMA CommittedOrder ==
    ASSUME IInv, [Next]_vars
    PROVE  InOrderUpTo(committed)'
  <1>1. kind' = kind /\ settled \subseteq settled' /\ undecodable \subseteq undecodable'
    BY KindKept, SettledBy
  <1>2. InOrderUpTo(committed) /\ InOrderUpTo(stored)
    BY DEF IInv, OrderInv
  <1>3. CASE committed' = committed
    BY <1>1, <1>2, <1>3, OrderKept DEF InOrderUpTo
  <1>4. CASE Start
    <2>1. committed' = stored
      BY <1>4, MarksMove
    <2> QED
      BY <1>1, <1>2, <2>1, OrderKept DEF InOrderUpTo
  <1>5. committed \in Nat /\ next \in Nat /\ committed < next
    BY DEF IInv, TypeOK, SessionTypeOK, MarkInv
  <1>6. CASE BatchMarkBad
    <2>1. /\ running /\ committed' = next - 1 /\ next - 1 \in undecodable'
          /\ next - 1 \in settled' /\ kind = "batch"
      <3>1. pc = "markBad" /\ running /\ committed' = next - 1 /\ undecodable' = undecodable
        BY <1>6, MarkLast DEF BatchMarkBad, history
      <3>2. kind = "batch" /\ next - 1 \in undecodable
        BY <3>1, HandlersAssumption DEF IInv, LoopInv, OrderInv, HeldInv, TypeOK
      <3> QED
        BY <3>1, <3>2 DEF settled
    <2>2. SUFFICES ASSUME NEW m \in (1..(next - 1)) \ settled'
                   PROVE  \E b \in undecodable' : m < b /\ b < m + BatchSize /\ b <= next - 1
      BY <1>1, <2>1, <2>2 DEF InOrderUpTo
    <2>3. m \in 1..(next - 1) /\ m \notin settled /\ m # next - 1 /\ m \in Int
      BY <1>1, <2>1
    <2>4. CASE m <= committed
      <3>1. m \in (1..committed) \ settled
        BY <1>5, <2>3, <2>4
      <3>2. PICK b \in undecodable : m < b /\ b < m + BatchSize /\ b <= committed
        BY <1>2, <3>1 DEF InOrderUpTo
      <3>3. b \in Int
        BY <3>2 DEF IInv, TypeOK, Msgs
      <3> QED
        BY <1>1, <1>5, <3>2, <3>3
    <2>5. CASE m \in batch
      <3>1. /\ Cardinality(batch) <= BatchSize /\ Cardinality(batch) \in Nat
            /\ batch = (next - Cardinality(batch))..(next - 1)
        BY <2>1, BatchFacts DEF IInv, TypeOK, BatchInv
      <3>2. m < next - 1 /\ next - 1 < m + BatchSize
        BY <1>5, <2>3, <2>5, <3>1
      <3> QED
        BY <2>1, <3>2, <1>5
    <2> QED
      BY <2>1, <2>3, <2>4, <2>5 DEF IInv, OrderInv, HeldInv
  <1>7. CASE Mark \/ AsyncMark
    <2>1. committed' \in Nat /\ committed <= committed' /\ committed' < next /\ running
      BY <1>7, MarkBatch DEF Mark, AsyncMark
    <2>2. batch \subseteq settled
      BY <1>7, MarkedIsSettled
    <2>3. SUFFICES ASSUME NEW m \in (1..committed') \ settled'
                   PROVE  /\ kind' = "batch"
                          /\ \E b \in undecodable' : m < b /\ b < m + BatchSize /\ b <= committed'
      BY DEF InOrderUpTo
    <2>4. m \in 1..(next - 1) /\ m \notin settled
      BY <1>1, <1>5, <2>1
    <2>5. m <= committed
      BY <2>1, <2>2, <2>4 DEF IInv, OrderInv, HeldInv
    <2>6. m \in (1..committed) \ settled
      BY <1>5, <2>4, <2>5
    <2>7. PICK b \in undecodable : m < b /\ b < m + BatchSize /\ b <= committed
      BY <1>2, <2>6 DEF InOrderUpTo
    <2>8. b \in Int
      BY <2>7 DEF IInv, TypeOK, Msgs
    <2>9. kind = "batch"
      BY <1>2, <2>6 DEF InOrderUpTo
    <2> QED
      BY <1>1, <1>5, <2>1, <2>7, <2>8, <2>9
  <1> QED
    BY <1>3, <1>4, <1>6, <1>7, MarksMove

\* The mark of the broker.
LEMMA StoredOrder ==
    ASSUME IInv, [Next]_vars
    PROVE  InOrderUpTo(stored)'
  <1>1. kind' = kind /\ InOrderUpTo(committed) /\ InOrderUpTo(stored)
    BY KindKept DEF IInv, OrderInv
  <1> QED
    BY <1>1, MarksMove, OrderKept DEF InOrderUpTo

LEMMA OrderInvariant ==
    ASSUME IInv, [Next]_vars
    PROVE  OrderInv'
  BY CollectHeld, WorkHeld, SessionHeld, CommittedOrder, StoredOrder DEF OrderInv, Next

-----------------------------------------------------------------------------
(* Acceptances.                                                            *)

\* What the cases below need to know of the state.
LEMMA DupNow ==
    ASSUME IInv
    PROVE  /\ successes \in [Msgs -> Nat] /\ crashes \in Nat /\ stops \in Nat
           /\ committed \in Nat /\ stored \in Nat /\ next \in Nat
           /\ committed < next /\ batch \subseteq Msgs
           /\ kind # "async" => \A m \in Msgs : successes[m] <= 1 + crashes
           /\ kind # "async" => tasks = {}
           /\ Msgs \subseteq Nat
  BY DEF IInv, TypeOK, SessionTypeOK, MarkInv, DupInv, DuplicatesBounded, LoopInv, Msgs

\* Handler and BatchHandler.
LEMMA FreshKept ==
    ASSUME IInv, [Next]_vars, kind # "async"
    PROVE  FreshInv' /\ \A m \in Msgs : successes'[m] <= 1 + crashes'
  <1> USE DupNow
  <1>1. FreshInv /\ kind' = kind
    BY KindKept DEF IInv, DupInv
  <1>2. CASE SyncTake \/ BatchCollect
    <2>1. /\ running /\ running' /\ pc = "collect" /\ pc' # "mark"
          /\ UNCHANGED <<committed, successes, crashes>>
          /\ batch' \subseteq batch \cup {next}
      BY <1>2 DEF SyncTake, BatchCollect, Deliver, AfterCollecting
    <2> QED
      BY <1>1, <2>1 DEF FreshInv
  <1>3. CASE BatchTimeout \/ SyncFnFails \/ BatchFnFails \/ BatchMarkBad
    <2>1. /\ running /\ running' /\ pc # "mark" /\ pc' # "mark"
          /\ UNCHANGED <<successes, crashes>>
          /\ batch' \subseteq batch
      BY <1>3 DEF BatchTimeout, SyncFnFails, BatchFnFails, BatchMarkBad, AfterCollecting,
         sessionVars, history
    <2>2. committed' \in Nat /\ committed <= committed'
      <3>1. CASE BatchMarkBad
        BY <3>1, MarkLast DEF BatchMarkBad
      <3> QED
        BY <1>3, <3>1 DEF BatchTimeout, SyncFnFails, BatchFnFails, sessionVars
    <2> QED
      BY <1>1, <2>1, <2>2 DEF FreshInv
  <1>4. CASE FnSucceeds
    <2>1. /\ running /\ running' /\ pc = "fn" /\ pc' = "mark" /\ Accept(batch \ Bad)
          /\ UNCHANGED <<committed, crashes, batch>>
      BY <1>4 DEF FnSucceeds, sessionVars
    <2>2. /\ \A m \in batch \ Bad : successes'[m] = successes[m] + 1
          /\ \A m \in Msgs \ (batch \ Bad) : successes'[m] = successes[m]
      BY <2>1, AcceptTypes DEF IInv
    <2>3. \A m \in Msgs : successes'[m] <= 1 + crashes
      BY <1>1, <2>1, <2>2 DEF FreshInv
    <2>4. \A m \in Msgs \ batch : m > committed => successes'[m] <= crashes
      BY <1>1, <2>1, <2>2 DEF FreshInv
    <2> QED
      BY <2>1, <2>3, <2>4 DEF FreshInv
  <1>5. CASE Mark
    <2>1. /\ running /\ running' /\ pc' = "collect" /\ batch' = {} /\ MarkMessages(batch)
          /\ UNCHANGED <<successes, crashes>>
      BY <1>5 DEF Mark, history
    <2>2. committed' \in Nat /\ committed <= committed' /\ \A m \in batch : m <= committed'
      BY <2>1, MarkBatch
    <2>3. \A m \in Msgs : m > committed' => m > committed /\ m \notin batch
      BY <2>2
    <2> QED
      BY <1>1, <2>1, <2>3 DEF FreshInv
  <1>6. CASE Commit \/ UNCHANGED vars
    BY <1>1, <1>6 DEF FreshInv, Commit, AutoCommit, loopVars, history, vars
  <1>7. CASE ClaimClosed
    <2>1. /\ running /\ running' = FALSE /\ pc = "collect" /\ stored' = committed
          /\ UNCHANGED <<successes, crashes>>
      BY <1>7 DEF ClaimClosed, EndSession, history
    <2> QED
      BY <1>1, <2>1 DEF FreshInv
  <1>8. CASE Crash
    <2>1. running' = FALSE /\ crashes' = crashes + 1 /\ successes' = successes
      BY <1>8 DEF Crash, CrashSession, history
    <2> QED
      BY <2>1 DEF FreshInv
  <1>9. CASE Start
    <2>1. /\ ~running /\ running' = TRUE /\ committed' = stored /\ batch' = {}
          /\ UNCHANGED <<successes, crashes>>
      BY <1>9 DEF Start, StartSession, loopVars, history, IInv, LoopInv
    <2> QED
      BY <1>1, <2>1 DEF FreshInv
  <1>10. ~Task /\ ~AsyncCollect /\ ~AsyncTimeout /\ ~AsyncMark
    <2>1. pc # "wait"
      BY HandlersAssumption DEF IInv, LoopInv, TypeOK
    <2> QED
      BY <2>1 DEF Task, TaskEnds, AsyncCollect, AsyncTimeout, AsyncMark
  <1> QED
    BY <1>2, <1>3, <1>4, <1>5, <1>6, <1>7, <1>8, <1>9, <1>10 DEF Next, Collect, Timeout, Work

LEMMA RunsFinite ==
    ASSUME NEW T, NEW m
    PROVE  IsFiniteSet(RunsIn(T, m)) /\ Cardinality(RunsIn(T, m)) \in Nat
  <1>1. IsFiniteSet(0..MaxStops) /\ RunsIn(T, m) \subseteq 0..MaxStops
    BY FS_Interval DEF RunsIn
  <1> QED
    BY <1>1, FS_Subset, FS_CardinalityType

\* AsyncHandler.
LEMMA SessionsKept ==
    ASSUME IInv, [Next]_vars, kind = "async"
    PROVE  SessionsInv'
  <1> USE DupNow
  <1> DEFINE Held(m) == Cardinality(RunsIn(tasks, m))
             HeldNext(m) == Cardinality(RunsIn(tasks', m))
             Bound == \A m \in Msgs :
                 successes'[m] + HeldNext(m) <= stops' + (IF running' /\ m < next' THEN 1 ELSE 0)
  <1>1. SUFFICES Bound
    BY DEF SessionsInv
  <1>2. \A m \in Msgs : Held(m) \in Nat /\ HeldNext(m) \in Nat
    BY RunsFinite
  <1>3. \A m \in Msgs : successes[m] + Held(m) <= stops + (IF running /\ m < next THEN 1 ELSE 0)
    BY DEF IInv, DupInv, SessionsInv
  <1>4. pc \in {"collect", "wait"} /\ running \in BOOLEAN
    BY DEF IInv, LoopInv, TypeOK, SessionTypeOK
  <1>5. CASE AsyncCollect
    <2>1. /\ running /\ running' = running /\ next' = next + 1 /\ stops' = stops
          /\ successes' = successes /\ tasks' = tasks \cup {<<stops, next>>}
      BY <1>5 DEF AsyncCollect, Deliver, history
    <2>2. ASSUME NEW m \in Msgs, m # next
          PROVE  HeldNext(m) = Held(m)
      <3>1. RunsIn(tasks', m) = RunsIn(tasks, m)
        BY <2>1, <2>2 DEF RunsIn
      <3> QED
        BY <3>1
    <2>3. HeldNext(next) <= Held(next) + 1
      <3>1. stops \in 0..MaxStops
        BY DEF IInv, TypeOK, SessionTypeOK
      <3>2. RunsIn(tasks', next) = RunsIn(tasks, next) \cup {stops}
        BY <2>1, <3>1 DEF RunsIn
      <3> HIDE DEF Held, HeldNext
      <3>3. Cardinality(RunsIn(tasks, next) \cup {stops}) <= Cardinality(RunsIn(tasks, next)) + 1
        BY RunsFinite, FS_AddElement
      <3> QED
        BY <3>2, <3>3 DEF Held, HeldNext
    <2> HIDE DEF Held, HeldNext
    <2> QED
      BY <1>2, <1>3, <2>1, <2>2, <2>3
  <1>6. CASE AsyncTimeout \/ AsyncMark \/ Commit \/ UNCHANGED vars
    BY <1>3, <1>6 DEF AsyncTimeout, AsyncMark, Commit, AutoCommit, loopVars, sessionVars, history,
       vars
  <1>7. ASSUME NEW t \in (0..MaxStops) \X Msgs, TaskEnds(t)
        PROVE  Bound
    <2>1. /\ UNCHANGED <<next, running, stops>> /\ tasks' = tasks \ {t} /\ t \in tasks
          /\ t = <<t[1], t[2]>> /\ t[1] \in 0..MaxStops /\ t[2] \in Msgs
          /\ successes' = successes \/ Accept({t[2]})
      BY <1>7 DEF TaskEnds, sessionVars
    <2>2. /\ \A m \in Msgs : m # t[2] => successes'[m] = successes[m]
          /\ successes'[t[2]] <= successes[t[2]] + 1
          /\ successes' \in [Msgs -> Nat]
      <3>1. CASE Accept({t[2]})
        BY <2>1, <3>1, AcceptTypes DEF IInv
      <3> QED
        BY <2>1, <3>1
    <2>3. ASSUME NEW m \in Msgs, m # t[2]
          PROVE  HeldNext(m) = Held(m)
      <3>1. RunsIn(tasks', m) = RunsIn(tasks, m)
        BY <2>1, <2>3 DEF RunsIn
      <3> QED
        BY <3>1
    <2>4. HeldNext(t[2]) = Held(t[2]) - 1
      <3>1. RunsIn(tasks', t[2]) = RunsIn(tasks, t[2]) \ {t[1]} /\ t[1] \in RunsIn(tasks, t[2])
        BY <2>1 DEF RunsIn
      <3>2. IsFiniteSet(RunsIn(tasks, t[2]))
        BY RunsFinite
      <3>3. Cardinality(RunsIn(tasks, t[2]) \ {t[1]}) = Cardinality(RunsIn(tasks, t[2])) - 1
        BY <3>1, <3>2, FS_RemoveElement
      <3> QED
        BY <3>1, <3>3
    <2> HIDE DEF Held, HeldNext
    <2> QED
      BY <1>2, <1>3, <2>1, <2>2, <2>3, <2>4
  <1>8. CASE ClaimClosed
    <2>1. running' = FALSE /\ stops' = stops + 1 /\ tasks' = tasks /\ successes' = successes
      BY <1>8 DEF ClaimClosed, EndSession, history
    <2> HIDE DEF Held
    <2> QED
      BY <1>2, <1>3, <2>1 DEF Held
  <1>9. CASE Crash
    <2>1. running' = FALSE /\ stops' = stops + 1 /\ tasks' = {} /\ successes' = successes
      BY <1>9 DEF Crash, CrashSession, history
    <2>2. \A m \in Msgs : HeldNext(m) = 0
      BY <2>1, FS_EmptySet DEF RunsIn
    <2> HIDE DEF Held, HeldNext
    <2> QED
      BY <1>2, <1>3, <2>1, <2>2
  <1>10. CASE Start
    <2>1. ~running /\ stops' = stops /\ tasks' = tasks /\ successes' = successes
      BY <1>10 DEF Start, StartSession, loopVars, history
    <2> HIDE DEF Held
    <2> QED
      BY <1>2, <1>3, <2>1 DEF Held
  <1> QED
    BY <1>4, <1>5, <1>6, <1>7, <1>8, <1>9, <1>10 DEF Next, Collect, Timeout, Work, Task, SyncTake,
       BatchCollect, BatchTimeout, SyncFnFails, BatchMarkBad, BatchFnFails, FnSucceeds, Mark

LEMMA ShapeKept ==
    ASSUME IInv, [Next]_vars
    PROVE  ShapeInv'
  BY CollectShape, WorkShape, SessionShape DEF Next

LEMMA DupInvariant ==
    ASSUME IInv, [Next]_vars
    PROVE  DupInv'
  <1>1. kind' = kind
    BY KindKept
  <1>2. CASE kind # "async"
    BY <1>1, <1>2, FreshKept DEF DupInv, DuplicatesBounded, SessionsInv
  <1>3. CASE kind = "async"
    <2>1. SessionsInv'
      BY <1>3, SessionsKept
    <2>2. successes' \in [Msgs -> Nat] /\ stops' \in Nat
      BY ShapeKept DEF ShapeInv, Types, SessionTypeOK
    <2>3. \A m \in Msgs : successes'[m] <= 1 + stops'
      <3>1. ASSUME NEW m \in Msgs
            PROVE  successes'[m] <= 1 + stops'
        <4>1. Cardinality(RunsIn(tasks', m)) \in Nat
          BY RunsFinite
        <4>2. successes'[m] + Cardinality(RunsIn(tasks', m))
                <= stops' + (IF running' /\ m < next' THEN 1 ELSE 0)
          BY <1>1, <1>3, <2>1 DEF SessionsInv
        <4> QED
          BY <2>2, <4>1, <4>2
      <3> QED
        BY <3>1
    <2> QED
      BY <1>1, <1>3, <2>1, <2>3 DEF DupInv, DuplicatesBounded, FreshInv
  <1> QED
    BY <1>2, <1>3

\* The bound on the acceptances keeps the counters small.
LEMMA TypesBounded ==
    ASSUME Types, MarkInv, DuplicatesBounded
    PROVE  TypeOK
  <1>1. \A m \in Msgs : successes[m] \in 0..(MaxStops + 1)
    BY DEF Types, SessionTypeOK, MarkInv, DuplicatesBounded
  <1> QED
    BY <1>1 DEF Types, TypeOK, Room

LEMMA InitInv == Init => IInv
  <1> SUFFICES ASSUME Init PROVE IInv
    OBVIOUS
  <1>1. Cardinality({}) = 0
    BY FS_EmptySet
  <1>2. \A m : RunsIn({}, m) = {}
    BY DEF RunsIn
  <1>3. settled = {}
    BY DEF Init, settled
  <1>4. TypeOK /\ LoopInv /\ BatchInv /\ MarkInv
    BY <1>1 DEF Init, SessionInit, TypeOK, SessionTypeOK, LoopInv, BatchInv, MarkInv, Room,
       MaxTries
  <1>5. OrderInv
    BY DEF Init, SessionInit, OrderInv, HeldInv, InOrderUpTo
  <1>6. DupInv
    BY <1>1, <1>2 DEF Init, SessionInit, DupInv, DuplicatesBounded, FreshInv, SessionsInv
  <1> QED
    BY <1>4, <1>5, <1>6 DEF IInv

LEMMA StepInv == IInv /\ [Next]_vars => IInv'
  <1> SUFFICES ASSUME IInv, [Next]_vars PROVE IInv'
    OBVIOUS
  <1>1. ShapeInv' /\ OrderInv' /\ DupInv'
    BY ShapeKept, OrderInvariant, DupInvariant
  <1>2. TypeOK'
    BY <1>1, TypesBounded, PTL DEF ShapeInv, DupInv
  <1> QED
    BY <1>1, <1>2 DEF IInv, ShapeInv

LEMMA Invariance == Spec => []IInv
  BY InitInv, StepInv, PTL DEF Spec

-----------------------------------------------------------------------------
(* What the handlers promise.                                              *)

\* The three loops keep their types: a batch never outgrows its size, and fn
\* accepts no message more often than there are sessions.
THEOREM TypeCorrect == Spec => []TypeOK
  <1>1. IInv => TypeOK
    BY DEF IInv
  <1> QED
    BY <1>1, Invariance, PTL

\* At-least-once delivery: everything below a mark is settled, but for what
\* BatchHandler skips when it marks an undecodable message early.
THEOREM MarksKeepOrder == Spec => []MarksInOrder
  <1>1. IInv => MarksInOrder
    BY DEF IInv, OrderInv, InOrderUpTo, MarksInOrder
  <1> QED
    BY <1>1, Invariance, PTL

\* fn accepts a message again only after a crash, or with AsyncHandler after
\* any end of a session.
THEOREM DuplicatesAreBounded == Spec => []DuplicatesBounded
  <1>1. IInv => DuplicatesBounded
    BY DEF IInv, DupInv
  <1> QED
    BY <1>1, Invariance, PTL

\* A mark that moves goes to the last message delivered, which the contract
\* lets the handler mark.
LEMMA MarkAllowed ==
    ASSUME IInv, Mark \/ AsyncMark \/ BatchMarkBad, committed' # committed
    PROVE  /\ committed' = next - 1 /\ committed < next - 1 /\ next - 1 \in 1..(next - 1)
           /\ Consumer!MayMark(next - 1)
  <1>1. committed \in Nat /\ next \in Nat /\ committed < next /\ kind \in Handlers
    BY DEF IInv, TypeOK, SessionTypeOK, MarkInv
  <1>2. CASE BatchMarkBad
    <2>1. pc = "markBad" /\ committed' = next - 1 /\ committed <= next - 1 /\ next - 1 \in Msgs
      BY <1>2, MarkLast DEF BatchMarkBad
    <2>2. kind = "batch" /\ next - 1 \in undecodable
      BY <2>1, HandlersAssumption DEF IInv, LoopInv, OrderInv, HeldInv, TypeOK
    <2>3. Consumer!MayMark(next - 1)
      BY <1>1, <2>2 DEF Consumer!MayMark, settled
    <2> QED
      BY <1>1, <2>1, <2>3 DEF Msgs
  <1>3. CASE Mark \/ AsyncMark
    <2>1. running /\ batch # {} /\ committed' = next - 1 /\ committed <= committed'
      BY <1>3, MarkBatch DEF Mark, AsyncMark
    <2>2. batch \subseteq settled
      BY <1>3, MarkedIsSettled
    <2>3. next - 1 \in batch /\ next - 1 \in Msgs
      BY <2>1, BatchFacts DEF IInv
    <2>4. ASSUME kind # "batch"
          PROVE  1..(next - 1) \subseteq settled
      <3>1. \A m \in 1..committed : m \in settled
        BY <1>1, <2>4 DEF IInv, OrderInv, InOrderUpTo
      <3> QED
        BY <1>1, <2>1, <2>2, <3>1 DEF IInv, OrderInv, HeldInv
    <2>5. Consumer!MayMark(next - 1)
      BY <2>2, <2>3, <2>4 DEF Consumer!MayMark
    <2> QED
      BY <1>1, <2>1, <2>3, <2>5 DEF Msgs
  <1> QED
    BY <1>2, <1>3

\* Every step of a handler is one the contract allows, or stutters.
LEMMA StepRefines ==
    ASSUME IInv, [Next]_vars
    PROVE  [Consumer!Next]_(Consumer!vars)
  <1>0. UNCHANGED (kind # "batch")
    BY KindKept
  <1>1. settled \subseteq settled' /\ settled' \subseteq Msgs
    BY SettledBy
  <1>2. next \in Nat \ {0} /\ committed \in Nat /\ stored \in Nat
    BY DEF IInv, TypeOK, SessionTypeOK
  <1>3. CASE UNCHANGED <<next, committed, stored>>
    <2>1. \E S \in SUBSET Consumer!Offsets : settled' = settled \cup S
      BY <1>1 DEF Consumer!Offsets, Msgs
    <2>2. UNCHANGED <<next - 1, committed, stored>>
      BY <1>3
    <2> QED
      BY <1>0, <2>1, <2>2 DEF Consumer!Next, Consumer!Settle
  <1>4. CASE Collect
    <2>1. /\ next <= NumMsgs /\ next' = next + 1 /\ UNCHANGED <<committed, stored>>
          /\ UNCHANGED <<successes, refused>>
          /\ undecodable' \in {undecodable, undecodable \cup {next}}
      BY <1>4 DEF Collect, SyncTake, BatchCollect, AsyncCollect, Deliver, history
    <2>2. next \in Msgs
      BY <1>2, <2>1 DEF Msgs
    <2>3. settled' \in {settled, settled \cup {next}}
      BY <2>1, <2>2 DEF settled
    <2>4. next - 1 < NumMsgs /\ next' - 1 = (next - 1) + 1 /\ (next - 1) + 1 = next
      BY <1>2, <2>1
    <2> QED
      BY <1>0, <2>1, <2>3, <2>4 DEF Consumer!Next, Consumer!Fetch
  <1>5. CASE (Mark \/ AsyncMark \/ BatchMarkBad) /\ committed' # committed
    <2>1. UNCHANGED <<next, stored, settled>>
      BY <1>5 DEF Mark, AsyncMark, BatchMarkBad, history, settled
    <2>2. UNCHANGED <<next - 1, settled, stored>>
      BY <2>1
    <2>3. /\ next - 1 \in 1..(next - 1) /\ Consumer!MayMark(next - 1)
          /\ committed' = IF next - 1 > committed THEN next - 1 ELSE committed
      BY <1>2, <1>5, MarkAllowed
    <2> QED
      BY <1>0, <2>2, <2>3 DEF Consumer!Next, Consumer!Mark
  <1>6. CASE Commit \/ ClaimClosed
    <2>1. stored' = committed /\ UNCHANGED <<next, committed, settled>>
      BY <1>6 DEF Commit, AutoCommit, ClaimClosed, EndSession, history, settled
    <2>2. UNCHANGED <<next - 1, settled, committed>>
      BY <2>1
    <2> QED
      BY <1>0, <2>1, <2>2 DEF Consumer!Next, Consumer!AutoCommit
  <1>7. CASE Start
    <2>1. next' = stored + 1 /\ committed' = stored /\ UNCHANGED <<stored, settled>>
      BY <1>7 DEF Start, StartSession, history, settled
    <2>2. next' - 1 = stored
      BY <1>2, <2>1
    <2> QED
      BY <1>0, <2>1, <2>2 DEF Consumer!Next, Consumer!Restart
  <1>8. CASE Timeout \/ Task \/ Crash \/ SyncFnFails \/ BatchFnFails \/ FnSucceeds \/ UNCHANGED vars
    <2>1. UNCHANGED <<next, committed, stored>>
      BY <1>8 DEF Timeout, BatchTimeout, AsyncTimeout, Task, TaskEnds, Crash, CrashSession,
         SyncFnFails, BatchFnFails, FnSucceeds, sessionVars, vars
    <2> QED
      BY <1>3, <2>1
  <1>9. CASE (Mark \/ AsyncMark \/ BatchMarkBad) /\ committed' = committed
    <2>1. UNCHANGED <<next, committed, stored>>
      BY <1>9 DEF Mark, AsyncMark, BatchMarkBad
    <2> QED
      BY <1>3, <2>1
  <1> QED
    BY <1>4, <1>5, <1>6, <1>7, <1>8, <1>9 DEF Next, Work

\* Handler and AsyncHandler implement the strong contract of ClaimConsumer,
\* BatchHandler the weak one.
THEOREM Refinement == Spec => ImplementsConsumer
  <1>1. Init => Consumer!Init
    BY DEF Init, SessionInit, Consumer!Init, settled
  <1>2. IInv /\ [Next]_vars => [Consumer!Next]_(Consumer!vars)
    BY StepRefines
  <1> QED
    BY <1>1, <1>2, Invariance, PTL DEF Spec, ImplementsConsumer, Consumer!Spec

ContractInv ==
    /\ Consumer!TypeOK
    /\ Consumer!AtLeastOnce
    /\ stored <= committed

\* A consumer that marks in order delivers at least once, whoever it is.
THEOREM AtLeastOnceDelivery == Consumer!Spec => []Consumer!AtLeastOnce
  <1> USE DEF Consumer!Offsets
  <1>1. Consumer!Init => ContractInv
    BY DEF Consumer!Init, ContractInv, Consumer!TypeOK, Consumer!AtLeastOnce
  <1>2. ASSUME ContractInv, Consumer!Next
        PROVE  ContractInv'
    <2> USE <1>2 DEF ContractInv, Consumer!TypeOK, Consumer!AtLeastOnce
    <2>0. UNCHANGED (kind # "batch")
      BY DEF Consumer!Next
    <2>1. CASE Consumer!Fetch
      BY <2>0, <2>1 DEF Consumer!Fetch
    <2>2. CASE Consumer!Settle
      BY <2>0, <2>2 DEF Consumer!Settle
    <2>3. CASE Consumer!Mark
      BY <2>0, <2>3 DEF Consumer!Mark, Consumer!MayMark
    <2>4. CASE Consumer!AutoCommit
      BY <2>0, <2>4 DEF Consumer!AutoCommit
    <2>5. CASE Consumer!Restart
      BY <2>0, <2>5 DEF Consumer!Restart
    <2> QED
      BY <2>1, <2>2, <2>3, <2>4, <2>5 DEF Consumer!Next
  <1>3. ContractInv /\ UNCHANGED Consumer!vars => ContractInv'
    BY DEF ContractInv, Consumer!TypeOK, Consumer!AtLeastOnce, Consumer!vars
  <1>4. ContractInv => Consumer!AtLeastOnce
    BY DEF ContractInv
  <1> QED
    BY <1>1, <1>2, <1>3, <1>4, PTL DEF Consumer!Spec

\* So no consumer but those of BatchHandler ever marks or, after a rebalance or
\* a crash, resumes above a message that nobody has dealt with.
COROLLARY HandlersDeliverAtLeastOnce == Spec => []Consumer!AtLeastOnce
  BY Refinement, AtLeastOnceDelivery, PTL DEF ImplementsConsumer
=============================================================================
