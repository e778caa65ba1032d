----------------------------- MODULE SaramaSession -----------------------------
(***************************************************************************)
(* The sarama consumer group around a ConsumeClaim handler, for one        *)
(* partition: what is delivered, what is marked, what the broker stores,   *)
(* and how a session ends.  sarama itself is not part of the repository;   *)
(* the operators say what the handlers of pkg/saramax rely on.             *)
(*                                                                         *)
(* Every Start of the repository calls ConsumerGroup.Consume once, outside *)
(* a loop, and Consume returns when its session ends: after a rebalance    *)
(* the partition is consumed again only by another member of the group, or *)
(* once the process is started again.                                      *)
(***************************************************************************)
EXTENDS Integers

CONSTANTS
    NumMsgs,     \* bound: offsets the partition holds
    MaxStops     \* bound: sessions that end, by a rebalance or by a crash

ASSUME NumMsgsAssumption == NumMsgs \in Nat
ASSUME MaxStopsAssumption == MaxStops \in Nat

VARIABLES
    next,       \* next offset the message channel delivers
    committed,  \* the high-water mark of this session
    stored,     \* the mark the broker has stored
    running,    \* ConsumeClaim is running
    stops,      \* sessions that have ended
    crashes     \* those that ended in a crash

sessionVars == <<next, committed, stored, running, stops, crashes>>

Msgs == 1..NumMsgs

SessionTypeOK ==
    /\ next \in 1..(NumMsgs + 1)
    /\ committed \in 0..NumMsgs
    /\ stored \in 0..NumMsgs
    /\ running \in BOOLEAN
    /\ stops \in 0..MaxStops
    /\ crashes \in 0..MaxStops

SessionInit ==
    /\ next = 1
    /\ committed = 0
    /\ stored = 0
    /\ running = TRUE
    /\ stops = 0
    /\ crashes = 0

\* Receive the next message of claim.Messages().
Deliver ==
    /\ running
    /\ next <= NumMsgs
    /\ next' = next + 1
    /\ UNCHANGED <<stored, running, stops, crashes>>

HighWater(S, mark) == CHOOSE m \in S \cup {mark} : \A n \in S \cup {mark} : n <= m

\* session.MarkMessage for every message of S; sarama keeps the highest.
MarkMessages(S) == committed' = HighWater(S, committed)

\* The offset manager sends the mark to the broker in the background.
AutoCommit ==
    /\ running
    /\ stored < committed
    /\ stored' = committed
    /\ UNCHANGED <<next, committed, running, stops, crashes>>

\* ConsumeClaim has returned: the session flushes its mark and Consume returns.
EndSession ==
    /\ running
    /\ stops < MaxStops
    /\ running' = FALSE
    /\ stored' = committed
    /\ stops' = stops + 1
    /\ UNCHANGED <<next, committed, crashes>>

\* The process dies; what is not stored is forgotten.
CrashSession ==
    /\ stops < MaxStops
    /\ running' = FALSE
    /\ stops' = stops + 1
    /\ crashes' = crashes + 1
    /\ UNCHANGED <<next, committed, stored>>

\* A process of the group that calls Start, or is still in its one call of
\* Consume, is given the partition.
StartSession ==
    /\ ~running
    /\ running' = TRUE
    /\ next' = stored + 1
    /\ committed' = stored
    /\ UNCHANGED <<stored, stops, crashes>>
=============================================================================
