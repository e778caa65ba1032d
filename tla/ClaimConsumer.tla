---------------------------- MODULE ClaimConsumer ----------------------------
(***************************************************************************)
(* What a Kafka consumer promises about one partition: the contract that   *)
(* the four ConsumeClaim handlers of pkg/saramax are checked against.      *)
(*                                                                         *)
(* Offsets are 1..NumMsgs.  A message is settled once the handler will     *)
(* never hand it to the business function again: it was handled, its       *)
(* retries ran out, or it could not be decoded.  sarama keeps a single     *)
(* high-water mark per partition, so marking m commits everything up to m; *)
(* its auto-commit copies the mark to the broker now and then, and a       *)
(* restarted consumer resumes after what the broker stored.                *)
(*                                                                         *)
(* A handler that marks in order promises at-least-once delivery: it marks *)
(* a message only when everything up to it is settled.  The weaker promise *)
(* is that the marked message itself is settled.                           *)
(***************************************************************************)
EXTENDS Integers

CONSTANT NumMsgs

VARIABLES
    inOrder,    \* which of the two the handler promises
    fetched,    \* last offset handed to the handler since the last (re)start
    settled,    \* offsets nobody will process again
    committed,  \* the high-water mark kept by sarama's offset manager
    stored      \* the mark the broker has stored

vars == <<inOrder, fetched, settled, committed, stored>>

Offsets == 1..NumMsgs

TypeOK ==
    /\ inOrder \in BOOLEAN
    /\ fetched \in 0..NumMsgs
    /\ settled \subseteq Offsets
    /\ committed \in 0..NumMsgs
    /\ stored \in 0..NumMsgs

Init ==
    /\ inOrder \in BOOLEAN
    /\ fetched = 0
    /\ settled = {}
    /\ committed = 0
    /\ stored = 0

\* A message that cannot be decoded is settled as it is fetched.
Fetch ==
    /\ fetched < NumMsgs
    /\ fetched' = fetched + 1
    /\ settled' \in {settled, settled \cup {fetched + 1}}
    /\ UNCHANGED <<committed, stored>>

\* A goroutine left over from an earlier session may settle a message that
\* this session has not fetched yet.
Settle ==
    /\ \E S \in SUBSET Offsets : settled' = settled \cup S
    /\ UNCHANGED <<fetched, committed, stored>>

MayMark(m) ==
    IF inOrder THEN 1..m \subseteq settled ELSE m \in settled

Mark ==
    /\ \E m \in 1..fetched :
          /\ MayMark(m)
          /\ committed' = IF m > committed THEN m ELSE committed
    /\ UNCHANGED <<fetched, settled, stored>>

AutoCommit ==
    /\ stored' = committed
    /\ UNCHANGED <<fetched, settled, committed>>

\* A rebalance or a crash: the next session starts from the stored mark.
Restart ==
    /\ fetched' = stored
    /\ committed' = stored
    /\ UNCHANGED <<settled, stored>>

Next ==
    /\ Fetch \/ Settle \/ Mark \/ AutoCommit \/ Restart
    /\ UNCHANGED inOrder

Spec == Init /\ [][Next]_vars

\* What the broker believes to be done is done: a restart skips no message
\* that nobody has dealt with.
AtLeastOnce == inOrder => 1..committed \subseteq settled /\ stored <= committed
=============================================================================
