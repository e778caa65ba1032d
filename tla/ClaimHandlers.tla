----------------------------- MODULE ClaimHandlers -----------------------------
(***************************************************************************)
(* The three simple ConsumeClaim loops of pkg/saramax, on one partition    *)
(* whose sessions end by rebalances and crashes:                           *)
(*                                                                         *)
(*   "sync"   Handler: one message at a time, three calls of fn, a mark    *)
(*            only for a message fn accepted;                              *)
(*   "batch"  BatchHandler: gather for a second or until the batch is      *)
(*            full, call fn once, mark the batch if fn accepted it; an     *)
(*            undecodable message is marked while the batch is gathered;   *)
(*   "async"  AsyncHandler: a goroutine per message while the batch is     *)
(*            gathered, then wait for all of them and mark the batch.      *)
(*                                                                         *)
(* A consumer is built with one of them and keeps it.                      *)
(***************************************************************************)
EXTENDS SaramaSession, FiniteSets

CONSTANTS
    Handlers,  \* the handlers a consumer may be built with
    Bad,       \* the messages json.Unmarshal rejects
    BatchSize  \* messages per batch ("batch", "async")

ASSUME HandlersAssumption == Handlers \subseteq {"sync", "batch", "async"}
ASSUME BadAssumption == Bad \subseteq Msgs
ASSUME BatchSizeAssumption == BatchSize \in Nat \ {0}

MaxTries == 3

VARIABLES
    kind,        \* the handler of this consumer
    pc,          \* "collect", "markBad", "fn", "mark" or "wait"
    batch,       \* the messages gathered; for "sync" the message at hand
    tries,       \* failed calls of fn for the message at hand ("sync")
    tasks,       \* running goroutines ("async"): <<their session, message>>
    successes,   \* history: how often fn accepted each message
    refused,     \* history: messages fn was given for the last time, in vain
    undecodable  \* history: messages skipped because undecodable

loopVars == <<pc, batch, tries, tasks>>
history  == <<successes, refused, undecodable>>
vars == <<next, committed, stored, running, stops, crashes,
          kind, pc, batch, tries, tasks, successes, refused, undecodable>>

settled == {m \in Msgs : successes[m] > 0} \cup refused \cup undecodable

TypeOK ==
    /\ SessionTypeOK
    /\ kind \in Handlers
    /\ pc \in {"collect", "markBad", "fn", "mark", "wait"}
    /\ batch \subseteq Msgs
    /\ Cardinality(batch) <= (IF kind = "sync" THEN 1 ELSE BatchSize)
    /\ tries \in 0..(MaxTries - 1)
    /\ tasks \subseteq (0..MaxStops) \X Msgs
    /\ successes \in [Msgs -> 0..(MaxStops + 1)]
    /\ refused \subseteq Msgs
    /\ undecodable \subseteq Msgs

Init ==
    /\ SessionInit
    /\ kind \in Handlers
    /\ pc = "collect"
    /\ batch = {}
    /\ tries = 0
    /\ tasks = {}
    /\ successes = [m \in Msgs |-> 0]
    /\ refused = {}
    /\ undecodable = {}

Accept(S) == successes' = [m \in Msgs |-> IF m \in S THEN successes[m] + 1 ELSE successes[m]]

-----------------------------------------------------------------------------
(* Handler.                                                                *)

\* Mutant of SyncTake: the message is marked when it is received.
SyncTakeAndMark ==
    /\ kind = "sync"
    /\ pc = "collect"
    /\ Deliver
    /\ MarkMessages({next})
    /\ pc' = "fn" /\ batch' = {next}
    /\ UNCHANGED <<kind, tries, tasks, history>>

\* for msg := range msgs, up to the first call of fn.
SyncTake ==
    /\ kind = "sync"
    /\ pc = "collect"
    /\ Deliver
    /\ IF next \in Bad
         THEN undecodable' = undecodable \cup {next} /\ UNCHANGED <<pc, batch>>
         ELSE pc' = "fn" /\ batch' = {next} /\ UNCHANGED undecodable
    /\ UNCHANGED <<committed, kind, tries, tasks, successes, refused>>

\* Mutant of SyncFnFails: the retry loop has no end.
SyncFnFailsForEver ==
    /\ kind = "sync"
    /\ running
    /\ pc = "fn"
    /\ tries' = (tries + 1) % MaxTries
    /\ UNCHANGED <<sessionVars, kind, pc, batch, tasks, history>>

\* The third failure leaves the message unmarked and goes on to the next.
SyncFnFails ==
    /\ kind = "sync"
    /\ running
    /\ pc = "fn"
    /\ IF tries + 1 = MaxTries
         THEN pc' = "collect" /\ batch' = {} /\ tries' = 0 /\ refused' = refused \cup batch
         ELSE tries' = tries + 1 /\ UNCHANGED <<pc, batch, refused>>
    /\ UNCHANGED <<sessionVars, kind, tasks, successes, undecodable>>

-----------------------------------------------------------------------------
(* BatchHandler.                                                           *)

\* The for loop over i goes on until the batch holds BatchSize messages.
AfterCollecting(b) == IF Cardinality(b) = BatchSize THEN "fn" ELSE "collect"

BatchCollect ==
    /\ kind = "batch"
    /\ pc = "collect"
    /\ Deliver
    /\ batch' = batch \cup {next}
    /\ IF next \in Bad
         THEN pc' = "markBad" /\ undecodable' = undecodable \cup {next}
         ELSE pc' = AfterCollecting(batch') /\ UNCHANGED undecodable
    /\ UNCHANGED <<committed, kind, tries, tasks, successes, refused>>

\* The undecodable message is marked at once, ahead of those gathered before it.
BatchMarkBad ==
    /\ running
    /\ pc = "markBad"
    /\ MarkMessages({next - 1})
    /\ pc' = AfterCollecting(batch)
    /\ UNCHANGED <<next, stored, running, stops, crashes, kind, batch, tries, tasks, history>>

\* ctx.Done(): the second is over, with whatever was gathered, even nothing.
BatchTimeout ==
    /\ kind = "batch"
    /\ running
    /\ pc = "collect"
    /\ pc' = "fn"
    /\ UNCHANGED <<sessionVars, kind, batch, tries, tasks, history>>

\* Mutant of BatchFnFails: the next batch grows on the refused one.
BatchFnFailsKeepsBatch ==
    /\ kind = "batch"
    /\ running
    /\ pc = "fn"
    /\ pc' = "collect"
    /\ UNCHANGED <<sessionVars, kind, batch, tries, tasks, history>>

\* No mark and no retry: the loop starts the next batch.
BatchFnFails ==
    /\ kind = "batch"
    /\ running
    /\ pc = "fn"
    /\ refused' = refused \cup (batch \ Bad)
    /\ batch' = {}
    /\ pc' = "collect"
    /\ UNCHANGED <<sessionVars, kind, tries, tasks, successes, undecodable>>

-----------------------------------------------------------------------------
(* Handler and BatchHandler: fn accepted the message, or the batch.        *)

FnSucceeds ==
    /\ running
    /\ pc = "fn"
    /\ Accept(batch \ Bad)
    /\ pc' = "mark"
    /\ UNCHANGED <<sessionVars, kind, batch, tries, tasks, refused, undecodable>>

\* Mutant of Mark: the last message of a batch is left out.
MarkButLast ==
    /\ running
    /\ pc = "mark"
    /\ MarkMessages(IF kind = "sync" THEN batch ELSE batch \ {next - 1})
    /\ pc' = "collect" /\ batch' = {} /\ tries' = 0
    /\ UNCHANGED <<next, stored, running, stops, crashes, kind, tasks, history>>

Mark ==
    /\ running
    /\ pc = "mark"
    /\ MarkMessages(batch)
    /\ pc' = "collect"
    /\ batch' = {}
    /\ tries' = 0
    /\ UNCHANGED <<next, stored, running, stops, crashes, kind, tasks, history>>

-----------------------------------------------------------------------------
(* AsyncHandler.                                                           *)

\* Receive a message and start its goroutine.  The number of ended sessions
\* names the session.
AsyncCollect ==
    /\ kind = "async"
    /\ pc = "collect"
    /\ Deliver
    /\ batch' = batch \cup {next}
    /\ tasks' = tasks \cup {<<stops, next>>}
    /\ pc' = IF Cardinality(batch') = BatchSize THEN "wait" ELSE "collect"
    /\ UNCHANGED <<committed, kind, tries, history>>

AsyncTimeout ==
    /\ kind = "async"
    /\ running
    /\ pc = "collect"
    /\ pc' = "wait"
    /\ UNCHANGED <<sessionVars, kind, batch, tries, tasks, history>>

\* Mutant of TaskEnds: the retry loop goes on after a success.
TaskEndsTwice(t) ==
    /\ t \in tasks
    /\ t[2] \notin Bad
    /\ tasks' = tasks \ {t} \/ UNCHANGED tasks
    /\ Accept({t[2]})
    /\ UNCHANGED <<sessionVars, kind, pc, batch, tries, refused, undecodable>>

\* A goroutine ends: it could not decode its message, fn accepted it at one of
\* three calls, or fn refused all three and the error is dropped.
TaskEnds(t) ==
    /\ t \in tasks
    /\ tasks' = tasks \ {t}
    /\ IF t[2] \in Bad
         THEN undecodable' = undecodable \cup {t[2]} /\ UNCHANGED <<successes, refused>>
         ELSE /\ \/ Accept({t[2]}) /\ UNCHANGED refused
                 \/ refused' = refused \cup {t[2]} /\ UNCHANGED successes
              /\ UNCHANGED undecodable
    /\ UNCHANGED <<sessionVars, kind, pc, batch, tries>>

\* eg.Wait() returns, and the batch is marked.
AsyncMark ==
    /\ running
    /\ pc = "wait"
    /\ \A t \in tasks : t[1] # stops
    /\ MarkMessages(batch)
    /\ batch' = {}
    /\ pc' = "collect"
    /\ UNCHANGED <<next, stored, running, stops, crashes, kind, tries, tasks, history>>

-----------------------------------------------------------------------------
(* The session around the loop.                                            *)

Commit == AutoCommit /\ UNCHANGED <<kind, loopVars, history>>

\* Mutant of ClaimClosed: what was gathered is marked on the way out.
ClaimClosedMarks ==
    /\ running
    /\ pc = "collect"
    /\ stops < MaxStops
    /\ running' = FALSE
    /\ MarkMessages(batch)
    /\ stored' = committed'
    /\ stops' = stops + 1
    /\ batch' = {}
    /\ UNCHANGED <<next, crashes, kind, pc, tries, tasks, history>>

\* The message channel is closed: ConsumeClaim returns at once.  What was
\* gathered is not marked; AsyncHandler's goroutines run on.
ClaimClosed ==
    /\ pc = "collect"
    /\ EndSession
    /\ batch' = {}
    /\ UNCHANGED <<kind, pc, tries, tasks, history>>

\* The process dies, and with it its goroutines.
Crash ==
    /\ running
    /\ CrashSession
    /\ pc' = "collect"
    /\ batch' = {}
    /\ tries' = 0
    /\ tasks' = {}
    /\ UNCHANGED <<kind, history>>

Start == StartSession /\ UNCHANGED <<kind, loopVars, history>>

Collect == SyncTake \/ BatchCollect \/ AsyncCollect
Timeout == BatchTimeout \/ AsyncTimeout
Task    == \E t \in (0..MaxStops) \X Msgs : TaskEnds(t)
Work    == SyncFnFails \/ BatchMarkBad \/ BatchFnFails \/ FnSucceeds \/ Mark \/ AsyncMark

Next == Collect \/ Timeout \/ Task \/ Work \/ Commit \/ ClaimClosed \/ Crash \/ Start

Spec == Init /\ [][Next]_vars

\* Goroutines run, fn returns, the one-second context expires, and sarama
\* commits in the background.  A message that waits in the channel is received
\* well before the second is over, hence SF: batches do not time out empty for
\* ever while messages are there.  No session has to end, and none to start.
FairSpec ==
    /\ Spec
    /\ SF_vars(Collect)
    /\ WF_vars(Timeout)
    /\ WF_vars(Work)
    /\ WF_vars(Task)
    /\ WF_vars(Commit)

-----------------------------------------------------------------------------
(* Properties.                                                             *)

\* The consumer's contract: Handler and AsyncHandler mark only what is settled
\* up to the mark, BatchHandler promises that the marked message is settled; a
\* session starts right above the stored mark.
Consumer == INSTANCE ClaimConsumer
              WITH inOrder <- kind # "batch", fetched <- next - 1
ImplementsConsumer == Consumer!Spec

\* At-least-once delivery across rebalances and crashes, although goroutines
\* finish in any order and outlive their session: everything below the mark is
\* settled.  The one exception is BatchHandler's early mark of an undecodable
\* message (batch_consumer_handler.go, lines 65-76): if the session ends before
\* the batch is done, it skips what was gathered before, less than a batch.
MarksInOrder ==
    \A m \in (1..committed) \ settled :
        /\ kind = "batch"
        /\ \E b \in undecodable : m < b /\ b < m + BatchSize /\ b <= committed

\* Handler and BatchHandler make fn accept a message twice only after a crash.
\* With AsyncHandler every ended session may cost one more acceptance, even an
\* orderly one (async_consumer_handler.go, lines 43-46): fn has to be
\* idempotent there, or its callers accept the error.
DuplicatesBounded ==
    \A m \in Msgs :
        successes[m] <= 1 + (IF kind = "async" THEN stops ELSE crashes)

\* Refused and undecodable messages never block those behind them, nor does a
\* batch that does not fill: as long as sessions last, the handler reaches the
\* end of the partition, and what fn accepted, and did not refuse in a later
\* session, ends up below the stored mark.
Progress ==
    <>[](running => /\ next > NumMsgs
                    /\ \A m \in Msgs : successes[m] > 0 => m <= stored \/ m \in refused)
=============================================================================
