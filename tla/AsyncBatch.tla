------------------------------ MODULE AsyncBatch ------------------------------
(***************************************************************************)
(* pkg/saramax AsyncBatchHandler: one call of ConsumeClaim on one          *)
(* partition.  The main goroutine moves messages from sarama's channel     *)
(* into taskCh and marks what comes back on ackCh; a fixed set of workers  *)
(* takes messages from taskCh, gathers them in a private buffer, hands the *)
(* buffer to the business function and sends its messages to ackCh.  Both  *)
(* channels are bounded.                                                   *)
(*                                                                         *)
(* Messages are their offsets 1..NumMsgs.  Every blocking point of a       *)
(* goroutine is a control state; the statements between two of them are    *)
(* one step.  The timers only decide when a step may happen, so a timer is *)
(* a step that is always allowed.                                          *)
(***************************************************************************)
EXTENDS Integers, Sequences, FiniteSets, Functions

CONSTANTS
    Workers,       \* maxConcurrency goroutines
    BatchSize,     \* batchSize
    NumMsgs,       \* bound: offsets the partition holds
    Bad,           \* the messages json.Unmarshal rejects
    LocalRetries,  \* localRetries
    Rebalances,    \* may the session's context be cancelled?
    ClaimErrors    \* may the message channel close while the session lives?

ASSUME WorkersAssumption == IsFiniteSet(Workers) /\ Workers # {}
ASSUME BatchSizeAssumption == BatchSize \in Nat \ {0}
ASSUME NumMsgsAssumption == NumMsgs \in Nat
ASSUME BadAssumption == Bad \subseteq 1..NumMsgs
ASSUME LocalRetriesAssumption == LocalRetries \in Nat \ {0}
ASSUME EnvironmentAssumption == Rebalances \in BOOLEAN /\ ClaimErrors \in BOOLEAN

VARIABLES
    next,        \* next offset the message channel delivers
    avail,       \* last offset the message channel will ever deliver
    claimOpen,   \* claim.Messages() is not closed yet
    ctxDone,     \* session.Context() is cancelled
    mainPc,      \* where the main goroutine is
    hand,        \* the message main is sending to taskCh, 0 if none
    taskCh,      \* the channel main -> workers
    taskClosed,  \* close(taskCh) was called
    ackCh,       \* the channel workers -> main
    marked,      \* offsets passed to session.MarkMessage
    committed,   \* the high-water mark sarama derives from them
    wpc,         \* where each worker is
    buf,         \* msgsBuf of each worker
    cur,         \* the undecodable message a worker is acknowledging
    attempt,     \* failed calls of fn for the current batch
    acked,       \* messages of the current batch already sent to ackCh
    handled,     \* history: messages of the batches fn accepted
    gaveUp,      \* history: messages of the batches whose retries ran out
    undecodable  \* history: messages acknowledged because undecodable

claimVars  == <<next, avail, claimOpen, ctxDone>>
mainVars   == <<mainPc, hand, taskClosed, marked, committed>>
workVars   == <<wpc, buf, cur, attempt, acked>>
history    == <<handled, gaveUp, undecodable>>
vars == <<next, avail, claimOpen, ctxDone, mainPc, hand, taskCh, taskClosed,
          ackCh, marked, committed, wpc, buf, cur, attempt, acked,
          handled, gaveUp, undecodable>>

Msgs == 1..NumMsgs

BufCap == Cardinality(Workers) * BatchSize

settled == handled \cup gaveUp \cup undecodable

TypeOK ==
    /\ next \in 1..(NumMsgs + 1)
    /\ avail \in 0..NumMsgs
    /\ claimOpen \in BOOLEAN
    /\ ctxDone \in BOOLEAN
    /\ mainPc \in {"select", "sending", "spin", "waiting", "draining", "returned"}
    /\ hand \in 0..NumMsgs
    /\ taskCh \in Seq(Msgs)
    /\ taskClosed \in BOOLEAN
    /\ ackCh \in Seq(Msgs)
    /\ marked \subseteq Msgs
    /\ committed \in 0..NumMsgs
    /\ wpc \in [Workers -> {"select", "badAck", "fn", "backoff", "ack", "exited"}]
    /\ buf \in [Workers -> Seq(Msgs)]
    /\ cur \in [Workers -> 0..NumMsgs]
    /\ attempt \in [Workers -> 0..LocalRetries]
    /\ acked \in [Workers -> Nat]
    /\ handled \subseteq Msgs
    /\ gaveUp \subseteq Msgs
    /\ undecodable \subseteq Msgs

Init ==
    /\ next = 1
    /\ avail = NumMsgs
    /\ claimOpen = TRUE
    /\ ctxDone = FALSE
    /\ mainPc = "select"
    /\ hand = 0
    /\ taskCh = <<>>
    /\ taskClosed = FALSE
    /\ ackCh = <<>>
    /\ marked = {}
    /\ committed = 0
    /\ wpc = [w \in Workers |-> "select"]
    /\ buf = [w \in Workers |-> <<>>]
    /\ cur = [w \in Workers |-> 0]
    /\ attempt = [w \in Workers |-> 0]
    /\ acked = [w \in Workers |-> 0]
    /\ handled = {}
    /\ gaveUp = {}
    /\ undecodable = {}

-----------------------------------------------------------------------------
(* The consumer group, as sarama drives the handler.                       *)

\* A rebalance or a shutdown cancels the session.
Rebalance ==
    /\ Rebalances
    /\ ~ctxDone
    /\ ctxDone' = TRUE
    /\ UNCHANGED <<next, avail, claimOpen, mainVars, taskCh, ackCh, workVars, history>>

\* sarama closes the claim after a cancellation, or because the partition
\* consumer failed; what is already in the channel is still delivered.
CloseClaim ==
    /\ claimOpen
    /\ ClaimErrors \/ ctxDone
    /\ claimOpen' = FALSE
    /\ avail' \in (next - 1)..NumMsgs
    /\ UNCHANGED <<next, ctxDone, mainVars, taskCh, ackCh, workVars, history>>

-----------------------------------------------------------------------------
(* The main goroutine.                                                     *)

\* session.MarkMessage: sarama ignores an offset below its mark.
MarkMessage(m) ==
    /\ marked' = marked \cup {m}
    /\ committed' = IF m > committed THEN m ELSE committed

\* Take one acknowledgement while the main goroutine is at pc.
MarkFrom(pc) ==
    /\ mainPc = pc
    /\ ackCh # <<>>
    /\ MarkMessage(Head(ackCh))
    /\ ackCh' = Tail(ackCh)
    /\ UNCHANGED <<claimVars, mainPc, hand, taskCh, taskClosed, workVars, history>>

MainAck == MarkFrom("select")

TakeNext ==
    /\ mainPc = "select"
    /\ hand' = next
    /\ next' = next + 1
    /\ mainPc' = "sending"
    /\ UNCHANGED <<avail, claimOpen, ctxDone, taskCh, taskClosed, ackCh,
                   marked, committed, workVars, history>>

\* Mutant of MainFetch: the ok of the receive is not looked at.
MainFetchPastClose == TakeNext

MainFetch == next <= avail /\ TakeNext

\* taskCh <- task{msg: msg} blocks while the channel is full, and main does
\* nothing else meanwhile.
MainSend ==
    /\ mainPc = "sending"
    /\ Len(taskCh) < BufCap
    /\ taskCh' = Append(taskCh, hand)
    /\ hand' = 0
    /\ mainPc' = "select"
    /\ UNCHANGED <<claimVars, taskClosed, ackCh, marked, committed, workVars, history>>

CloseTaskCh(to) ==
    /\ mainPc = "select"
    /\ taskClosed' = TRUE
    /\ mainPc' = to
    /\ UNCHANGED <<claimVars, hand, taskCh, ackCh, marked, committed, workVars, history>>

MainClaimClosed == ~claimOpen /\ next > avail /\ CloseTaskCh("waiting")

MainCtxDone == ctxDone /\ CloseTaskCh("spin")

\* The "fast drain" after a cancellation: its default case is empty, so the
\* loop has no exit.
MainSpinAck == MarkFrom("spin")

MainMove(from, to) ==
    /\ mainPc = from
    /\ mainPc' = to
    /\ UNCHANGED <<claimVars, hand, taskCh, taskClosed, ackCh, marked, committed,
                   workVars, history>>

\* Mutant of MainWaitDone: no wg.Wait().
MainWaitSkipped == MainMove("waiting", "draining")

\* wg.Wait()
MainWaitDone ==
    /\ \A w \in Workers : wpc[w] = "exited"
    /\ MainMove("waiting", "draining")

MainDrainAck == MarkFrom("draining")

\* Mutant of MainReturn: no last drain of ackCh.
MainReturnUndrained == MainMove("draining", "returned")

MainReturn == ackCh = <<>> /\ MainMove("draining", "returned")

MainStep ==
    \/ MainAck \/ MainFetch \/ MainSend \/ MainClaimClosed \/ MainCtxDone
    \/ MainSpinAck \/ MainWaitDone \/ MainDrainAck \/ MainReturn

-----------------------------------------------------------------------------
(* The workers.                                                            *)

WorkerQuit(w) ==
    /\ wpc[w] = "select"
    /\ ctxDone
    /\ wpc' = [wpc EXCEPT ![w] = "exited"]
    /\ UNCHANGED <<claimVars, mainVars, taskCh, ackCh, buf, cur, attempt, acked, history>>

\* flush() begins a batch unless the session is cancelled; the buffer stays
\* as it is when it does not.
BeginFlush(w) ==
    /\ wpc' = [wpc EXCEPT ![w] = "fn"]
    /\ attempt' = [attempt EXCEPT ![w] = 0]

TimerFlush(w) ==
    /\ wpc[w] = "select"
    /\ buf[w] # <<>>
    /\ ~ctxDone
    /\ BeginFlush(w)
    /\ UNCHANGED <<claimVars, mainVars, taskCh, ackCh, buf, cur, acked, history>>

\* Mutant of Buffer: a full batch is acknowledged before it is handled.
BufferAckFirst(w, m) ==
    /\ buf' = [buf EXCEPT ![w] = Append(@, m)]
    /\ wpc' = [wpc EXCEPT ![w] = IF Len(buf[w]) + 1 >= BatchSize THEN "ack" ELSE "select"]
    /\ UNCHANGED attempt

\* Append m to the buffer, and flush when that fills a batch.
Buffer(w, m) ==
    /\ buf' = [buf EXCEPT ![w] = Append(@, m)]
    /\ IF Len(buf[w]) + 1 >= BatchSize /\ ~ctxDone
         THEN BeginFlush(w)
         ELSE /\ wpc' = [wpc EXCEPT ![w] = "select"]
              /\ UNCHANGED attempt

Receive(w) ==
    /\ wpc[w] = "select"
    /\ taskCh # <<>>
    /\ taskCh' = Tail(taskCh)
    /\ IF Head(taskCh) \in Bad
         THEN /\ wpc' = [wpc EXCEPT ![w] = "badAck"]
              /\ cur' = [cur EXCEPT ![w] = Head(taskCh)]
              /\ UNCHANGED <<buf, attempt>>
         ELSE /\ Buffer(w, Head(taskCh))
              /\ UNCHANGED cur
    /\ UNCHANGED <<claimVars, mainVars, ackCh, acked, history>>

\* The message is acknowledged and then buffered all the same.
AckUndecodable(w) ==
    /\ wpc[w] = "badAck"
    /\ Len(ackCh) < BufCap
    /\ ackCh' = Append(ackCh, cur[w])
    /\ undecodable' = undecodable \cup {cur[w]}
    /\ cur' = [cur EXCEPT ![w] = 0]
    /\ Buffer(w, cur[w])
    /\ UNCHANGED <<claimVars, mainVars, taskCh, acked, handled, gaveUp>>

\* taskCh is closed and empty: flush what is left, then exit.  The flush
\* comes back to "select", from where the worker finds an empty buffer (or a
\* cancelled session) and exits.
DrainClosed(w) ==
    /\ wpc[w] = "select"
    /\ taskClosed
    /\ taskCh = <<>>
    /\ IF buf[w] # <<>> /\ ~ctxDone
         THEN BeginFlush(w)
         ELSE /\ wpc' = [wpc EXCEPT ![w] = "exited"]
              /\ UNCHANGED attempt
    /\ UNCHANGED <<claimVars, mainVars, taskCh, ackCh, buf, cur, acked, history>>

FnSucceeds(w) ==
    /\ wpc[w] = "fn"
    /\ handled' = handled \cup Range(buf[w])
    /\ wpc' = [wpc EXCEPT ![w] = "ack"]
    /\ UNCHANGED <<claimVars, mainVars, taskCh, ackCh, buf, cur, attempt, acked,
                   gaveUp, undecodable>>

FnFails(w) ==
    /\ wpc[w] = "fn"
    /\ IF attempt[w] + 1 > LocalRetries
         THEN /\ gaveUp' = gaveUp \cup Range(buf[w])
              /\ wpc' = [wpc EXCEPT ![w] = "ack"]
              /\ UNCHANGED attempt
         ELSE /\ attempt' = [attempt EXCEPT ![w] = @ + 1]
              /\ wpc' = [wpc EXCEPT ![w] = "backoff"]
              /\ UNCHANGED gaveUp
    /\ UNCHANGED <<claimVars, mainVars, taskCh, ackCh, buf, cur, acked,
                   handled, undecodable>>

BackoffExpires(w) ==
    /\ wpc[w] = "backoff"
    /\ wpc' = [wpc EXCEPT ![w] = "fn"]
    /\ UNCHANGED <<claimVars, mainVars, taskCh, ackCh, buf, cur, attempt, acked, history>>

\* Mutant of BackoffAborted: break instead of return, into the reset.
BackoffAbortedResets(w) ==
    /\ ctxDone
    /\ wpc[w] = "backoff" /\ wpc' = [wpc EXCEPT ![w] = "select"]
    /\ buf' = [buf EXCEPT ![w] = <<>>]
    /\ UNCHANGED <<claimVars, mainVars, taskCh, ackCh, cur, attempt, acked, history>>

\* flush() returns without touching the buffer.
BackoffAborted(w) ==
    /\ wpc[w] = "backoff"
    /\ ctxDone
    /\ wpc' = [wpc EXCEPT ![w] = "select"]
    /\ UNCHANGED <<claimVars, mainVars, taskCh, ackCh, buf, cur, attempt, acked, history>>

\* Mutant of AckNext: the buffer is not reset after the last message.
AckNextKeepsBuffer(w) ==
    /\ wpc[w] = "ack"
    /\ Len(ackCh) < BufCap
    /\ ackCh' = Append(ackCh, buf[w][acked[w] + 1])
    /\ IF acked[w] + 1 = Len(buf[w])
         THEN acked' = [acked EXCEPT ![w] = 0] /\ wpc' = [wpc EXCEPT ![w] = "select"]
         ELSE acked' = [acked EXCEPT ![w] = @ + 1] /\ UNCHANGED wpc
    /\ UNCHANGED <<claimVars, mainVars, taskCh, buf, cur, attempt, history>>

\* Send the next message of the batch to ackCh; reset the buffer after the last.
AckNext(w) ==
    /\ wpc[w] = "ack"
    /\ Len(ackCh) < BufCap
    /\ ackCh' = Append(ackCh, buf[w][acked[w] + 1])
    /\ IF acked[w] + 1 = Len(buf[w])
         THEN /\ acked' = [acked EXCEPT ![w] = 0]
              /\ buf' = [buf EXCEPT ![w] = <<>>]
              /\ wpc' = [wpc EXCEPT ![w] = "select"]
         ELSE /\ acked' = [acked EXCEPT ![w] = @ + 1]
              /\ UNCHANGED <<buf, wpc>>
    /\ UNCHANGED <<claimVars, mainVars, taskCh, cur, attempt, history>>

WorkerStep(w) ==
    \/ WorkerQuit(w) \/ TimerFlush(w) \/ Receive(w) \/ AckUndecodable(w)
    \/ DrainClosed(w) \/ FnSucceeds(w) \/ FnFails(w)
    \/ BackoffExpires(w) \/ BackoffAborted(w) \/ AckNext(w)

Next ==
    \/ Rebalance \/ CloseClaim
    \/ MainStep
    \/ \E w \in Workers : WorkerStep(w)

Spec == Init /\ [][Next]_vars

\* The Go scheduler runs every goroutine that is not blocked, timers expire,
\* and the business function returns.  Nothing is assumed of the environment.
FairSpec == Spec /\ WF_vars(MainStep) /\ \A w \in Workers : WF_vars(WorkerStep(w))

-----------------------------------------------------------------------------
(* Properties.                                                             *)

\* The unacknowledged rest of a worker's buffer.
Pending(w) == {buf[w][i] : i \in (acked[w] + 1)..Len(buf[w])}

\* Every message taken from sarama stays somewhere until it is marked: in
\* main's hand, in a channel, in a worker's buffer, or held by the worker that
\* is acknowledging it.  An aborted flush, a retry or a cancelled session
\* loses none of them (flush, lines 224-296).
NothingLost ==
    \A m \in 1..(next - 1) :
        \/ m \in marked \cup Range(ackCh) \cup Range(taskCh) \cup {hand}
        \/ \E w \in Workers : m = cur[w] \/ m \in Pending(w)

\* A batch is handed to fn only while nobody has dealt with its decodable
\* messages, and no message is in the buffers of two workers: the retries of
\* one worker replay nothing that was handled, and an acknowledged batch never
\* stays in the buffer (lines 241-251 and 293-295).
NoReplay ==
    \A w \in Workers :
        /\ wpc[w] # "ack" => Range(buf[w]) \cap (handled \cup gaveUp) = {}
        /\ \A i, j \in 1..Len(buf[w]) : buf[w][i] = buf[w][j] => i = j
        /\ \A v \in Workers \ {w} : Range(buf[w]) \cap Range(buf[v]) = {}

\* When ConsumeClaim returns and the session was not cancelled, everything it
\* took from the claim has been dealt with and marked (lines 186-202).
CleanExit ==
    mainPc = "returned" /\ ~ctxDone =>
        /\ 1..(next - 1) \subseteq marked
        /\ marked \subseteq settled

\* What a crash can lose.  sarama's mark jumps over the messages other workers
\* still hold, and a restart resumes above the mark: only messages in a
\* worker's hands are jumped over.  While the session lives that is at most a
\* batch for each of the other workers and, for the worker that moved the mark,
\* what it had gathered when it acknowledged an undecodable message.
CrashLossBounded ==
    LET lost == (1..committed) \ settled
        ofOthers == (Cardinality(Workers) - 1) * BatchSize
        ofItsOwn == IF Bad = {} THEN 0 ELSE BatchSize - 1
    IN  /\ \A m \in lost : \E w \in Workers : m = cur[w] \/ m \in Range(buf[w])
        /\ ~ctxDone => Cardinality(lost) <= ofOthers + ofItsOwn

\* The handler implements the weak contract: a marked message is settled.
Consumer == INSTANCE ClaimConsumer
              WITH inOrder <- FALSE, fetched <- next - 1, stored <- 0
ImplementsConsumer == Consumer!Spec

\* Once the claim is closed, ConsumeClaim returns and has marked all it took,
\* unless the session is cancelled meanwhile.  It holds only when the
\* acknowledgements, two of them for an undecodable message, fit in ackCh (see
\* AckEventuallyMarked for what happens when they do not; lines 186-202).
Drains ==
    LET acks == avail + Cardinality(Bad \cap 1..avail)
    IN  ~claimOpen /\ acks <= BufCap
            ~> ctxDone \/ (mainPc = "returned" /\ 1..(next - 1) \subseteq marked)

\* Line 247: a full ackCh is written blockingly "to guarantee that the message
\* is committed in the end".
AckEventuallyMarked == \A m \in Msgs : (m \in handled) ~> (m \in marked)

=============================================================================
