--------------------------- MODULE AsyncBatchProofs ---------------------------
(***************************************************************************)
(* Theorems about AsyncBatch for every number of workers, batch size,      *)
(* number of messages and set of undecodable messages.                     *)
(*                                                                         *)
(* IInv is the inductive invariant.  ControlInv says what each goroutine   *)
(* holds at each of its control states; FetchedInv and SettledInv bound    *)
(* what travels through the channels; NothingLost (from AsyncBatch) says   *)
(* that no message falls between them; ExitInv says what a goroutine that  *)
(* is gone has left behind.                                                *)
(*                                                                         *)
(* PlaceInv, on top of it, is about the places of messages: taskCh is in   *)
(* the order of the offsets, nobody else has a message that a worker or    *)
(* the main loop has, and a worker has room for one batch.  The messages   *)
(* that a crash would lose are then at most as many as the workers have    *)
(* places for.                                                             *)
(***************************************************************************)
EXTENDS AsyncBatch, FiniteSetTheorems, TLAPS

MainInv ==
    /\ mainPc = "sending" => hand \in Msgs
    /\ mainPc # "sending" => hand = 0

WorkerInv(w) ==
    /\ wpc[w] \in {"fn", "backoff", "ack"} => buf[w] # <<>>
    /\ wpc[w] = "ack" => /\ acked[w] < Len(buf[w])
                         /\ Range(buf[w]) \subseteq handled \cup gaveUp
    /\ wpc[w] # "ack" => acked[w] = 0
    /\ wpc[w] = "badAck" => cur[w] \in Msgs
    /\ wpc[w] # "badAck" => cur[w] = 0

ControlInv == MainInv /\ \A w \in Workers : WorkerInv(w)

\* Nothing but delivered messages travels through the handler.
FetchedInv ==
    /\ avail >= next - 1
    /\ hand < next
    /\ \A m \in Range(taskCh) \cup Range(ackCh) \cup marked : m < next
    /\ \A w \in Workers : cur[w] < next /\ \A m \in Range(buf[w]) : m < next

\* Only settled messages are acknowledged and marked.
SettledInv ==
    /\ Range(ackCh) \subseteq settled
    /\ marked \subseteq settled

\* What a goroutine that is gone has left behind.
ExitInv ==
    /\ taskClosed <=> mainPc \in {"spin", "waiting", "draining", "returned"}
    /\ mainPc \in {"draining", "returned"} => \A w \in Workers : wpc[w] = "exited"
    /\ mainPc = "returned" => ackCh = <<>>
    /\ ~ctxDone => \A w \in Workers :
          wpc[w] = "exited" => taskClosed /\ taskCh = <<>> /\ buf[w] = <<>>

IInv ==
    /\ TypeOK
    /\ ControlInv
    /\ FetchedInv
    /\ SettledInv
    /\ NothingLost
    /\ ExitInv

\* What a worker holds, and what has left the task channel.
Own(w) == Range(buf[w]) \cup ({cur[w]} \ {0})
Taken == settled \cup UNION {Own(w) : w \in Workers}

\* The task channel is first in, first out: what has left it is below what is
\* in it, and that is below what main is about to send.
FifoInv ==
    /\ \A i, j \in 1..Len(taskCh) : i < j => taskCh[i] < taskCh[j]
    /\ \A m \in Taken : m < next /\ \A n \in Range(taskCh) : m < n
    /\ hand # 0 => \A m \in Taken \cup Range(taskCh) : m < hand
    /\ committed \in settled \cup {0}

\* A message has one owner at most, and nobody deals with it twice.
OwnerInv(w) ==
    /\ \A i, j \in 1..Len(buf[w]) : buf[w][i] = buf[w][j] => i = j
    /\ cur[w] \notin Range(buf[w])
    /\ wpc[w] = "badAck" => cur[w] \in Bad
    /\ wpc[w] # "ack" => Own(w) \cap (handled \cup gaveUp) = {}

OwnInv ==
    /\ \A w \in Workers : OwnerInv(w)
    /\ \A v, w \in Workers : v # w => Own(v) \cap Own(w) = {}

\* What the worker that acknowledged a message may hold below it.
ItsOwn == IF Bad = {} THEN 0 ELSE BatchSize - 1
Below(w, m) == {n \in Own(w) \ settled : n < m}

RoomInv ==
    ~ctxDone =>
        /\ \A w \in Workers :
              /\ Len(buf[w]) <= BatchSize
              /\ wpc[w] \in {"select", "badAck"} => Len(buf[w]) < BatchSize
        /\ \A m \in settled : \E w \in Workers : Cardinality(Below(w, m)) <= ItsOwn

PlaceInv == FifoInv /\ OwnInv /\ RoomInv

-----------------------------------------------------------------------------
(* Sequences as the contents of a channel or a buffer.                     *)

\* Sending to a channel adds one message to its contents.
LEMMA RangeAppend ==
    ASSUME NEW S, NEW s \in Seq(S), NEW x \in S
    PROVE  /\ Append(s, x) \in Seq(S)
           /\ Append(s, x) # <<>>
           /\ Len(Append(s, x)) = Len(s) + 1
           /\ Range(Append(s, x)) = Range(s) \cup {x}
  <1> DEFINE t == Append(s, x)
  <1>1. /\ t \in Seq(S)
        /\ DOMAIN s = 1..Len(s)
        /\ DOMAIN t = 1..(Len(s) + 1)
        /\ Len(s) \in Nat
        /\ Len(t) = Len(s) + 1
        /\ \A i \in 1..Len(s) : t[i] = s[i]
        /\ t[Len(s) + 1] = x
    OBVIOUS
  <1>2. \A i \in DOMAIN t : i \in DOMAIN s \/ i = Len(s) + 1
    BY <1>1
  <1>3. DOMAIN s \subseteq DOMAIN t /\ Len(s) + 1 \in DOMAIN t
    BY <1>1
  <1>4. Range(t) \subseteq Range(s) \cup {x}
    BY <1>1, <1>2 DEF Range
  <1>5. Range(s) \cup {x} \subseteq Range(t)
    BY <1>1, <1>3 DEF Range
  <1>6. t # <<>>
    BY <1>1
  <1> QED
    BY <1>1, <1>4, <1>5, <1>6

\* Receiving from a channel takes its head away and nothing else.
LEMMA RangeHeadTail ==
    ASSUME NEW S, NEW s \in Seq(S), s # <<>>
    PROVE  /\ Head(s) \in S
           /\ Tail(s) \in Seq(S)
           /\ Range(s) = {Head(s)} \cup Range(Tail(s))
  <1> DEFINE t == Tail(s)
  <1>1. /\ t \in Seq(S)
        /\ Len(s) \in Nat \ {0}
        /\ DOMAIN s = 1..Len(s)
        /\ DOMAIN t = 1..(Len(s) - 1)
        /\ \A i \in 1..(Len(s) - 1) : t[i] = s[i + 1]
        /\ Head(s) = s[1]
        /\ s[1] \in S
    OBVIOUS
  <1>2. \A i \in DOMAIN s : i = 1 \/ (i - 1 \in DOMAIN t /\ s[i] = t[i - 1])
    BY <1>1
  <1>3. Range(s) \subseteq {Head(s)} \cup Range(t)
    BY <1>1, <1>2 DEF Range
  <1>4. \A i \in DOMAIN t : i + 1 \in DOMAIN s /\ t[i] = s[i + 1]
    BY <1>1
  <1>5. {Head(s)} \cup Range(t) \subseteq Range(s)
    BY <1>1, <1>4 DEF Range
  <1> QED
    BY <1>1, <1>3, <1>5

\* The contents of a sequence over S are elements of S.
LEMMA RangeType ==
    ASSUME NEW S, NEW s \in Seq(S)
    PROVE  Range(s) \subseteq S /\ (Range(s) = {} <=> s = <<>>)
  <1>1. /\ Len(s) \in Nat /\ DOMAIN s = 1..Len(s) /\ \A i \in 1..Len(s) : s[i] \in S
        /\ s = <<>> <=> Len(s) = 0
    OBVIOUS
  <1>2. Range(s) \subseteq S
    BY <1>1 DEF Range
  <1>3. s = <<>> => Range(s) = {}
    BY <1>1 DEF Range
  <1>4. s # <<>> => Range(s) # {}
    <2>1. s # <<>> => 1 \in DOMAIN s
      BY <1>1
    <2> QED
      BY <2>1 DEF Range
  <1> QED
    BY <1>2, <1>3, <1>4

\* Updating one entry of a function with a value of its range keeps its type.
LEMMA UpdateType ==
    ASSUME NEW D, NEW S, NEW f \in [D -> S], NEW d, NEW x \in S
    PROVE  [f EXCEPT ![d] = x] \in [D -> S]
  OBVIOUS

\* With nothing acknowledged yet, all of a buffer is pending.
LEMMA WholeBuffer ==
    ASSUME NEW S, NEW s \in Seq(S)
    PROVE  {s[i] : i \in (0 + 1)..Len(s)} = Range(s)
  <1>1. DOMAIN s = (0 + 1)..Len(s)
    OBVIOUS
  <1> QED
    BY <1>1 DEF Range

-----------------------------------------------------------------------------
(* The inductive invariant: the initial state, then one lemma per action.  *)

USE WorkersAssumption, BatchSizeAssumption, NumMsgsAssumption,
    BadAssumption, LocalRetriesAssumption, EnvironmentAssumption

\* The invariant holds before the first message.
LEMMA InitIInv == Init => IInv
  <1> SUFFICES ASSUME Init PROVE IInv
    OBVIOUS
  <1> USE DEF Init
  <1>1. TypeOK
    <2>1. <<>> \in Seq(Msgs)
      OBVIOUS
    <2>2. /\ wpc \in [Workers -> {"select", "badAck", "fn", "backoff", "ack", "exited"}]
          /\ buf \in [Workers -> Seq(Msgs)]
          /\ cur \in [Workers -> 0..NumMsgs]
          /\ attempt \in [Workers -> 0..LocalRetries]
          /\ acked \in [Workers -> Nat]
      BY <2>1
    <2>3. next \in 1..(NumMsgs + 1) /\ avail \in 0..NumMsgs
      OBVIOUS
    <2> QED
      BY <2>1, <2>2, <2>3 DEF TypeOK
  <1>2. Range(<<>>) = {}
    BY DEF Range
  <1>3. ControlInv
    BY DEF ControlInv, MainInv, WorkerInv, Msgs
  <1>4. FetchedInv
    BY <1>2 DEF FetchedInv
  <1>5. SettledInv
    BY <1>2 DEF SettledInv
  <1>6. NothingLost
    BY DEF NothingLost
  <1>7. ExitInv
    BY DEF ExitInv
  <1> QED
    BY <1>1, <1>3, <1>4, <1>5, <1>6, <1>7 DEF IInv

\* A cancellation changes nothing but ctxDone.
LEMMA RebalanceIInv ==
    ASSUME IInv, Rebalance
    PROVE  IInv'
  <1>1. TypeOK'
    BY DEF Rebalance, mainVars, workVars, history, IInv, TypeOK, ControlInv, MainInv
  <1>2. ControlInv'
    BY DEF Rebalance, mainVars, workVars, history, IInv, TypeOK, ControlInv, MainInv,
       WorkerInv
  <1>3. FetchedInv'
    BY DEF Rebalance, mainVars, workVars, history, IInv, TypeOK, ControlInv, MainInv,
       FetchedInv
  <1>4. SettledInv'
    BY DEF Rebalance, mainVars, workVars, history, IInv, TypeOK, ControlInv, MainInv,
       SettledInv, settled
  <1>5. NothingLost'
    BY DEF Rebalance, mainVars, workVars, history, IInv, TypeOK, ControlInv, MainInv,
       NothingLost, Pending
  <1>6. ExitInv'
    BY DEF Rebalance, mainVars, workVars, history, IInv, TypeOK, ControlInv, MainInv,
       ExitInv
  <1> QED
    BY <1>1, <1>2, <1>3, <1>4, <1>5, <1>6 DEF IInv

\* Closing the claim only withdraws undelivered messages.
LEMMA CloseClaimIInv ==
    ASSUME IInv, CloseClaim
    PROVE  IInv'
  <1>1. TypeOK'
    <2>1. avail' \in 0..NumMsgs
      BY DEF CloseClaim, mainVars, workVars, history, IInv, TypeOK
    <2> QED
      BY <2>1 DEF CloseClaim, mainVars, workVars, history, IInv, TypeOK
  <1>2. ControlInv'
    BY DEF CloseClaim, mainVars, workVars, history, IInv, TypeOK, ControlInv, MainInv,
       WorkerInv
  <1>3. FetchedInv'
    BY DEF CloseClaim, mainVars, workVars, history, IInv, TypeOK, ControlInv, MainInv,
       FetchedInv
  <1>4. SettledInv'
    BY DEF CloseClaim, mainVars, workVars, history, IInv, TypeOK, ControlInv, MainInv,
       SettledInv, settled
  <1>5. NothingLost'
    BY DEF CloseClaim, mainVars, workVars, history, IInv, TypeOK, ControlInv, MainInv,
       NothingLost, Pending
  <1>6. ExitInv'
    BY DEF CloseClaim, mainVars, workVars, history, IInv, TypeOK, ControlInv, MainInv,
       ExitInv
  <1> QED
    BY <1>1, <1>2, <1>3, <1>4, <1>5, <1>6 DEF IInv

\* Marking moves a settled message out of ackCh.
LEMMA MainAckIInv ==
    ASSUME IInv, MainAck
    PROVE  IInv'
  <1>1. /\ Head(ackCh) \in Msgs
        /\ ackCh' = Tail(ackCh)
        /\ Tail(ackCh) \in Seq(Msgs)
        /\ Range(ackCh) = {Head(ackCh)} \cup Range(ackCh')
    BY RangeHeadTail DEF MainAck, MarkFrom, MarkMessage, claimVars, workVars, history, IInv, TypeOK
  <1>2. TypeOK'
    <2>1. committed' \in 0..NumMsgs
      BY <1>1 DEF MainAck, MarkFrom, MarkMessage, claimVars, workVars, history, IInv, TypeOK, Msgs
    <2>2. marked' \subseteq Msgs
      BY <1>1 DEF MainAck, MarkFrom, MarkMessage, claimVars, workVars, history, IInv, TypeOK
    <2> QED
      BY <1>1, <2>1, <2>2 DEF MainAck, MarkFrom, MarkMessage, claimVars, workVars, history, IInv, TypeOK
  <1>3. ControlInv'
    BY <1>1 DEF MainAck, MarkFrom, MarkMessage, claimVars, workVars, history, IInv, TypeOK,
       ControlInv, MainInv, WorkerInv
  <1>4. FetchedInv'
    BY <1>1 DEF MainAck, MarkFrom, MarkMessage, claimVars, workVars, history, IInv, TypeOK,
       ControlInv, MainInv, FetchedInv
  <1>5. SettledInv'
    BY <1>1 DEF MainAck, MarkFrom, MarkMessage, claimVars, workVars, history, IInv, TypeOK,
       ControlInv, MainInv, SettledInv, settled
  <1>6. NothingLost'
    <2>1. /\ next' = next /\ hand' = hand /\ taskCh' = taskCh /\ cur' = cur
          /\ buf' = buf /\ acked' = acked /\ marked' = marked \cup {Head(ackCh)}
      BY DEF MainAck, MarkFrom, MarkMessage, claimVars, workVars, history
    <2>2. \A v \in Workers : Pending(v)' = Pending(v)
      BY <2>1 DEF Pending
    <2> QED
      BY <1>1, <2>1, <2>2 DEF IInv, NothingLost
  <1>7. ExitInv'
    BY <1>1 DEF MainAck, MarkFrom, MarkMessage, claimVars, workVars, history, IInv, TypeOK,
       ControlInv, MainInv, ExitInv
  <1> QED
    BY <1>2, <1>3, <1>4, <1>5, <1>6, <1>7 DEF IInv

\* A delivered message is in main's hand.
LEMMA MainFetchIInv ==
    ASSUME IInv, MainFetch
    PROVE  IInv'
  <1>1. TypeOK'
    <2>1. next' \in 1..(NumMsgs + 1) /\ hand' \in 0..NumMsgs
      BY DEF MainFetch, TakeNext, workVars, history, IInv, TypeOK
    <2> QED
      BY <2>1 DEF MainFetch, TakeNext, workVars, history, IInv, TypeOK
  <1>2. ControlInv'
    BY DEF MainFetch, TakeNext, workVars, history, IInv, TypeOK, ControlInv, MainInv, WorkerInv, Msgs
  <1>3. FetchedInv'
    <2>1. next \in Nat /\ avail \in Nat
      BY DEF IInv, TypeOK
    <2>2. \A m \in Range(taskCh) \cup Range(ackCh) \cup marked : m \in Nat /\ m < next
      <3>1. Range(taskCh) \subseteq Msgs /\ Range(ackCh) \subseteq Msgs /\ marked \subseteq Msgs
        BY RangeType DEF IInv, TypeOK
      <3>2. Msgs \subseteq Nat
        BY DEF Msgs
      <3>3. \A m \in Range(taskCh) \cup Range(ackCh) \cup marked : m < next
        BY DEF IInv, FetchedInv
      <3> QED
        BY <3>1, <3>2, <3>3
    <2>3. \A w \in Workers : /\ cur[w] \in Nat /\ cur[w] < next
                            /\ \A m \in Range(buf[w]) : m \in Nat /\ m < next
      <3> SUFFICES ASSUME NEW w \in Workers
                   PROVE  /\ cur[w] \in Nat /\ cur[w] < next
                          /\ \A m \in Range(buf[w]) : m \in Nat /\ m < next
        OBVIOUS
      <3>1. cur[w] \in Nat /\ buf[w] \in Seq(Msgs)
        BY DEF IInv, TypeOK
      <3>2. Range(buf[w]) \subseteq Msgs
        BY <3>1, RangeType
      <3>3. cur[w] < next /\ \A m \in Range(buf[w]) : m < next
        BY DEF IInv, FetchedInv
      <3>4. Msgs \subseteq Nat
        BY DEF Msgs
      <3> QED
        BY <3>1, <3>2, <3>3, <3>4
    <2>4. \A m \in Nat : m < next => m < next + 1
      BY <2>1
    <2> QED
      BY <2>1, <2>2, <2>3, <2>4 DEF MainFetch, TakeNext, workVars, history, FetchedInv
  <1>4. SettledInv'
    BY DEF MainFetch, TakeNext, workVars, history, IInv, TypeOK, ControlInv, MainInv, SettledInv,
       settled
  <1>5. NothingLost'
    <2>1. /\ taskCh' = taskCh /\ ackCh' = ackCh /\ marked' = marked /\ cur' = cur
          /\ buf' = buf /\ acked' = acked /\ next' = next + 1 /\ hand' = next
      BY DEF MainFetch, TakeNext, workVars, history
    <2>2. hand = 0 /\ next \in Nat
      BY DEF MainFetch, TakeNext, workVars, history, IInv, TypeOK, ControlInv, MainInv
    <2>3. \A v \in Workers : Pending(v)' = Pending(v)
      BY <2>1 DEF Pending
    <2>4. \A m \in 1..(next' - 1) : m = hand' \/ (m \in 1..(next - 1) /\ m # hand)
      BY <2>1, <2>2
    <2> QED
      BY <2>1, <2>3, <2>4 DEF IInv, NothingLost
  <1>6. ExitInv'
    BY DEF MainFetch, TakeNext, workVars, history, IInv, TypeOK, ControlInv, MainInv, ExitInv
  <1> QED
    BY <1>1, <1>2, <1>3, <1>4, <1>5, <1>6 DEF IInv

\* The message in main's hand moves to taskCh, which is open.
LEMMA MainSendIInv ==
    ASSUME IInv, MainSend
    PROVE  IInv'
  <1>1. hand \in Msgs
    BY DEF MainSend, claimVars, workVars, history, IInv, ControlInv, MainInv
  <1>2. /\ taskCh' \in Seq(Msgs)
        /\ taskCh' # <<>>
        /\ Range(taskCh') = Range(taskCh) \cup {hand}
    BY <1>1, RangeAppend DEF MainSend, claimVars, workVars, history, IInv, TypeOK
  <1>3. TypeOK'
    <2>1. hand' = 0 /\ 0 \in 0..NumMsgs
      BY DEF MainSend, claimVars, workVars, history
    <2> QED
      BY <1>1, <1>2, <2>1 DEF MainSend, claimVars, workVars, history, IInv, TypeOK
  <1>4. ControlInv'
    BY <1>1, <1>2 DEF MainSend, claimVars, workVars, history, IInv, TypeOK, ControlInv,
       MainInv, WorkerInv
  <1>5. FetchedInv'
    BY <1>1, <1>2 DEF MainSend, claimVars, workVars, history, IInv, TypeOK, ControlInv,
       MainInv, FetchedInv
  <1>6. SettledInv'
    BY <1>1, <1>2 DEF MainSend, claimVars, workVars, history, IInv, TypeOK, ControlInv,
       MainInv, SettledInv, settled
  <1>7. NothingLost'
    BY <1>1, <1>2 DEF MainSend, claimVars, workVars, history, IInv, TypeOK, ControlInv,
       MainInv, NothingLost, Pending
  <1>8. ExitInv'
    BY <1>1, <1>2 DEF MainSend, claimVars, workVars, history, IInv, TypeOK, ControlInv,
       MainInv, ExitInv
  <1> QED
    BY <1>3, <1>4, <1>5, <1>6, <1>7, <1>8 DEF IInv

\* Main closes taskCh with an empty hand.
LEMMA MainClaimClosedIInv ==
    ASSUME IInv, MainClaimClosed
    PROVE  IInv'
  <1>1. TypeOK'
    BY DEF MainClaimClosed, CloseTaskCh, claimVars, workVars, history, IInv, TypeOK, ControlInv, MainInv
  <1>2. ControlInv'
    BY DEF MainClaimClosed, CloseTaskCh, claimVars, workVars, history, IInv, TypeOK, ControlInv, MainInv,
       WorkerInv
  <1>3. FetchedInv'
    BY DEF MainClaimClosed, CloseTaskCh, claimVars, workVars, history, IInv, TypeOK, ControlInv, MainInv,
       FetchedInv
  <1>4. SettledInv'
    BY DEF MainClaimClosed, CloseTaskCh, claimVars, workVars, history, IInv, TypeOK, ControlInv, MainInv,
       SettledInv, settled
  <1>5. NothingLost'
    BY DEF MainClaimClosed, CloseTaskCh, claimVars, workVars, history, IInv, TypeOK, ControlInv, MainInv,
       NothingLost, Pending
  <1>6. ExitInv'
    BY DEF MainClaimClosed, CloseTaskCh, claimVars, workVars, history, IInv, TypeOK, ControlInv, MainInv,
       ExitInv
  <1> QED
    BY <1>1, <1>2, <1>3, <1>4, <1>5, <1>6 DEF IInv

\* After a cancellation main closes taskCh with an empty hand.
LEMMA MainCtxDoneIInv ==
    ASSUME IInv, MainCtxDone
    PROVE  IInv'
  <1>1. TypeOK'
    BY DEF MainCtxDone, CloseTaskCh, claimVars, workVars, history, IInv, TypeOK, ControlInv, MainInv
  <1>2. ControlInv'
    BY DEF MainCtxDone, CloseTaskCh, claimVars, workVars, history, IInv, TypeOK, ControlInv, MainInv,
       WorkerInv
  <1>3. FetchedInv'
    BY DEF MainCtxDone, CloseTaskCh, claimVars, workVars, history, IInv, TypeOK, ControlInv, MainInv,
       FetchedInv
  <1>4. SettledInv'
    BY DEF MainCtxDone, CloseTaskCh, claimVars, workVars, history, IInv, TypeOK, ControlInv, MainInv,
       SettledInv, settled
  <1>5. NothingLost'
    BY DEF MainCtxDone, CloseTaskCh, claimVars, workVars, history, IInv, TypeOK, ControlInv, MainInv,
       NothingLost, Pending
  <1>6. ExitInv'
    BY DEF MainCtxDone, CloseTaskCh, claimVars, workVars, history, IInv, TypeOK, ControlInv, MainInv,
       ExitInv
  <1> QED
    BY <1>1, <1>2, <1>3, <1>4, <1>5, <1>6 DEF IInv

\* As MainAck, in the loop after a cancellation.
LEMMA MainSpinAckIInv ==
    ASSUME IInv, MainSpinAck
    PROVE  IInv'
  <1>1. /\ Head(ackCh) \in Msgs
        /\ ackCh' = Tail(ackCh)
        /\ Tail(ackCh) \in Seq(Msgs)
        /\ Range(ackCh) = {Head(ackCh)} \cup Range(ackCh')
    BY RangeHeadTail DEF MainSpinAck, MarkFrom, MarkMessage, claimVars, workVars, history, IInv, TypeOK
  <1>2. TypeOK'
    <2>1. committed' \in 0..NumMsgs
      BY <1>1 DEF MainSpinAck, MarkFrom, MarkMessage, claimVars, workVars, history, IInv, TypeOK, Msgs
    <2>2. marked' \subseteq Msgs
      BY <1>1 DEF MainSpinAck, MarkFrom, MarkMessage, claimVars, workVars, history, IInv, TypeOK
    <2> QED
      BY <1>1, <2>1, <2>2 DEF MainSpinAck, MarkFrom, MarkMessage, claimVars, workVars, history, IInv, TypeOK
  <1>3. ControlInv'
    BY <1>1 DEF MainSpinAck, MarkFrom, MarkMessage, claimVars, workVars, history, IInv,
       TypeOK, ControlInv, MainInv, WorkerInv
  <1>4. FetchedInv'
    BY <1>1 DEF MainSpinAck, MarkFrom, MarkMessage, claimVars, workVars, history, IInv,
       TypeOK, ControlInv, MainInv, FetchedInv
  <1>5. SettledInv'
    BY <1>1 DEF MainSpinAck, MarkFrom, MarkMessage, claimVars, workVars, history, IInv,
       TypeOK, ControlInv, MainInv, SettledInv, settled
  <1>6. NothingLost'
    <2>1. /\ next' = next /\ hand' = hand /\ taskCh' = taskCh /\ cur' = cur
          /\ buf' = buf /\ acked' = acked /\ marked' = marked \cup {Head(ackCh)}
      BY DEF MainSpinAck, MarkFrom, MarkMessage, claimVars, workVars, history
    <2>2. \A v \in Workers : Pending(v)' = Pending(v)
      BY <2>1 DEF Pending
    <2> QED
      BY <1>1, <2>1, <2>2 DEF IInv, NothingLost
  <1>7. ExitInv'
    BY <1>1 DEF MainSpinAck, MarkFrom, MarkMessage, claimVars, workVars, history, IInv,
       TypeOK, ControlInv, MainInv, ExitInv
  <1> QED
    BY <1>2, <1>3, <1>4, <1>5, <1>6, <1>7 DEF IInv

\* All workers are gone when main starts its last drain.
LEMMA MainWaitDoneIInv ==
    ASSUME IInv, MainWaitDone
    PROVE  IInv'
  <1>1. TypeOK'
    BY DEF MainWaitDone, MainMove, claimVars, workVars, history, IInv, TypeOK, ControlInv, MainInv
  <1>2. ControlInv'
    BY DEF MainWaitDone, MainMove, claimVars, workVars, history, IInv, TypeOK, ControlInv, MainInv,
       WorkerInv
  <1>3. FetchedInv'
    BY DEF MainWaitDone, MainMove, claimVars, workVars, history, IInv, TypeOK, ControlInv, MainInv,
       FetchedInv
  <1>4. SettledInv'
    BY DEF MainWaitDone, MainMove, claimVars, workVars, history, IInv, TypeOK, ControlInv, MainInv,
       SettledInv, settled
  <1>5. NothingLost'
    BY DEF MainWaitDone, MainMove, claimVars, workVars, history, IInv, TypeOK, ControlInv, MainInv,
       NothingLost, Pending
  <1>6. ExitInv'
    BY DEF MainWaitDone, MainMove, claimVars, workVars, history, IInv, TypeOK, ControlInv, MainInv,
       ExitInv
  <1> QED
    BY <1>1, <1>2, <1>3, <1>4, <1>5, <1>6 DEF IInv

\* As MainAck, in the last drain.
LEMMA MainDrainAckIInv ==
    ASSUME IInv, MainDrainAck
    PROVE  IInv'
  <1>1. /\ Head(ackCh) \in Msgs
        /\ ackCh' = Tail(ackCh)
        /\ Tail(ackCh) \in Seq(Msgs)
        /\ Range(ackCh) = {Head(ackCh)} \cup Range(ackCh')
    BY RangeHeadTail DEF MainDrainAck, MarkFrom, MarkMessage, claimVars, workVars, history, IInv, TypeOK
  <1>2. TypeOK'
    <2>1. committed' \in 0..NumMsgs
      BY <1>1 DEF MainDrainAck, MarkFrom, MarkMessage, claimVars, workVars, history, IInv, TypeOK, Msgs
    <2>2. marked' \subseteq Msgs
      BY <1>1 DEF MainDrainAck, MarkFrom, MarkMessage, claimVars, workVars, history, IInv, TypeOK
    <2> QED
      BY <1>1, <2>1, <2>2 DEF MainDrainAck, MarkFrom, MarkMessage, claimVars, workVars, history, IInv, TypeOK
  <1>3. ControlInv'
    BY <1>1 DEF MainDrainAck, MarkFrom, MarkMessage, claimVars, workVars, history, IInv,
       TypeOK, ControlInv, MainInv, WorkerInv
  <1>4. FetchedInv'
    BY <1>1 DEF MainDrainAck, MarkFrom, MarkMessage, claimVars, workVars, history, IInv,
       TypeOK, ControlInv, MainInv, FetchedInv
  <1>5. SettledInv'
    BY <1>1 DEF MainDrainAck, MarkFrom, MarkMessage, claimVars, workVars, history, IInv,
       TypeOK, ControlInv, MainInv, SettledInv, settled
  <1>6. NothingLost'
    <2>1. /\ next' = next /\ hand' = hand /\ taskCh' = taskCh /\ cur' = cur
          /\ buf' = buf /\ acked' = acked /\ marked' = marked \cup {Head(ackCh)}
      BY DEF MainDrainAck, MarkFrom, MarkMessage, claimVars, workVars, history
    <2>2. \A v \in Workers : Pending(v)' = Pending(v)
      BY <2>1 DEF Pending
    <2> QED
      BY <1>1, <2>1, <2>2 DEF IInv, NothingLost
  <1>7. ExitInv'
    BY <1>1 DEF MainDrainAck, MarkFrom, MarkMessage, claimVars, workVars, history, IInv,
       TypeOK, ControlInv, MainInv, ExitInv
  <1> QED
    BY <1>2, <1>3, <1>4, <1>5, <1>6, <1>7 DEF IInv

\* Main returns with ackCh empty.
LEMMA MainReturnIInv ==
    ASSUME IInv, MainReturn
    PROVE  IInv'
  <1>1. TypeOK'
    BY DEF MainReturn, MainMove, claimVars, workVars, history, IInv, TypeOK, ControlInv, MainInv
  <1>2. ControlInv'
    BY DEF MainReturn, MainMove, claimVars, workVars, history, IInv, TypeOK, ControlInv, MainInv,
       WorkerInv
  <1>3. FetchedInv'
    BY DEF MainReturn, MainMove, claimVars, workVars, history, IInv, TypeOK, ControlInv, MainInv,
       FetchedInv
  <1>4. SettledInv'
    BY DEF MainReturn, MainMove, claimVars, workVars, history, IInv, TypeOK, ControlInv, MainInv,
       SettledInv, settled
  <1>5. NothingLost'
    BY DEF MainReturn, MainMove, claimVars, workVars, history, IInv, TypeOK, ControlInv, MainInv,
       NothingLost, Pending
  <1>6. ExitInv'
    BY DEF MainReturn, MainMove, claimVars, workVars, history, IInv, TypeOK, ControlInv, MainInv,
       ExitInv
  <1> QED
    BY <1>1, <1>2, <1>3, <1>4, <1>5, <1>6 DEF IInv

\* A worker gives up only after a cancellation.
LEMMA WorkerQuitIInv ==
    ASSUME IInv, NEW w \in Workers, WorkerQuit(w)
    PROVE  IInv'
  <1>1. TypeOK'
    BY DEF WorkerQuit, claimVars, mainVars, history, IInv, TypeOK
  <1>2. ControlInv'
    BY DEF WorkerQuit, claimVars, mainVars, history, IInv, TypeOK, ControlInv, MainInv,
       WorkerInv
  <1>3. FetchedInv'
    BY DEF WorkerQuit, claimVars, mainVars, history, IInv, TypeOK, ControlInv, WorkerInv,
       FetchedInv
  <1>4. SettledInv'
    BY DEF WorkerQuit, claimVars, mainVars, history, IInv, TypeOK, ControlInv, WorkerInv,
       SettledInv, settled
  <1>5. NothingLost'
    BY DEF WorkerQuit, claimVars, mainVars, history, IInv, TypeOK, ControlInv, WorkerInv,
       NothingLost, Pending
  <1>6. ExitInv'
    BY DEF WorkerQuit, claimVars, mainVars, history, IInv, TypeOK, ControlInv, WorkerInv,
       ExitInv
  <1> QED
    BY <1>1, <1>2, <1>3, <1>4, <1>5, <1>6 DEF IInv

\* A timer starts a flush of a buffer that is not empty.
LEMMA TimerFlushIInv ==
    ASSUME IInv, NEW w \in Workers, TimerFlush(w)
    PROVE  IInv'
  <1>1. TypeOK'
    <2>1. wpc' \in [Workers -> {"select", "badAck", "fn", "backoff", "ack", "exited"}]
      BY DEF TimerFlush, BeginFlush, claimVars, mainVars, history, IInv, TypeOK
    <2>2. attempt' \in [Workers -> 0..LocalRetries]
      BY DEF TimerFlush, BeginFlush, claimVars, mainVars, history, IInv, TypeOK
    <2> QED
      BY <2>1, <2>2 DEF TimerFlush, BeginFlush, claimVars, mainVars, history, IInv, TypeOK
  <1>2. ControlInv'
    BY DEF TimerFlush, BeginFlush, claimVars, mainVars, history, IInv, TypeOK, ControlInv,
       MainInv, WorkerInv
  <1>3. FetchedInv'
    BY DEF TimerFlush, BeginFlush, claimVars, mainVars, history, IInv, TypeOK, ControlInv,
       WorkerInv, FetchedInv
  <1>4. SettledInv'
    BY DEF TimerFlush, BeginFlush, claimVars, mainVars, history, IInv, TypeOK, ControlInv,
       WorkerInv, SettledInv, settled
  <1>5. NothingLost'
    BY DEF TimerFlush, BeginFlush, claimVars, mainVars, history, IInv, TypeOK, ControlInv,
       WorkerInv, NothingLost, Pending
  <1>6. ExitInv'
    BY DEF TimerFlush, BeginFlush, claimVars, mainVars, history, IInv, TypeOK, ControlInv,
       WorkerInv, ExitInv
  <1> QED
    BY <1>1, <1>2, <1>3, <1>4, <1>5, <1>6 DEF IInv

\* A received message moves from taskCh to the worker.
LEMMA ReceiveIInv ==
    ASSUME IInv, NEW w \in Workers, Receive(w)
    PROVE  IInv'
  <1>1. /\ Head(taskCh) \in Msgs
        /\ taskCh' = Tail(taskCh)
        /\ Tail(taskCh) \in Seq(Msgs)
        /\ Range(taskCh) = {Head(taskCh)} \cup Range(taskCh')
    BY RangeHeadTail DEF Receive, Buffer, BeginFlush, claimVars, mainVars, history, IInv, TypeOK
  <1>2. /\ Append(buf[w], Head(taskCh)) \in Seq(Msgs)
        /\ Append(buf[w], Head(taskCh)) # <<>>
        /\ Range(Append(buf[w], Head(taskCh))) = Range(buf[w]) \cup {Head(taskCh)}
    <2>1. buf[w] \in Seq(Msgs)
      BY DEF IInv, TypeOK
    <2> QED
      BY <1>1, <2>1, RangeAppend
  <1>3. TypeOK'
    <2>1. wpc' \in [Workers -> {"select", "badAck", "fn", "backoff", "ack", "exited"}]
      BY DEF Receive, Buffer, BeginFlush, claimVars, mainVars, history, IInv, TypeOK
    <2>2. attempt' = attempt \/ attempt' = [attempt EXCEPT ![w] = 0]
      BY DEF Receive, Buffer, BeginFlush, claimVars, mainVars, history
    <2>3. attempt \in [Workers -> 0..LocalRetries] /\ 0 \in 0..LocalRetries
      BY DEF IInv, TypeOK
    <2>4. attempt' \in [Workers -> 0..LocalRetries]
      BY <2>2, <2>3, UpdateType
    <2>5. cur' = cur \/ cur' = [cur EXCEPT ![w] = Head(taskCh)]
      BY DEF Receive, Buffer, BeginFlush, claimVars, mainVars, history
    <2>6. cur \in [Workers -> 0..NumMsgs] /\ Head(taskCh) \in 0..NumMsgs
      BY <1>1 DEF IInv, TypeOK, Msgs
    <2>7. cur' \in [Workers -> 0..NumMsgs]
      BY <2>5, <2>6, UpdateType
    <2>8. buf' \in [Workers -> Seq(Msgs)]
      BY <1>2 DEF Receive, Buffer, BeginFlush, claimVars, mainVars, history, IInv, TypeOK
    <2> QED
      BY <1>1, <1>2, <2>1, <2>2, <2>3, <2>4, <2>5, <2>6, <2>7, <2>8 DEF Receive, Buffer, BeginFlush, claimVars, mainVars, history, IInv, TypeOK
  <1>4. ControlInv'
    <2>1. MainInv'
      BY DEF Receive, Buffer, BeginFlush, claimVars, mainVars, history, IInv, ControlInv, MainInv
    <2>2. /\ UNCHANGED <<acked, handled, gaveUp>>
          /\ \A v \in Workers : v # w => wpc'[v] = wpc[v] /\ buf'[v] = buf[v] /\ cur'[v] = cur[v]
      BY DEF Receive, Buffer, BeginFlush, claimVars, mainVars, history, IInv, TypeOK
    <2>3. \A v \in Workers : v # w => WorkerInv(v)'
      BY <2>2 DEF IInv, ControlInv, WorkerInv
    <2>4. wpc[w] = "select" /\ acked[w] = 0 /\ cur[w] = 0 /\ WorkerInv(w)
      BY DEF Receive, IInv, ControlInv, WorkerInv
    <2>5. CASE Head(taskCh) \in Bad
      <3>1. wpc'[w] = "badAck" /\ cur'[w] = Head(taskCh) /\ buf' = buf
        BY <2>5 DEF Receive, IInv, TypeOK
      <3>2. WorkerInv(w)'
        BY <1>1, <2>2, <2>4, <3>1 DEF WorkerInv
      <3> QED
        BY <2>1, <2>3, <3>2 DEF ControlInv
    <2>6. CASE Head(taskCh) \notin Bad
      <3>1. /\ wpc'[w] \in {"fn", "select"}
            /\ buf'[w] = Append(buf[w], Head(taskCh)) /\ cur' = cur
        BY <2>6 DEF Receive, Buffer, BeginFlush, IInv, TypeOK
      <3>2. WorkerInv(w)'
        BY <1>2, <2>2, <2>4, <3>1 DEF WorkerInv
      <3> QED
        BY <2>1, <2>3, <3>2 DEF ControlInv
    <2> QED
      BY <2>5, <2>6
  <1>5. FetchedInv'
    BY <1>1, <1>2 DEF Receive, Buffer, BeginFlush, claimVars, mainVars, history, IInv,
       TypeOK, ControlInv, WorkerInv, FetchedInv
  <1>6. SettledInv'
    BY <1>1, <1>2 DEF Receive, Buffer, BeginFlush, claimVars, mainVars, history, IInv,
       TypeOK, ControlInv, WorkerInv, SettledInv, settled
  <1>7. NothingLost'
    <2>1. /\ next' = next /\ hand' = hand /\ ackCh' = ackCh /\ marked' = marked
          /\ acked' = acked
      BY DEF Receive, Buffer, BeginFlush, claimVars, mainVars, history
    <2>2. ASSUME NEW v \in Workers, v # w
          PROVE  cur'[v] = cur[v] /\ Pending(v)' = Pending(v)
      <3>1. cur'[v] = cur[v] /\ buf'[v] = buf[v]
        BY <2>2 DEF Receive, Buffer, BeginFlush, claimVars, mainVars, history, IInv, TypeOK
      <3> QED
        BY <2>1, <3>1 DEF Pending
    <2>3. acked[w] = 0 /\ cur[w] = 0 /\ buf[w] \in Seq(Msgs)
      BY DEF Receive, Buffer, BeginFlush, claimVars, mainVars, history, IInv, TypeOK, ControlInv, WorkerInv
    <2>4. Pending(w) = Range(buf[w])
      BY <2>3, WholeBuffer DEF Pending
    <2>5. CASE Head(taskCh) \in Bad
      <3>1. buf' = buf /\ cur'[w] = Head(taskCh)
        BY <2>5 DEF Receive, Buffer, BeginFlush, claimVars, mainVars, history, IInv, TypeOK
      <3>2. Pending(w)' = Pending(w)
        BY <2>1, <3>1 DEF Pending
      <3>3. ASSUME NEW m \in 1..(next' - 1)
            PROVE  \/ m \in marked' \cup Range(ackCh') \cup Range(taskCh') \cup {hand'}
                   \/ \E v \in Workers : m = cur'[v] \/ m \in Pending(v)'
        <4>1. m # 0
          BY <3>3, <2>1 DEF IInv, TypeOK
        <4> QED
          BY <1>1, <2>1, <2>2, <2>3, <3>1, <3>2, <3>3, <4>1 DEF IInv, NothingLost
      <3> QED
        BY <3>3 DEF NothingLost
    <2>6. CASE Head(taskCh) \notin Bad
      <3>1. buf'[w] = Append(buf[w], Head(taskCh)) /\ cur' = cur
        BY <2>6 DEF Receive, Buffer, BeginFlush, claimVars, mainVars, history, IInv, TypeOK
      <3>2. Pending(w)' = Pending(w) \cup {Head(taskCh)}
        BY <1>2, <2>1, <2>3, <2>4, <3>1, WholeBuffer DEF Pending
      <3> QED
        BY <1>1, <2>1, <2>2, <3>1, <3>2 DEF IInv, NothingLost
    <2> QED
      BY <2>5, <2>6
  <1>8. ExitInv'
    BY <1>1, <1>2 DEF Receive, Buffer, BeginFlush, claimVars, mainVars, history, IInv,
       TypeOK, ControlInv, WorkerInv, ExitInv
  <1> QED
    BY <1>3, <1>4, <1>5, <1>6, <1>7, <1>8 DEF IInv

\* An undecodable message is settled when it is sent to ackCh.
LEMMA AckUndecodableIInv ==
    ASSUME IInv, NEW w \in Workers, AckUndecodable(w)
    PROVE  IInv'
  <1>1. cur[w] \in Msgs
    BY DEF AckUndecodable, Buffer, BeginFlush, claimVars, mainVars, history, IInv, ControlInv, WorkerInv
  <1>2. /\ ackCh' \in Seq(Msgs)
        /\ Range(ackCh') = Range(ackCh) \cup {cur[w]}
    BY <1>1, RangeAppend DEF AckUndecodable, Buffer, BeginFlush, claimVars, mainVars, history, IInv, TypeOK
  <1>3. /\ Append(buf[w], cur[w]) \in Seq(Msgs)
        /\ Append(buf[w], cur[w]) # <<>>
        /\ Range(Append(buf[w], cur[w])) = Range(buf[w]) \cup {cur[w]}
    <2>1. buf[w] \in Seq(Msgs)
      BY DEF IInv, TypeOK
    <2> QED
      BY <1>1, <2>1, RangeAppend
  <1>4. TypeOK'
    <2>1. wpc' \in [Workers -> {"select", "badAck", "fn", "backoff", "ack", "exited"}]
      BY DEF AckUndecodable, Buffer, BeginFlush, claimVars, mainVars, history, IInv, TypeOK
    <2>2. attempt' = attempt \/ attempt' = [attempt EXCEPT ![w] = 0]
      BY DEF AckUndecodable, Buffer, BeginFlush, claimVars, mainVars, history
    <2>3. attempt \in [Workers -> 0..LocalRetries] /\ 0 \in 0..LocalRetries
      BY DEF IInv, TypeOK
    <2>4. attempt' \in [Workers -> 0..LocalRetries]
      BY <2>2, <2>3, UpdateType
    <2>5. cur' \in [Workers -> 0..NumMsgs]
      BY DEF AckUndecodable, Buffer, BeginFlush, claimVars, mainVars, history, IInv, TypeOK
    <2>6. buf' \in [Workers -> Seq(Msgs)]
      BY <1>3 DEF AckUndecodable, Buffer, BeginFlush, claimVars, mainVars, history, IInv, TypeOK
    <2>7. undecodable' \subseteq Msgs
      BY <1>1 DEF AckUndecodable, Buffer, BeginFlush, claimVars, mainVars, history, IInv, TypeOK
    <2> QED
      BY <1>1, <1>2, <1>3, <2>1, <2>2, <2>3, <2>4, <2>5, <2>6, <2>7 DEF AckUndecodable, Buffer, BeginFlush, claimVars, mainVars, history, IInv, TypeOK
  <1>5. ControlInv'
    BY <1>1, <1>2, <1>3 DEF AckUndecodable, Buffer, BeginFlush, claimVars, mainVars, history,
       IInv, TypeOK, ControlInv, MainInv, WorkerInv
  <1>6. FetchedInv'
    <2>1. /\ next' = next /\ hand' = hand /\ taskCh' = taskCh /\ marked' = marked
          /\ avail' = avail
      BY DEF AckUndecodable, Buffer, BeginFlush, claimVars, mainVars, history
    <2>2. cur[w] < next /\ \A m \in Range(buf[w]) : m < next
      BY DEF IInv, FetchedInv
    <2>3. cur'[w] = 0 /\ 0 < next /\ Range(buf'[w]) = Range(buf[w]) \cup {cur[w]}
      BY <1>3 DEF AckUndecodable, Buffer, BeginFlush, claimVars, mainVars, history, IInv, TypeOK
    <2>4. ASSUME NEW v \in Workers
          PROVE  cur'[v] < next /\ \A m \in Range(buf'[v]) : m < next
      <3>1. CASE v = w
        BY <2>2, <2>3, <3>1
      <3>2. CASE v # w
        <4>1. cur'[v] = cur[v] /\ buf'[v] = buf[v]
          BY <3>2 DEF AckUndecodable, Buffer, BeginFlush, claimVars, mainVars, history, IInv, TypeOK
        <4> QED
          BY <4>1 DEF IInv, FetchedInv
      <3> QED
        BY <3>1, <3>2
    <2>5. \A m \in Range(taskCh') \cup Range(ackCh') \cup marked' : m < next
      BY <1>2, <2>1, <2>2 DEF IInv, FetchedInv
    <2> QED
      BY <2>1, <2>4, <2>5 DEF IInv, FetchedInv
  <1>7. SettledInv'
    BY <1>1, <1>2, <1>3 DEF AckUndecodable, Buffer, BeginFlush, claimVars, mainVars, history,
       IInv, TypeOK, ControlInv, WorkerInv, SettledInv, settled
  <1>8. NothingLost'
    <2>1. /\ next' = next /\ hand' = hand /\ taskCh' = taskCh /\ marked' = marked
          /\ acked' = acked
      BY DEF AckUndecodable, Buffer, BeginFlush, claimVars, mainVars, history
    <2>2. ASSUME NEW v \in Workers, v # w
          PROVE  cur'[v] = cur[v] /\ Pending(v)' = Pending(v)
      <3>1. cur'[v] = cur[v] /\ buf'[v] = buf[v]
        BY <2>2 DEF AckUndecodable, Buffer, BeginFlush, claimVars, mainVars, history, IInv, TypeOK
      <3> QED
        BY <2>1, <3>1 DEF Pending
    <2>3. acked[w] = 0 /\ buf[w] \in Seq(Msgs)
      BY DEF AckUndecodable, Buffer, BeginFlush, claimVars, mainVars, history, IInv, TypeOK, ControlInv, WorkerInv
    <2>4. Pending(w) = Range(buf[w])
      BY <2>3, WholeBuffer DEF Pending
    <2>5. buf'[w] = Append(buf[w], cur[w])
      BY DEF AckUndecodable, Buffer, BeginFlush, claimVars, mainVars, history, IInv, TypeOK
    <2>6. Pending(w)' = Pending(w) \cup {cur[w]}
      BY <1>3, <2>1, <2>3, <2>4, <2>5, WholeBuffer DEF Pending
    <2> QED
      BY <1>2, <2>1, <2>2, <2>6 DEF IInv, NothingLost
  <1>9. ExitInv'
    BY <1>1, <1>2, <1>3 DEF AckUndecodable, Buffer, BeginFlush, claimVars, mainVars, history,
       IInv, TypeOK, ControlInv, WorkerInv, ExitInv
  <1> QED
    BY <1>4, <1>5, <1>6, <1>7, <1>8, <1>9 DEF IInv

\* A worker exits from a closed, empty taskCh with an empty buffer.
LEMMA DrainClosedIInv ==
    ASSUME IInv, NEW w \in Workers, DrainClosed(w)
    PROVE  IInv'
  <1>1. TypeOK'
    <2>1. wpc' \in [Workers -> {"select", "badAck", "fn", "backoff", "ack", "exited"}]
      BY DEF DrainClosed, BeginFlush, claimVars, mainVars, history, IInv, TypeOK
    <2>2. attempt' = attempt \/ attempt' = [attempt EXCEPT ![w] = 0]
      BY DEF DrainClosed, BeginFlush, claimVars, mainVars, history
    <2>3. attempt \in [Workers -> 0..LocalRetries] /\ 0 \in 0..LocalRetries
      BY DEF IInv, TypeOK
    <2>4. attempt' \in [Workers -> 0..LocalRetries]
      BY <2>2, <2>3, UpdateType
    <2> QED
      BY <2>1, <2>2, <2>3, <2>4 DEF DrainClosed, BeginFlush, claimVars, mainVars, history, IInv, TypeOK
  <1>2. ControlInv'
    BY DEF DrainClosed, BeginFlush, claimVars, mainVars, history, IInv, TypeOK, ControlInv,
       MainInv, WorkerInv
  <1>3. FetchedInv'
    BY DEF DrainClosed, BeginFlush, claimVars, mainVars, history, IInv, TypeOK, ControlInv,
       WorkerInv, FetchedInv
  <1>4. SettledInv'
    BY DEF DrainClosed, BeginFlush, claimVars, mainVars, history, IInv, TypeOK, ControlInv,
       WorkerInv, SettledInv, settled
  <1>5. NothingLost'
    BY DEF DrainClosed, BeginFlush, claimVars, mainVars, history, IInv, TypeOK, ControlInv,
       WorkerInv, NothingLost, Pending
  <1>6. ExitInv'
    BY DEF DrainClosed, BeginFlush, claimVars, mainVars, history, IInv, TypeOK, ControlInv,
       WorkerInv, ExitInv
  <1> QED
    BY <1>1, <1>2, <1>3, <1>4, <1>5, <1>6 DEF IInv

\* An accepted batch is settled before it is acknowledged.
LEMMA FnSucceedsIInv ==
    ASSUME IInv, NEW w \in Workers, FnSucceeds(w)
    PROVE  IInv'
  <1>1. Range(buf[w]) \subseteq Msgs
    BY RangeType DEF IInv, TypeOK
  <1>2. TypeOK'
    <2>1. wpc' \in [Workers -> {"select", "badAck", "fn", "backoff", "ack", "exited"}]
      BY DEF FnSucceeds, claimVars, mainVars, history, IInv, TypeOK
    <2>2. handled' \subseteq Msgs
      BY <1>1 DEF FnSucceeds, claimVars, mainVars, history, IInv, TypeOK
    <2> QED
      BY <1>1, <2>1, <2>2 DEF FnSucceeds, claimVars, mainVars, history, IInv, TypeOK
  <1>3. ControlInv'
    BY <1>1 DEF FnSucceeds, claimVars, mainVars, history, IInv, TypeOK, ControlInv, MainInv,
       WorkerInv
  <1>4. FetchedInv'
    BY <1>1 DEF FnSucceeds, claimVars, mainVars, history, IInv, TypeOK, ControlInv,
       WorkerInv, FetchedInv
  <1>5. SettledInv'
    BY <1>1 DEF FnSucceeds, claimVars, mainVars, history, IInv, TypeOK, ControlInv,
       WorkerInv, SettledInv, settled
  <1>6. NothingLost'
    BY <1>1 DEF FnSucceeds, claimVars, mainVars, history, IInv, TypeOK, ControlInv,
       WorkerInv, NothingLost, Pending
  <1>7. ExitInv'
    BY <1>1 DEF FnSucceeds, claimVars, mainVars, history, IInv, TypeOK, ControlInv,
       WorkerInv, ExitInv
  <1> QED
    BY <1>2, <1>3, <1>4, <1>5, <1>6, <1>7 DEF IInv

\* So is a batch whose retries ran out.
LEMMA FnFailsIInv ==
    ASSUME IInv, NEW w \in Workers, FnFails(w)
    PROVE  IInv'
  <1>1. Range(buf[w]) \subseteq Msgs
    BY RangeType DEF IInv, TypeOK
  <1>2. TypeOK'
    <2>1. wpc' \in [Workers -> {"select", "badAck", "fn", "backoff", "ack", "exited"}]
      BY DEF FnFails, claimVars, mainVars, history, IInv, TypeOK
    <2>2. gaveUp' \subseteq Msgs
      BY <1>1 DEF FnFails, claimVars, mainVars, history, IInv, TypeOK
    <2>3. \/ attempt' = attempt
          \/ attempt[w] + 1 <= LocalRetries /\ attempt' = [attempt EXCEPT ![w] = attempt[w] + 1]
      BY DEF FnFails, claimVars, mainVars, history, IInv, TypeOK
    <2>4. attempt \in [Workers -> 0..LocalRetries]
      BY DEF IInv, TypeOK
    <2>5. attempt[w] + 1 <= LocalRetries => attempt[w] + 1 \in 0..LocalRetries
      BY <2>4
    <2>6. attempt' \in [Workers -> 0..LocalRetries]
      BY <2>3, <2>4, <2>5, UpdateType
    <2> QED
      BY <1>1, <2>1, <2>2, <2>3, <2>4, <2>5, <2>6 DEF FnFails, claimVars, mainVars, history, IInv, TypeOK
  <1>3. ControlInv'
    <2>1. MainInv'
      BY DEF FnFails, claimVars, mainVars, history, IInv, ControlInv, MainInv
    <2>2. WorkerInv(w)'
      BY <1>1 DEF FnFails, claimVars, mainVars, history, IInv, TypeOK, ControlInv, WorkerInv
    <2>3. ASSUME NEW v \in Workers, v # w PROVE WorkerInv(v)'
      <3>1. /\ wpc'[v] = wpc[v] /\ buf'[v] = buf[v] /\ acked'[v] = acked[v] /\ cur'[v] = cur[v]
            /\ handled \cup gaveUp \subseteq handled' \cup gaveUp'
        BY <2>3 DEF FnFails, claimVars, mainVars, history, IInv, TypeOK
      <3> QED
        BY <3>1 DEF IInv, ControlInv, WorkerInv, Msgs
    <2> QED
      BY <2>1, <2>2, <2>3 DEF ControlInv
  <1>4. FetchedInv'
    BY <1>1 DEF FnFails, claimVars, mainVars, history, IInv, TypeOK, ControlInv, WorkerInv,
       FetchedInv
  <1>5. SettledInv'
    BY <1>1 DEF FnFails, claimVars, mainVars, history, IInv, TypeOK, ControlInv, WorkerInv,
       SettledInv, settled
  <1>6. NothingLost'
    BY <1>1 DEF FnFails, claimVars, mainVars, history, IInv, TypeOK, ControlInv, WorkerInv,
       NothingLost, Pending
  <1>7. ExitInv'
    BY <1>1 DEF FnFails, claimVars, mainVars, history, IInv, TypeOK, ControlInv, WorkerInv,
       ExitInv
  <1> QED
    BY <1>2, <1>3, <1>4, <1>5, <1>6, <1>7 DEF IInv

\* A retry keeps the batch.
LEMMA BackoffExpiresIInv ==
    ASSUME IInv, NEW w \in Workers, BackoffExpires(w)
    PROVE  IInv'
  <1>1. TypeOK'
    BY DEF BackoffExpires, claimVars, mainVars, history, IInv, TypeOK
  <1>2. ControlInv'
    BY DEF BackoffExpires, claimVars, mainVars, history, IInv, TypeOK, ControlInv, MainInv,
       WorkerInv
  <1>3. FetchedInv'
    BY DEF BackoffExpires, claimVars, mainVars, history, IInv, TypeOK, ControlInv, WorkerInv,
       FetchedInv
  <1>4. SettledInv'
    BY DEF BackoffExpires, claimVars, mainVars, history, IInv, TypeOK, ControlInv, WorkerInv,
       SettledInv, settled
  <1>5. NothingLost'
    BY DEF BackoffExpires, claimVars, mainVars, history, IInv, TypeOK, ControlInv, WorkerInv,
       NothingLost, Pending
  <1>6. ExitInv'
    BY DEF BackoffExpires, claimVars, mainVars, history, IInv, TypeOK, ControlInv, WorkerInv,
       ExitInv
  <1> QED
    BY <1>1, <1>2, <1>3, <1>4, <1>5, <1>6 DEF IInv

\* An aborted flush keeps the batch.
LEMMA BackoffAbortedIInv ==
    ASSUME IInv, NEW w \in Workers, BackoffAborted(w)
    PROVE  IInv'
  <1>1. TypeOK'
    BY DEF BackoffAborted, claimVars, mainVars, history, IInv, TypeOK
  <1>2. ControlInv'
    BY DEF BackoffAborted, claimVars, mainVars, history, IInv, TypeOK, ControlInv, MainInv,
       WorkerInv
  <1>3. FetchedInv'
    BY DEF BackoffAborted, claimVars, mainVars, history, IInv, TypeOK, ControlInv, WorkerInv,
       FetchedInv
  <1>4. SettledInv'
    BY DEF BackoffAborted, claimVars, mainVars, history, IInv, TypeOK, ControlInv, WorkerInv,
       SettledInv, settled
  <1>5. NothingLost'
    BY DEF BackoffAborted, claimVars, mainVars, history, IInv, TypeOK, ControlInv, WorkerInv,
       NothingLost, Pending
  <1>6. ExitInv'
    BY DEF BackoffAborted, claimVars, mainVars, history, IInv, TypeOK, ControlInv, WorkerInv,
       ExitInv
  <1> QED
    BY <1>1, <1>2, <1>3, <1>4, <1>5, <1>6 DEF IInv

\* A message of a settled batch moves to ackCh.
LEMMA AckNextIInv ==
    ASSUME IInv, NEW w \in Workers, AckNext(w)
    PROVE  IInv'
  <1>1. /\ acked[w] + 1 \in 1..Len(buf[w])
        /\ buf[w][acked[w] + 1] \in Msgs
        /\ buf[w][acked[w] + 1] \in Range(buf[w])
    <2>1. /\ buf[w] \in Seq(Msgs)
          /\ acked[w] \in Nat
          /\ acked[w] < Len(buf[w])
      BY DEF AckNext, claimVars, mainVars, history, IInv, TypeOK, ControlInv, WorkerInv
    <2> QED
      BY <2>1 DEF Range
  <1>2. /\ ackCh' \in Seq(Msgs)
        /\ Range(ackCh') = Range(ackCh) \cup {buf[w][acked[w] + 1]}
    BY <1>1, RangeAppend DEF AckNext, claimVars, mainVars, history, IInv, TypeOK
  <1>3. <<>> \in Seq(Msgs) /\ Range(<<>>) = {}
    BY DEF Range
  <1>4. TypeOK'
    <2>1. wpc' \in [Workers -> {"select", "badAck", "fn", "backoff", "ack", "exited"}]
      BY DEF AckNext, claimVars, mainVars, history, IInv, TypeOK
    <2>2. acked' = [acked EXCEPT ![w] = 0] \/ acked' = [acked EXCEPT ![w] = acked[w] + 1]
      BY DEF AckNext, claimVars, mainVars, history
    <2>3. acked \in [Workers -> Nat] /\ acked[w] + 1 \in Nat
      BY DEF IInv, TypeOK
    <2>4. acked' \in [Workers -> Nat]
      BY <2>2, <2>3, UpdateType
    <2>5. buf' \in [Workers -> Seq(Msgs)]
      BY <1>3 DEF AckNext, claimVars, mainVars, history, IInv, TypeOK
    <2> QED
      BY <1>1, <1>2, <1>3, <2>1, <2>2, <2>3, <2>4, <2>5 DEF AckNext, claimVars, mainVars, history, IInv, TypeOK
  <1>5. ControlInv'
    <2>1. MainInv'
      BY DEF AckNext, claimVars, mainVars, history, IInv, ControlInv, MainInv
    <2>2. WorkerInv(w)'
      <3>1. /\ cur' = cur /\ wpc[w] = "ack" /\ handled' = handled /\ gaveUp' = gaveUp
            /\ WorkerInv(w)
        BY DEF AckNext, claimVars, mainVars, history, IInv, ControlInv
      <3>2. CASE acked[w] + 1 = Len(buf[w])
        <4>1. wpc'[w] = "select" /\ acked'[w] = 0
          BY <3>2 DEF AckNext, claimVars, mainVars, history, IInv, TypeOK
        <4> QED
          BY <3>1, <4>1 DEF WorkerInv
      <3>3. CASE acked[w] + 1 # Len(buf[w])
        <4>1. /\ wpc' = wpc /\ buf' = buf /\ acked'[w] = acked[w] + 1
              /\ acked[w] \in Nat /\ Len(buf[w]) \in Nat
          BY <3>3 DEF AckNext, claimVars, mainVars, history, IInv, TypeOK
        <4>2. acked'[w] < Len(buf[w])
          BY <1>1, <3>3, <4>1
        <4> QED
          BY <3>1, <4>1, <4>2 DEF WorkerInv
      <3> QED
        BY <3>2, <3>3
    <2>3. ASSUME NEW v \in Workers, v # w PROVE WorkerInv(v)'
      <3>1. /\ wpc'[v] = wpc[v] /\ buf'[v] = buf[v] /\ acked'[v] = acked[v] /\ cur'[v] = cur[v]
            /\ handled \cup gaveUp \subseteq handled' \cup gaveUp'
        BY <2>3 DEF AckNext, claimVars, mainVars, history, IInv, TypeOK
      <3> QED
        BY <3>1 DEF IInv, ControlInv, WorkerInv, Msgs
    <2> QED
      BY <2>1, <2>2, <2>3 DEF ControlInv
  <1>6. FetchedInv'
    <2>1. /\ next' = next /\ hand' = hand /\ taskCh' = taskCh /\ marked' = marked
          /\ avail' = avail /\ cur' = cur
      BY DEF AckNext, claimVars, mainVars, history
    <2>2. \A v \in Workers : cur[v] < next /\ \A m \in Range(buf[v]) : m < next
      BY DEF IInv, FetchedInv
    <2>3. ASSUME NEW v \in Workers PROVE buf'[v] = buf[v] \/ buf'[v] = <<>>
      BY DEF AckNext, claimVars, mainVars, history, IInv, TypeOK
    <2>4. \A v \in Workers : \A m \in Range(buf'[v]) : m < next
      BY <1>3, <2>2, <2>3
    <2>5. \A m \in Range(taskCh') \cup Range(ackCh') \cup marked' : m < next
      BY <1>1, <1>2, <2>1, <2>2 DEF IInv, FetchedInv
    <2> QED
      BY <2>1, <2>2, <2>4, <2>5 DEF IInv, FetchedInv
  <1>7. SettledInv'
    BY <1>1, <1>2, <1>3 DEF AckNext, claimVars, mainVars, history, IInv, TypeOK, ControlInv,
       WorkerInv, SettledInv, settled
  <1>8. NothingLost'
    <2>1. /\ next' = next /\ hand' = hand /\ taskCh' = taskCh /\ marked' = marked
          /\ cur' = cur
      BY DEF AckNext, claimVars, mainVars, history
    <2>2. ASSUME NEW v \in Workers, v # w PROVE Pending(v)' = Pending(v)
      <3>1. acked'[v] = acked[v] /\ buf'[v] = buf[v]
        BY <2>2 DEF AckNext, claimVars, mainVars, history, IInv, TypeOK
      <3> QED
        BY <3>1 DEF Pending
    <2>3. acked[w] \in Nat /\ Len(buf[w]) \in Nat
      BY DEF IInv, TypeOK
    <2>4. Pending(w) \subseteq Pending(w)' \cup {buf[w][acked[w] + 1]}
      <3>1. CASE acked[w] + 1 = Len(buf[w])
        <4>1. \A i \in (acked[w] + 1)..Len(buf[w]) : i = acked[w] + 1
          BY <2>3, <3>1
        <4> QED
          BY <4>1 DEF Pending
      <3>2. CASE acked[w] + 1 # Len(buf[w])
        <4>1. buf' = buf /\ acked'[w] = acked[w] + 1
          BY <3>2 DEF AckNext, claimVars, mainVars, history, IInv, TypeOK
        <4>2. \A i \in (acked[w] + 1)..Len(buf[w]) :
                 i = acked[w] + 1 \/ i \in (acked[w] + 1 + 1)..Len(buf[w])
          BY <2>3
        <4> QED
          BY <4>1, <4>2 DEF Pending
      <3> QED
        BY <3>1, <3>2
    <2> QED
      BY <1>2, <2>1, <2>2, <2>4 DEF IInv, NothingLost
  <1>9. ExitInv'
    BY <1>1, <1>2, <1>3 DEF AckNext, claimVars, mainVars, history, IInv, TypeOK, ControlInv,
       WorkerInv, ExitInv
  <1> QED
    BY <1>4, <1>5, <1>6, <1>7, <1>8, <1>9 DEF IInv

\* A stuttering step preserves it.
LEMMA StutterIInv ==
    ASSUME IInv, UNCHANGED vars
    PROVE  IInv'
  <1> USE DEF vars, IInv
  <1>1. TypeOK'
    BY DEF TypeOK
  <1>2. ControlInv'
    BY DEF ControlInv, MainInv, WorkerInv
  <1>3. FetchedInv'
    BY DEF FetchedInv
  <1>4. SettledInv'
    BY DEF SettledInv, settled
  <1>5. NothingLost'
    BY DEF NothingLost, Pending
  <1>6. ExitInv'
    BY DEF ExitInv
  <1> QED
    BY <1>1, <1>2, <1>3, <1>4, <1>5, <1>6

\* Every step preserves the inductive invariant.
LEMMA NextIInv == IInv /\ [Next]_vars => IInv'
  <1> SUFFICES ASSUME IInv, [Next]_vars PROVE IInv'
    OBVIOUS
  <1>1. CASE Rebalance
    BY <1>1, RebalanceIInv
  <1>2. CASE CloseClaim
    BY <1>2, CloseClaimIInv
  <1>3. CASE MainStep
    BY <1>3, MainAckIInv, MainFetchIInv, MainSendIInv, MainClaimClosedIInv, MainCtxDoneIInv,
       MainSpinAckIInv, MainWaitDoneIInv, MainDrainAckIInv, MainReturnIInv DEF MainStep
  <1>4. ASSUME NEW w \in Workers, WorkerStep(w) PROVE IInv'
    BY <1>4, WorkerQuitIInv, TimerFlushIInv, ReceiveIInv, AckUndecodableIInv, DrainClosedIInv,
       FnSucceedsIInv, FnFailsIInv, BackoffExpiresIInv, BackoffAbortedIInv, AckNextIInv
       DEF WorkerStep
  <1>5. CASE UNCHANGED vars
    BY <1>5, StutterIInv
  <1> QED
    BY <1>1, <1>2, <1>3, <1>4, <1>5 DEF Next

-----------------------------------------------------------------------------
(* Theorems.                                                               *)

\* The inductive invariant holds in every reachable state.
LEMMA Invariance == Spec => []IInv
  <1>1. Init => IInv
    BY InitIInv
  <1>2. IInv /\ [Next]_vars => IInv'
    BY NextIInv
  <1> QED
    BY <1>1, <1>2, PTL DEF Spec

\* Type correctness of AsyncBatchHandler.ConsumeClaim's state.
THEOREM TypeCorrect == Spec => []TypeOK
  <1>1. IInv => TypeOK
    BY DEF IInv
  <1> QED
    BY <1>1, Invariance, PTL

\* No message taken from sarama ever falls between the goroutines: it is in a
\* hand, a channel or a buffer until it is marked.
THEOREM NoMessageLost == Spec => []NothingLost
  <1>1. IInv => NothingLost
    BY DEF IInv
  <1> QED
    BY <1>1, Invariance, PTL

\* When ConsumeClaim returns without a cancellation, everything it took is
\* marked, and everything it marked was dealt with.
THEOREM ReturnsClean == Spec => []CleanExit
  <1>1. IInv => CleanExit
    <2> SUFFICES ASSUME IInv, mainPc = "returned", ~ctxDone
                 PROVE  1..(next - 1) \subseteq marked /\ marked \subseteq settled
      BY DEF CleanExit
    <2>1. /\ ackCh = <<>>
          /\ \A w \in Workers : wpc[w] = "exited" /\ taskCh = <<>> /\ buf[w] = <<>>
      BY DEF IInv, ExitInv
    <2>2. taskCh = <<>>
      BY <2>1
    <2>3. \A w \in Workers : cur[w] = 0 /\ Pending(w) = {}
      <3> SUFFICES ASSUME NEW w \in Workers PROVE cur[w] = 0 /\ Pending(w) = {}
        OBVIOUS
      <3>1. cur[w] = 0
        BY <2>1 DEF IInv, ControlInv, WorkerInv
      <3>2. acked[w] = 0 /\ buf[w] = <<>>
        BY <2>1 DEF IInv, ControlInv, WorkerInv
      <3>3. (acked[w] + 1)..Len(buf[w]) = {}
        BY <3>2
      <3> QED
        BY <3>1, <3>3 DEF Pending
    <2>4. hand = 0
      BY DEF IInv, ControlInv, MainInv
    <2>5. Range(<<>>) = {}
      BY DEF Range
    <2>6. ASSUME NEW m \in 1..(next - 1) PROVE m \in marked
      <3>1. m # 0
        BY <2>6 DEF IInv, TypeOK
      <3> QED
        BY <2>1, <2>2, <2>3, <2>4, <2>5, <2>6, <3>1 DEF IInv, NothingLost
    <2> QED
      BY <2>6 DEF IInv, SettledInv
  <1> QED
    BY <1>1, Invariance, PTL

-----------------------------------------------------------------------------
(* The refinement: every step of the handler is a step of ClaimConsumer.   *)

\* Taking an acknowledgement marks a delivered and settled message.
LEMMA MarkRefines ==
    ASSUME IInv, NEW pc, MarkFrom(pc)
    PROVE  Consumer!Mark
  <1>1. Head(ackCh) \in Range(ackCh)
    BY RangeHeadTail DEF MarkFrom, IInv, TypeOK
  <1>2. Head(ackCh) \in settled /\ Head(ackCh) < next /\ Head(ackCh) \in Msgs
    BY <1>1, RangeType DEF IInv, TypeOK, FetchedInv, SettledInv
  <1>3. Head(ackCh) \in 1..(next - 1)
    BY <1>2 DEF IInv, TypeOK, Msgs
  <1>4. /\ next' = next /\ settled' = settled
        /\ committed' = IF Head(ackCh) > committed THEN Head(ackCh) ELSE committed
    BY DEF MarkFrom, MarkMessage, claimVars, workVars, history, settled
  <1> QED
    BY <1>2, <1>3, <1>4 DEF Consumer!Mark, Consumer!MayMark

\* Delivering a message to main is the contract's Fetch.
LEMMA FetchRefines ==
    ASSUME IInv, MainFetch
    PROVE  Consumer!Fetch
  <1>1. next \in Nat /\ avail \in Nat /\ next <= avail /\ avail <= NumMsgs
    BY DEF MainFetch, TakeNext, IInv, TypeOK
  <1>2. /\ next' = next + 1 /\ settled' = settled /\ committed' = committed
    BY DEF MainFetch, TakeNext, workVars, history, settled
  <1> QED
    BY <1>1, <1>2 DEF Consumer!Fetch

\* A batch accepted, a batch given up and an undecodable message are settled.
LEMMA SettleRefines ==
    ASSUME IInv, NEW w \in Workers, FnSucceeds(w) \/ FnFails(w) \/ AckUndecodable(w)
    PROVE  Consumer!Settle
  <1>1. Range(buf[w]) \subseteq Msgs
    BY RangeType DEF IInv, TypeOK
  <1>2. cur[w] \in Msgs \/ ~AckUndecodable(w)
    BY DEF AckUndecodable, IInv, ControlInv, WorkerInv
  <1>3. next' = next /\ committed' = committed
    BY DEF FnSucceeds, FnFails, AckUndecodable, claimVars, mainVars
  <1>4. \E S \in SUBSET Msgs : settled' = settled \cup S
    <2>1. CASE FnSucceeds(w)
      <3>1. settled' = settled \cup Range(buf[w])
        BY <2>1 DEF FnSucceeds, settled
      <3> QED
        BY <1>1, <3>1
    <2>2. CASE FnFails(w)
      <3>1. settled' = settled \cup Range(buf[w]) \/ settled' = settled \cup {}
        BY <2>2 DEF FnFails, settled
      <3> QED
        BY <1>1, <3>1
    <2>3. CASE AckUndecodable(w)
      <3>1. settled' = settled \cup {cur[w]}
        BY <2>3 DEF AckUndecodable, settled
      <3> QED
        BY <1>2, <2>3, <3>1
    <2> QED
      BY <2>1, <2>2, <2>3
  <1> QED
    BY <1>3, <1>4 DEF Consumer!Settle, Consumer!Offsets, Msgs

\* ConsumeClaim implements the weak consumer contract, for every number of
\* workers and every mix of failures: what it marks was delivered and settled.
THEOREM Refinement == Spec => ImplementsConsumer
  <1>1. Init => Consumer!Init
    BY DEF Init, Consumer!Init, settled
  <1>2. IInv /\ [Next]_vars => [Consumer!Next]_(Consumer!vars)
    <2> SUFFICES ASSUME IInv, [Next]_vars
                 PROVE  Consumer!Next \/ UNCHANGED Consumer!vars
      BY DEF Consumer!vars
    <2>1. CASE Rebalance \/ CloseClaim \/ UNCHANGED vars
      BY <2>1 DEF Rebalance, CloseClaim, vars, mainVars, history, settled, Consumer!vars
    <2>2. CASE MainStep
      <3>1. CASE MainAck \/ MainSpinAck \/ MainDrainAck
        BY <3>1, MarkRefines DEF MainAck, MainSpinAck, MainDrainAck, Consumer!Next
      <3>2. CASE MainFetch
        BY <3>2, FetchRefines DEF Consumer!Next
      <3>3. CASE MainSend \/ MainClaimClosed \/ MainCtxDone \/ MainWaitDone \/ MainReturn
        BY <3>3 DEF MainSend, MainClaimClosed, MainCtxDone, MainWaitDone, MainReturn,
           CloseTaskCh, MainMove, claimVars, history, settled, Consumer!vars
      <3> QED
        BY <2>2, <3>1, <3>2, <3>3 DEF MainStep
    <2>3. ASSUME NEW w \in Workers, WorkerStep(w)
          PROVE  Consumer!Next \/ UNCHANGED Consumer!vars
      <3>1. CASE FnSucceeds(w) \/ FnFails(w) \/ AckUndecodable(w)
        BY <3>1, SettleRefines DEF Consumer!Next
      <3>2. CASE \/ WorkerQuit(w) \/ TimerFlush(w) \/ Receive(w) \/ DrainClosed(w)
                 \/ BackoffExpires(w) \/ BackoffAborted(w) \/ AckNext(w)
        BY <3>2 DEF WorkerQuit, TimerFlush, Receive, DrainClosed, BackoffExpires,
           BackoffAborted, AckNext, claimVars, mainVars, history, settled, Consumer!vars
      <3> QED
        BY <2>3, <3>1, <3>2 DEF WorkerStep
    <2> QED
      BY <2>1, <2>2, <2>3 DEF Next
  <1> QED
    BY <1>1, <1>2, Invariance, PTL DEF Spec, ImplementsConsumer, Consumer!Spec

-----------------------------------------------------------------------------
(* Where messages are: the second invariant, on top of IInv.               *)

LEMMA PlaceTypes ==
    ASSUME IInv
    PROVE  /\ 0 \notin Msgs /\ Msgs \subseteq Nat
           /\ next \in Nat \ {0} /\ committed \in Nat /\ hand \in Nat
           /\ taskCh \in Seq(Msgs) /\ Range(taskCh) \subseteq Msgs /\ settled \subseteq Msgs
           /\ ctxDone \in BOOLEAN
           /\ DOMAIN buf = Workers /\ DOMAIN cur = Workers /\ DOMAIN wpc = Workers
           /\ \A w \in Workers :
                 /\ buf[w] \in Seq(Msgs) /\ Range(buf[w]) \subseteq Msgs
                 /\ cur[w] \in Nat /\ Own(w) \subseteq Msgs
                 /\ wpc[w] # "badAck" => cur[w] = 0 /\ Own(w) = Range(buf[w])
                 /\ wpc[w] = "badAck" => cur[w] \in Msgs
  <1>1. 0 \notin Msgs /\ Msgs \subseteq Nat
    BY DEF Msgs
  <1>2. taskCh \in Seq(Msgs) /\ Range(taskCh) \subseteq Msgs
    BY RangeType DEF IInv, TypeOK
  <1>3. ASSUME NEW w \in Workers
        PROVE  /\ buf[w] \in Seq(Msgs) /\ Range(buf[w]) \subseteq Msgs
               /\ cur[w] \in Nat /\ Own(w) \subseteq Msgs
               /\ wpc[w] # "badAck" => cur[w] = 0 /\ Own(w) = Range(buf[w])
               /\ wpc[w] = "badAck" => cur[w] \in Msgs
    <2>1. buf[w] \in Seq(Msgs) /\ cur[w] \in 0..NumMsgs
      BY DEF IInv, TypeOK
    <2>2. Range(buf[w]) \subseteq Msgs
      BY <2>1, RangeType
    <2>3. /\ wpc[w] # "badAck" => cur[w] = 0
          /\ wpc[w] = "badAck" => cur[w] \in Msgs
      BY DEF IInv, ControlInv, WorkerInv
    <2> QED
      BY <2>1, <2>2, <2>3 DEF Own
  <1> QED
    BY <1>1, <1>2, <1>3 DEF IInv, TypeOK, settled

\* The steps that move no message into, within or out of a worker's hands.
LEMMA QuietSteps ==
    ASSUME IInv, [Next]_vars
    PROVE  \/ /\ UNCHANGED <<buf, cur, handled, gaveUp, undecodable>>
              /\ ctxDone => ctxDone'
              /\ \A w \in Workers :
                    /\ wpc'[w] # "ack" => wpc[w] # "ack"
                    /\ wpc'[w] = "badAck" => wpc[w] = "badAck"
                    /\ wpc'[w] = "select" /\ ~ctxDone' => wpc[w] = "select"
           \/ \E w \in Workers : \/ Receive(w) \/ AckUndecodable(w) \/ AckNext(w)
                                 \/ FnSucceeds(w) \/ FnFails(w)
  <1>1. CASE Rebalance \/ CloseClaim \/ MainStep \/ UNCHANGED vars
    BY <1>1 DEF Rebalance, CloseClaim, MainStep, MainAck, MainFetch, TakeNext, MainSend,
       MainClaimClosed, MainCtxDone, MainSpinAck, MainWaitDone, MainDrainAck, MainReturn, MarkFrom,
       CloseTaskCh, MainMove, claimVars, mainVars, workVars, history, vars
  <1>2. ASSUME NEW w \in Workers,
               \/ WorkerQuit(w) \/ TimerFlush(w) \/ DrainClosed(w)
               \/ BackoffExpires(w) \/ BackoffAborted(w)
        PROVE  /\ UNCHANGED <<buf, cur, handled, gaveUp, undecodable, ctxDone>>
               /\ \A v \in Workers :
                    /\ wpc'[v] # "ack" => wpc[v] # "ack"
                    /\ wpc'[v] = "badAck" => wpc[v] = "badAck"
                    /\ wpc'[v] = "select" /\ ~ctxDone' => wpc[v] = "select"
    <2>1. /\ UNCHANGED <<buf, cur, handled, gaveUp, undecodable, ctxDone>>
          /\ wpc[w] \in {"select", "backoff"}
          /\ \E p \in {"exited", "fn", "select"} :
                /\ wpc' = [wpc EXCEPT ![w] = p]
                /\ p = "select" => ctxDone
      BY <1>2 DEF WorkerQuit, TimerFlush, DrainClosed, BackoffExpires, BackoffAborted, BeginFlush,
         claimVars, mainVars, history
    <2> QED
      BY <2>1, PlaceTypes
  <1> QED
    BY <1>1, <1>2 DEF Next, WorkerStep

\* A worker takes the head of the task channel into its hands.
LEMMA ReceiveEffect ==
    ASSUME IInv, NEW w \in Workers, Receive(w)
    PROVE  /\ taskCh # <<>> /\ Head(taskCh) \in Range(taskCh) /\ Head(taskCh) \in Msgs
           /\ taskCh' = Tail(taskCh) /\ Range(taskCh) = {Head(taskCh)} \cup Range(taskCh')
           /\ UNCHANGED <<next, hand, committed, ctxDone, handled, gaveUp, undecodable>>
           /\ wpc[w] = "select" /\ cur[w] = 0
           /\ \A v \in Workers \ {w} : wpc'[v] = wpc[v] /\ buf'[v] = buf[v] /\ cur'[v] = cur[v]
           /\ \/ /\ Head(taskCh) \in Bad /\ wpc'[w] = "badAck"
                 /\ cur'[w] = Head(taskCh) /\ buf'[w] = buf[w]
              \/ /\ buf'[w] = Append(buf[w], Head(taskCh)) /\ cur'[w] = 0
                 /\ wpc'[w] \in {"fn", "select"}
                 /\ wpc'[w] = "fn" \/ Len(buf[w]) + 1 < BatchSize \/ ctxDone
  <1>1. /\ taskCh # <<>> /\ taskCh' = Tail(taskCh) /\ wpc[w] = "select" /\ cur[w] = 0
        /\ UNCHANGED <<next, hand, committed, ctxDone, handled, gaveUp, undecodable>>
    BY PlaceTypes DEF Receive, claimVars, mainVars, history
  <1>2. /\ Head(taskCh) \in Msgs /\ Range(taskCh) = {Head(taskCh)} \cup Range(Tail(taskCh))
    BY <1>1, RangeHeadTail, PlaceTypes
  <1>3. CASE Head(taskCh) \in Bad
    BY <1>1, <1>2, <1>3, PlaceTypes DEF Receive
  <1>4. CASE Head(taskCh) \notin Bad
    <2>1. Len(buf[w]) \in Nat /\ BatchSize \in Nat
      BY PlaceTypes
    <2>2. /\ buf' = [buf EXCEPT ![w] = Append(@, Head(taskCh))] /\ cur' = cur
          /\ \E p \in {"fn", "select"} :
                /\ wpc' = [wpc EXCEPT ![w] = p]
                /\ p = "fn" \/ ~(Len(buf[w]) + 1 >= BatchSize) \/ ctxDone
      BY <1>4 DEF Receive, Buffer, BeginFlush
    <2> QED
      BY <1>1, <1>2, <2>1, <2>2, PlaceTypes
  <1> QED
    BY <1>3, <1>4

\* The undecodable message at hand is settled, and joins the buffer.
LEMMA AckUndecodableEffect ==
    ASSUME IInv, NEW w \in Workers, AckUndecodable(w)
    PROVE  /\ UNCHANGED <<next, taskCh, hand, committed, ctxDone, handled, gaveUp>>
           /\ undecodable' = undecodable \cup {cur[w]}
           /\ wpc[w] = "badAck" /\ cur[w] \in Msgs /\ cur'[w] = 0
           /\ buf'[w] = Append(buf[w], cur[w])
           /\ wpc'[w] \in {"fn", "select"}
           /\ wpc'[w] = "fn" \/ Len(buf[w]) + 1 < BatchSize \/ ctxDone
           /\ \A v \in Workers \ {w} : wpc'[v] = wpc[v] /\ buf'[v] = buf[v] /\ cur'[v] = cur[v]
  <1>1. /\ UNCHANGED <<next, taskCh, hand, committed, ctxDone, handled, gaveUp>>
        /\ undecodable' = undecodable \cup {cur[w]} /\ wpc[w] = "badAck"
        /\ cur' = [cur EXCEPT ![w] = 0] /\ buf' = [buf EXCEPT ![w] = Append(@, cur[w])]
        /\ \E p \in {"fn", "select"} :
              /\ wpc' = [wpc EXCEPT ![w] = p]
              /\ p = "fn" \/ ~(Len(buf[w]) + 1 >= BatchSize) \/ ctxDone
    BY DEF AckUndecodable, Buffer, BeginFlush, claimVars, mainVars
  <1>2. Len(buf[w]) \in Nat /\ BatchSize \in Nat
    BY PlaceTypes
  <1> QED
    BY <1>1, <1>2, PlaceTypes

\* fn ends with the batch: it is dealt with now, or will be tried again.
LEMMA FnEffect ==
    ASSUME IInv, NEW w \in Workers, FnSucceeds(w) \/ FnFails(w)
    PROVE  /\ UNCHANGED <<next, taskCh, hand, committed, ctxDone, buf, cur, undecodable>>
           /\ wpc[w] = "fn" /\ cur[w] = 0 /\ Own(w) = Range(buf[w])
           /\ \A v \in Workers \ {w} : wpc'[v] = wpc[v]
           /\ \/ /\ handled' \cup gaveUp' = handled \cup gaveUp \cup Range(buf[w])
                 /\ settled' = settled \cup Range(buf[w])
                 /\ wpc'[w] = "ack"
              \/ /\ UNCHANGED <<handled, gaveUp>> /\ settled' = settled
                 /\ wpc'[w] = "backoff"
  <1>1. /\ UNCHANGED <<next, taskCh, hand, committed, ctxDone, buf, cur, undecodable>>
        /\ wpc[w] = "fn"
        /\ \/ /\ handled' \cup gaveUp' = handled \cup gaveUp \cup Range(buf[w])
              /\ wpc' = [wpc EXCEPT ![w] = "ack"]
           \/ UNCHANGED <<handled, gaveUp>> /\ wpc' = [wpc EXCEPT ![w] = "backoff"]
    BY DEF FnSucceeds, FnFails, claimVars, mainVars
  <1> QED
    BY <1>1, PlaceTypes DEF settled

\* An acknowledgement leaves the batch in the buffer until it is the last one.
LEMMA AckNextEffect ==
    ASSUME IInv, NEW w \in Workers, AckNext(w)
    PROVE  /\ UNCHANGED <<next, taskCh, hand, committed, ctxDone, cur, handled, gaveUp,
                          undecodable>>
           /\ wpc[w] = "ack"
           /\ \/ buf'[w] = <<>> /\ wpc'[w] = "select"
              \/ buf'[w] = buf[w] /\ wpc'[w] = "ack"
           /\ \A v \in Workers \ {w} : wpc'[v] = wpc[v] /\ buf'[v] = buf[v]
  BY PlaceTypes DEF AckNext, claimVars, mainVars, history

\* Neither acknowledgement puts a message into a worker's hands.
LEMMA OwnOfUndecodable ==
    ASSUME IInv, NEW w \in Workers, AckUndecodable(w)
    PROVE  cur[w] \in Own(w) /\ \A v \in Workers : Own(v)' = Own(v)
  <1>1. buf'[w] = Append(buf[w], cur[w]) /\ cur'[w] = 0 /\ cur[w] # 0 /\ cur[w] \in Msgs
    BY PlaceTypes, AckUndecodableEffect
  <1>2. Range(buf'[w]) = Range(buf[w]) \cup {cur[w]}
    BY <1>1, RangeAppend, PlaceTypes
  <1>3. Own(w)' = Own(w)
    BY <1>1, <1>2 DEF Own
  <1> QED
    BY <1>1, <1>3, AckUndecodableEffect DEF Own

LEMMA OwnOfAcked ==
    ASSUME IInv, NEW w \in Workers, AckNext(w)
    PROVE  \A v \in Workers : Own(v)' \subseteq Own(v)
  <1>1. Range(<<>>) = {}
    BY DEF Range
  <1> QED
    BY <1>1, AckNextEffect DEF Own

\* What a step does to the workers' hands: only messages of the task channel
\* come in, and what is settled stays settled.
LEMMA OwnMoves ==
    ASSUME IInv, [Next]_vars
    PROVE  /\ settled \subseteq settled'
           /\ settled' \subseteq settled \cup UNION {Own(w) : w \in Workers}
           /\ \A w \in Workers : Own(w)' \subseteq Own(w) \cup Range(taskCh)
  <1> USE PlaceTypes
  <1>1. CASE UNCHANGED <<buf, cur, handled, gaveUp, undecodable>>
    BY <1>1 DEF Own, settled
  <1>2. ASSUME NEW w \in Workers, Receive(w)
        PROVE  settled' = settled /\ \A v \in Workers : Own(v)' \subseteq Own(v) \cup Range(taskCh)
    <2>1. settled' = settled
      BY <1>2, ReceiveEffect DEF settled
    <2>2. Range(Append(buf[w], Head(taskCh))) = Range(buf[w]) \cup {Head(taskCh)}
      BY <1>2, ReceiveEffect, RangeAppend
    <2>3. Own(w)' \subseteq Own(w) \cup Range(taskCh)
      BY <1>2, <2>2, ReceiveEffect DEF Own
    <2>4. \A v \in Workers \ {w} : Own(v)' = Own(v)
      BY <1>2, ReceiveEffect DEF Own
    <2> QED
      BY <2>1, <2>3, <2>4
  <1>3. ASSUME NEW w \in Workers, AckUndecodable(w)
        PROVE  /\ settled' = settled \cup {cur[w]} /\ cur[w] \in Own(w)
               /\ \A v \in Workers : Own(v)' \subseteq Own(v)
    BY <1>3, AckUndecodableEffect, OwnOfUndecodable DEF settled
  <1>4. ASSUME NEW w \in Workers, FnSucceeds(w) \/ FnFails(w)
        PROVE  /\ settled \subseteq settled' /\ settled' \subseteq settled \cup Own(w)
               /\ \A v \in Workers : Own(v)' = Own(v)
    BY <1>4, FnEffect DEF Own
  <1>5. ASSUME NEW w \in Workers, AckNext(w)
        PROVE  settled' = settled /\ \A v \in Workers : Own(v)' \subseteq Own(v)
    BY <1>5, AckNextEffect, OwnOfAcked DEF settled
  <1> QED
    BY <1>1, <1>2, <1>3, <1>4, <1>5, QuietSteps

\* The task channel stays in order.
LEMMA FifoKept ==
    ASSUME IInv, FifoInv, [Next]_vars
    PROVE  FifoInv'
  <1> USE PlaceTypes
  <1>1. /\ settled \subseteq settled' /\ Taken' \subseteq Taken \cup Range(taskCh)
        /\ \A m \in Taken : m \in Nat
    BY OwnMoves DEF Taken
  <1>2. ASSUME UNCHANGED <<next, taskCh, hand, committed>>, Taken' \subseteq Taken
        PROVE  FifoInv'
    BY <1>1, <1>2 DEF FifoInv
  <1>3. ASSUME UNCHANGED <<buf, cur, handled, gaveUp, undecodable>>
        PROVE  Taken' = Taken /\ settled' = settled
    BY <1>3 DEF Taken, Own, settled
  <1>4. CASE Rebalance \/ CloseClaim \/ UNCHANGED vars
    BY <1>2, <1>3, <1>4 DEF Rebalance, CloseClaim, mainVars, workVars, history, vars
  <1>5. CASE MainClaimClosed \/ MainCtxDone \/ MainWaitDone \/ MainReturn
    BY <1>2, <1>3, <1>5 DEF MainClaimClosed, MainCtxDone, MainWaitDone, MainReturn, CloseTaskCh,
       MainMove, claimVars, workVars, history
  <1>6. CASE MainAck \/ MainSpinAck \/ MainDrainAck
    <2>1. /\ ackCh # <<>> /\ MarkMessage(Head(ackCh))
          /\ UNCHANGED <<next, taskCh, hand, buf, cur, handled, gaveUp, undecodable>>
      BY <1>6 DEF MainAck, MainSpinAck, MainDrainAck, MarkFrom, claimVars, workVars, history
    <2>2. Head(ackCh) \in settled
      BY <2>1, RangeHeadTail DEF IInv, SettledInv, TypeOK
    <2>3. committed' \in settled \cup {0}
      BY <2>1, <2>2 DEF MarkMessage, FifoInv
    <2> QED
      BY <1>3, <2>1, <2>3 DEF FifoInv
  <1>7. CASE MainFetch
    <2>1. /\ hand' = next /\ next' = next + 1
          /\ UNCHANGED <<taskCh, committed, buf, cur, handled, gaveUp, undecodable>>
      BY <1>7 DEF MainFetch, TakeNext, workVars, history
    <2>2. \A m \in Range(taskCh) : m < next
      BY DEF IInv, FetchedInv
    <2> QED
      BY <1>1, <1>3, <2>1, <2>2 DEF FifoInv
  <1>8. CASE MainSend
    <2>1. /\ taskCh' = Append(taskCh, hand) /\ hand' = 0 /\ hand \in Msgs /\ hand < next
          /\ UNCHANGED <<next, committed, buf, cur, handled, gaveUp, undecodable>>
      BY <1>8 DEF MainSend, claimVars, workVars, history, IInv, ControlInv, MainInv, FetchedInv
    <2>2. Range(taskCh') = Range(taskCh) \cup {hand} /\ Len(taskCh') = Len(taskCh) + 1
      BY <2>1, RangeAppend
    <2>3. \A m \in Range(taskCh) \cup Taken : m < hand
      BY <2>1 DEF FifoInv
    <2>4. /\ Len(taskCh) \in Nat /\ taskCh'[Len(taskCh) + 1] = hand
          /\ \A i \in 1..Len(taskCh) : taskCh'[i] = taskCh[i] /\ taskCh[i] \in Range(taskCh)
      BY <2>1 DEF Range
    <2>5. \A i, j \in 1..Len(taskCh') : i < j => taskCh'[i] < taskCh'[j]
      <3> SUFFICES ASSUME NEW i \in 1..Len(taskCh'), NEW j \in 1..Len(taskCh'), i < j
                   PROVE  taskCh'[i] < taskCh'[j]
        OBVIOUS
      <3>1. i \in 1..(Len(taskCh) + 1) /\ j \in 1..(Len(taskCh) + 1) /\ i < j
        BY <2>2
      <3>2. i \in 1..Len(taskCh) /\ (j \in 1..Len(taskCh) \/ j = Len(taskCh) + 1)
        BY <2>4, <3>1
      <3>3. taskCh'[i] = taskCh[i] /\ taskCh[i] < hand
        BY <2>3, <2>4, <3>2
      <3>4. CASE j = Len(taskCh) + 1
        BY <2>4, <3>3, <3>4
      <3>5. CASE j \in 1..Len(taskCh)
        <4>1. taskCh[i] < taskCh[j] /\ taskCh'[j] = taskCh[j]
          BY <2>4, <3>1, <3>2, <3>5 DEF FifoInv
        <4> QED
          BY <3>3, <4>1
      <3> QED
        BY <3>2, <3>4, <3>5
    <2> QED
      BY <1>3, <2>1, <2>2, <2>3, <2>5 DEF FifoInv
  <1>9. CASE UNCHANGED <<buf, cur, handled, gaveUp, undecodable>> /\ \E w \in Workers : WorkerStep(w)
    <2>1. UNCHANGED <<next, taskCh, hand, committed>>
      <3>1. ASSUME NEW w \in Workers, WorkerStep(w), ~UNCHANGED taskCh
            PROVE  FALSE
        <4>1. Receive(w)
          BY <3>1 DEF WorkerStep, WorkerQuit, TimerFlush, AckUndecodable, DrainClosed, FnSucceeds,
             FnFails, BackoffExpires, BackoffAborted, AckNext
        <4>2. buf'[w] = Append(buf[w], Head(taskCh)) \/ (cur'[w] \in Msgs /\ cur[w] = 0)
          BY <4>1, ReceiveEffect
        <4>3. Len(Append(buf[w], Head(taskCh))) # Len(buf[w])
          BY <4>1, ReceiveEffect, RangeAppend
        <4> QED
          BY <1>9, <4>2, <4>3
      <3> QED
        BY <1>9, <3>1 DEF WorkerStep, WorkerQuit, TimerFlush, Receive, AckUndecodable, DrainClosed,
           FnSucceeds, FnFails, BackoffExpires, BackoffAborted, AckNext, claimVars, mainVars
    <2> QED
      BY <1>2, <1>3, <1>9, <2>1
  <1>10. ASSUME NEW w \in Workers, Receive(w)
         PROVE  FifoInv'
    <2>1. /\ UNCHANGED <<next, hand, committed>>
          /\ taskCh' = Tail(taskCh) /\ taskCh # <<>>
          /\ Range(taskCh) = {Head(taskCh)} \cup Range(taskCh')
      BY <1>10, ReceiveEffect
    <2>2. /\ Len(taskCh) \in Nat \ {0} /\ Len(taskCh') = Len(taskCh) - 1 /\ Head(taskCh) = taskCh[1]
          /\ \A i \in 1..Len(taskCh') : taskCh'[i] = taskCh[i + 1]
      BY <2>1
    <2>3. \A n \in Range(taskCh') : Head(taskCh) < n
      <3>1. DOMAIN taskCh' = 1..Len(taskCh')
        BY <2>1
      <3> SUFFICES ASSUME NEW i \in 1..Len(taskCh')
                   PROVE  Head(taskCh) < taskCh'[i]
        BY <3>1 DEF Range
      <3>2. i \in 1..(Len(taskCh) - 1) /\ i \in 1..Len(taskCh')
        BY <2>2
      <3>3. 1 \in 1..Len(taskCh) /\ i + 1 \in 1..Len(taskCh) /\ 1 < i + 1
        BY <2>2, <3>2
      <3>4. taskCh[1] < taskCh[i + 1]
        BY <3>3 DEF FifoInv
      <3> QED
        BY <2>2, <3>2, <3>4
    <2>4. \A i, j \in 1..Len(taskCh') : i < j => taskCh'[i] < taskCh'[j]
      <3> SUFFICES ASSUME NEW i \in 1..Len(taskCh'), NEW j \in 1..Len(taskCh'), i < j
                   PROVE  taskCh'[i] < taskCh'[j]
        OBVIOUS
      <3>1. i \in 1..(Len(taskCh) - 1) /\ j \in 1..(Len(taskCh) - 1) /\ i < j
        BY <2>2
      <3>2. i + 1 \in 1..Len(taskCh) /\ j + 1 \in 1..Len(taskCh) /\ i + 1 < j + 1
        BY <2>2, <3>1
      <3>3. taskCh[i + 1] < taskCh[j + 1]
        BY <3>2 DEF FifoInv
      <3> QED
        BY <2>2, <3>3
    <2>5. Taken' \subseteq Taken \cup {Head(taskCh)}
      <3>1. settled' = settled
        BY <1>10, ReceiveEffect DEF settled
      <3>2. Own(w)' \subseteq Own(w) \cup {Head(taskCh)}
        <4>1. Range(Append(buf[w], Head(taskCh))) = Range(buf[w]) \cup {Head(taskCh)}
          BY <1>10, ReceiveEffect, RangeAppend
        <4> QED
          BY <1>10, <4>1, ReceiveEffect DEF Own
      <3>3. \A v \in Workers \ {w} : Own(v)' = Own(v)
        BY <1>10, ReceiveEffect DEF Own
      <3> QED
        BY <3>1, <3>2, <3>3 DEF Taken
    <2>6. Head(taskCh) < next /\ Head(taskCh) \in Nat
      BY <1>10, ReceiveEffect DEF IInv, FetchedInv
    <2>7. \A m \in Taken' : m < next /\ \A n \in Range(taskCh') : m < n
      BY <2>1, <2>3, <2>5, <2>6 DEF FifoInv
    <2>8. hand # 0 => \A m \in Taken' \cup Range(taskCh') : m < hand
      BY <2>1, <2>5 DEF FifoInv
    <2> QED
      BY <1>1, <2>1, <2>4, <2>7, <2>8 DEF FifoInv
  <1>11. ASSUME NEW w \in Workers,
                AckUndecodable(w) \/ AckNext(w) \/ FnSucceeds(w) \/ FnFails(w)
         PROVE  FifoInv'
    <2>1. UNCHANGED <<next, taskCh, hand, committed>>
      BY <1>11 DEF AckUndecodable, AckNext, FnSucceeds, FnFails, claimVars, mainVars
    <2>2. \A v \in Workers : Own(v)' \subseteq Own(v)
      <3>1. CASE AckUndecodable(w)
        BY <3>1, OwnOfUndecodable
      <3>2. CASE FnSucceeds(w) \/ FnFails(w)
        BY <3>2, FnEffect DEF Own
      <3>3. CASE AckNext(w)
        BY <3>3, OwnOfAcked
      <3> QED
        BY <1>11, <3>1, <3>2, <3>3
    <2>3. Taken' \subseteq Taken
      BY <2>2, OwnMoves DEF Taken
    <2> QED
      BY <1>2, <2>1, <2>3
  <1> QED
    BY <1>4, <1>5, <1>6, <1>7, <1>8, <1>9, <1>10, <1>11, QuietSteps DEF Next, MainStep

\* A buffer without repetitions stays so when a new message joins it.
LEMMA AppendNew ==
    ASSUME NEW S, NEW s \in Seq(S), NEW x \in S, x \notin Range(s),
           \A i, j \in 1..Len(s) : s[i] = s[j] => i = j
    PROVE  \A i, j \in 1..Len(Append(s, x)) : Append(s, x)[i] = Append(s, x)[j] => i = j
  <1> DEFINE t == Append(s, x)
  <1>1. /\ Len(s) \in Nat /\ Len(t) = Len(s) + 1 /\ t[Len(s) + 1] = x
        /\ \A i \in 1..Len(s) : t[i] = s[i] /\ s[i] # x
    BY DEF Range
  <1> HIDE DEF t
  <1> SUFFICES ASSUME NEW i \in 1..Len(t), NEW j \in 1..Len(t), t[i] = t[j]
               PROVE  i = j
    BY DEF t
  <1>2. /\ i \in 1..Len(s) \/ i = Len(s) + 1
        /\ j \in 1..Len(s) \/ j = Len(s) + 1
    BY <1>1
  <1> QED
    BY <1>1, <1>2

\* A worker whose hands and surroundings do not change keeps its part.
LEMMA OwnerKept ==
    ASSUME OwnInv, NEW w \in Workers,
           buf'[w] = buf[w], cur'[w] = cur[w],
           wpc'[w] = "badAck" => wpc[w] = "badAck",
           wpc'[w] # "ack" => wpc[w] # "ack",
           wpc'[w] # "ack" => Own(w) \cap (handled' \cup gaveUp') = {}
    PROVE  OwnerInv(w)' /\ Own(w)' = Own(w)
  BY DEF OwnInv, OwnerInv, Own

\* Messages keep their owner until they are dealt with.
LEMMA OwnKept ==
    ASSUME IInv, FifoInv, OwnInv, [Next]_vars
    PROVE  OwnInv'
  <1> USE PlaceTypes
  <1> DEFINE done == handled \cup gaveUp
  <1>0. /\ \A v \in Workers : OwnerInv(v)
        /\ \A v, w \in Workers : v # w => Own(v) \cap Own(w) = {}
    BY DEF OwnInv
  <1>1. CASE /\ UNCHANGED <<buf, cur, handled, gaveUp, undecodable>>
             /\ \A w \in Workers :
                   /\ wpc'[w] # "ack" => wpc[w] # "ack"
                   /\ wpc'[w] = "badAck" => wpc[w] = "badAck"
    BY <1>1 DEF OwnInv, OwnerInv, Own
  <1>2. ASSUME NEW w \in Workers, Receive(w)
        PROVE  OwnInv'
    <2> DEFINE h == Head(taskCh)
    <2>1. /\ h \in Msgs /\ wpc[w] = "select" /\ cur[w] = 0 /\ wpc'[w] # "ack"
          /\ UNCHANGED <<handled, gaveUp>>
          /\ \A v \in Workers \ {w} : wpc'[v] = wpc[v] /\ buf'[v] = buf[v] /\ cur'[v] = cur[v]
      BY <1>2, ReceiveEffect
    <2>2. h \notin Taken
      <3>1. h \in Range(taskCh) /\ h \in Nat /\ ~(h < h)
        BY <1>2, <2>1, ReceiveEffect
      <3> QED
        BY <3>1 DEF FifoInv
    <2>3. h \notin done /\ \A v \in Workers : h \notin Own(v)
      BY <2>2 DEF Taken, settled
    <2>4. h \notin Range(buf[w]) /\ Own(w) = Range(buf[w]) /\ Own(w) \cap done = {}
      BY <1>0, <2>1, <2>3 DEF Own, OwnerInv
    <2>5. \A v \in Workers \ {w} : OwnerInv(v)' /\ Own(v)' = Own(v)
      <3> SUFFICES ASSUME NEW v \in Workers \ {w}
                   PROVE  OwnerInv(v)' /\ Own(v)' = Own(v)
        OBVIOUS
      <3> QED
        BY <1>0, <2>1, OwnerKept DEF OwnerInv
    <2>6. OwnerInv(w)' /\ Own(w)' = Own(w) \cup {h}
      <3>1. CASE /\ h \in Bad /\ wpc'[w] = "badAck"
                 /\ cur'[w] = h /\ buf'[w] = buf[w]
        <4>1. Own(w)' = Own(w) \cup {h}
          BY <2>1, <2>4, <3>1 DEF Own
        <4> HIDE DEF h
        <4>2. Own(w)' \cap (handled' \cup gaveUp') = {}
          BY <2>1, <2>3, <2>4, <4>1
        <4>3. \A i, j \in 1..Len(buf'[w]) : buf'[w][i] = buf'[w][j] => i = j
          BY <1>0, <3>1 DEF OwnerInv
        <4> QED
          BY <2>4, <3>1, <4>1, <4>2, <4>3 DEF OwnerInv
      <3>2. CASE buf'[w] = Append(buf[w], h) /\ cur'[w] = 0 /\ wpc'[w] \in {"fn", "select"}
        <4>1. Range(buf'[w]) = Range(buf[w]) \cup {h}
          BY <2>1, <3>2, RangeAppend
        <4>2. \A i, j \in 1..Len(buf'[w]) : buf'[w][i] = buf'[w][j] => i = j
          <5>1. /\ \A i, j \in 1..Len(buf[w]) : buf[w][i] = buf[w][j] => i = j
                /\ buf[w] \in Seq(Msgs) /\ h \in Msgs /\ h \notin Range(buf[w])
            BY <1>0, <2>1, <2>4 DEF OwnerInv
          <5> HIDE DEF h
          <5>2. \A i, j \in 1..Len(Append(buf[w], h)) :
                   Append(buf[w], h)[i] = Append(buf[w], h)[j] => i = j
            BY ONLY <5>1, AppendNew
          <5> QED
            BY <3>2, <5>2
        <4> HIDE DEF h
        <4>3. Own(w)' = Own(w) \cup {h}
          BY <2>4, <3>2, <4>1 DEF Own
        <4>4. Own(w)' \cap (handled' \cup gaveUp') = {}
          BY <2>1, <2>3, <2>4, <4>3
        <4>5. 0 \notin Range(buf'[w])
          BY <2>1, <4>1
        <4> QED
          BY <3>2, <4>2, <4>3, <4>4, <4>5 DEF OwnerInv
      <3> QED
        BY <1>2, <3>1, <3>2, ReceiveEffect
    <2> HIDE DEF h
    <2>7. \A v \in Workers \ {w} : Own(v)' \cap Own(w)' = {}
      BY <1>0, <2>3, <2>5, <2>6
    <2>8. \A v, u \in Workers \ {w} : v # u => Own(v)' \cap Own(u)' = {}
      BY <1>0, <2>5
    <2> QED
      BY <2>5, <2>6, <2>7, <2>8 DEF OwnInv
  <1>3. ASSUME NEW w \in Workers, AckUndecodable(w)
        PROVE  OwnInv'
    <2>1. /\ UNCHANGED <<handled, gaveUp>> /\ wpc[w] = "badAck" /\ cur[w] \in Msgs /\ cur'[w] = 0
          /\ buf'[w] = Append(buf[w], cur[w]) /\ wpc'[w] \in {"fn", "select"}
          /\ \A v \in Workers \ {w} : wpc'[v] = wpc[v] /\ buf'[v] = buf[v] /\ cur'[v] = cur[v]
      BY <1>3, AckUndecodableEffect
    <2>2. \A v \in Workers : Own(v)' = Own(v)
      BY <1>3, OwnOfUndecodable
    <2>3. \A v \in Workers \ {w} : OwnerInv(v)'
      <3> SUFFICES ASSUME NEW v \in Workers \ {w}
                   PROVE  OwnerInv(v)'
        OBVIOUS
      <3> QED
        BY <1>0, <2>1, OwnerKept DEF OwnerInv
    <2>4. cur[w] \notin Range(buf[w]) /\ Own(w) \cap done = {}
      BY <1>0, <2>1 DEF OwnerInv
    <2>5. \A i, j \in 1..Len(buf'[w]) : buf'[w][i] = buf'[w][j] => i = j
      <3>1. /\ \A i, j \in 1..Len(buf[w]) : buf[w][i] = buf[w][j] => i = j
            /\ buf[w] \in Seq(Msgs) /\ cur[w] \in Msgs /\ cur[w] \notin Range(buf[w])
        BY <1>0, <2>1, <2>4 DEF OwnerInv
      <3>2. \A i, j \in 1..Len(Append(buf[w], cur[w])) :
               Append(buf[w], cur[w])[i] = Append(buf[w], cur[w])[j] => i = j
        BY ONLY <3>1, AppendNew
      <3> QED
        BY <2>1, <3>2
    <2>6. 0 \notin Range(buf'[w])
      <3>1. Range(buf'[w]) = Range(buf[w]) \cup {cur[w]}
        BY <2>1, RangeAppend
      <3> QED
        BY <2>1, <3>1
    <2>7. OwnerInv(w)'
      BY <2>1, <2>2, <2>4, <2>5, <2>6 DEF OwnerInv
    <2> QED
      BY <1>0, <2>2, <2>3, <2>7 DEF OwnInv
  <1>4. ASSUME NEW w \in Workers, FnSucceeds(w) \/ FnFails(w)
        PROVE  OwnInv'
    <2>1. /\ UNCHANGED <<buf, cur>> /\ wpc[w] = "fn" /\ cur[w] = 0 /\ Own(w) = Range(buf[w])
          /\ \A v \in Workers \ {w} : wpc'[v] = wpc[v]
          /\ \/ handled' \cup gaveUp' = done \cup Range(buf[w]) /\ wpc'[w] = "ack"
             \/ UNCHANGED <<handled, gaveUp>> /\ wpc'[w] = "backoff"
      BY <1>4, FnEffect
    <2>2. ASSUME NEW v \in Workers
          PROVE  OwnerInv(v)' /\ Own(v)' = Own(v)
      <3>1. CASE v = w
        BY <1>0, <2>1, <3>1, OwnerKept DEF OwnerInv
      <3>2. CASE v # w
        <4>1. wpc'[v] = wpc[v] /\ Own(v) \cap Own(w) = {}
          BY <1>0, <2>1, <3>2
        <4>2. wpc'[v] # "ack" => Own(v) \cap (handled' \cup gaveUp') = {}
          BY <1>0, <2>1, <4>1 DEF OwnerInv
        <4> QED
          BY <2>1, <4>1, <4>2, OwnerKept
      <3> QED
        BY <3>1, <3>2
    <2> QED
      BY <1>0, <2>2 DEF OwnInv
  <1>5. ASSUME NEW w \in Workers, AckNext(w)
        PROVE  OwnInv'
    <2>1. /\ UNCHANGED <<cur, handled, gaveUp>> /\ wpc[w] = "ack" /\ cur[w] = 0
          /\ \/ buf'[w] = <<>> /\ wpc'[w] = "select"
             \/ buf'[w] = buf[w] /\ wpc'[w] = "ack"
          /\ \A v \in Workers \ {w} : wpc'[v] = wpc[v] /\ buf'[v] = buf[v]
      BY <1>5, AckNextEffect
    <2>2. \A v \in Workers : Own(v)' \subseteq Own(v)
      BY <1>5, OwnOfAcked
    <2>3. \A v \in Workers \ {w} : OwnerInv(v)'
      <3> SUFFICES ASSUME NEW v \in Workers \ {w}
                   PROVE  OwnerInv(v)'
        OBVIOUS
      <3> QED
        BY <1>0, <2>1, OwnerKept DEF OwnerInv
    <2>4. OwnerInv(w)'
      <3>1. CASE buf'[w] = buf[w] /\ wpc'[w] = "ack"
        BY <1>0, <2>1, <3>1, OwnerKept
      <3>2. CASE buf'[w] = <<>> /\ wpc'[w] = "select"
        <4>1. Range(buf'[w]) = {} /\ 1..Len(buf'[w]) = {}
          BY <3>2 DEF Range
        <4>2. Own(w)' = {}
          BY <2>1, <4>1 DEF Own
        <4> QED
          BY <3>2, <4>1, <4>2 DEF OwnerInv
      <3> QED
        BY <2>1, <3>1, <3>2
    <2> QED
      BY <1>0, <2>2, <2>3, <2>4 DEF OwnInv
  <1> QED
    BY <1>1, <1>2, <1>3, <1>4, <1>5, QuietSteps

-----------------------------------------------------------------------------
(* How much a worker holds.                                                *)

LEMMA UpTo ==
    ASSUME NEW n \in Nat
    PROVE  IsFiniteSet(1..n) /\ Cardinality(1..n) = n
  <1>1. IsFiniteSet(1..n) /\ Cardinality(1..n) = IF 1 > n THEN 0 ELSE n - 1 + 1
    BY FS_Interval
  <1> QED
    BY <1>1

\* A sequence has no more elements than places.
LEMMA RangeCardinality ==
    ASSUME NEW S, NEW s \in Seq(S)
    PROVE  IsFiniteSet(Range(s)) /\ Cardinality(Range(s)) <= Len(s)
  <1>1. Len(s) \in Nat /\ DOMAIN s = 1..Len(s) /\ s \in [1..Len(s) -> S]
    OBVIOUS
  <1>2. s \in Surjection(1..Len(s), Range(s))
    BY <1>1 DEF Surjection, Range
  <1>3. IsFiniteSet(1..Len(s)) /\ Cardinality(1..Len(s)) = Len(s)
    BY <1>1, UpTo
  <1> QED
    BY <1>2, <1>3, FS_Surjection

LEMMA BelowFinite ==
    ASSUME IInv, NEW w \in Workers, NEW m
    PROVE  IsFiniteSet(Below(w, m)) /\ Cardinality(Below(w, m)) \in Nat
  <1>1. IsFiniteSet(Msgs) /\ Below(w, m) \subseteq Msgs
    BY FS_Interval, PlaceTypes DEF Below, Msgs
  <1> QED
    BY <1>1, FS_Subset, FS_CardinalityType

\* Messages that come into a worker's hands are above all that is settled.
LEMMA BelowShrinks ==
    ASSUME IInv, FifoInv, [Next]_vars, NEW w \in Workers, NEW m \in settled
    PROVE  Below(w, m)' \subseteq Below(w, m)
  <1>1. \A n \in Range(taskCh) : m < n
    BY DEF FifoInv, Taken
  <1>2. m \in Nat /\ \A n \in Range(taskCh) : n \in Nat
    BY PlaceTypes
  <1>3. settled \subseteq settled' /\ Own(w)' \subseteq Own(w) \cup Range(taskCh)
    BY OwnMoves
  <1> SUFFICES ASSUME NEW n \in Own(w)', n \notin settled', n < m
               PROVE  n \in Own(w) /\ n \notin settled
    BY DEF Below
  <1>4. n \notin Range(taskCh)
    BY <1>1, <1>2
  <1> QED
    BY <1>3, <1>4

LEMMA RoomKept ==
    ASSUME IInv, FifoInv, OwnInv, RoomInv, [Next]_vars
    PROVE  RoomInv'
  <1> USE PlaceTypes
  <1> SUFFICES ASSUME ~ctxDone'
               PROVE  /\ \A w \in Workers :
                            /\ Len(buf'[w]) <= BatchSize
                            /\ wpc'[w] \in {"select", "badAck"} => Len(buf'[w]) < BatchSize
                      /\ \A m \in settled' :
                            \E w \in Workers : Cardinality(Below(w, m)') <= ItsOwn
    BY DEF RoomInv, ItsOwn
  <1>1. ~ctxDone
    BY QuietSteps, ReceiveEffect, AckUndecodableEffect, FnEffect, AckNextEffect
  <1>2. /\ \A w \in Workers :
              /\ Len(buf[w]) <= BatchSize
              /\ wpc[w] \in {"select", "badAck"} => Len(buf[w]) < BatchSize
              /\ Len(buf[w]) \in Nat
        /\ \A m \in settled : \E w \in Workers : Cardinality(Below(w, m)) <= ItsOwn
    BY <1>1 DEF RoomInv
  <1>3. ItsOwn \in Nat /\ BatchSize \in Nat \ {0}
    BY DEF ItsOwn
  <1>4. \A m \in settled : \E w \in Workers : Cardinality(Below(w, m)') <= ItsOwn
    <2> SUFFICES ASSUME NEW m \in settled
                 PROVE  \E w \in Workers : Cardinality(Below(w, m)') <= ItsOwn
      OBVIOUS
    <2>1. PICK w \in Workers : Cardinality(Below(w, m)) <= ItsOwn
      BY <1>2
    <2>2. Below(w, m)' \subseteq Below(w, m)
      BY BelowShrinks
    <2>3. /\ Cardinality(Below(w, m)) \in Nat
          /\ Cardinality(Below(w, m)') <= Cardinality(Below(w, m))
          /\ Cardinality(Below(w, m)') \in Nat
      BY <2>2, BelowFinite, FS_Subset, FS_CardinalityType
    <2> QED
      BY <1>3, <2>1, <2>3
  <1>5. CASE /\ UNCHANGED <<buf, cur, handled, gaveUp, undecodable>>
             /\ \A w \in Workers :
                   /\ wpc'[w] = "badAck" => wpc[w] = "badAck"
                   /\ wpc'[w] = "select" /\ ~ctxDone' => wpc[w] = "select"
    BY <1>2, <1>4, <1>5 DEF settled
  <1>6. ASSUME NEW w \in Workers, Receive(w)
        PROVE  /\ settled' = settled
               /\ \A v \in Workers :
                    /\ Len(buf'[v]) <= BatchSize
                    /\ wpc'[v] \in {"select", "badAck"} => Len(buf'[v]) < BatchSize
    <2>1. Len(Append(buf[w], Head(taskCh))) = Len(buf[w]) + 1
      BY <1>6, ReceiveEffect, RangeAppend
    <2>2. settled' = settled
      BY <1>6, ReceiveEffect DEF settled
    <2>3. /\ Len(buf'[w]) <= BatchSize
          /\ wpc'[w] \in {"select", "badAck"} => Len(buf'[w]) < BatchSize
      <3>1. Len(buf[w]) < BatchSize
        BY <1>2, <1>6, ReceiveEffect
      <3>2. \/ buf'[w] = buf[w]
            \/ /\ buf'[w] = Append(buf[w], Head(taskCh)) /\ wpc'[w] \in {"fn", "select"}
               /\ wpc'[w] = "fn" \/ Len(buf[w]) + 1 < BatchSize
        BY <1>1, <1>6, ReceiveEffect
      <3>3. \/ Len(buf'[w]) = Len(buf[w])
            \/ /\ Len(buf'[w]) = Len(buf[w]) + 1
               /\ wpc'[w] = "fn" \/ Len(buf[w]) + 1 < BatchSize
        BY <2>1, <3>2
      <3> QED
        BY <1>2, <1>3, <3>1, <3>3
    <2>4. \A v \in Workers \ {w} : wpc'[v] = wpc[v] /\ buf'[v] = buf[v]
      BY <1>6, ReceiveEffect
    <2> QED
      BY <1>2, <2>2, <2>3, <2>4
  <1>7. ASSUME NEW w \in Workers, AckUndecodable(w)
        PROVE  /\ \A m \in settled' \ settled :
                     \E v \in Workers : Cardinality(Below(v, m)') <= ItsOwn
               /\ \A v \in Workers :
                    /\ Len(buf'[v]) <= BatchSize
                    /\ wpc'[v] \in {"select", "badAck"} => Len(buf'[v]) < BatchSize
    <2>1. /\ wpc[w] = "badAck" /\ cur[w] \in Msgs /\ undecodable' = undecodable \cup {cur[w]}
          /\ UNCHANGED <<handled, gaveUp>>
          /\ buf'[w] = Append(buf[w], cur[w]) /\ wpc'[w] \in {"fn", "select"}
          /\ wpc'[w] = "fn" \/ Len(buf[w]) + 1 < BatchSize
          /\ \A v \in Workers \ {w} : wpc'[v] = wpc[v] /\ buf'[v] = buf[v]
      BY <1>1, <1>7, AckUndecodableEffect
    <2>2. Len(buf'[w]) = Len(buf[w]) + 1 /\ Len(buf[w]) < BatchSize
      BY <1>2, <2>1, RangeAppend
    <2>3. /\ Len(buf'[w]) <= BatchSize
          /\ wpc'[w] \in {"select", "badAck"} => Len(buf'[w]) < BatchSize
      BY <1>2, <1>3, <2>1, <2>2
    <2>4. ASSUME NEW m \in settled' \ settled
          PROVE  Cardinality(Below(w, m)') <= ItsOwn
      <3>1. m = cur[w] /\ m \in Nat
        BY <2>1 DEF settled
      <3>2. ItsOwn = BatchSize - 1
        BY <2>1 DEF ItsOwn, OwnInv, OwnerInv
      <3>3. Below(w, m)' \subseteq Range(buf[w])
        <4>1. Own(w)' = Range(buf[w]) \cup ({m} \ {0}) /\ ~(m < m)
          BY <1>7, <3>1, OwnOfUndecodable DEF Own
        <4> QED
          BY <4>1 DEF Below
      <3>4. IsFiniteSet(Range(buf[w])) /\ Cardinality(Range(buf[w])) <= Len(buf[w])
        BY RangeCardinality
      <3>5. /\ Cardinality(Below(w, m)') <= Cardinality(Range(buf[w]))
            /\ Cardinality(Below(w, m)') \in Nat /\ Cardinality(Range(buf[w])) \in Nat
        BY <3>3, <3>4, FS_Subset, FS_CardinalityType
      <3> QED
        BY <1>2, <1>3, <2>2, <3>2, <3>4, <3>5
    <2> QED
      BY <1>2, <2>1, <2>3, <2>4
  <1>8. ASSUME NEW w \in Workers, FnSucceeds(w) \/ FnFails(w)
        PROVE  /\ \A m \in settled' \ settled :
                     \E v \in Workers : Cardinality(Below(v, m)') <= ItsOwn
               /\ \A v \in Workers :
                    /\ Len(buf'[v]) <= BatchSize
                    /\ wpc'[v] \in {"select", "badAck"} => Len(buf'[v]) < BatchSize
    <2>1. /\ UNCHANGED <<buf, cur>> /\ Own(w) = Range(buf[w]) /\ wpc'[w] \in {"ack", "backoff"}
          /\ settled' = settled \cup Range(buf[w]) \/ settled' = settled
          /\ \A v \in Workers \ {w} : wpc'[v] = wpc[v]
      BY <1>8, FnEffect
    <2>2. ASSUME NEW m \in settled' \ settled
          PROVE  Cardinality(Below(w, m)') <= ItsOwn
      <3>1. Own(w)' = Range(buf[w]) /\ Range(buf[w]) \subseteq settled'
        BY <2>1 DEF Own
      <3>2. Below(w, m)' = {}
        BY <3>1 DEF Below
      <3> QED
        BY <1>3, <3>2, FS_EmptySet
    <2> QED
      BY <1>2, <2>1, <2>2
  <1>9. ASSUME NEW w \in Workers, AckNext(w)
        PROVE  /\ settled' = settled
               /\ \A v \in Workers :
                    /\ Len(buf'[v]) <= BatchSize
                    /\ wpc'[v] \in {"select", "badAck"} => Len(buf'[v]) < BatchSize
    <2>1. settled' = settled
      BY <1>9, AckNextEffect DEF settled
    <2>2. Len(<<>>) = 0
      OBVIOUS
    <2>3. ASSUME NEW v \in Workers
          PROVE  /\ Len(buf'[v]) <= BatchSize
                 /\ wpc'[v] \in {"select", "badAck"} => Len(buf'[v]) < BatchSize
      <3>1. CASE buf'[v] = <<>>
        BY <1>3, <2>2, <3>1
      <3>2. CASE buf'[v] = buf[v] /\ (wpc'[v] = wpc[v] \/ wpc'[v] = "ack")
        BY <1>2, <3>2
      <3> QED
        BY <1>9, <3>1, <3>2, AckNextEffect
    <2> QED
      BY <2>1, <2>3
  <1> QED
    BY <1>4, <1>5, <1>6, <1>7, <1>8, <1>9, QuietSteps

LEMMA PlaceInvariance == Spec => []PlaceInv
  <1>1. Init => PlaceInv
    <2> SUFFICES ASSUME Init PROVE PlaceInv
      OBVIOUS
    <2>1. Range(<<>>) = {} /\ Len(<<>>) = 0
      BY DEF Range
    <2>2. settled = {} /\ \A w \in Workers : Own(w) = {}
      BY <2>1 DEF Init, Own, settled
    <2>3. FifoInv
      BY <2>1, <2>2 DEF Init, FifoInv, Taken
    <2>4. OwnInv
      BY <2>1, <2>2 DEF Init, OwnInv, OwnerInv
    <2>5. RoomInv
      BY <2>1, <2>2 DEF Init, RoomInv
    <2> QED
      BY <2>3, <2>4, <2>5 DEF PlaceInv
  <1>2. IInv /\ PlaceInv /\ [Next]_vars => PlaceInv'
    BY FifoKept, OwnKept, RoomKept DEF PlaceInv
  <1> QED
    BY <1>1, <1>2, Invariance, PTL DEF Spec

\* A batch holds nothing that was handled or given up before, no message twice
\* and none of another worker's: no retry, no aborted flush and no late
\* acknowledgement makes fn process a message again.
THEOREM NothingReplayed == Spec => []NoReplay
  <1>1. IInv /\ PlaceInv => NoReplay
    <2> SUFFICES ASSUME IInv, PlaceInv PROVE NoReplay
      OBVIOUS
    <2> QED
      BY DEF PlaceInv, OwnInv, OwnerInv, Own, NoReplay
  <1> QED
    BY <1>1, Invariance, PlaceInvariance, PTL

\* What the mark has jumped over is in the hands of a worker.
LEMMA LostIsHeld ==
    ASSUME IInv, FifoInv, NEW m \in (1..committed) \ settled
    PROVE  /\ committed \in settled
           /\ \E w \in Workers : m \in Own(w)
  <1> USE PlaceTypes
  <1>1. m \in Nat \ {0} /\ m <= committed
    OBVIOUS
  <1>2. committed \in settled
    BY <1>1 DEF FifoInv
  <1>3. /\ committed < next /\ \A n \in Range(taskCh) : committed < n
        /\ hand # 0 => committed < hand
    BY <1>2 DEF FifoInv, Taken
  <1>4. m \in 1..(next - 1)
    BY <1>1, <1>3
  <1>5. m \notin marked \cup Range(ackCh)
    BY DEF IInv, SettledInv
  <1>6. m \notin Range(taskCh) /\ m # hand
    BY <1>1, <1>3
  <1>7. PICK w \in Workers : m = cur[w] \/ m \in Pending(w)
    BY <1>4, <1>5, <1>6 DEF IInv, NothingLost
  <1>8. Pending(w) \subseteq Range(buf[w])
    <2>1. buf[w] \in Seq(Msgs) /\ acked[w] \in Nat
      BY DEF IInv, TypeOK
    <2>2. DOMAIN buf[w] = 1..Len(buf[w]) /\ (acked[w] + 1)..Len(buf[w]) \subseteq 1..Len(buf[w])
      BY <2>1
    <2> QED
      BY <2>2 DEF Pending, Range
  <1> QED
    BY <1>1, <1>2, <1>7, <1>8 DEF Own

\* The workers other than w0 hold at most a batch each.
LEMMA OthersHold ==
    ASSUME IInv, RoomInv, ~ctxDone, NEW w0 \in Workers
    PROVE  LET others == UNION {Own(w) : w \in Workers \ {w0}}
           IN  /\ IsFiniteSet(others)
               /\ Cardinality(others) <= (Cardinality(Workers) - 1) * BatchSize
  <1> USE PlaceTypes
  <1> DEFINE others == UNION {Own(w) : w \in Workers \ {w0}}
             places == (Workers \ {w0}) \X (1..BatchSize)
             held == [p \in places |-> IF p[2] <= Len(buf[p[1]]) THEN buf[p[1]][p[2]]
                                                                  ELSE cur[p[1]]]
             all == {held[p] : p \in places}
  <1>1. /\ IsFiniteSet(places)
        /\ Cardinality(places) = (Cardinality(Workers) - 1) * BatchSize
    <2>1. IsFiniteSet(Workers \ {w0}) /\ Cardinality(Workers \ {w0}) = Cardinality(Workers) - 1
      BY FS_RemoveElement
    <2>2. IsFiniteSet(1..BatchSize) /\ Cardinality(1..BatchSize) = BatchSize
      BY UpTo
    <2> QED
      BY <2>1, <2>2, FS_Product
  <1>2. others \subseteq all
    <2> SUFFICES ASSUME NEW w \in Workers \ {w0}, NEW m \in Own(w)
                 PROVE  \E p \in places : m = held[p]
      OBVIOUS
    <2>1. /\ Len(buf[w]) \in Nat /\ Len(buf[w]) <= BatchSize /\ BatchSize \in Nat \ {0}
          /\ wpc[w] = "badAck" => Len(buf[w]) < BatchSize
      BY DEF RoomInv
    <2>2. CASE m \in Range(buf[w])
      <3>1. PICK i \in 1..Len(buf[w]) : m = buf[w][i]
        BY <2>2 DEF Range
      <3>2. <<w, i>> \in places /\ i <= Len(buf[w])
        BY <2>1, <3>1
      <3>3. held[<<w, i>>] = m
        BY <3>1, <3>2
      <3> QED
        BY <3>2, <3>3
    <2>3. CASE m = cur[w] /\ m # 0
      <3>1. Len(buf[w]) < BatchSize
        BY <2>1, <2>3
      <3>2. <<w, BatchSize>> \in places /\ ~(BatchSize <= Len(buf[w]))
        BY <2>1, <3>1
      <3>3. held[<<w, BatchSize>>] = m
        BY <2>3, <3>2
      <3> QED
        BY <3>2, <3>3
    <2> QED
      BY <2>2, <2>3 DEF Own
  <1>3. IsFiniteSet(all) /\ Cardinality(all) <= Cardinality(places)
    <2>1. held \in Surjection(places, all)
      BY DEF Surjection
    <2> HIDE DEF held, places, all
    <2> QED
      BY <1>1, <2>1, FS_Surjection
  <1> HIDE DEF all, places, others
  <1>4. /\ IsFiniteSet(others) /\ Cardinality(others) <= Cardinality(all)
        /\ Cardinality(others) \in Nat /\ Cardinality(all) \in Nat /\ Cardinality(places) \in Nat
    BY <1>1, <1>2, <1>3, FS_Subset, FS_CardinalityType
  <1>5. Cardinality(others) <= Cardinality(places)
    BY <1>3, <1>4
  <1> QED
    BY <1>1, <1>4, <1>5 DEF others

\* What a crash can lose, for every number of workers and every batch size:
\* sarama's mark jumps over what the workers hold, at most a batch for each of
\* the others and less than one for the worker that moved the mark.
THEOREM CrashesLoseLittle == Spec => []CrashLossBounded
  <1>1. IInv /\ PlaceInv => CrashLossBounded
    <2> SUFFICES ASSUME IInv, PlaceInv PROVE CrashLossBounded
      OBVIOUS
    <2> USE PlaceTypes DEF PlaceInv
    <2> DEFINE lost == (1..committed) \ settled
               ofOthers == (Cardinality(Workers) - 1) * BatchSize
    <2>1. \A m \in lost : \E w \in Workers : m = cur[w] \/ m \in Range(buf[w])
      BY LostIsHeld DEF Own
    <2>2. ItsOwn \in Nat /\ ofOthers \in Nat
      <3>1. Cardinality(Workers) \in Nat /\ Cardinality(Workers) # 0 /\ BatchSize \in Nat
        BY FS_CardinalityType, FS_EmptySet
      <3>2. Cardinality(Workers) - 1 \in Nat
        BY <3>1
      <3> QED
        BY <3>1, <3>2 DEF ItsOwn
    <2>3. ASSUME ~ctxDone
          PROVE  Cardinality(lost) <= ofOthers + ItsOwn
      <3>1. CASE lost = {}
        <4>1. Cardinality(lost) = 0
          BY <3>1, FS_EmptySet
        <4> HIDE DEF lost, ofOthers
        <4> QED
          BY <2>2, <4>1
      <3>2. CASE lost # {}
        <4>1. committed \in settled
          BY <3>2, LostIsHeld
        <4>2. PICK w0 \in Workers : Cardinality(Below(w0, committed)) <= ItsOwn
          BY <2>3, <4>1 DEF RoomInv
        <4> DEFINE others == UNION {Own(w) : w \in Workers \ {w0}}
                   mine == Below(w0, committed)
        <4>3. IsFiniteSet(others) /\ Cardinality(others) <= ofOthers
          BY <2>3, OthersHold
        <4>4. lost \subseteq others \cup mine
          <5> SUFFICES ASSUME NEW m \in lost, m \notin others
                       PROVE  m \in mine
            OBVIOUS
          <5>1. m \in Own(w0)
            BY LostIsHeld
          <5>2. m < committed
            BY <4>1
          <5> QED
            BY <5>1, <5>2 DEF Below
        <4> HIDE DEF lost, others, mine, ofOthers
        <4>5. IsFiniteSet(mine) /\ Cardinality(mine) \in Nat
          BY BelowFinite DEF mine
        <4>6. /\ IsFiniteSet(others \cup mine)
              /\ Cardinality(others \cup mine)
                    = Cardinality(others) + Cardinality(mine) - Cardinality(others \cap mine)
          BY <4>3, <4>5, FS_Union
        <4>7. /\ Cardinality(others) \in Nat /\ Cardinality(others \cap mine) \in Nat
              /\ Cardinality(lost) <= Cardinality(others \cup mine)
              /\ Cardinality(lost) \in Nat
          BY <4>3, <4>4, <4>6, FS_CardinalityType, FS_Intersection, FS_Subset
        <4> QED
          BY <2>2, <4>2, <4>3, <4>5, <4>6, <4>7 DEF mine
      <3> QED
        BY <3>1, <3>2
    <2> QED
      BY <2>1, <2>3 DEF CrashLossBounded, ItsOwn
  <1> QED
    BY <1>1, Invariance, PlaceInvariance, PTL
=============================================================================
