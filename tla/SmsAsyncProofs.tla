---------------------------- MODULE SmsAsyncProofs ----------------------------
(***************************************************************************)
(* The async_sms table, for any number of requests, instances, retries and *)
(* lost rounds.  A loop's row is waiting and inside its 30 seconds, so no  *)
(* SELECT finds it; from this follow the one holder, the count of retries  *)
(* and that a recorded outcome stays.                                      *)
(***************************************************************************)
EXTENDS SmsAsync, TLAPS

Caller(s) == Add(s) \/ NeedAsync(s) \/ SendNow(s)

NodeStep(n) ==
    \/ Take(n) \/ TakeLost(n)
    \/ SendAnswered(n) \/ SendTimesOut(n)
    \/ Report(n) \/ ReportLost(n)
    \/ Crash(n) \/ Restart(n)

\* What a loop knows of its row.
HolderInv ==
    \A n \in Nodes :
        /\ held[n] # 0 <=> pc[n] \in {"sending", "sent", "notSent"}
        /\ held[n] # 0 =>
              /\ row[held[n]] = "waiting"
              /\ fresh[held[n]]
              /\ retry[held[n]] >= 1
              /\ pc[n] = "sent" => held[n] \in sent

Exclusive == \A m, n \in Nodes : held[m] # 0 /\ held[n] = held[m] => n = m

\* A row begins with its request, and nobody takes it before.
RowInv ==
    \A s \in Sms :
        /\ req[s] = "none" => row[s] = "absent"
        /\ row[s] = "absent" => retry[s] = 0

\* A waiting row in nobody's hands has a retry left, lost rounds aside.
RetryInv ==
    \A s \in Sms :
        /\ retry[s] <= RetryMax + lost[s]
        /\ row[s] = "waiting" /\ (\A n \in Nodes : held[n] # s) =>
              retry[s] < RetryMax + lost[s]

SafeInv == HolderInv /\ Exclusive /\ RowInv /\ RetryInv /\ OutcomeEarned

LEMMA NextSplit ==
    ASSUME Next
    PROVE  \/ \E s \in Sms : Caller(s) \/ Elapse(s)
           \/ \E n \in Nodes : NodeStep(n)
  BY DEF Next, Loop, Caller, NodeStep

-----------------------------------------------------------------------------
(* Types.                                                                  *)

LEMMA InitType == Init => TypeOK
  BY NumSmsAssumption, MaxLostAssumption DEF Init, TypeOK, Sms

LEMMA LostType ==
    ASSUME TypeOK, NEW s \in Sms, LoseRound(s)
    PROVE  lost' \in [Sms -> 0..MaxLost]
  BY MaxLostAssumption DEF TypeOK, LoseRound

LEMMA CallerType ==
    ASSUME TypeOK, NEW s \in Sms, Caller(s) \/ Elapse(s)
    PROVE  TypeOK'
  <1>1. CASE Add(s)
    BY <1>1 DEF Add, TypeOK, Sms
  <1>2. CASE NeedAsync(s)
    BY <1>2 DEF NeedAsync, TypeOK, Sms, table
  <1>3. CASE SendNow(s)
    BY <1>3 DEF SendNow, TypeOK, Sms, table
  <1>4. CASE Elapse(s)
    BY <1>4 DEF Elapse, TypeOK, Sms
  <1> QED
    BY <1>1, <1>2, <1>3, <1>4 DEF Caller

\* The row a busy loop holds is a row.
LEMMA HeldIsSms ==
    ASSUME TypeOK, HolderInv, NEW n \in Nodes,
           pc[n] \in {"sending", "sent", "notSent"}
    PROVE  held[n] \in Sms
  BY NumSmsAssumption DEF TypeOK, HolderInv, Sms

LEMMA NodeType ==
    ASSUME TypeOK, HolderInv, NEW n \in Nodes, NodeStep(n)
    PROVE  TypeOK'
  <1>1. CASE Take(n)
    <2>1. PICK s \in Sms : Preempt(s) /\ held' = [held EXCEPT ![n] = s]
      BY <1>1 DEF Take
    <2> QED
      BY <2>1, <1>1, NumSmsAssumption DEF Take, Preempt, TypeOK, Sms
  <1>2. CASE TakeLost(n)
    <2>1. PICK s \in Sms : Preempt(s) /\ LoseRound(s)
      BY <1>2 DEF TakeLost
    <2>2. lost' \in [Sms -> 0..MaxLost]
      BY <2>1, LostType
    <2>3. retry' \in [Sms -> Nat] /\ fresh' \in [Sms -> BOOLEAN] /\ row' = row
      BY <2>1 DEF Preempt, TypeOK
    <2> QED
      BY <2>2, <2>3, <1>2 DEF TakeLost, TypeOK
  <1>3. CASE SendAnswered(n)
    <2>1. held[n] \in Sms
      BY <1>3, HeldIsSms DEF SendAnswered
    <2> QED
      BY <2>1, <1>3 DEF SendAnswered, TypeOK, table
  <1>4. CASE SendTimesOut(n)
    <2>1. held[n] \in Sms
      BY <1>4, HeldIsSms DEF SendTimesOut
    <2>2. lost' \in [Sms -> 0..MaxLost]
      BY <2>1, <1>4, LostType DEF SendTimesOut
    <2> QED
      BY <2>1, <2>2, <1>4, NumSmsAssumption DEF SendTimesOut, Release, TypeOK, table
  <1>5. CASE Report(n)
    <2>1. held[n] \in Sms
      BY <1>5, HeldIsSms DEF Report
    <2>2. MarkSuccess(held[n]) \/ MarkFailed(held[n])
      BY <1>5 DEF Report
    <2>3. /\ row' \in [Sms -> {"absent", "waiting", "failed", "success"}]
          /\ retry' \in [Sms -> Nat]
          /\ fresh' \in [Sms -> BOOLEAN]
      BY <2>1, <2>2 DEF MarkSuccess, MarkFailed, table, TypeOK
    <2> QED
      BY <2>3, <1>5, NumSmsAssumption DEF Report, Release, TypeOK
  <1>6. CASE ReportLost(n)
    <2>1. held[n] \in Sms
      BY <1>6, HeldIsSms DEF ReportLost
    <2>2. lost' \in [Sms -> 0..MaxLost]
      BY <2>1, <1>6, LostType DEF ReportLost
    <2> QED
      BY <2>2, <1>6, NumSmsAssumption DEF ReportLost, Release, TypeOK, table
  <1>7. CASE Crash(n)
    <2>1. lost' \in [Sms -> 0..MaxLost]
      <3>1. CASE held[n] = 0
        BY <3>1, <1>7 DEF Crash, TypeOK
      <3>2. CASE held[n] # 0
        <4>1. held[n] \in Sms
          BY <3>2, NumSmsAssumption DEF TypeOK, Sms
        <4> QED
          BY <4>1, <3>2, <1>7, LostType DEF Crash
      <3> QED
        BY <3>1, <3>2
    <2> QED
      BY <2>1, <1>7, NumSmsAssumption DEF Crash, TypeOK, table
  <1>8. CASE Restart(n)
    BY <1>8 DEF Restart, TypeOK, table
  <1> QED
    BY <1>1, <1>2, <1>3, <1>4, <1>5, <1>6, <1>7, <1>8 DEF NodeStep

-----------------------------------------------------------------------------
(* The invariant.                                                          *)

LEMMA InitSafe == Init => SafeInv
  BY NumSmsAssumption, RetryMaxAssumption
  DEF Init, SafeInv, HolderInv, Exclusive, RowInv, RetryInv, OutcomeEarned, Sms

LEMMA CallerSafe ==
    ASSUME TypeOK, SafeInv, NEW s \in Sms, Caller(s) \/ Elapse(s)
    PROVE  SafeInv'
  <1>1. CASE Add(s)
    <2>1. row[s] = "absent" /\ retry[s] = 0
      BY <1>1 DEF Add, SafeInv, RowInv
    <2>2. \A n \in Nodes : held[n] # s
      BY <2>1 DEF SafeInv, HolderInv, Sms
    <2>3. \A t \in Sms : t # s => row'[t] = row[t] /\ req'[t] = req[t]
      BY <1>1 DEF Add, TypeOK
    <2>4. req'[s] = "added" /\ row'[s] \in {"absent", "waiting"}
      BY <1>1, <2>1 DEF Add, TypeOK
    <2>5. UNCHANGED <<retry, fresh, pc, held, sent, lost>>
      BY <1>1 DEF Add
    <2>6. HolderInv' /\ Exclusive'
      BY <2>2, <2>3, <2>5, NumSmsAssumption DEF SafeInv, HolderInv, Exclusive, TypeOK, Sms
    <2>7. RowInv' /\ OutcomeEarned'
      BY <2>1, <2>3, <2>4, <2>5 DEF SafeInv, RowInv, OutcomeEarned
    <2>8. RetryInv'
      BY <2>1, <2>3, <2>4, <2>5, RetryMaxAssumption, MaxLostAssumption DEF SafeInv, RetryInv, TypeOK
    <2> QED
      BY <2>6, <2>7, <2>8 DEF SafeInv
  <1>2. CASE NeedAsync(s)
    BY <1>2 DEF NeedAsync, table, TypeOK, SafeInv, HolderInv, Exclusive, RowInv, RetryInv, OutcomeEarned
  <1>3. CASE SendNow(s)
    BY <1>3 DEF SendNow, table, TypeOK, SafeInv, HolderInv, Exclusive, RowInv, RetryInv, OutcomeEarned
  <1>4. CASE Elapse(s)
    BY <1>4, NumSmsAssumption
    DEF Elapse, TypeOK, Sms, SafeInv, HolderInv, Exclusive, RowInv, RetryInv, OutcomeEarned
  <1> QED
    BY <1>1, <1>2, <1>3, <1>4 DEF Caller

\* What the SELECT of a preemption finds is in nobody's hands.
LEMMA PreemptedIsFree ==
    ASSUME TypeOK, SafeInv, NEW s \in Sms, Preempt(s)
    PROVE  /\ row[s] = "waiting"
           /\ \A n \in Nodes : held[n] # s
           /\ retry[s] < RetryMax + lost[s]
           /\ retry' = [retry EXCEPT ![s] = @ + 1]
           /\ fresh' = [fresh EXCEPT ![s] = TRUE]
           /\ row' = row
  <1>1. row[s] = "waiting" /\ ~fresh[s]
    BY DEF Preempt, IsFirst, Preemptable
  <1>2. s # 0
    BY DEF Sms
  <1>3. \A n \in Nodes : held[n] # s
    BY <1>1, <1>2 DEF SafeInv, HolderInv
  <1> QED
    BY <1>1, <1>3 DEF Preempt, SafeInv, RetryInv

LEMMA TakeSafe ==
    ASSUME TypeOK, SafeInv, NEW n \in Nodes, Take(n)
    PROVE  SafeInv'
  <1>1. PICK s \in Sms : Preempt(s) /\ held' = [held EXCEPT ![n] = s]
    BY DEF Take
  <1>2. /\ row[s] = "waiting"
        /\ \A m \in Nodes : held[m] # s
        /\ retry[s] < RetryMax + lost[s]
        /\ retry' = [retry EXCEPT ![s] = @ + 1]
        /\ fresh' = [fresh EXCEPT ![s] = TRUE]
        /\ row' = row
    BY <1>1, PreemptedIsFree
  <1>3. /\ pc' = [pc EXCEPT ![n] = "sending"]
        /\ UNCHANGED <<req, sent, lost>>
    BY DEF Take
  <1>4. s \in Nat \ {0} /\ held'[n] = s /\ \A m \in Nodes : m # n => held'[m] = held[m]
    BY <1>1, NumSmsAssumption DEF TypeOK, Sms
  <1>5. /\ retry'[s] = retry[s] + 1
        /\ \A t \in Sms : t # s => retry'[t] = retry[t] /\ fresh'[t] = fresh[t]
        /\ fresh'[s] /\ retry[s] \in Nat
    BY <1>2 DEF TypeOK
  <1>6. HolderInv'
    BY <1>2, <1>3, <1>4, <1>5, NumSmsAssumption DEF SafeInv, HolderInv, TypeOK, Sms
  <1>7. Exclusive'
    BY <1>2, <1>4 DEF SafeInv, Exclusive
  <1>8. RowInv' /\ OutcomeEarned'
    BY <1>2, <1>3, <1>5 DEF SafeInv, RowInv, OutcomeEarned
  <1>9. RetryInv'
    <2>1. retry'[s] <= RetryMax + lost'[s]
      BY <1>2, <1>3, <1>5, RetryMaxAssumption, MaxLostAssumption DEF TypeOK
    <2>2. \A t \in Sms : t # s =>
             ((\A m \in Nodes : held'[m] # t) => (\A m \in Nodes : held[m] # t))
      <3>1. held[n] = 0
        BY DEF Take, SafeInv, HolderInv
      <3> QED
        BY <3>1, <1>4 DEF Sms
    <2> QED
      BY <2>1, <2>2, <1>2, <1>3, <1>4, <1>5 DEF SafeInv, RetryInv
  <1> QED
    BY <1>6, <1>7, <1>8, <1>9 DEF SafeInv

LEMMA TakeLostSafe ==
    ASSUME TypeOK, SafeInv, NEW n \in Nodes, TakeLost(n)
    PROVE  SafeInv'
  <1>1. PICK s \in Sms : Preempt(s) /\ LoseRound(s)
    BY DEF TakeLost
  <1>2. /\ row[s] = "waiting"
        /\ \A m \in Nodes : held[m] # s
        /\ retry[s] < RetryMax + lost[s]
        /\ retry' = [retry EXCEPT ![s] = @ + 1]
        /\ fresh' = [fresh EXCEPT ![s] = TRUE]
        /\ row' = row
    BY <1>1, PreemptedIsFree
  <1>3. UNCHANGED <<req, pc, held, sent>>
    BY DEF TakeLost
  <1>4. /\ retry'[s] = retry[s] + 1 /\ lost'[s] = lost[s] + 1
        /\ \A t \in Sms : t # s =>
              retry'[t] = retry[t] /\ fresh'[t] = fresh[t] /\ lost'[t] = lost[t]
        /\ retry[s] \in Nat /\ lost[s] \in Nat
    BY <1>1, <1>2, MaxLostAssumption DEF TypeOK, LoseRound
  <1>5. HolderInv' /\ Exclusive'
    BY <1>2, <1>3, <1>4, NumSmsAssumption DEF SafeInv, HolderInv, Exclusive, TypeOK, Sms
  <1>6. RowInv' /\ OutcomeEarned'
    BY <1>2, <1>3, <1>4 DEF SafeInv, RowInv, OutcomeEarned
  <1>7. RetryInv'
    BY <1>2, <1>3, <1>4, RetryMaxAssumption DEF SafeInv, RetryInv
  <1> QED
    BY <1>5, <1>6, <1>7 DEF SafeInv

LEMMA SendAnsweredSafe ==
    ASSUME TypeOK, SafeInv, NEW n \in Nodes, SendAnswered(n)
    PROVE  SafeInv'
  <1>1. UNCHANGED <<req, row, retry, fresh, held, lost>> /\ sent \subseteq sent'
    BY DEF SendAnswered, table
  <1>2. /\ pc'[n] \in {"sent", "notSent"} /\ \A m \in Nodes : m # n => pc'[m] = pc[m]
        /\ pc'[n] = "sent" => held[n] \in sent'
    BY DEF SendAnswered, TypeOK
  <1>3. HolderInv'
    BY <1>1, <1>2 DEF SendAnswered, SafeInv, HolderInv
  <1>4. Exclusive' /\ RowInv' /\ RetryInv' /\ OutcomeEarned'
    BY <1>1 DEF SafeInv, Exclusive, RowInv, RetryInv, OutcomeEarned
  <1> QED
    BY <1>3, <1>4 DEF SafeInv

\* A round that ends without a report: its row stays as it is, and may be
\* taken again for this lost round.
LEMMA LostRoundSafe ==
    ASSUME TypeOK, SafeInv, NEW n \in Nodes, held[n] # 0, LoseRound(held[n]),
           UNCHANGED <<req, row, retry, fresh>>,
           sent \subseteq sent',
           held' = [held EXCEPT ![n] = 0],
           NEW p \in {"idle", "down"}, pc' = [pc EXCEPT ![n] = p]
    PROVE  SafeInv'
  <1>1. held[n] \in Sms
    BY NumSmsAssumption DEF TypeOK, Sms
  <1>2. /\ lost'[held[n]] = lost[held[n]] + 1
        /\ \A t \in Sms : t # held[n] => lost'[t] = lost[t]
        /\ \A t \in Sms : retry[t] \in Nat /\ lost[t] \in Nat
    BY <1>1, MaxLostAssumption DEF LoseRound, TypeOK
  <1>3. /\ held'[n] = 0 /\ pc'[n] = p
        /\ \A m \in Nodes : m # n => held'[m] = held[m] /\ pc'[m] = pc[m]
    BY DEF TypeOK
  <1>4. HolderInv'
    BY <1>3 DEF SafeInv, HolderInv
  <1>5. Exclusive'
    BY <1>3 DEF SafeInv, Exclusive
  <1>6. RowInv' /\ OutcomeEarned'
    BY DEF SafeInv, RowInv, OutcomeEarned
  <1>7. RetryInv'
    BY <1>1, <1>2, <1>3, RetryMaxAssumption DEF SafeInv, RetryInv
  <1> QED
    BY <1>4, <1>5, <1>6, <1>7 DEF SafeInv

LEMMA ReportSafe ==
    ASSUME TypeOK, SafeInv, NEW n \in Nodes, Report(n)
    PROVE  SafeInv'
  <1> DEFINE s == held[n]
  <1>1. s \in Sms /\ s # 0
    BY HeldIsSms DEF Report, SafeInv, HolderInv
  <1>2. row[s] = "waiting" /\ fresh[s] /\ retry[s] >= 1 /\ (pc[n] = "sent" => s \in sent)
    BY <1>1 DEF SafeInv, HolderInv
  <1>3. \A m \in Nodes : m # n => held[m] # s
    BY <1>1 DEF SafeInv, Exclusive
  <1>4. /\ held'[n] = 0 /\ pc'[n] = "idle"
        /\ \A m \in Nodes : m # n => held'[m] = held[m] /\ pc'[m] = pc[m]
        /\ UNCHANGED <<req, sent, lost>>
    BY DEF Report, Release, TypeOK
  <1>5. /\ retry' = retry
        /\ \A t \in Sms : t # s => row'[t] = row[t] /\ fresh'[t] = fresh[t]
    BY <1>1 DEF Report, MarkSuccess, MarkFailed, table, TypeOK
  <1>6. \/ row'[s] = "success" /\ s \in sent
        \/ row'[s] = "failed" /\ retry[s] >= RetryMax
        \/ row'[s] = "waiting" /\ retry[s] < RetryMax
    <2>1. CASE pc[n] = "sent" /\ MarkSuccess(s)
      BY <2>1, <1>1, <1>2 DEF MarkSuccess, TypeOK
    <2>2. CASE MarkFailed(s)
      BY <2>2, <1>1, <1>2, RetryMaxAssumption DEF MarkFailed, table, TypeOK
    <2> QED
      BY <2>1, <2>2 DEF Report
  <1>7. HolderInv'
    BY <1>3, <1>4, <1>5, NumSmsAssumption DEF SafeInv, HolderInv, TypeOK, Sms
  <1>8. Exclusive'
    BY <1>4 DEF SafeInv, Exclusive
  <1>9. RowInv' /\ OutcomeEarned'
    BY <1>2, <1>4, <1>5, <1>6 DEF SafeInv, RowInv, OutcomeEarned
  <1>10. RetryInv'
    <2>1. \A t \in Sms : retry[t] \in Nat /\ lost[t] \in Nat
      BY MaxLostAssumption DEF TypeOK
    <2> QED
      BY <2>1, <1>1, <1>4, <1>5, <1>6, RetryMaxAssumption DEF SafeInv, RetryInv
  <1> QED
    BY <1>7, <1>8, <1>9, <1>10 DEF SafeInv

LEMMA NodeSafe ==
    ASSUME TypeOK, SafeInv, NEW n \in Nodes, NodeStep(n)
    PROVE  SafeInv'
  <1>1. CASE SendTimesOut(n)
    <2>1. held[n] # 0
      BY <1>1 DEF SendTimesOut, SafeInv, HolderInv
    <2> QED
      BY <2>1, <1>1, LostRoundSafe DEF SendTimesOut, Release, table
  <1>2. CASE ReportLost(n)
    <2>1. held[n] # 0
      BY <1>2 DEF ReportLost, SafeInv, HolderInv
    <2> QED
      BY <2>1, <1>2, LostRoundSafe DEF ReportLost, Release, table
  <1>3. CASE Crash(n)
    <2>1. CASE held[n] # 0
      BY <2>1, <1>3, LostRoundSafe DEF Crash, table
    <2>2. CASE held[n] = 0
      BY <2>2, <1>3
      DEF Crash, table, TypeOK, SafeInv, HolderInv, Exclusive, RowInv, RetryInv, OutcomeEarned
    <2> QED
      BY <2>1, <2>2
  <1>4. CASE Restart(n)
    BY <1>4
    DEF Restart, table, TypeOK, SafeInv, HolderInv, Exclusive, RowInv, RetryInv, OutcomeEarned
  <1> QED
    BY <1>1, <1>2, <1>3, <1>4, TakeSafe, TakeLostSafe, SendAnsweredSafe, ReportSafe DEF NodeStep

LEMMA SafeNext ==
    ASSUME TypeOK, SafeInv, [Next]_vars
    PROVE  TypeOK' /\ SafeInv'
  <1>1. CASE UNCHANGED vars
    BY <1>1
    DEF vars, table, TypeOK, SafeInv, HolderInv, Exclusive, RowInv, RetryInv, OutcomeEarned
  <1>2. CASE Next
    BY <1>2, NextSplit, CallerType, NodeType, CallerSafe, NodeSafe DEF SafeInv
  <1> QED
    BY <1>1, <1>2

LEMMA AlwaysSafe == Spec => [](TypeOK /\ SafeInv)
  <1>1. Init => TypeOK /\ SafeInv
    BY InitType, InitSafe
  <1>2. (TypeOK /\ SafeInv) /\ [Next]_vars => (TypeOK /\ SafeInv)'
    BY SafeNext
  <1> QED
    BY <1>1, <1>2, PTL DEF Spec

-----------------------------------------------------------------------------
(* Theorems.                                                               *)

\* The type invariant.
THEOREM TypeCorrect == Spec => []TypeOK
  BY AlwaysSafe, PTL

\* No two instances hold the same row, and a settled row is nobody's.
THEOREM HolderIsAlone == Spec => []OneHolder
  <1>1. SafeInv => OneHolder
    BY DEF SafeInv, HolderInv, Exclusive, OneHolder
  <1> QED
    BY <1>1, AlwaysSafe, PTL

\* RetryMax is exceeded by lost rounds only.
THEOREM RetriesAreAccounted == Spec => []RetriesAccounted
  <1>1. SafeInv => RetriesAccounted
    BY DEF SafeInv, RetryInv, RetriesAccounted
  <1> QED
    BY <1>1, AlwaysSafe, PTL

\* A recorded outcome was earned.
THEOREM OutcomeIsEarned == Spec => []OutcomeEarned
  <1>1. SafeInv => OutcomeEarned
    BY DEF SafeInv
  <1> QED
    BY <1>1, AlwaysSafe, PTL

\* A recorded outcome stays.
THEOREM SettledIsFinal == Spec => SettledForGood
  <1>1. ASSUME TypeOK, SafeInv, [Next]_vars,
               NEW s \in Sms, row[s] \in {"failed", "success"}
        PROVE  row'[s] = row[s] /\ retry'[s] = retry[s]
    <2>1. CASE UNCHANGED vars
      BY <2>1 DEF vars, table
    <2>2. ASSUME NEW t \in Sms, Caller(t) \/ Elapse(t)
          PROVE  row'[s] = row[s] /\ retry'[s] = retry[s]
      <3>1. CASE Add(t)
        <4>1. t # s
          BY <3>1, <1>1 DEF Add, SafeInv, RowInv
        <4> QED
          BY <4>1, <3>1, <1>1 DEF Add, TypeOK
      <3> QED
        BY <3>1, <2>2 DEF Caller, NeedAsync, SendNow, Elapse, table
    <2>3. ASSUME NEW n \in Nodes, NodeStep(n)
          PROVE  row'[s] = row[s] /\ retry'[s] = retry[s]
      <3>1. CASE Report(n)
        <4>1. held[n] \in Sms /\ held[n] # s
          BY <3>1, <1>1, HeldIsSms DEF Report, SafeInv, HolderInv
        <4> QED
          BY <4>1, <3>1, <1>1 DEF Report, MarkSuccess, MarkFailed, table, TypeOK
      <3>2. ASSUME NEW t \in Sms, Preempt(t) PROVE row'[s] = row[s] /\ retry'[s] = retry[s]
        BY <3>2, <1>1, PreemptedIsFree DEF TypeOK
      <3> QED
        BY <3>1, <3>2, <2>3
        DEF NodeStep, Take, TakeLost, SendAnswered, SendTimesOut, ReportLost, Crash, Restart, table
    <2> QED
      BY <2>1, <2>2, <2>3, <1>1, NextSplit
  <1>2. TypeOK /\ SafeInv /\ [Next]_vars =>
            [\A s \in Sms : row[s] \in {"failed", "success"} =>
                row'[s] = row[s] /\ retry'[s] = retry[s]]_vars
    BY <1>1
  <1> QED
    BY <1>2, AlwaysSafe, PTL DEF Spec, SettledForGood
=============================================================================
