------------------------------- MODULE SmsAsync -------------------------------
(***************************************************************************)
(* sms/service/async: every request is written to the async_sms table and  *)
(* then either sent at once or left to the background loops.  Each         *)
(* instance runs one loop: it preempts a waiting row in a transaction      *)
(* (SELECT ... FOR UPDATE, utime and retry_cnt updated), calls the         *)
(* provider, and reports the outcome to the table.                         *)
(*                                                                         *)
(* Time is abstracted to one bit per row: fresh[s] says that utime is less *)
(* than 30 seconds old.  A loop gives the provider and the report one      *)
(* second together, so a row does not leave this window while a live loop  *)
(* holds it; this is the only timing assumption.                           *)
(***************************************************************************)
EXTENDS Integers, FiniteSets

CONSTANTS
    NumSms,    \* bound: requests, and so rows; a row's id is its request
    Nodes,     \* instances, one loop each
    RetryMax,  \* RetryMax of every request
    MaxLost    \* bound: rounds per row whose report never reaches the table

ASSUME NumSmsAssumption == NumSms \in Nat
ASSUME RetryMaxAssumption == RetryMax \in Nat \ {0}
ASSUME MaxLostAssumption == MaxLost \in Nat

VARIABLES
    req,    \* where Service.Send is for each request
    row,    \* the row's status, "absent" if there is none
    retry,  \* retry_cnt
    fresh,  \* utime is at most 30 s old
    pc,     \* where each loop is
    held,   \* the row a loop has preempted, 0 if none
    sent,   \* history: rows a loop's provider has accepted
    lost    \* history: rounds of a row that ended without a report

table == <<row, retry, fresh>>
vars == <<req, row, retry, fresh, pc, held, sent, lost>>

Sms == 1..NumSms

TypeOK ==
    /\ req \in [Sms -> {"none", "added", "direct", "async", "ok", "err"}]
    /\ row \in [Sms -> {"absent", "waiting", "failed", "success"}]
    /\ retry \in [Sms -> Nat]
    /\ fresh \in [Sms -> BOOLEAN]
    /\ pc \in [Nodes -> {"idle", "sending", "sent", "notSent", "down"}]
    /\ held \in [Nodes -> 0..NumSms]
    /\ sent \subseteq Sms
    /\ lost \in [Sms -> 0..MaxLost]

Init ==
    /\ req = [s \in Sms |-> "none"]
    /\ row = [s \in Sms |-> "absent"]
    /\ retry = [s \in Sms |-> 0]
    /\ fresh = [s \in Sms |-> FALSE]
    /\ pc = [n \in Nodes |-> "idle"]
    /\ held = [n \in Nodes |-> 0]
    /\ sent = {}
    /\ lost = [s \in Sms |-> 0]

-----------------------------------------------------------------------------
(* Service.Send, one goroutine per request.                                *)

\* repo.Add: Insert sets no utime, so the row can be preempted at once.  The
\* error of a failed insert is overwritten before anyone reads it.
Add(s) ==
    /\ req[s] = "none"
    /\ \A t \in 1..(s - 1) : req[t] # "none"
    /\ req' = [req EXCEPT ![s] = "added"]
    /\ row' \in {row, [row EXCEPT ![s] = "waiting"]}
    /\ UNCHANGED <<retry, fresh, pc, held, sent, lost>>

\* needAsync: the limiter decides; its error counts as "not limited".
NeedAsync(s) ==
    /\ req[s] = "added"
    /\ \E flag \in {"async", "direct"} : req' = [req EXCEPT ![s] = flag]
    /\ UNCHANGED <<table, pc, held, sent, lost>>

\* The synchronous call of the provider; the row is not touched.
SendNow(s) ==
    /\ req[s] = "direct"
    /\ \E answer \in {"ok", "err"} : req' = [req EXCEPT ![s] = answer]
    /\ UNCHANGED <<table, pc, held, sent, lost>>

-----------------------------------------------------------------------------
(* The loops.                                                              *)

\* Mutant of Preemptable: the SELECT forgets the status.
PreemptableAnyStatus(s) == row[s] # "absent" /\ ~fresh[s]

Preemptable(s) == row[s] = "waiting" /\ ~fresh[s]

\* First orders by the primary key.
IsFirst(s) == Preemptable(s) /\ \A t \in 1..(s - 1) : ~Preemptable(t)

\* Mutant of Preempt: utime is left alone.
PreemptWithoutUtime(s) ==
    /\ IsFirst(s)
    /\ retry' = [retry EXCEPT ![s] = @ + 1]
    /\ UNCHANGED <<row, fresh>>

\* Mutant of Preempt: the retries are counted down.
PreemptCountsDown(s) ==
    /\ IsFirst(s)
    /\ retry' = [retry EXCEPT ![s] = @ - 1]
    /\ fresh' = [fresh EXCEPT ![s] = TRUE]
    /\ UNCHANGED row

\* Mutant of Preempt: the SELECT also asks for retry_cnt < retry_max.
PreemptBelowMax(s) ==
    /\ IsFirst(s)
    /\ retry[s] < RetryMax
    /\ retry' = [retry EXCEPT ![s] = @ + 1]
    /\ fresh' = [fresh EXCEPT ![s] = TRUE]
    /\ UNCHANGED row

\* The transaction of GetWaitingSMS.
Preempt(s) ==
    /\ IsFirst(s)
    /\ retry' = [retry EXCEPT ![s] = @ + 1]
    /\ fresh' = [fresh EXCEPT ![s] = TRUE]
    /\ UNCHANGED row

Take(n) ==
    /\ pc[n] = "idle"
    /\ \E s \in Sms : Preempt(s) /\ held' = [held EXCEPT ![n] = s]
    /\ pc' = [pc EXCEPT ![n] = "sending"]
    /\ UNCHANGED <<req, sent, lost>>

\* A round of row s ends without a word to the table.
LoseRound(s) ==
    /\ lost[s] < MaxLost
    /\ lost' = [lost EXCEPT ![s] = @ + 1]

\* The transaction commits but the loop sees an error: it only sleeps.
TakeLost(n) ==
    /\ pc[n] = "idle"
    /\ \E s \in Sms : Preempt(s) /\ LoseRound(s)
    /\ UNCHANGED <<req, pc, held, sent>>

\* The provider's answer in time.  After an error the message may be out all
\* the same.
SendAnswered(n) ==
    /\ pc[n] = "sending"
    /\ \/ /\ pc' = [pc EXCEPT ![n] = "sent"]
          /\ sent' = sent \cup {held[n]}
       \/ /\ pc' = [pc EXCEPT ![n] = "notSent"]
          /\ sent' \in {sent, sent \cup {held[n]}}
    /\ UNCHANGED <<req, table, held, lost>>

Release(n) ==
    /\ pc' = [pc EXCEPT ![n] = "idle"]
    /\ held' = [held EXCEPT ![n] = 0]

\* The provider's answer runs into the timeout of ctx.  The report uses the
\* same ctx, so it fails without reaching the table.
SendTimesOut(n) ==
    /\ pc[n] = "sending"
    /\ LoseRound(held[n])
    /\ sent' \in {sent, sent \cup {held[n]}}
    /\ Release(n)
    /\ UNCHANGED <<req, table>>

MarkSuccess(s) ==
    /\ row' = [row EXCEPT ![s] = "success"]
    /\ fresh' = [fresh EXCEPT ![s] = TRUE]
    /\ UNCHANGED retry

\* Mutant of MarkFailed: a failure is final whatever retry_cnt says.
MarkFailedAtOnce(s) ==
    /\ row' = [row EXCEPT ![s] = "failed"]
    /\ fresh' = [fresh EXCEPT ![s] = TRUE]
    /\ UNCHANGED retry

\* Mutant of MarkFailed: the last retry is not the last.
MarkFailedLate(s) ==
    IF retry[s] > RetryMax
    THEN /\ row' = [row EXCEPT ![s] = "failed"]
         /\ fresh' = [fresh EXCEPT ![s] = TRUE]
         /\ UNCHANGED retry
    ELSE UNCHANGED table

\* The UPDATE matches the row only when its retries are used up.
MarkFailed(s) ==
    IF retry[s] >= RetryMax
    THEN /\ row' = [row EXCEPT ![s] = "failed"]
         /\ fresh' = [fresh EXCEPT ![s] = TRUE]
         /\ UNCHANGED retry
    ELSE UNCHANGED table

Report(n) ==
    /\ \/ pc[n] = "sent" /\ MarkSuccess(held[n])
       \/ pc[n] = "notSent" /\ MarkFailed(held[n])
    /\ Release(n)
    /\ UNCHANGED <<req, sent, lost>>

\* The report itself fails; the loop only logs it.
ReportLost(n) ==
    /\ pc[n] \in {"sent", "notSent"}
    /\ LoseRound(held[n])
    /\ Release(n)
    /\ UNCHANGED <<req, table, sent>>

Crash(n) ==
    /\ pc[n] # "down"
    /\ IF held[n] = 0 THEN UNCHANGED lost ELSE LoseRound(held[n])
    /\ pc' = [pc EXCEPT ![n] = "down"]
    /\ held' = [held EXCEPT ![n] = 0]
    /\ UNCHANGED <<req, table, sent>>

Restart(n) ==
    /\ pc[n] = "down"
    /\ pc' = [pc EXCEPT ![n] = "idle"]
    /\ UNCHANGED <<req, table, held, sent, lost>>

\* 30 seconds pass since the last utime of s.
Elapse(s) ==
    /\ fresh[s]
    /\ \A n \in Nodes : held[n] # s
    /\ fresh' = [fresh EXCEPT ![s] = FALSE]
    /\ UNCHANGED <<req, row, retry, pc, held, sent, lost>>

Loop(n) == Take(n) \/ SendAnswered(n) \/ Report(n)

Next ==
    \/ \E s \in Sms : Add(s) \/ NeedAsync(s) \/ SendNow(s) \/ Elapse(s)
    \/ \E n \in Nodes : \/ Loop(n) \/ TakeLost(n) \/ SendTimesOut(n)
                        \/ ReportLost(n) \/ Crash(n) \/ Restart(n)

Spec == Init /\ [][Next]_vars

\* The loop is a for statement without a break, an instance that dies is
\* replaced, and time passes.  No fairness for callers or for faults.  Only
\* finitely many crashes happen: a deployment that restarts for ever sends
\* nothing.
FairSpec ==
    /\ Spec
    /\ \A n \in Nodes : WF_vars(Loop(n)) /\ WF_vars(Restart(n))
    /\ \A n \in Nodes : <>[][~Crash(n)]_vars
    /\ \A s \in Sms : WF_vars(Elapse(s))

-----------------------------------------------------------------------------
(* Properties.                                                             *)

\* A preempted row belongs to one loop: no two instances send the same row at
\* the same time, and a row whose outcome is recorded is in nobody's hands
\* (GetWaitingSMS: utime keeps the row from every other instance).
OneHolder ==
    \A m, n \in Nodes :
        held[m] # 0 => /\ row[held[m]] = "waiting"
                       /\ held[n] = held[m] => n = m

\* A row is sent again after RetryMax rounds only because that many of its
\* rounds lost their report: in every other case the cap of MarkFailed holds.
RetriesAccounted == \A s \in Sms : retry[s] <= RetryMax + lost[s]

\* The recorded outcome is earned: "success" means that a provider took the
\* message in a round, "failed" that every retry was used.
OutcomeEarned ==
    \A s \in Sms :
        /\ row[s] = "success" => s \in sent /\ retry[s] >= 1
        /\ row[s] = "failed" => retry[s] >= RetryMax

\* A recorded outcome is final: neither a late loop nor a second instance
\* overwrites the status of a settled row or sends it again.
SettledForGood ==
    [][\A s \in Sms : row[s] \in {"failed", "success"} =>
          row'[s] = row[s] /\ retry'[s] = retry[s]]_vars

\* A row that reached the table is settled in the end, through crashes,
\* timeouts and lost reports (StartAsyncCycle retries every 30 seconds).
EverySmsSettles ==
    \A s \in Sms : row[s] = "waiting" ~> row[s] \in {"failed", "success"}

\* What README.md asks of the switch to asynchronous sending: a request that
\* was answered without being sent will be handled, so it is in the table.
AcceptedIsStored == \A s \in Sms : req[s] = "async" => row[s] # "absent"
=============================================================================
