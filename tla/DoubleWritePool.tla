---------------------------- MODULE DoubleWritePool ----------------------------
(***************************************************************************)
(* pkg/gormx/connpool: a gorm connection pool in front of two databases,   *)
(* used while their tables are migrated.  gorm opens a transaction for     *)
(* every write; the transaction takes the pattern of that moment, writes   *)
(* to a first database and copies every statement to a second one.  An     *)
(* error of either is returned and gorm rolls back, although the comment   *)
(* beside the second calls its failure no failure.  The pattern is process *)
(* state that the migration scheduler changes at any time.                 *)
(*                                                                         *)
(* A row is a unique key of a counter table.  Its n is the number of       *)
(* increments a database has absorbed; its id is the auto-increment        *)
(* primary key, which each database hands out on its own.  An uncommitted  *)
(* statement locks its row, and the rows of a transaction are written in   *)
(* ascending order, as dao.Interactive's transactions do.                  *)
(***************************************************************************)
EXTENDS Integers, FiniteSets

CONSTANTS
    Writers,   \* goroutines that write through the pool
    NumRows,   \* keys of the table
    Patterns,  \* patterns the operator may choose
    Config,    \* migrator.pattern of the configuration
    MaxTxs,    \* bound: transactions
    MaxFaults  \* bound: failed calls, crashes and operator interruptions

ASSUME ConfigAssumption == Config \in Patterns
ASSUME PatternsAssumption ==
    Patterns \subseteq {"SRC_ONLY", "SRC_FIRST", "DST_FIRST", "DST_ONLY"}
ASSUME WritersAssumption == IsFiniteSet(Writers)
ASSUME RowsAssumption == NumRows \in Nat \ {0}
ASSUME BoundsAssumption == MaxTxs \in Nat /\ MaxFaults \in Nat

VARIABLES
    pattern,  \* the pool's pattern
    table,    \* committed rows of each database; id 0 if there is none
    nextId,   \* each database's auto-increment counter
    tx,       \* each writer's DoubleWritePoolTx and where it is in it
    wrote,    \* ids of a writer's uncommitted rows in each database, 0 if none
    acked,    \* history: increments whose Commit returned nil, in each database they went to
    begun,    \* history: transactions
    faults    \* history: faults

stores == <<table, nextId>>
poolVars == <<pattern, table, nextId, tx, wrote, acked, begun, faults>>

Databases == {"src", "dst"}
Rows == 1..NumRows

Transactions ==
    [pc : {"idle", "first", "second", "commit", "commit2", "undo", "undo2", "leaked"},
     pattern : Patterns, from : Rows, at : Rows, last : Rows]

PoolTypeOK ==
    /\ pattern \in Patterns
    /\ table \in [Databases -> [Rows -> [id : Nat, n : Nat]]]
    /\ nextId \in [Databases -> Nat \ {0}]
    /\ tx \in [Writers -> Transactions]
    /\ wrote \in [Writers -> [Databases -> [Rows -> Nat]]]
    /\ acked \in [Databases -> [Rows -> Nat]]
    /\ begun \in 0..MaxTxs
    /\ faults \in 0..MaxFaults
    /\ \A w \in Writers : tx[w].pc = "idle" => \A d \in Databases, r \in Rows : wrote[w][d][r] = 0

NoTx == [pc |-> "idle", pattern |-> Config, from |-> 1, at |-> 1, last |-> 1]
NoWrites == [r \in Rows |-> 0]

PoolInit ==
    /\ pattern = Config
    /\ table = [d \in Databases |-> [r \in Rows |-> [id |-> 0, n |-> 0]]]
    /\ nextId = [d \in Databases |-> 1]
    /\ tx = [w \in Writers |-> NoTx]
    /\ wrote = [w \in Writers |-> [d \in Databases |-> NoWrites]]
    /\ acked = [d \in Databases |-> [r \in Rows |-> 0]]
    /\ begun = 0
    /\ faults = 0

Fault ==
    /\ faults < MaxFaults
    /\ faults' = faults + 1

-----------------------------------------------------------------------------
(* BeginTx: which database is behind the fields src and dst of the         *)
(* transaction, and which field Exec, Commit and Rollback use first.       *)

\* Mutant of Behind: BeginTx puts each transaction into its own field.
BehindStraight(p) ==
    CASE p = "SRC_ONLY"  -> [src |-> "src", dst |-> "none"]
      [] p = "DST_ONLY"  -> [src |-> "none", dst |-> "dst"]
      [] OTHER           -> [src |-> "src", dst |-> "dst"]

Behind(p) ==
    CASE p = "SRC_ONLY"  -> [src |-> "src", dst |-> "none"]
      [] p = "SRC_FIRST" -> [src |-> "src", dst |-> "dst"]
      [] p = "DST_FIRST" -> [src |-> "dst", dst |-> "src"]
      [] p = "DST_ONLY"  -> [src |-> "dst", dst |-> "none"]

First(p) == IF p \in {"SRC_ONLY", "SRC_FIRST"} THEN Behind(p).src ELSE Behind(p).dst

Second(p) ==
    CASE p = "SRC_FIRST" -> Behind(p).dst
      [] p = "DST_FIRST" -> Behind(p).src
      [] OTHER           -> "none"

Db1(w) == First(tx[w].pattern)
Db2(w) == Second(tx[w].pattern)

\* If the first BeginTx fails, the caller gets an error and nothing changes; if
\* the second one fails, the pool's nil logger panics: a crash.
Begin(w) ==
    /\ tx[w].pc = "idle"
    /\ begun < MaxTxs
    /\ \E i, j \in Rows :
           /\ i <= j
           /\ tx' = [tx EXCEPT ![w] = [pc |-> "first", pattern |-> pattern,
                                       from |-> i, at |-> i, last |-> j]]
    /\ begun' = begun + 1
    /\ UNCHANGED <<pattern, stores, wrote, acked, faults>>

-----------------------------------------------------------------------------
(* ExecContext.                                                            *)

Unlocked(w, d, r) == \A v \in Writers \ {w} : wrote[v][d][r] = 0

\* INSERT ... ON DUPLICATE KEY UPDATE n = n + 1 inside w's transaction.
Upsert(w, d) ==
    LET r  == tx[w].at
        id == table[d][r].id
    IN  /\ Unlocked(w, d, r)
        /\ wrote' = [wrote EXCEPT ![w][d][r] = IF id = 0 THEN nextId[d] ELSE id]
        /\ nextId' = [nextId EXCEPT ![d] = IF id = 0 THEN @ + 1 ELSE @]

\* On to the next statement, or to Commit.
Advance(w) ==
    tx' = IF tx[w].at = tx[w].last
          THEN [tx EXCEPT ![w].pc = "commit"]
          ELSE [tx EXCEPT ![w].pc = "first", ![w].at = @ + 1]

ExecFirst(w) ==
    /\ tx[w].pc = "first"
    /\ Db1(w) # "none"
    /\ Upsert(w, Db1(w))
    /\ IF Db2(w) = "none" THEN Advance(w) ELSE tx' = [tx EXCEPT ![w].pc = "second"]
    /\ UNCHANGED <<pattern, table, acked, begun, faults>>

ExecSecond(w) ==
    /\ tx[w].pc = "second"
    /\ Upsert(w, Db2(w))
    /\ Advance(w)
    /\ UNCHANGED <<pattern, table, acked, begun, faults>>

\* An error (a lock wait that times out is one) makes gorm roll back.
ExecFirstFails(w) ==
    /\ tx[w].pc = "first"
    /\ Db1(w) # "none"
    /\ Fault
    /\ tx' = [tx EXCEPT ![w].pc = "undo"]
    /\ UNCHANGED <<pattern, stores, wrote, acked, begun>>

\* Mutant of ExecSecondFails: the error is dropped, as the comment has it.
ExecSecondFailsUnseen(w) ==
    /\ tx[w].pc = "second"
    /\ Fault
    /\ Advance(w)
    /\ UNCHANGED <<pattern, stores, wrote, acked, begun>>

\* The error of the second database is assigned to the same err and returned.
ExecSecondFails(w) ==
    /\ tx[w].pc = "second"
    /\ Fault
    /\ tx' = [tx EXCEPT ![w].pc = "undo"]
    /\ UNCHANGED <<pattern, stores, wrote, acked, begun>>

-----------------------------------------------------------------------------
(* Commit and Rollback.                                                    *)

\* Rollback of DST_FIRST calls Commit on both transactions: what was written
\* before the error stays, in the source perhaps a statement more.
Commits(w) == tx[w].pc \in {"commit", "commit2"} \/ tx[w].pattern = "DST_FIRST"

\* Database d commits what w wrote there.
Apply(w, d) ==
    table' = [table EXCEPT ![d] = [r \in Rows |->
        IF wrote[w][d][r] = 0 THEN @[r]
        ELSE [id |-> wrote[w][d][r], n |-> @[r].n + 1]]]

Forget(w, d) == wrote' = [wrote EXCEPT ![w][d] = NoWrites]

\* Only a Commit that has returned nil counts as an answer.
Return(w) ==
    /\ tx' = [tx EXCEPT ![w] = NoTx]
    /\ acked' = IF tx[w].pc \in {"commit", "commit2"}
                THEN [d \in Databases |-> [r \in Rows |->
                         IF d \in {Db1(w), Db2(w)} /\ r \in tx[w].from..tx[w].last
                         THEN acked[d][r] + 1 ELSE acked[d][r]]]
                ELSE acked

EndFirst(w) ==
    /\ tx[w].pc \in {"commit", "undo"}
    /\ IF Commits(w) THEN Apply(w, Db1(w)) ELSE UNCHANGED table
    /\ Forget(w, Db1(w))
    /\ IF Db2(w) = "none" THEN Return(w)
       ELSE /\ tx' = [tx EXCEPT ![w].pc = IF @ = "commit" THEN "commit2" ELSE "undo2"]
            /\ UNCHANGED acked
    /\ UNCHANGED <<pattern, nextId, begun, faults>>

EndSecond(w) ==
    /\ tx[w].pc \in {"commit2", "undo2"}
    /\ IF Commits(w) THEN Apply(w, Db2(w)) ELSE UNCHANGED table
    /\ Forget(w, Db2(w))
    /\ Return(w)
    /\ UNCHANGED <<pattern, nextId, begun, faults>>

\* Mutant of EndFirstFails: the error is returned after the second commit.
EndFirstFailsLate(w) ==
    /\ tx[w].pc \in {"commit", "undo"}
    /\ Fault
    /\ Forget(w, Db1(w))
    /\ tx' = [tx EXCEPT ![w].pc = "undo2", ![w].pattern = "DST_FIRST"]
    /\ UNCHANGED <<pattern, nextId, acked, begun, table>>

\* The first commit reports an error, having taken effect or not.  Nobody ends
\* the second transaction; it stays open until its context is cancelled.
EndFirstFails(w) ==
    /\ tx[w].pc \in {"commit", "undo"}
    /\ Fault
    /\ UNCHANGED table \/ (Commits(w) /\ Apply(w, Db1(w)))
    /\ Forget(w, Db1(w))
    /\ tx' = [tx EXCEPT ![w] = IF Db2(w) = "none" THEN NoTx ELSE [@ EXCEPT !.pc = "leaked"]]
    /\ UNCHANGED <<pattern, nextId, acked, begun>>

LeakEnds(w) ==
    /\ tx[w].pc = "leaked"
    /\ wrote' = [wrote EXCEPT ![w] = [d \in Databases |-> NoWrites]]
    /\ tx' = [tx EXCEPT ![w] = NoTx]
    /\ UNCHANGED <<pattern, stores, acked, begun, faults>>

-----------------------------------------------------------------------------
(* The process.                                                            *)

UpdatePattern(p) ==
    /\ pattern' = p
    /\ UNCHANGED <<stores, tx, wrote, acked, begun, faults>>

\* What a crash leaves of the pool: the databases roll back, and the restarted
\* process takes the pattern of its configuration again.
Die ==
    /\ pattern' = Config
    /\ tx' = [w \in Writers |-> NoTx]
    /\ wrote' = [w \in Writers |-> [d \in Databases |-> NoWrites]]
    /\ UNCHANGED <<stores, acked, begun>>

\* The transactions of DST_ONLY have a nil dst: the first statement panics,
\* and so do a failing second BeginTx and a failing second Commit, whose
\* logger is nil.  Nothing recovers in a gRPC handler or a consumer.
ExecPanics(w) ==
    /\ tx[w].pc = "first"
    /\ Db1(w) = "none"
    /\ Die
    /\ UNCHANGED faults

Crash == Fault /\ Die

Down == Crash \/ \E w \in Writers : ExecPanics(w)

WriterStep(w) ==
    \/ ExecFirst(w)
    \/ ExecSecond(w)
    \/ EndFirst(w)
    \/ EndSecond(w)
    \/ LeakEnds(w)

WriterFault(w) ==
    \/ ExecFirstFails(w)
    \/ ExecSecondFails(w)
    \/ EndFirstFails(w)

PoolNext ==
    \/ \E w \in Writers : Begin(w) \/ WriterStep(w) \/ WriterFault(w)
    \/ Down
    \/ \E p \in Patterns : UpdatePattern(p)

PoolSpec == PoolInit /\ [][PoolNext]_poolVars

\* A transaction is a goroutine that runs whenever no lock holds it back.
PoolFairSpec == PoolSpec /\ \A w \in Writers : WF_poolVars(WriterStep(w) \/ ExecPanics(w))

-----------------------------------------------------------------------------

\* An increment whose Commit returned nil is in every database its transaction
\* wrote to, whatever pattern that was and however often the pattern changed:
\* a failed statement of either database ends in Rollback, and a failed commit
\* of the second one in a panic, so nobody is answered "done" while one of the
\* two lacks the write.  (Comments at Commit and ExecContext say otherwise.)
AckedEverywhere == \A d \in Databases, r \in Rows : acked[d][r] <= table[d][r].n

\* The part for the source, which the late fixes of Migrator leave alone.
NoAckedWriteLost == \A r \in Rows : acked["src"][r] <= table["src"][r].n

\* The target never has an increment the source lacks, with failed and leaked
\* commits, the Rollback that commits and (in Migrator) fixes of stale values
\* racing transactions: what the validator calls base is the fuller side.
DstNeverAhead == \A r \in Rows : table["dst"][r].n <= table["src"][r].n

\* Every transaction ends without a lock timeout: transactions of both
\* double-write patterns lock the databases in the same order, so a change of
\* pattern leaves no two of them waiting for each other.
TxEnds == \A w \in Writers : tx[w].pc # "idle" ~> tx[w].pc = "idle"
=============================================================================
