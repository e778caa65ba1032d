----------------------------- MODULE MigratorProofs -----------------------------
(***************************************************************************)
(* Theorems about the double-write pool, and about the pool while          *)
(* validations and fixes run beside the transactions, for every number of  *)
(* writers, rows, fixers, transactions and faults and every set of         *)
(* patterns.                                                               *)
(*                                                                         *)
(* PoolInv is the pool's inductive invariant.  Shape, Progress and Copied  *)
(* say what a transaction has written at each of its control states;       *)
(* Exclusive is what row locks give; AckCovered and DstCovered strengthen  *)
(* the two properties by the transactions that have committed in the       *)
(* source and not yet in the target.                                       *)
(*                                                                         *)
(* That an acknowledged increment is in the target as well (DstAcked) is   *)
(* proved of the pool alone: a fixer that comes late may set the target    *)
(* back to an older number, which the next fix repairs.                    *)
(*                                                                         *)
(* The pool's invariant survives a fix because a row that a transaction    *)
(* has written and not committed is locked; it is joined by FixBehind: a   *)
(* fixer's copy of a source row is old at worst, for the source's numbers  *)
(* only grow.                                                              *)
(*                                                                         *)
(* That a repaired row stays repaired rests on the ids: IdsInv says that   *)
(* the source gives an id to one row and never takes it back, so the       *)
(* upsert of another row's id does not hit this row.                       *)
(***************************************************************************)
EXTENDS Migrator, FiniteSetTheorems, TLAPS

Twofold == {"SRC_FIRST", "DST_FIRST"}

\* Only the double-write patterns have a second transaction, and a transaction
\* of DST_ONLY gets nowhere.
Shape(w) ==
    /\ tx[w].from <= tx[w].at
    /\ tx[w].at <= tx[w].last
    /\ tx[w].pc \notin {"idle", "first"} => tx[w].pattern # "DST_ONLY"
    /\ tx[w].pc \in {"second", "commit2", "undo2", "leaked"} => tx[w].pattern \in Twofold
    /\ tx[w].pattern \notin Twofold => \A r \in Rows : wrote[w]["dst"][r] = 0

\* The source is written first and holds every row the target holds.
Progress(w) ==
    /\ tx[w].pc = "first" => \A r \in tx[w].from..(tx[w].at - 1) : wrote[w]["src"][r] # 0
    /\ tx[w].pc = "second" => \A r \in tx[w].from..tx[w].at : wrote[w]["src"][r] # 0
    /\ tx[w].pc = "commit" => \A r \in tx[w].from..tx[w].last : wrote[w]["src"][r] # 0
    /\ tx[w].pc \in {"first", "second", "commit", "undo"} =>
          \A r \in Rows : wrote[w]["dst"][r] # 0 => wrote[w]["src"][r] # 0
    /\ tx[w].pc \in {"idle", "commit2", "undo2", "leaked"} =>
          \A r \in Rows : wrote[w]["src"][r] = 0

\* A statement is copied to the target before the next one, so a transaction
\* that commits has written all its rows there.
Copied(w) ==
    tx[w].pattern \in Twofold =>
        /\ tx[w].pc \in {"first", "second"} =>
              \A r \in tx[w].from..(tx[w].at - 1) : wrote[w]["dst"][r] # 0
        /\ tx[w].pc \in {"commit", "commit2"} =>
              \A r \in tx[w].from..tx[w].last : wrote[w]["dst"][r] # 0

\* A row of a database is locked by one writer.
Exclusive ==
    \A v, w \in Writers : v # w =>
        \A d \in Databases, r \in Rows : wrote[v][d][r] = 0 \/ wrote[w][d][r] = 0

\* Transactions that the source has committed and nobody has answered yet.
Owed(r) == {w \in Writers : tx[w].pc = "commit2" /\ r \in tx[w].from..tx[w].last}

AckCovered == \A r \in Rows : acked["src"][r] + Cardinality(Owed(r)) <= table["src"][r].n

\* w has committed in the source and will commit in the target.
Settles(w) == tx[w].pc = "commit2" \/ (tx[w].pc = "undo2" /\ tx[w].pattern = "DST_FIRST")

DstCovered ==
    \A w \in Writers, r \in Rows :
        Settles(w) /\ wrote[w]["dst"][r] # 0 => table["dst"][r].n + 1 <= table["src"][r].n

PoolInv ==
    /\ PoolTypeOK
    /\ \A w \in Writers : Shape(w) /\ Progress(w) /\ Copied(w)
    /\ Exclusive
    /\ AckCovered
    /\ DstNeverAhead
    /\ DstCovered

-----------------------------------------------------------------------------
(* The fields of a transaction, and bookkeeping.                           *)

\* The first database of every pattern that writes is the source.
LEMMA FirstIsSource ==
    ASSUME NEW w \in Writers, PoolTypeOK
    PROVE  /\ Db1(w) = IF tx[w].pattern = "DST_ONLY" THEN "none" ELSE "src"
           /\ Db2(w) = IF tx[w].pattern \in Twofold THEN "dst" ELSE "none"
  <1>1. tx[w].pattern \in {"SRC_ONLY", "SRC_FIRST", "DST_FIRST", "DST_ONLY"}
    BY PatternsAssumption DEF PoolTypeOK, Transactions
  <1> QED
    BY <1>1 DEF Db1, Db2, First, Second, Behind, Twofold

\* The counts of owed answers are numbers.
LEMMA OwedFinite ==
    ASSUME NEW r
    PROVE  /\ IsFiniteSet(Owed(r)) /\ Cardinality(Owed(r)) \in Nat
           /\ IsFiniteSet(Owed(r))' /\ Cardinality(Owed(r))' \in Nat
  <1>1. Owed(r) \subseteq Writers /\ Owed(r)' \subseteq Writers
    BY DEF Owed
  <1>2. IsFiniteSet(Owed(r)) /\ IsFiniteSet(Owed(r)')
    BY <1>1, WritersAssumption, FS_Subset
  <1> QED
    BY <1>2, FS_CardinalityType

\* A step of w that leaves the tables and the answers alone, and w's standing
\* with them, disturbs neither AckCovered nor the two facts on the target.
LEMMA Undisturbed ==
    ASSUME PoolInv, NEW w \in Writers,
           table' = table, acked' = acked,
           tx' \in [Writers -> Transactions],
           \A v \in Writers \ {w} : tx'[v] = tx[v] /\ wrote'[v] = wrote[v],
           tx[w].pc # "commit2", tx'[w].pc # "commit2", ~Settles(w)'
    PROVE  AckCovered' /\ DstNeverAhead' /\ DstCovered'
  <1>1. \A r \in Rows : Owed(r)' = Owed(r)
    BY DEF Owed
  <1>2. AckCovered'
    BY <1>1 DEF PoolInv, AckCovered
  <1>3. DstNeverAhead'
    BY DEF PoolInv, DstNeverAhead
  <1>4. ASSUME NEW v \in Writers, NEW r \in Rows, Settles(v)', wrote'[v]["dst"][r] # 0
        PROVE  table["dst"][r].n + 1 <= table["src"][r].n
    <2>1. v # w
      BY <1>4
    <2>2. Settles(v) /\ wrote[v]["dst"][r] # 0
      BY <1>4, <2>1 DEF Settles
    <2> QED
      BY <2>2 DEF PoolInv, DstCovered
  <1>5. DstCovered'
    BY <1>4 DEF DstCovered
  <1> QED
    BY <1>2, <1>3, <1>5

-----------------------------------------------------------------------------
(* The steps of a transaction.                                             *)

LEMMA BeginInv ==
    ASSUME PoolInv, NEW w \in Writers, Begin(w)
    PROVE  PoolInv'
  <1>1. PICK i \in Rows, j \in Rows :
           /\ i <= j
           /\ tx' = [tx EXCEPT ![w] = [pc |-> "first", pattern |-> pattern,
                                       from |-> i, at |-> i, last |-> j]]
    BY DEF Begin
  <1>2. PoolTypeOK'
    <2>1. begun' \in 0..MaxTxs
      BY BoundsAssumption DEF Begin, PoolInv, PoolTypeOK
    <2> QED
      BY <1>1, <2>1 DEF Begin, stores, Transactions, PoolInv, PoolTypeOK
  <1>3. \A r \in Rows, d \in Databases : wrote[w][d][r] = 0
    BY DEF Begin, PoolInv, PoolTypeOK
  <1>4. ASSUME NEW v \in Writers PROVE Shape(v)' /\ Progress(v)' /\ Copied(v)'
    <2>1. CASE v = w
      <3>1. tx'[w] = [pc |-> "first", pattern |-> pattern, from |-> i, at |-> i, last |-> j]
        BY <1>1 DEF PoolInv, PoolTypeOK
      <3>2. wrote' = wrote
        BY DEF Begin
      <3>3. i \in Nat /\ i..(i - 1) = {}
        BY DEF Rows
      <3> QED
        BY <1>1, <1>3, <2>1, <3>1, <3>2, <3>3 DEF Shape, Progress, Copied, Databases
    <2>2. CASE v # w
      <3>1. tx'[v] = tx[v] /\ wrote' = wrote
        BY <1>1, <2>2 DEF Begin, PoolInv, PoolTypeOK
      <3> QED
        BY <3>1 DEF PoolInv, Shape, Progress, Copied
    <2> QED
      BY <2>1, <2>2
  <1>5. Exclusive'
    BY DEF Begin, PoolInv, Exclusive
  <1>6. AckCovered' /\ DstNeverAhead' /\ DstCovered'
    BY <1>1, <1>2, Undisturbed DEF Begin, stores, PoolInv, PoolTypeOK, Settles
  <1> QED
    BY <1>2, <1>4, <1>5, <1>6 DEF PoolInv

\* What Upsert and Advance do, in the terms of the invariant.
LEMMA UpsertEffect ==
    ASSUME PoolInv, NEW w \in Writers, NEW d \in Databases, Upsert(w, d)
    PROVE  \E k \in Nat \ {0} :
              /\ wrote' = [wrote EXCEPT ![w][d][tx[w].at] = k]
              /\ nextId' \in [Databases -> Nat \ {0}]
              /\ \A v \in Writers \ {w} : wrote[v][d][tx[w].at] = 0
  <1> DEFINE r  == tx[w].at
             id == table[d][r].id
             k  == IF id = 0 THEN nextId[d] ELSE id
  <1>1. r \in Rows /\ id \in Nat /\ nextId[d] \in Nat \ {0}
    BY DEF PoolInv, PoolTypeOK, Transactions
  <1>2. k \in Nat \ {0}
    BY <1>1
  <1>3. wrote' = [wrote EXCEPT ![w][d][r] = k]
    BY DEF Upsert
  <1>4. nextId' \in [Databases -> Nat \ {0}]
    BY <1>1 DEF Upsert, PoolInv, PoolTypeOK
  <1>5. \A v \in Writers \ {w} : wrote[v][d][r] = 0
    BY DEF Upsert, Unlocked
  <1> QED
    BY <1>2, <1>3, <1>4, <1>5

LEMMA AdvanceEffect ==
    ASSUME PoolInv, NEW w \in Writers, Advance(w), tx[w].pc \in {"first", "second"}
    PROVE  /\ tx' \in [Writers -> Transactions]
           /\ \A v \in Writers \ {w} : tx'[v] = tx[v]
           /\ tx'[w].pattern = tx[w].pattern
           /\ tx'[w].from = tx[w].from
           /\ tx'[w].last = tx[w].last
           /\ tx'[w].at <= tx'[w].last
           /\ \/ tx[w].at = tx[w].last /\ tx'[w].pc = "commit" /\ tx'[w].at = tx[w].at
              \/ tx'[w].pc = "first" /\ tx'[w].at = tx[w].at + 1
  <1>1. tx[w].at \in Rows /\ tx[w].last \in Rows /\ tx[w].at <= tx[w].last
    BY DEF PoolInv, PoolTypeOK, Transactions, Shape
  <1>2. CASE tx[w].at = tx[w].last
    BY <1>1, <1>2 DEF Advance, Transactions, PoolInv, PoolTypeOK, Rows
  <1>3. CASE tx[w].at # tx[w].last
    <2>1. tx[w].at + 1 \in Rows /\ tx[w].at + 1 <= tx[w].last
      BY <1>1, <1>3, RowsAssumption DEF Rows
    <2> QED
      BY <1>1, <1>3, <2>1 DEF Advance, Transactions, PoolInv, PoolTypeOK
  <1> QED
    BY <1>2, <1>3

\* A step inside a transaction: w moves on, and writes at most the current row
\* of database d.
LEMMA ExecInv ==
    ASSUME PoolInv, NEW w \in Writers, NEW d \in Databases, NEW k \in Nat,
           wrote' = [wrote EXCEPT ![w][d][tx[w].at] = k] \/ (k = 0 /\ wrote' = wrote),
           k # 0 => \A v \in Writers \ {w} : wrote[v][d][tx[w].at] = 0,
           nextId' \in [Databases -> Nat \ {0}],
           tx' \in [Writers -> Transactions],
           \A v \in Writers \ {w} : tx'[v] = tx[v],
           UNCHANGED <<pattern, table, acked, begun>>,
           faults' \in 0..MaxFaults,
           tx[w].pc \in {"first", "second"},
           tx'[w].pc \in {"first", "second", "commit", "undo"},
           Shape(w)', Progress(w)', Copied(w)'
    PROVE  PoolInv'
  <1> DEFINE r == tx[w].at
  <1>1. r \in Rows
    BY DEF PoolInv, PoolTypeOK, Transactions
  <1>2. wrote' \in [Writers -> [Databases -> [Rows -> Nat]]]
    <2>1. wrote \in [Writers -> [Databases -> [Rows -> Nat]]]
      BY DEF PoolInv, PoolTypeOK
    <2>2. CASE wrote' = [wrote EXCEPT ![w][d][r] = k]
      <3>1. [wrote[w] EXCEPT ![d][r] = k] \in [Databases -> [Rows -> Nat]]
        <4>1. wrote[w] \in [Databases -> [Rows -> Nat]] /\ wrote[w][d] \in [Rows -> Nat]
          BY <2>1
        <4>2. [wrote[w][d] EXCEPT ![r] = k] \in [Rows -> Nat]
          BY <1>1, <4>1
        <4> QED
          BY <4>1, <4>2
      <3> QED
        BY <2>1, <2>2, <3>1
    <2> QED
      BY <2>1, <2>2
  <1>3. \A v \in Writers \ {w} : wrote'[v] = wrote[v]
    BY DEF PoolInv, PoolTypeOK
  <1>4. PoolTypeOK'
    <2>1. ASSUME NEW v \in Writers, tx'[v].pc = "idle"
          PROVE  \A e \in Databases, q \in Rows : wrote'[v][e][q] = 0
      <3>1. v \in Writers \ {w}
        BY <2>1
      <3>2. tx[v].pc = "idle" /\ wrote'[v] = wrote[v]
        BY <1>3, <2>1, <3>1
      <3> QED
        BY <3>2 DEF PoolInv, PoolTypeOK
    <2> QED
      BY <1>2, <2>1 DEF PoolInv, PoolTypeOK
  <1>5. ASSUME NEW v \in Writers \ {w} PROVE Shape(v)' /\ Progress(v)' /\ Copied(v)'
    BY <1>3 DEF PoolInv, Shape, Progress, Copied
  <1>6. \A e \in Databases, q \in Rows :
            \/ wrote'[w][e][q] = wrote[w][e][q]
            \/ e = d /\ q = r /\ wrote'[w][e][q] = k
    BY <1>1 DEF PoolInv, PoolTypeOK
  <1>7. Exclusive'
    <2>1. ASSUME NEW v \in Writers \ {w}, NEW e \in Databases, NEW q \in Rows
          PROVE  wrote'[v][e][q] = 0 \/ wrote'[w][e][q] = 0
      <3>1. wrote[v][e][q] = 0 \/ wrote[w][e][q] = 0
        BY DEF PoolInv, Exclusive
      <3> QED
        BY <1>3, <1>6, <3>1
    <2>2. ASSUME NEW u \in Writers \ {w}, NEW v \in Writers \ {w}, u # v,
                 NEW e \in Databases, NEW q \in Rows
          PROVE  wrote'[u][e][q] = 0 \/ wrote'[v][e][q] = 0
      BY <1>3, <2>2 DEF PoolInv, Exclusive
    <2> QED
      BY <2>1, <2>2 DEF Exclusive
  <1>8. AckCovered' /\ DstNeverAhead' /\ DstCovered'
    BY <1>3, Undisturbed DEF Settles
  <1> QED
    BY <1>4, <1>5, <1>7, <1>8 DEF PoolInv

LEMMA ExecFirstInv ==
    ASSUME PoolInv, NEW w \in Writers, ExecFirst(w)
    PROVE  PoolInv'
  <1> DEFINE r == tx[w].at
  <1>1. /\ Db1(w) = "src"
        /\ tx[w].pattern # "DST_ONLY"
        /\ Db2(w) = "none" <=> tx[w].pattern \notin Twofold
    BY FirstIsSource DEF ExecFirst, PoolInv
  <1>2. /\ tx[w].pc = "first"
        /\ Upsert(w, "src")
        /\ UNCHANGED <<pattern, table, acked, begun, faults>>
    BY <1>1 DEF ExecFirst
  <1>3. PICK k \in Nat \ {0} :
            /\ wrote' = [wrote EXCEPT ![w]["src"][r] = k]
            /\ nextId' \in [Databases -> Nat \ {0}]
            /\ \A v \in Writers \ {w} : wrote[v]["src"][r] = 0
    BY <1>2, UpsertEffect DEF Databases
  <1>4. /\ r \in Rows /\ tx[w].from \in Rows /\ tx[w].last \in Rows
        /\ tx[w].from <= r /\ r <= tx[w].last
    BY DEF PoolInv, PoolTypeOK, Transactions, Shape
  <1>5. /\ wrote'[w]["dst"] = wrote[w]["dst"]
        /\ \A q \in Rows : wrote'[w]["src"][q] = IF q = r THEN k ELSE wrote[w]["src"][q]
    BY <1>3, <1>4 DEF PoolInv, PoolTypeOK, Databases
  <1>6. /\ \A q \in tx[w].from..r : wrote'[w]["src"][q] # 0
        /\ \A q \in Rows : wrote'[w]["dst"][q] # 0 => wrote'[w]["src"][q] # 0
    <2>1. ASSUME NEW q \in tx[w].from..r PROVE wrote'[w]["src"][q] # 0
      <3>1. q \in Rows /\ (q = r \/ q \in tx[w].from..(r - 1))
        BY <1>4, RowsAssumption DEF Rows
      <3> QED
        BY <1>2, <1>5, <3>1 DEF PoolInv, Progress
    <2>2. \A q \in Rows : wrote'[w]["dst"][q] # 0 => wrote'[w]["src"][q] # 0
      BY <1>2, <1>5 DEF PoolInv, Progress
    <2> QED
      BY <2>1, <2>2
  <1>7. CASE Db2(w) = "none"
    <2>1. Advance(w)
      BY <1>7 DEF ExecFirst
    <2>2. /\ tx' \in [Writers -> Transactions]
          /\ \A v \in Writers \ {w} : tx'[v] = tx[v]
          /\ tx'[w].pattern = tx[w].pattern
          /\ tx'[w].from = tx[w].from
          /\ tx'[w].last = tx[w].last
          /\ tx'[w].at <= tx'[w].last
          /\ \/ r = tx[w].last /\ tx'[w].pc = "commit" /\ tx'[w].at = r
             \/ tx'[w].pc = "first" /\ tx'[w].at = r + 1
      BY <1>2, <2>1, AdvanceEffect
    <2>3. Shape(w)'
      BY <1>1, <1>2, <1>4, <1>5, <2>2, RowsAssumption DEF PoolInv, Shape, Rows
    <2>4. Progress(w)'
      BY <1>4, <1>6, <2>2, RowsAssumption DEF Progress, Rows
    <2>5. Copied(w)'
      BY <1>1, <1>7, <2>2 DEF Copied
    <2> QED
      BY <1>2, <1>3, <2>2, <2>3, <2>4, <2>5, ExecInv DEF Databases, PoolInv, PoolTypeOK
  <1>8. CASE Db2(w) # "none"
    <2>1. tx' = [tx EXCEPT ![w].pc = "second"]
      BY <1>8 DEF ExecFirst
    <2>2. /\ tx' \in [Writers -> Transactions]
          /\ \A v \in Writers \ {w} : tx'[v] = tx[v]
          /\ tx'[w] = [tx[w] EXCEPT !.pc = "second"]
      BY <2>1 DEF PoolInv, PoolTypeOK, Transactions
    <2>3. tx[w] \in Transactions
      BY DEF PoolInv, PoolTypeOK
    <2>4. Shape(w)'
      BY <1>1, <1>2, <1>5, <1>8, <2>2, <2>3 DEF PoolInv, Shape, Transactions
    <2>5. Progress(w)'
      BY <1>6, <2>2, <2>3 DEF Progress, Transactions
    <2>6. Copied(w)'
      BY <1>2, <1>5, <2>2, <2>3 DEF PoolInv, Copied, Transactions
    <2> QED
      BY <1>2, <1>3, <2>2, <2>3, <2>4, <2>5, <2>6, ExecInv DEF Databases, PoolInv, PoolTypeOK, Transactions
  <1> QED
    BY <1>7, <1>8

LEMMA ExecSecondInv ==
    ASSUME PoolInv, NEW w \in Writers, ExecSecond(w)
    PROVE  PoolInv'
  <1> DEFINE r == tx[w].at
  <1>1. tx[w].pc = "second" /\ tx[w].pattern \in Twofold
    BY DEF ExecSecond, PoolInv, Shape
  <1>2. Db2(w) = "dst"
    BY <1>1, FirstIsSource DEF PoolInv
  <1>3. /\ UNCHANGED <<pattern, table, acked, begun>>
        /\ faults' \in 0..MaxFaults
        /\ Advance(w)
    BY DEF ExecSecond, PoolInv, PoolTypeOK
  <1>4. /\ tx' \in [Writers -> Transactions]
        /\ \A v \in Writers \ {w} : tx'[v] = tx[v]
        /\ tx'[w].pattern = tx[w].pattern
        /\ tx'[w].from = tx[w].from
        /\ tx'[w].last = tx[w].last
        /\ tx'[w].at <= tx'[w].last
        /\ \/ r = tx[w].last /\ tx'[w].pc = "commit" /\ tx'[w].at = r
           \/ tx'[w].pc = "first" /\ tx'[w].at = r + 1
    BY <1>1, <1>3, AdvanceEffect
  <1>5. /\ r \in Rows /\ tx[w].from \in Rows /\ tx[w].last \in Rows
        /\ tx[w].from <= r /\ r <= tx[w].last
    BY DEF PoolInv, PoolTypeOK, Transactions, Shape
  <1>6. PICK k \in Nat \ {0} :
            /\ wrote' = [wrote EXCEPT ![w]["dst"][r] = k]
            /\ nextId' \in [Databases -> Nat \ {0}]
            /\ \A v \in Writers \ {w} : wrote[v]["dst"][r] = 0
    BY <1>2, UpsertEffect DEF ExecSecond, Databases
  <1>7. /\ wrote'[w]["src"] = wrote[w]["src"]
        /\ \A q \in Rows : wrote'[w]["dst"][q] = IF q = r THEN k ELSE wrote[w]["dst"][q]
    BY <1>5, <1>6 DEF PoolInv, PoolTypeOK, Databases
  <1>8. /\ \A q \in tx[w].from..r : wrote[w]["src"][q] # 0
        /\ \A q \in Rows : wrote[w]["dst"][q] # 0 => wrote[w]["src"][q] # 0
        /\ \A q \in tx[w].from..(r - 1) : wrote[w]["dst"][q] # 0
    BY <1>1 DEF PoolInv, Progress, Copied
  <1>9. wrote[w]["src"][r] # 0
    BY <1>5, <1>8 DEF Rows
  <1>10. Shape(w)'
    BY <1>1, <1>4, <1>5, RowsAssumption DEF Shape, Rows, Twofold
  <1>11. Progress(w)'
    BY <1>4, <1>5, <1>7, <1>8, <1>9, RowsAssumption DEF Progress, Rows
  <1>12. \A q \in tx[w].from..r : wrote'[w]["dst"][q] # 0
    <2>1. ASSUME NEW q \in tx[w].from..r PROVE q \in Rows /\ (q = r \/ q \in tx[w].from..(r - 1))
      BY <1>5, RowsAssumption DEF Rows
    <2> QED
      BY <1>6, <1>7, <1>8, <2>1
  <1>13. Copied(w)'
    BY <1>4, <1>5, <1>12, RowsAssumption DEF Copied, Rows
  <1> QED
    BY <1>1, <1>3, <1>4, <1>6, <1>10, <1>11, <1>13, ExecInv DEF Databases

\* A failed statement of either database: gorm rolls back.
LEMMA ExecFailsInv ==
    ASSUME PoolInv, NEW w \in Writers, ExecFirstFails(w) \/ ExecSecondFails(w)
    PROVE  PoolInv'
  <1>1. tx[w].pc \in {"first", "second"} /\ tx[w].pattern # "DST_ONLY"
    BY FirstIsSource DEF ExecFirstFails, ExecSecondFails, PoolInv, Shape
  <1>2. tx[w] \in Transactions
    BY DEF PoolInv, PoolTypeOK
  <1>3. tx' = [tx EXCEPT ![w].pc = "undo"]
    BY DEF ExecFirstFails, ExecSecondFails
  <1>4. /\ tx' \in [Writers -> Transactions]
        /\ \A v \in Writers \ {w} : tx'[v] = tx[v]
        /\ tx'[w] = [tx[w] EXCEPT !.pc = "undo"]
    BY <1>3 DEF PoolInv, PoolTypeOK, Transactions
  <1>5. /\ wrote' = wrote
        /\ UNCHANGED <<pattern, table, acked, begun>>
        /\ nextId' \in [Databases -> Nat \ {0}]
        /\ faults' \in 0..MaxFaults
    BY BoundsAssumption DEF ExecFirstFails, ExecSecondFails, Fault, stores, PoolInv, PoolTypeOK
  <1>6. /\ tx'[w].pc = "undo" /\ tx'[w].pattern = tx[w].pattern
        /\ tx'[w].from = tx[w].from /\ tx'[w].at = tx[w].at /\ tx'[w].last = tx[w].last
    BY <1>2, <1>4 DEF Transactions
  <1>7. Shape(w)' /\ Progress(w)' /\ Copied(w)'
    BY <1>1, <1>5, <1>6 DEF PoolInv, Shape, Progress, Copied
  <1> QED
    BY <1>1, <1>4, <1>5, <1>6, <1>7, ExecInv DEF Databases

-----------------------------------------------------------------------------
(* The ends of a transaction.                                              *)

\* What Apply, Forget and Return do, in the terms of the invariant.
LEMMA ApplyEffect ==
    ASSUME PoolInv, NEW w \in Writers, NEW d \in Databases, Apply(w, d)
    PROVE  /\ table' \in [Databases -> [Rows -> [id : Nat, n : Nat]]]
           /\ \A e \in Databases \ {d} : table'[e] = table[e]
           /\ \A r \in Rows : table'[d][r].n =
                  IF wrote[w][d][r] = 0 THEN table[d][r].n ELSE table[d][r].n + 1
  <1> DEFINE row(r) == IF wrote[w][d][r] = 0 THEN table[d][r]
                       ELSE [id |-> wrote[w][d][r], n |-> table[d][r].n + 1]
  <1>1. /\ table \in [Databases -> [Rows -> [id : Nat, n : Nat]]]
        /\ wrote[w][d] \in [Rows -> Nat]
    BY DEF PoolInv, PoolTypeOK
  <1>2. table' = [table EXCEPT ![d] = [r \in Rows |-> row(r)]]
    BY <1>1 DEF Apply
  <1>3. \A r \in Rows : row(r) \in [id : Nat, n : Nat]
    BY <1>1
  <1>4. [r \in Rows |-> row(r)] \in [Rows -> [id : Nat, n : Nat]]
    BY <1>3
  <1>5. /\ table' \in [Databases -> [Rows -> [id : Nat, n : Nat]]]
        /\ \A e \in Databases \ {d} : table'[e] = table[e]
        /\ \A r \in Rows : table'[d][r] = row(r)
    BY <1>1, <1>2, <1>4
  <1>6. \A r \in Rows : row(r).n = IF wrote[w][d][r] = 0 THEN table[d][r].n ELSE table[d][r].n + 1
    OBVIOUS
  <1> QED
    BY <1>5, <1>6

LEMMA ForgetEffect ==
    ASSUME PoolInv, NEW w \in Writers, NEW d \in Databases, Forget(w, d)
    PROVE  /\ wrote' \in [Writers -> [Databases -> [Rows -> Nat]]]
           /\ \A v \in Writers \ {w} : wrote'[v] = wrote[v]
           /\ \A e \in Databases \ {d} : wrote'[w][e] = wrote[w][e]
           /\ \A r \in Rows : wrote'[w][d][r] = 0
  <1>1. wrote \in [Writers -> [Databases -> [Rows -> Nat]]]
    BY DEF PoolInv, PoolTypeOK
  <1>2. NoWrites \in [Rows -> Nat] /\ \A r \in Rows : NoWrites[r] = 0
    BY DEF NoWrites
  <1>3. wrote' = [wrote EXCEPT ![w] = [wrote[w] EXCEPT ![d] = NoWrites]]
    BY <1>1 DEF Forget
  <1>4. [wrote[w] EXCEPT ![d] = NoWrites] \in [Databases -> [Rows -> Nat]]
    BY <1>1, <1>2
  <1> QED
    BY <1>1, <1>2, <1>3, <1>4

LEMMA IdleTx == NoTx \in Transactions
  BY ConfigAssumption, RowsAssumption DEF NoTx, Transactions, Rows

LEMMA ReturnEffect ==
    ASSUME PoolInv, NEW w \in Writers, Return(w), Db1(w) = "src"
    PROVE  /\ tx' \in [Writers -> Transactions]
           /\ \A v \in Writers \ {w} : tx'[v] = tx[v]
           /\ tx'[w] = NoTx
           /\ acked' \in [Databases -> [Rows -> Nat]]
           /\ \A r \in Rows : acked'["src"][r] =
                  IF tx[w].pc \in {"commit", "commit2"} /\ r \in tx[w].from..tx[w].last
                  THEN acked["src"][r] + 1 ELSE acked["src"][r]
           /\ \A r \in Rows : acked'["dst"][r] =
                  IF /\ tx[w].pc \in {"commit", "commit2"} /\ Db2(w) = "dst"
                     /\ r \in tx[w].from..tx[w].last
                  THEN acked["dst"][r] + 1 ELSE acked["dst"][r]
  <1> DEFINE new(d, r) == IF d \in {Db1(w), Db2(w)} /\ r \in tx[w].from..tx[w].last
                          THEN acked[d][r] + 1 ELSE acked[d][r]
  <1>1. tx \in [Writers -> Transactions] /\ acked \in [Databases -> [Rows -> Nat]]
    BY DEF PoolInv, PoolTypeOK
  <1>2. /\ tx' \in [Writers -> Transactions]
        /\ \A v \in Writers \ {w} : tx'[v] = tx[v]
        /\ tx'[w] = NoTx
    BY <1>1, IdleTx DEF Return
  <1>3. "src" \in Databases /\ "dst" \in Databases
    BY DEF Databases
  <1>4. CASE tx[w].pc \in {"commit", "commit2"}
    <2>1. acked' = [d \in Databases |-> [r \in Rows |-> new(d, r)]]
      BY <1>4 DEF Return
    <2>2. \A d \in Databases, r \in Rows : new(d, r) \in Nat
      BY <1>1
    <2>3. acked' \in [Databases -> [Rows -> Nat]]
      BY <2>1, <2>2
    <2>4. \A r \in Rows : acked'["src"][r] = new("src", r) /\ acked'["dst"][r] = new("dst", r)
      BY <1>3, <2>1
    <2> QED
      BY <1>2, <1>4, <2>3, <2>4
  <1>5. CASE tx[w].pc \notin {"commit", "commit2"}
    BY <1>1, <1>2, <1>5 DEF Return
  <1> QED
    BY <1>4, <1>5

\* A step of w that gives back locks keeps everything but what is said of the
\* tables and the answers.
LEMMA ReleaseInv ==
    ASSUME PoolInv, NEW w \in Writers,
           wrote' \in [Writers -> [Databases -> [Rows -> Nat]]],
           \A v \in Writers \ {w} : wrote'[v] = wrote[v],
           \A d \in Databases, r \in Rows : wrote'[w][d][r] \in {0, wrote[w][d][r]},
           tx' \in [Writers -> Transactions],
           \A v \in Writers \ {w} : tx'[v] = tx[v],
           tx'[w].pc = "idle" => \A d \in Databases, r \in Rows : wrote'[w][d][r] = 0,
           table' \in [Databases -> [Rows -> [id : Nat, n : Nat]]],
           acked' \in [Databases -> [Rows -> Nat]],
           UNCHANGED <<pattern, nextId, begun>>,
           faults' \in 0..MaxFaults,
           Shape(w)', Progress(w)', Copied(w)',
           AckCovered', DstNeverAhead', DstCovered'
    PROVE  PoolInv'
  <1>1. PoolTypeOK'
    <2>1. ASSUME NEW v \in Writers, tx'[v].pc = "idle"
          PROVE  \A d \in Databases, r \in Rows : wrote'[v][d][r] = 0
      <3>1. CASE v = w
        BY <2>1, <3>1
      <3>2. CASE v # w
        <4>1. tx[v].pc = "idle" /\ wrote'[v] = wrote[v]
          BY <2>1, <3>2
        <4> QED
          BY <4>1 DEF PoolInv, PoolTypeOK
      <3> QED
        BY <3>1, <3>2
    <2> QED
      BY <2>1 DEF PoolInv, PoolTypeOK
  <1>2. ASSUME NEW v \in Writers \ {w} PROVE Shape(v)' /\ Progress(v)' /\ Copied(v)'
    BY DEF PoolInv, Shape, Progress, Copied
  <1>3. Exclusive'
    <2>1. \A v \in Writers, d \in Databases, r \in Rows : wrote'[v][d][r] \in {0, wrote[v][d][r]}
      OBVIOUS
    <2>2. ASSUME NEW u \in Writers, NEW v \in Writers, u # v, NEW d \in Databases, NEW r \in Rows
          PROVE  wrote'[u][d][r] = 0 \/ wrote'[v][d][r] = 0
      <3>1. wrote[u][d][r] = 0 \/ wrote[v][d][r] = 0
        BY <2>2 DEF PoolInv, Exclusive
      <3> QED
        BY <2>1, <3>1
    <2> QED
      BY <2>2 DEF Exclusive
  <1> QED
    BY <1>1, <1>2, <1>3 DEF PoolInv

\* The first commit or rollback, from the point of view of the source.  Either
\* the table stays or the source absorbs what w wrote there; committed says
\* which, and it must be the second if w goes on to settle in the target.
LEMMA EndSource ==
    ASSUME PoolInv, NEW w \in Writers, NEW committed \in BOOLEAN,
           tx[w].pc \in {"commit", "undo"},
           IF committed THEN Apply(w, "src") ELSE UNCHANGED table,
           Forget(w, "src"),
           tx' \in [Writers -> Transactions],
           \A v \in Writers \ {w} : tx'[v] = tx[v],
           Settles(w)' => committed,
           \/ UNCHANGED acked /\ tx'[w].pc # "commit2"
           \/ /\ UNCHANGED acked
              /\ tx[w].pc = "commit" /\ tx'[w].pc = "commit2"
              /\ tx'[w].from = tx[w].from /\ tx'[w].last = tx[w].last
           \/ /\ tx[w].pc = "commit" /\ tx'[w].pc = "idle" /\ committed
              /\ acked' \in [Databases -> [Rows -> Nat]]
              /\ \A r \in Rows : acked'["src"][r] =
                     IF r \in tx[w].from..tx[w].last THEN acked["src"][r] + 1 ELSE acked["src"][r],
           UNCHANGED <<pattern, nextId, begun>>,
           faults' \in 0..MaxFaults,
           tx'[w].pc = "idle" => tx[w].pattern \notin Twofold,
           Shape(w)', Copied(w)', tx'[w].pc \in {"idle", "commit2", "undo2", "leaked"}
    PROVE  PoolInv'
  <1>1. /\ wrote' \in [Writers -> [Databases -> [Rows -> Nat]]]
        /\ \A v \in Writers \ {w} : wrote'[v] = wrote[v]
        /\ wrote'[w]["dst"] = wrote[w]["dst"]
        /\ \A r \in Rows : wrote'[w]["src"][r] = 0
    BY ForgetEffect DEF Databases
  <1>2. /\ table' \in [Databases -> [Rows -> [id : Nat, n : Nat]]]
        /\ table'["dst"] = table["dst"]
        /\ \A r \in Rows : table'["src"][r].n =
               IF committed /\ wrote[w]["src"][r] # 0
               THEN table["src"][r].n + 1 ELSE table["src"][r].n
    <2>1. CASE committed
      BY <2>1, ApplyEffect DEF Databases
    <2>2. CASE ~committed
      BY <2>2 DEF PoolInv, PoolTypeOK
    <2> QED
      BY <2>1, <2>2
  <1>3. \A d \in Databases, r \in Rows : table[d][r].n \in Nat
    BY DEF PoolInv, PoolTypeOK
  <1>4. \A r \in Rows : acked["src"][r] \in Nat
    BY DEF PoolInv, PoolTypeOK, Databases
  <1>5. "src" \in Databases /\ "dst" \in Databases
    BY DEF Databases
  <1>6. tx[w].pc = "commit" => \A r \in Rows \cap (tx[w].from..tx[w].last) : wrote[w]["src"][r] # 0
    BY DEF PoolInv, Progress
  <1>7. AckCovered'
    <2>1. ASSUME NEW r \in Rows
          PROVE  acked'["src"][r] + Cardinality(Owed(r))' <= table'["src"][r].n
      <3>1. /\ acked["src"][r] + Cardinality(Owed(r)) <= table["src"][r].n
            /\ Cardinality(Owed(r)) \in Nat
            /\ table'["src"][r].n >= table["src"][r].n
        BY <1>2, <1>3, <1>5, OwedFinite DEF PoolInv, AckCovered
      <3>2. CASE UNCHANGED acked /\ tx'[w].pc # "commit2"
        <4>1. Owed(r)' = Owed(r)
          BY <3>2 DEF Owed
        <4> QED
          BY <1>2, <1>3, <1>4, <1>5, <3>1, <3>2, <4>1
      <3>3. CASE /\ UNCHANGED acked
                 /\ tx[w].pc = "commit" /\ tx'[w].pc = "commit2"
                 /\ tx'[w].from = tx[w].from /\ tx'[w].last = tx[w].last
        <4>1. Owed(r)' = IF r \in tx[w].from..tx[w].last THEN Owed(r) \cup {w} ELSE Owed(r)
          BY <3>3 DEF Owed
        <4>2. w \notin Owed(r)
          BY <3>3 DEF Owed
        <4>3. CASE r \in tx[w].from..tx[w].last
          <5>1. Cardinality(Owed(r))' = Cardinality(Owed(r)) + 1
            <6>1. IsFiniteSet(Owed(r))
              BY OwedFinite
            <6>2. Cardinality(Owed(r) \cup {w}) = Cardinality(Owed(r)) + 1
              BY <4>2, <6>1, FS_AddElement
            <6> QED
              BY <4>1, <4>3, <6>2
          <5>2. committed
            BY <3>3 DEF Settles
          <5>3. table'["src"][r].n = table["src"][r].n + 1
            BY <1>2, <1>6, <3>3, <4>3, <5>2
          <5> QED
            BY <1>3, <1>4, <1>5, <3>1, <3>3, <5>1, <5>3
        <4>4. CASE r \notin tx[w].from..tx[w].last
          BY <1>2, <1>3, <1>4, <1>5, <3>1, <3>3, <4>1, <4>4
        <4> QED
          BY <4>3, <4>4
      <3>4. CASE /\ tx[w].pc = "commit" /\ tx'[w].pc = "idle" /\ committed
                 /\ acked' \in [Databases -> [Rows -> Nat]]
                 /\ \A q \in Rows : acked'["src"][q] =
                        IF q \in tx[w].from..tx[w].last THEN acked["src"][q] + 1 ELSE acked["src"][q]
        <4>1. Owed(r)' = Owed(r)
          BY <3>4 DEF Owed
        <4>2. CASE r \in tx[w].from..tx[w].last
          <5>1. table'["src"][r].n = table["src"][r].n + 1
            BY <1>2, <1>6, <3>4, <4>2
          <5> QED
            BY <1>3, <1>4, <1>5, <3>1, <3>4, <4>1, <4>2, <5>1
        <4>3. CASE r \notin tx[w].from..tx[w].last
          BY <1>2, <1>3, <1>4, <1>5, <3>1, <3>4, <4>1, <4>3
        <4> QED
          BY <4>2, <4>3
      <3> QED
        BY <3>2, <3>3, <3>4
    <2> QED
      BY <2>1 DEF AckCovered
  <1>8. DstNeverAhead'
    BY <1>2, <1>3, <1>5 DEF PoolInv, DstNeverAhead
  <1>9. DstCovered'
    <2>1. ASSUME NEW v \in Writers, NEW r \in Rows, Settles(v)', wrote'[v]["dst"][r] # 0
          PROVE  table'["dst"][r].n + 1 <= table'["src"][r].n
      <3>1. CASE v = w
        <4>1. committed /\ wrote[w]["src"][r] # 0
          BY <1>1, <2>1, <3>1 DEF PoolInv, Progress
        <4>2. table["dst"][r].n <= table["src"][r].n
          BY DEF PoolInv, DstNeverAhead
        <4> QED
          BY <1>2, <1>3, <1>5, <4>1, <4>2
      <3>2. CASE v # w
        <4>1. Settles(v) /\ wrote[v]["dst"][r] # 0
          BY <1>1, <2>1, <3>2 DEF Settles
        <4>2. table["dst"][r].n + 1 <= table["src"][r].n
          BY <4>1 DEF PoolInv, DstCovered
        <4> QED
          BY <1>2, <1>3, <1>5, <4>2
      <3> QED
        BY <3>1, <3>2
    <2> QED
      BY <2>1 DEF DstCovered
  <1>10. Progress(w)'
    BY <1>1 DEF Progress
  <1>11. tx'[w].pc = "idle" => \A d \in Databases, r \in Rows : wrote'[w][d][r] = 0
    BY <1>1 DEF PoolInv, Shape, Databases
  <1>12. \A d \in Databases, r \in Rows : wrote'[w][d][r] \in {0, wrote[w][d][r]}
    BY <1>1 DEF Databases
  <1>13. acked' \in [Databases -> [Rows -> Nat]]
    BY DEF PoolInv, PoolTypeOK
  <1> QED
    BY <1>1, <1>2, <1>7, <1>8, <1>9, <1>10, <1>11, <1>12, <1>13, ReleaseInv

LEMMA EndFirstInv ==
    ASSUME PoolInv, NEW w \in Writers, EndFirst(w)
    PROVE  PoolInv'
  <1>1. /\ tx[w].pc \in {"commit", "undo"}
        /\ tx[w].pattern # "DST_ONLY"
        /\ Db1(w) = "src"
        /\ Db2(w) = IF tx[w].pattern \in Twofold THEN "dst" ELSE "none"
    BY FirstIsSource DEF EndFirst, PoolInv, Shape
  <1>2. /\ IF Commits(w) THEN Apply(w, "src") ELSE UNCHANGED table
        /\ Forget(w, "src")
        /\ UNCHANGED <<pattern, nextId, begun>>
        /\ faults' \in 0..MaxFaults
    BY <1>1 DEF EndFirst, PoolInv, PoolTypeOK
  <1>3. Commits(w) \in BOOLEAN /\ (tx[w].pc = "commit" => Commits(w))
    BY DEF Commits
  <1>4. tx[w] \in Transactions /\ tx \in [Writers -> Transactions]
    BY DEF PoolInv, PoolTypeOK
  <1>5. CASE tx[w].pattern \in Twofold
    <2>1. /\ UNCHANGED acked
          /\ tx' = [tx EXCEPT ![w].pc = IF @ = "commit" THEN "commit2" ELSE "undo2"]
      BY <1>1, <1>5 DEF EndFirst
    <2>2. /\ tx' \in [Writers -> Transactions]
          /\ \A v \in Writers \ {w} : tx'[v] = tx[v]
          /\ tx'[w] = [tx[w] EXCEPT !.pc = IF tx[w].pc = "commit" THEN "commit2" ELSE "undo2"]
      BY <1>4, <2>1 DEF Transactions
    <2>3. /\ tx'[w].pc = IF tx[w].pc = "commit" THEN "commit2" ELSE "undo2"
          /\ tx'[w].pattern = tx[w].pattern
          /\ tx'[w].from = tx[w].from /\ tx'[w].at = tx[w].at /\ tx'[w].last = tx[w].last
      BY <1>4, <2>2 DEF Transactions
    <2>4. Settles(w)' => Commits(w)
      BY <1>1, <2>3 DEF Settles, Commits
    <2>5. Shape(w)'
      BY <1>5, <2>3 DEF PoolInv, Shape, Twofold
    <2>6. Copied(w)'
      <3>1. wrote'[w]["dst"] = wrote[w]["dst"]
        BY <1>2, ForgetEffect DEF Databases
      <3> QED
        BY <1>1, <2>3, <3>1 DEF PoolInv, Copied
    <2> QED
      BY <1>1, <1>2, <1>3, <2>1, <2>2, <2>3, <2>4, <2>5, <2>6, EndSource
  <1>6. CASE tx[w].pattern \notin Twofold
    <2>1. Return(w)
      BY <1>1, <1>6 DEF EndFirst
    <2>2. /\ tx' \in [Writers -> Transactions]
          /\ \A v \in Writers \ {w} : tx'[v] = tx[v]
          /\ tx'[w] = NoTx
          /\ acked' \in [Databases -> [Rows -> Nat]]
          /\ \A r \in Rows : acked'["src"][r] =
                 IF tx[w].pc \in {"commit", "commit2"} /\ r \in tx[w].from..tx[w].last
                 THEN acked["src"][r] + 1 ELSE acked["src"][r]
      BY <1>1, <2>1, ReturnEffect
    <2>3. tx'[w].pc = "idle"
      BY <2>2 DEF NoTx
    <2>4. ~Settles(w)'
      BY <2>3 DEF Settles
    <2>5. Shape(w)'
      <3>1. \A r \in Rows : wrote[w]["dst"][r] = 0
        BY <1>6 DEF PoolInv, Shape
      <3>2. wrote'[w]["dst"] = wrote[w]["dst"]
        BY <1>2, ForgetEffect DEF Databases
      <3> QED
        BY <2>2, <3>1, <3>2 DEF Shape, NoTx
    <2>6. UNCHANGED acked \/ tx[w].pc = "commit"
      <3>1. CASE tx[w].pc # "commit"
        <4>1. UNCHANGED acked
          BY <1>1, <2>1, <3>1 DEF Return
        <4> QED
          BY <4>1
      <3> QED
        BY <3>1
    <2>7. Copied(w)'
      BY <2>2 DEF Copied, NoTx
    <2> QED
      BY <1>1, <1>2, <1>3, <1>6, <2>2, <2>3, <2>4, <2>5, <2>6, <2>7, EndSource
  <1> QED
    BY <1>5, <1>6

LEMMA EndFirstFailsInv ==
    ASSUME PoolInv, NEW w \in Writers, EndFirstFails(w)
    PROVE  PoolInv'
  <1>1. /\ tx[w].pc \in {"commit", "undo"}
        /\ tx[w].pattern # "DST_ONLY"
        /\ Db1(w) = "src"
        /\ Db2(w) = IF tx[w].pattern \in Twofold THEN "dst" ELSE "none"
    BY FirstIsSource DEF EndFirstFails, PoolInv, Shape
  <1>2. PICK committed \in BOOLEAN : IF committed THEN Apply(w, "src") ELSE UNCHANGED table
    BY <1>1 DEF EndFirstFails
  <1>3. /\ Forget(w, "src")
        /\ UNCHANGED <<pattern, nextId, acked, begun>>
        /\ faults' \in 0..MaxFaults
    BY <1>1, BoundsAssumption DEF EndFirstFails, Fault, PoolInv, PoolTypeOK
  <1>4. tx[w] \in Transactions /\ tx \in [Writers -> Transactions]
    BY DEF PoolInv, PoolTypeOK
  <1>5. CASE tx[w].pattern \in Twofold
    <2>1. tx' = [tx EXCEPT ![w] = [@ EXCEPT !.pc = "leaked"]]
      BY <1>1, <1>5 DEF EndFirstFails
    <2>2. /\ tx' \in [Writers -> Transactions]
          /\ \A v \in Writers \ {w} : tx'[v] = tx[v]
          /\ tx'[w] = [tx[w] EXCEPT !.pc = "leaked"]
      BY <1>4, <2>1 DEF Transactions
    <2>3. /\ tx'[w].pc = "leaked"
          /\ tx'[w].pattern = tx[w].pattern
          /\ tx'[w].from = tx[w].from /\ tx'[w].at = tx[w].at /\ tx'[w].last = tx[w].last
      BY <1>4, <2>2 DEF Transactions
    <2>4. ~Settles(w)' /\ Shape(w)' /\ Copied(w)'
      BY <1>5, <2>3 DEF Settles, PoolInv, Shape, Copied, Twofold
    <2> QED
      BY <1>1, <1>2, <1>3, <2>2, <2>3, <2>4, EndSource
  <1>6. CASE tx[w].pattern \notin Twofold
    <2>1. tx' = [tx EXCEPT ![w] = NoTx]
      BY <1>1, <1>6 DEF EndFirstFails
    <2>2. /\ tx' \in [Writers -> Transactions]
          /\ \A v \in Writers \ {w} : tx'[v] = tx[v]
          /\ tx'[w] = NoTx
      BY <1>4, <2>1, IdleTx
    <2>3. ~Settles(w)' /\ tx'[w].pc = "idle"
      BY <2>2 DEF Settles, NoTx
    <2>4. Shape(w)'
      <3>1. \A r \in Rows : wrote[w]["dst"][r] = 0
        BY <1>6 DEF PoolInv, Shape
      <3>2. wrote'[w]["dst"] = wrote[w]["dst"]
        BY <1>3, ForgetEffect DEF Databases
      <3> QED
        BY <2>2, <3>1, <3>2 DEF Shape, NoTx
    <2>5. Copied(w)'
      BY <2>3 DEF Copied
    <2> QED
      BY <1>1, <1>2, <1>3, <1>6, <2>2, <2>3, <2>4, <2>5, EndSource
  <1> QED
    BY <1>5, <1>6

\* The second commit or rollback.  What it adds to the target the source has
\* had since the first one (DstCovered), and the answer it gives turns an owed
\* increment into an acknowledged one.
LEMMA EndSecondInv ==
    ASSUME PoolInv, NEW w \in Writers, EndSecond(w)
    PROVE  PoolInv'
  <1>1. tx[w].pc \in {"commit2", "undo2"} /\ Db1(w) = "src" /\ Db2(w) = "dst"
    BY FirstIsSource DEF EndSecond, PoolInv, Shape
  <1>2. /\ IF Commits(w) THEN Apply(w, "dst") ELSE UNCHANGED table
        /\ Forget(w, "dst")
        /\ Return(w)
        /\ UNCHANGED <<pattern, nextId, begun>>
        /\ faults' \in 0..MaxFaults
    BY <1>1 DEF EndSecond, PoolInv, PoolTypeOK
  <1>3. /\ wrote' \in [Writers -> [Databases -> [Rows -> Nat]]]
        /\ \A v \in Writers \ {w} : wrote'[v] = wrote[v]
        /\ wrote'[w]["src"] = wrote[w]["src"]
        /\ \A r \in Rows : wrote'[w]["dst"][r] = 0
    BY <1>2, ForgetEffect DEF Databases
  <1>4. /\ tx' \in [Writers -> Transactions]
        /\ \A v \in Writers \ {w} : tx'[v] = tx[v]
        /\ tx'[w] = NoTx
        /\ acked' \in [Databases -> [Rows -> Nat]]
        /\ \A r \in Rows : acked'["src"][r] =
               IF tx[w].pc \in {"commit", "commit2"} /\ r \in tx[w].from..tx[w].last
               THEN acked["src"][r] + 1 ELSE acked["src"][r]
    BY <1>1, <1>2, ReturnEffect
  <1>5. Commits(w) <=> Settles(w)
    BY <1>1 DEF Commits, Settles
  <1>6. /\ table' \in [Databases -> [Rows -> [id : Nat, n : Nat]]]
        /\ table'["src"] = table["src"]
        /\ \A r \in Rows : table'["dst"][r].n =
               IF Settles(w) /\ wrote[w]["dst"][r] # 0
               THEN table["dst"][r].n + 1 ELSE table["dst"][r].n
    <2>1. CASE Commits(w)
      BY <1>2, <1>5, <2>1, ApplyEffect DEF Databases
    <2>2. CASE ~Commits(w)
      BY <1>2, <1>5, <2>2 DEF PoolInv, PoolTypeOK
    <2> QED
      BY <2>1, <2>2
  <1>7. \A d \in Databases, r \in Rows : table[d][r].n \in Nat
    BY DEF PoolInv, PoolTypeOK
  <1>8. "src" \in Databases /\ "dst" \in Databases
    BY DEF Databases
  <1>9. \A r \in Rows : acked["src"][r] \in Nat
    BY DEF PoolInv, PoolTypeOK, Databases
  <1>10. tx'[w].pc = "idle" /\ ~Settles(w)'
    BY <1>4 DEF NoTx, Settles
  <1>11. AckCovered'
    <2>1. ASSUME NEW r \in Rows
          PROVE  acked'["src"][r] + Cardinality(Owed(r))' <= table'["src"][r].n
      <3>1. /\ acked["src"][r] + Cardinality(Owed(r)) <= table["src"][r].n
            /\ Cardinality(Owed(r)) \in Nat
        BY OwedFinite DEF PoolInv, AckCovered
      <3>2. CASE tx[w].pc = "commit2" /\ r \in tx[w].from..tx[w].last
        <4>1. Owed(r)' = Owed(r) \ {w} /\ w \in Owed(r)
          BY <1>4, <1>10, <3>2 DEF Owed
        <4>2. IsFiniteSet(Owed(r))
          BY OwedFinite
        <4>3. Cardinality(Owed(r) \ {w}) = Cardinality(Owed(r)) - 1
          BY <4>1, <4>2, FS_RemoveElement
        <4>4. Cardinality(Owed(r))' = Cardinality(Owed(r)) - 1
          BY <4>1, <4>3
        <4> QED
          BY <1>4, <1>6, <1>7, <1>8, <1>9, <3>1, <3>2, <4>4
      <3>3. CASE ~(tx[w].pc = "commit2" /\ r \in tx[w].from..tx[w].last)
        <4>1. Owed(r)' = Owed(r)
          BY <1>4, <1>10, <3>3 DEF Owed
        <4>2. acked'["src"][r] = acked["src"][r]
          BY <1>1, <1>4, <3>3
        <4> QED
          BY <1>6, <3>1, <4>1, <4>2
      <3> QED
        BY <3>2, <3>3
    <2> QED
      BY <2>1 DEF AckCovered
  <1>12. DstNeverAhead'
    <2>1. ASSUME NEW r \in Rows PROVE table'["dst"][r].n <= table'["src"][r].n
      <3>1. table["dst"][r].n <= table["src"][r].n
        BY DEF PoolInv, DstNeverAhead
      <3>2. Settles(w) /\ wrote[w]["dst"][r] # 0 => table["dst"][r].n + 1 <= table["src"][r].n
        BY DEF PoolInv, DstCovered
      <3> QED
        BY <1>6, <3>1, <3>2
    <2> QED
      BY <2>1 DEF DstNeverAhead
  <1>13. DstCovered'
    <2>1. ASSUME NEW v \in Writers, NEW r \in Rows, Settles(v)', wrote'[v]["dst"][r] # 0
          PROVE  table'["dst"][r].n + 1 <= table'["src"][r].n
      <3>1. v # w
        BY <1>10, <2>1
      <3>2. Settles(v) /\ wrote[v]["dst"][r] # 0
        BY <1>3, <1>4, <2>1, <3>1 DEF Settles
      <3>3. wrote[w]["dst"][r] = 0
        BY <1>8, <3>1, <3>2 DEF PoolInv, Exclusive
      <3>4. table["dst"][r].n + 1 <= table["src"][r].n
        BY <3>2 DEF PoolInv, DstCovered
      <3> QED
        BY <1>6, <3>3, <3>4
    <2> QED
      BY <2>1 DEF DstCovered
  <1>14. Shape(w)' /\ Progress(w)' /\ Copied(w)'
    <2>1. \A r \in Rows : wrote[w]["src"][r] = 0
      BY <1>1 DEF PoolInv, Progress
    <2>2. \A r \in Rows : wrote'[w]["src"][r] = 0
      BY <1>3, <2>1
    <2> QED
      BY <1>3, <1>4, <2>2 DEF Shape, Progress, Copied, NoTx
  <1>15. \A d \in Databases, r \in Rows : wrote'[w][d][r] \in {0, wrote[w][d][r]}
    BY <1>3 DEF Databases
  <1>16. \A d \in Databases, r \in Rows : wrote'[w][d][r] = 0
    BY <1>1, <1>3 DEF Databases, PoolInv, Progress
  <1> QED
    BY <1>2, <1>3, <1>4, <1>6, <1>11, <1>12, <1>13, <1>14, <1>15, <1>16, ReleaseInv

LEMMA LeakEndsInv ==
    ASSUME PoolInv, NEW w \in Writers, LeakEnds(w)
    PROVE  PoolInv'
  <1>1. /\ tx[w].pc = "leaked"
        /\ UNCHANGED <<pattern, table, nextId, acked, begun, faults>>
    BY DEF LeakEnds, stores
  <1>2. wrote \in [Writers -> [Databases -> [Rows -> Nat]]] /\ tx \in [Writers -> Transactions]
    BY DEF PoolInv, PoolTypeOK
  <1>3. /\ wrote' \in [Writers -> [Databases -> [Rows -> Nat]]]
        /\ \A v \in Writers \ {w} : wrote'[v] = wrote[v]
        /\ \A d \in Databases, r \in Rows : wrote'[w][d][r] = 0
    <2>1. [d \in Databases |-> NoWrites] \in [Databases -> [Rows -> Nat]]
      BY DEF NoWrites
    <2>2. \A d \in Databases, r \in Rows : [e \in Databases |-> NoWrites][d][r] = 0
      BY DEF NoWrites
    <2> QED
      BY <1>2, <2>1, <2>2 DEF LeakEnds
  <1>4. /\ tx' \in [Writers -> Transactions]
        /\ \A v \in Writers \ {w} : tx'[v] = tx[v]
        /\ tx'[w] = NoTx
    BY <1>2, IdleTx DEF LeakEnds
  <1>5. tx'[w].pc = "idle" /\ ~Settles(w)'
    BY <1>4 DEF NoTx, Settles
  <1>6. Shape(w)' /\ Progress(w)' /\ Copied(w)'
    BY <1>3, <1>4 DEF Shape, Progress, Copied, NoTx, Databases
  <1>7. AckCovered' /\ DstNeverAhead' /\ DstCovered'
    BY <1>1, <1>3, <1>4, <1>5, Undisturbed DEF Settles
  <1>8. faults' \in 0..MaxFaults /\ table' \in [Databases -> [Rows -> [id : Nat, n : Nat]]]
        /\ acked' \in [Databases -> [Rows -> Nat]]
    BY <1>1 DEF PoolInv, PoolTypeOK
  <1> QED
    BY <1>1, <1>3, <1>4, <1>6, <1>7, <1>8, ReleaseInv

-----------------------------------------------------------------------------
(* The steps of the process.                                               *)

\* A new pattern is taken by the transactions that begin after it.
LEMMA UpdatePatternInv ==
    ASSUME PoolInv, NEW p \in Patterns, UpdatePattern(p)
    PROVE  PoolInv'
  <1>1. pattern' \in Patterns /\ UNCHANGED <<table, nextId, tx, wrote, acked, begun, faults>>
    BY DEF UpdatePattern, stores
  <1>2. PoolTypeOK'
    BY <1>1 DEF PoolInv, PoolTypeOK
  <1>3. \A w \in Writers : Shape(w)' /\ Progress(w)' /\ Copied(w)'
    BY <1>1 DEF PoolInv, Shape, Progress, Copied
  <1>4. \A r \in Rows : Owed(r)' = Owed(r)
    BY <1>1 DEF Owed
  <1>5. AckCovered'
    BY <1>1, <1>4 DEF PoolInv, AckCovered
  <1>6. Exclusive' /\ DstNeverAhead' /\ DstCovered'
    BY <1>1 DEF PoolInv, Exclusive, DstNeverAhead, DstCovered, Settles
  <1> QED
    BY <1>2, <1>3, <1>5, <1>6 DEF PoolInv

\* A crash leaves the committed rows, and nobody is owed an answer.
LEMMA DieInv ==
    ASSUME PoolInv, Die, faults' \in 0..MaxFaults
    PROVE  PoolInv'
  <1>1. /\ pattern' = Config
        /\ \A w \in Writers : tx'[w] = NoTx
        /\ tx' \in [Writers -> Transactions]
        /\ wrote' \in [Writers -> [Databases -> [Rows -> Nat]]]
        /\ \A w \in Writers, d \in Databases, r \in Rows : wrote'[w][d][r] = 0
        /\ UNCHANGED <<table, nextId, acked, begun>>
    BY IdleTx DEF Die, NoWrites, stores
  <1>2. PoolTypeOK'
    BY <1>1, ConfigAssumption DEF PoolInv, PoolTypeOK
  <1>3. \A w \in Writers : Shape(w)' /\ Progress(w)' /\ Copied(w)'
    BY <1>1 DEF Shape, Progress, Copied, NoTx, Databases
  <1>4. Exclusive' /\ DstNeverAhead'
    BY <1>1 DEF PoolInv, Exclusive, DstNeverAhead
  <1>5. DstCovered'
    BY <1>1 DEF DstCovered, Settles, NoTx
  <1>6. AckCovered'
    <2>1. ASSUME NEW r \in Rows
          PROVE  acked'["src"][r] + Cardinality(Owed(r))' <= table'["src"][r].n
      <3>1. Owed(r)' = {}
        BY <1>1 DEF Owed, NoTx
      <3>2. Cardinality(Owed(r))' = 0
        BY <3>1, FS_EmptySet
      <3>3. acked["src"][r] + Cardinality(Owed(r)) <= table["src"][r].n /\ Cardinality(Owed(r)) \in Nat
        BY OwedFinite DEF PoolInv, AckCovered
      <3>4. acked["src"][r] \in Nat /\ table["src"][r].n \in Nat
        BY DEF PoolInv, PoolTypeOK, Databases
      <3> QED
        BY <1>1, <3>2, <3>3, <3>4
    <2> QED
      BY <2>1 DEF AckCovered
  <1> QED
    BY <1>2, <1>3, <1>4, <1>5, <1>6 DEF PoolInv

-----------------------------------------------------------------------------

LEMMA PoolInvInit == PoolInit => PoolInv
  <1> SUFFICES ASSUME PoolInit PROVE PoolInv
    OBVIOUS
  <1>1. /\ \A w \in Writers : tx[w] = NoTx
        /\ \A w \in Writers, d \in Databases, r \in Rows : wrote[w][d][r] = 0
        /\ \A d \in Databases, r \in Rows : table[d][r].n = 0
        /\ \A d \in Databases, r \in Rows : acked[d][r] = 0
    BY DEF PoolInit, NoWrites
  <1>2. PoolTypeOK
    BY ConfigAssumption, BoundsAssumption, IdleTx DEF PoolInit, PoolTypeOK, NoWrites
  <1>3. \A w \in Writers : Shape(w) /\ Progress(w) /\ Copied(w)
    BY <1>1 DEF Shape, Progress, Copied, NoTx, Databases
  <1>4. Exclusive /\ DstNeverAhead /\ DstCovered
    BY <1>1 DEF Exclusive, DstNeverAhead, DstCovered, Settles, NoTx, Databases
  <1>5. AckCovered
    <2>1. ASSUME NEW r \in Rows PROVE acked["src"][r] + Cardinality(Owed(r)) <= table["src"][r].n
      <3>1. Owed(r) = {}
        BY <1>1 DEF Owed, NoTx
      <3>2. Cardinality(Owed(r)) = 0
        BY <3>1, FS_EmptySet
      <3> QED
        BY <1>1, <3>2 DEF Databases
    <2> QED
      BY <2>1 DEF AckCovered
  <1> QED
    BY <1>2, <1>3, <1>4, <1>5 DEF PoolInv

\* Owed answers are a number, so what is acknowledged is covered.
LEMMA PoolInvCoversAcks == PoolInv => NoAckedWriteLost
  <1> SUFFICES ASSUME PoolInv, NEW r \in Rows PROVE acked["src"][r] <= table["src"][r].n
    BY DEF NoAckedWriteLost
  <1>1. acked["src"][r] + Cardinality(Owed(r)) <= table["src"][r].n /\ Cardinality(Owed(r)) \in Nat
    BY OwedFinite DEF PoolInv, AckCovered
  <1>2. acked["src"][r] \in Nat /\ table["src"][r].n \in Nat
    BY DEF PoolInv, PoolTypeOK, Databases
  <1> QED
    BY <1>1, <1>2

LEMMA PoolInvNext == PoolInv /\ [PoolNext]_poolVars => PoolInv'
  <1> SUFFICES ASSUME PoolInv, [PoolNext]_poolVars PROVE PoolInv'
    OBVIOUS
  <1>1. ASSUME NEW w \in Writers, Begin(w) PROVE PoolInv'
    BY <1>1, BeginInv
  <1>2. ASSUME NEW w \in Writers, WriterStep(w) PROVE PoolInv'
    BY <1>2, ExecFirstInv, ExecSecondInv, EndFirstInv, EndSecondInv, LeakEndsInv DEF WriterStep
  <1>3. ASSUME NEW w \in Writers, WriterFault(w) PROVE PoolInv'
    BY <1>3, ExecFailsInv, EndFirstFailsInv DEF WriterFault
  <1>4. ASSUME Down PROVE PoolInv'
    <2>1. Die /\ faults' \in 0..MaxFaults
      BY <1>4, BoundsAssumption DEF Down, Crash, ExecPanics, Fault, PoolInv, PoolTypeOK
    <2> QED
      BY <2>1, DieInv
  <1>5. ASSUME NEW p \in Patterns, UpdatePattern(p) PROVE PoolInv'
    BY <1>5, UpdatePatternInv
  <1>6. CASE UNCHANGED poolVars
    <2>1. \A r \in Rows : Owed(r)' = Owed(r)
      BY <1>6 DEF poolVars, Owed
    <2>2. AckCovered'
      BY <1>6, <2>1 DEF PoolInv, poolVars, stores, AckCovered
    <2> QED
      BY <1>6, <2>2 DEF PoolInv, poolVars, stores, PoolTypeOK, Shape, Progress, Copied, Exclusive,
                        DstNeverAhead, DstCovered, Settles
  <1> QED
    BY <1>1, <1>2, <1>3, <1>4, <1>5, <1>6 DEF PoolNext

\* The invariant holds in every reachable state of the pool.
THEOREM PoolInvariant == PoolSpec => []PoolInv
  BY PoolInvInit, PoolInvNext, PTL DEF PoolSpec

\* Type correctness: a transaction's control state, pattern and rows stay in
\* their ranges, and an idle writer holds no lock in either database.
THEOREM PoolTypeCorrect == PoolSpec => []PoolTypeOK
  <1>1. PoolInv => PoolTypeOK
    BY DEF PoolInv
  <1> QED
    BY <1>1, PoolInvariant, PTL

\* What is acknowledged in the target is there: only the pool's transactions
\* write to it, and the one that is answered has copied all its rows.
DstAcked == \A r \in Rows : acked["dst"][r] <= table["dst"][r].n

LEMMA DstAckedNext ==
    ASSUME PoolInv, DstAcked, [PoolNext]_poolVars
    PROVE  DstAcked'
  <1>1. table \in [Databases -> [Rows -> [id : Nat, n : Nat]]] /\ acked \in [Databases -> [Rows -> Nat]]
    BY DEF PoolInv, PoolTypeOK
  <1>2. "src" \in Databases /\ "dst" \in Databases
    BY DEF Databases
  <1>3. CASE table' = table /\ acked' = acked
    BY <1>3 DEF DstAcked
  <1>4. ASSUME NEW w \in Writers, EndFirst(w) \/ EndFirstFails(w)
        PROVE  DstAcked'
    <2>1. /\ tx[w].pc \in {"commit", "undo"} /\ Db1(w) = "src"
          /\ Db2(w) \in {"dst", "none"}
      BY <1>4, FirstIsSource DEF EndFirst, EndFirstFails, PoolInv, Shape
    <2>2. table'["dst"] = table["dst"]
      <3>1. Apply(w, "src") \/ table' = table
        BY <1>4, <2>1 DEF EndFirst, EndFirstFails
      <3> QED
        BY <1>2, <3>1, ApplyEffect
    <2>3. \A r \in Rows : acked'["dst"][r] = acked["dst"][r]
      <3>1. CASE acked' = acked
        BY <3>1
      <3>2. CASE Db2(w) = "none" /\ Return(w)
        BY <2>1, <3>2, ReturnEffect
      <3> QED
        BY <1>4, <3>1, <3>2 DEF EndFirst, EndFirstFails
    <2> QED
      BY <2>2, <2>3 DEF DstAcked
  <1>5. ASSUME NEW w \in Writers, EndSecond(w), NEW r \in Rows
        PROVE  acked'["dst"][r] <= table'["dst"][r].n
    <2>1. /\ tx[w].pc \in {"commit2", "undo2"} /\ Db1(w) = "src" /\ Db2(w) = "dst"
          /\ tx[w].pattern \in Twofold
      BY <1>5, FirstIsSource DEF EndSecond, PoolInv, Shape
    <2>2. acked["dst"][r] \in Nat /\ table["dst"][r].n \in Nat /\ acked["dst"][r] <= table["dst"][r].n
      BY <1>1, <1>2 DEF DstAcked
    <2>3. Commits(w) => table'["dst"][r].n =
              IF wrote[w]["dst"][r] = 0 THEN table["dst"][r].n ELSE table["dst"][r].n + 1
      BY <1>2, <1>5, <2>1, ApplyEffect DEF EndSecond
    <2>4. ~Commits(w) => table' = table
      BY <1>5 DEF EndSecond
    <2>5. acked'["dst"][r] = IF tx[w].pc = "commit2" /\ r \in tx[w].from..tx[w].last
                            THEN acked["dst"][r] + 1 ELSE acked["dst"][r]
      BY <1>5, <2>1, ReturnEffect DEF EndSecond
    <2>6. tx[w].pc = "commit2" => Commits(w)
      BY DEF Commits
    <2>7. tx[w].pc = "commit2" /\ r \in tx[w].from..tx[w].last => wrote[w]["dst"][r] # 0
      BY <2>1 DEF PoolInv, Copied
    <2> QED
      BY <2>2, <2>3, <2>4, <2>5, <2>6, <2>7
  <1>6. ASSUME NEW w \in Writers,
               Begin(w) \/ ExecFirst(w) \/ ExecSecond(w) \/ LeakEnds(w)
               \/ ExecFirstFails(w) \/ ExecSecondFails(w)
        PROVE  table' = table /\ acked' = acked
    BY <1>6 DEF Begin, ExecFirst, ExecSecond, LeakEnds, ExecFirstFails, ExecSecondFails, stores
  <1>7. ASSUME Down \/ (\E p \in Patterns : UpdatePattern(p)) \/ UNCHANGED poolVars
        PROVE  table' = table /\ acked' = acked
    BY <1>7 DEF Down, Crash, ExecPanics, Die, UpdatePattern, poolVars, stores
  <1>8. ASSUME NEW w \in Writers, EndSecond(w)
        PROVE  DstAcked'
    BY <1>5, <1>8 DEF DstAcked
  <1> QED
    BY <1>3, <1>4, <1>6, <1>7, <1>8 DEF PoolNext, WriterStep, WriterFault

\* Every increment whose Commit returned nil is in each database its pattern
\* writes to, under any sequence of patterns, failed statements and commits,
\* leaked transactions and crashes.
THEOREM AckedWritesKept == PoolSpec => []AckedEverywhere
  <1>1. PoolInit => DstAcked
    BY DEF PoolInit, DstAcked, Databases
  <1>2. PoolInv /\ DstAcked => AckedEverywhere
    BY PoolInvCoversAcks DEF DstAcked, NoAckedWriteLost, AckedEverywhere, Databases
  <1>3. PoolInv /\ DstAcked /\ [PoolNext]_poolVars => DstAcked'
    BY DstAckedNext
  <1> QED
    BY <1>1, <1>2, <1>3, PoolInvariant, PTL DEF PoolSpec

\* The target database never holds an increment that the source lacks: the
\* second commit of a transaction only adds what the first one has added.
THEOREM TargetNeverAhead == PoolSpec => []DstNeverAhead
  <1>1. PoolInv => DstNeverAhead
    BY DEF PoolInv
  <1> QED
    BY <1>1, PoolInvariant, PTL

-----------------------------------------------------------------------------
(* The migration around the pool.                                          *)

FixBehind ==
    \A f \in Fixers : fix[f] # NoFix =>
        /\ fix[f].row \in Rows /\ fix[f].id \in Nat /\ fix[f].n \in Nat
        /\ fix[f].n <= table["src"][fix[f].row].n

MigratorInv == PoolInv /\ FixBehind /\ DOMAIN fix = Fixers

-----------------------------------------------------------------------------

\* No step of the pool lowers a number of the source.
LEMMA SourceGrows ==
    ASSUME PoolInv, [PoolNext]_poolVars, NEW r \in Rows
    PROVE  table["src"][r].n <= table'["src"][r].n
  <1>1. table["src"][r].n \in Nat
    BY DEF PoolInv, PoolTypeOK, Databases
  <1>2. CASE table' = table
    BY <1>1, <1>2
  <1>3. ASSUME NEW w \in Writers, NEW d \in Databases, Apply(w, d)
        PROVE  table["src"][r].n <= table'["src"][r].n
    BY <1>1, <1>3, ApplyEffect DEF Databases
  <1>4. ASSUME NEW w \in Writers, EndFirst(w) \/ EndFirstFails(w)
        PROVE  table["src"][r].n <= table'["src"][r].n
    <2>1. Db1(w) = "src"
      BY <1>4, FirstIsSource DEF EndFirst, EndFirstFails, PoolInv, Shape
    <2>2. Apply(w, "src") \/ table' = table
      BY <1>4, <2>1 DEF EndFirst, EndFirstFails
    <2> QED
      BY <1>2, <1>3, <2>2 DEF Databases
  <1>5. ASSUME NEW w \in Writers, EndSecond(w)
        PROVE  table["src"][r].n <= table'["src"][r].n
    <2>1. Db2(w) = "dst"
      BY <1>5, FirstIsSource DEF EndSecond, PoolInv, Shape
    <2>2. Apply(w, "dst") \/ table' = table
      BY <1>5, <2>1 DEF EndSecond
    <2> QED
      BY <1>2, <1>3, <2>2 DEF Databases
  <1>6. ASSUME NEW w \in Writers,
               Begin(w) \/ ExecFirst(w) \/ ExecSecond(w) \/ LeakEnds(w)
               \/ ExecFirstFails(w) \/ ExecSecondFails(w)
        PROVE  table' = table
    BY <1>6 DEF Begin, ExecFirst, ExecSecond, LeakEnds, ExecFirstFails, ExecSecondFails, stores
  <1>7. ASSUME Down \/ (\E p \in Patterns : UpdatePattern(p)) \/ UNCHANGED poolVars
        PROVE  table' = table
    BY <1>7 DEF Down, Crash, ExecPanics, Die, UpdatePattern, poolVars, stores
  <1> QED
    BY <1>2, <1>4, <1>5, <1>6, <1>7 DEF PoolNext, WriterStep, WriterFault

\* A step of the pool, while every fixer keeps its row or drops it.
LEMMA PoolStepInv ==
    ASSUME MigratorInv, [PoolNext]_poolVars, DOMAIN fix' = Fixers,
           \A f \in Fixers : fix'[f] \in {fix[f], NoFix}
    PROVE  MigratorInv'
  <1>1. PoolInv'
    BY PoolInvNext DEF MigratorInv
  <1>2. ASSUME NEW f \in Fixers, fix'[f] # NoFix
        PROVE  /\ fix'[f].row \in Rows /\ fix'[f].id \in Nat /\ fix'[f].n \in Nat
               /\ fix'[f].n <= table'["src"][fix'[f].row].n
    <2>1. /\ fix'[f] = fix[f]
          /\ fix[f].row \in Rows /\ fix[f].id \in Nat /\ fix[f].n \in Nat
          /\ fix[f].n <= table["src"][fix[f].row].n
      BY <1>2 DEF MigratorInv, FixBehind
    <2>2. table["src"][fix[f].row].n <= table'["src"][fix[f].row].n
      BY <2>1, SourceGrows DEF MigratorInv
    <2>3. table["src"][fix[f].row].n \in Nat /\ table'["src"][fix[f].row].n \in Nat
      BY <1>1, <2>1 DEF MigratorInv, PoolInv, PoolTypeOK, Databases
    <2> QED
      BY <2>1, <2>2, <2>3
  <1> QED
    BY <1>1, <1>2 DEF MigratorInv, FixBehind

LEMMA FixReadInv ==
    ASSUME MigratorInv, NEW f \in Fixers, NEW r \in Rows, FixRead(f, r)
    PROVE  MigratorInv'
  <1>1. [PoolNext]_poolVars /\ UNCHANGED poolVars /\ table' = table
    BY DEF FixRead, poolVars, stores
  <1>2. PoolInv'
    BY <1>1, PoolInvNext DEF MigratorInv
  <1>3. fix' = [fix EXCEPT ![f] = [row |-> r, id |-> table["src"][r].id, n |-> table["src"][r].n]]
    BY DEF FixRead
  <1>4. table["src"][r].id \in Nat /\ table["src"][r].n \in Nat
    BY DEF MigratorInv, PoolInv, PoolTypeOK, Databases
  <1>5. FixBehind'
    BY <1>1, <1>3, <1>4 DEF MigratorInv, FixBehind
  <1> QED
    BY <1>2, <1>3, <1>5 DEF MigratorInv

\* The upsert leaves every locked row of the target alone and sets its own
\* row to no more than the source has.
LEMMA FixWriteInv ==
    ASSUME MigratorInv, NEW f \in Fixers, FixWrite(f)
    PROVE  MigratorInv'
  <1> DEFINE r   == fix[f].row
             i   == fix[f].id
             old == table["dst"][r].id
             new(q) == IF q = r THEN [id |-> IF old = 0 THEN i ELSE old, n |-> fix[f].n]
                       ELSE IF q \in Holder(i, r) THEN [id |-> 0, n |-> 0]
                       ELSE table["dst"][q]
  <1>1. r \in Rows /\ i \in Nat /\ fix[f].n \in Nat /\ fix[f].n <= table["src"][r].n
    BY DEF FixWrite, MigratorInv, FixBehind
  <1>2. table \in [Databases -> [Rows -> [id : Nat, n : Nat]]] /\ nextId \in [Databases -> Nat \ {0}]
    BY DEF MigratorInv, PoolInv, PoolTypeOK
  <1>3. "src" \in Databases /\ "dst" \in Databases
    BY DEF Databases
  <1>4. \A q \in Rows : new(q) \in [id : Nat, n : Nat]
    BY <1>1, <1>2, <1>3
  <1>5. table' = [table EXCEPT !["dst"] = [q \in Rows |-> new(q)]]
    BY <1>2, <1>3 DEF FixWrite
  <1>6. /\ table' \in [Databases -> [Rows -> [id : Nat, n : Nat]]]
        /\ table'["src"] = table["src"]
        /\ \A q \in Rows : table'["dst"][q] = new(q)
    <2>1. [q \in Rows |-> new(q)] \in [Rows -> [id : Nat, n : Nat]]
      BY <1>4
    <2> QED
      BY <1>2, <1>3, <1>5, <2>1
  <1>7. UNCHANGED <<pattern, tx, wrote, acked, begun, faults>> /\ fix' = [fix EXCEPT ![f] = NoFix]
    BY DEF FixWrite
  <1>8. PoolTypeOK'
    <2>1. nextId' = [nextId EXCEPT !["dst"] = IF @ > i THEN @ ELSE i + 1]
      BY DEF FixWrite
    <2>2. nextId' \in [Databases -> Nat \ {0}]
      BY <1>1, <1>2, <1>3, <2>1
    <2> QED
      BY <1>6, <1>7, <2>2 DEF MigratorInv, PoolInv, PoolTypeOK
  <1>9. ASSUME NEW w \in Writers, NEW q \in Rows, wrote[w]["dst"][q] # 0
        PROVE  table'["dst"][q] = table["dst"][q]
    <2>1. q # r /\ i # table["dst"][q].id
      BY <1>9 DEF FixWrite, FixUnlocked
    <2>2. q \notin Holder(i, r)
      BY <2>1 DEF Holder
    <2> QED
      BY <1>6, <2>1, <2>2
  <1>10. \A w \in Writers : Shape(w)' /\ Progress(w)' /\ Copied(w)'
    BY <1>7 DEF MigratorInv, PoolInv, Shape, Progress, Copied
  <1>11. Exclusive'
    BY <1>7 DEF MigratorInv, PoolInv, Exclusive
  <1>12. AckCovered'
    <2>1. \A q \in Rows : Owed(q)' = Owed(q)
      BY <1>7 DEF Owed
    <2> QED
      BY <1>6, <1>7, <2>1 DEF MigratorInv, PoolInv, AckCovered
  <1>13. DstNeverAhead'
    <2>1. ASSUME NEW q \in Rows PROVE table'["dst"][q].n <= table'["src"][q].n
      <3>1. table["dst"][q].n <= table["src"][q].n /\ table["src"][q].n \in Nat
        BY <1>2, <1>3 DEF MigratorInv, PoolInv, DstNeverAhead
      <3>2. new(q).n <= table["src"][q].n
        BY <1>1, <3>1
      <3> QED
        BY <1>6, <3>2
    <2> QED
      BY <2>1 DEF DstNeverAhead
  <1>14. DstCovered'
    <2>1. \A w \in Writers : Settles(w)' = Settles(w)
      BY <1>7 DEF Settles
    <2> QED
      BY <1>6, <1>7, <1>9, <2>1 DEF MigratorInv, PoolInv, DstCovered
  <1>15. FixBehind'
    BY <1>6, <1>7 DEF MigratorInv, FixBehind
  <1> QED
    BY <1>7, <1>8, <1>10, <1>11, <1>12, <1>13, <1>14, <1>15 DEF MigratorInv, PoolInv

-----------------------------------------------------------------------------

LEMMA MigratorInvInit == Init => MigratorInv
  BY PoolInvInit DEF Init, MigratorInv, FixBehind

LEMMA MigratorInvNext == MigratorInv /\ [Next]_vars => MigratorInv'
  <1> SUFFICES ASSUME MigratorInv, [Next]_vars PROVE MigratorInv'
    OBVIOUS
  <1>1. ASSUME NEW w \in Writers, Pool(w) PROVE MigratorInv'
    BY <1>1, PoolStepInv DEF Pool, PoolNext, migVars, MigratorInv
  <1>2. ASSUME Restart PROVE MigratorInv'
    BY <1>2, PoolStepInv DEF Restart, MigratorDies, PoolNext
  <1>3. ASSUME NEW p \in Patterns, Switch(p) PROVE MigratorInv'
    BY <1>3, PoolStepInv DEF Switch, PoolNext, migVars, MigratorInv
  <1>4. ASSUME StartFull \/ Scan PROVE MigratorInv'
    <2>1. [PoolNext]_poolVars /\ fix' = fix
      BY <1>4 DEF StartFull, Scan, ReadBase, Compare
    <2> QED
      BY <2>1, PoolStepInv DEF MigratorInv
  <1>5. ASSUME NEW f \in Fixers, NEW r \in Rows, FixRead(f, r) PROVE MigratorInv'
    BY <1>5, FixReadInv
  <1>6. ASSUME NEW f \in Fixers, FixWrite(f) PROVE MigratorInv'
    BY <1>6, FixWriteInv
  <1>7. ASSUME NEW f \in Fixers, FixRejected(f) PROVE MigratorInv'
    <2>1. UNCHANGED poolVars /\ fix' = [fix EXCEPT ![f] = NoFix]
      BY <1>7 DEF FixRejected
    <2> QED
      BY <2>1, PoolStepInv DEF MigratorInv
  <1>8. ASSUME Fault, UNCHANGED <<pattern, stores, tx, wrote, acked, begun>>,
               DOMAIN fix' = Fixers, \A f \in Fixers : fix'[f] \in {fix[f], NoFix}
        PROVE  MigratorInv'
    <2>1. PoolTypeOK'
      BY <1>8, BoundsAssumption DEF Fault, stores, MigratorInv, PoolInv, PoolTypeOK
    <2>2. \A r \in Rows : Owed(r)' = Owed(r)
      BY <1>8 DEF Owed
    <2>3. AckCovered'
      BY <1>8, <2>2 DEF stores, MigratorInv, PoolInv, AckCovered
    <2>4. PoolInv'
      BY <1>8, <2>1, <2>3 DEF stores, MigratorInv, PoolInv, Shape, Progress, Copied, Exclusive,
                               DstNeverAhead, DstCovered, Settles
    <2>5. FixBehind'
      BY <1>8 DEF stores, MigratorInv, FixBehind
    <2> QED
      BY <1>8, <2>4, <2>5 DEF MigratorInv
  <1>9. ASSUME StopFull \/ ScanFails PROVE MigratorInv'
    BY <1>8, <1>9 DEF StopFull, ScanFails, MigratorInv
  <1>10. ASSUME NEW f \in Fixers, FixFails(f) PROVE MigratorInv'
    BY <1>8, <1>10 DEF FixFails, MigratorInv
  <1>11. CASE UNCHANGED vars
    BY <1>11, PoolStepInv DEF vars, migVars, MigratorInv
  <1> QED
    BY <1>1, <1>2, <1>3, <1>4, <1>5, <1>6, <1>7, <1>9, <1>10, <1>11 DEF Next, Fixer

\* With validations and fixes beside the transactions, and every interruption
\* of either, the target never holds an increment that the source lacks.
THEOREM FixesNeverOvertake == Spec => []DstNeverAhead
  <1>1. MigratorInv => DstNeverAhead
    BY DEF MigratorInv, PoolInv
  <1>2. Spec => []MigratorInv
    BY MigratorInvInit, MigratorInvNext, PTL DEF Spec
  <1> QED
    BY <1>1, <1>2, PTL

\* Nor does the migration around the pool lose an acknowledged increment from
\* the source, which decides what a caller reads and what a fix writes.
THEOREM MigrationKeepsAckedWrites == Spec => []NoAckedWriteLost
  <1>1. MigratorInv => NoAckedWriteLost
    BY PoolInvCoversAcks DEF MigratorInv
  <1>2. Spec => []MigratorInv
    BY MigratorInvInit, MigratorInvNext, PTL DEF Spec
  <1> QED
    BY <1>1, <1>2, PTL

-----------------------------------------------------------------------------
(* The ids of the source.                                                  *)

\* The source has row r under id i, or a transaction is about to give it to r.
Claims(i, r) ==
    /\ i # 0
    /\ table["src"][r].id = i \/ \E w \in Writers : wrote[w]["src"][r] = i

\* An id of the source belongs to one row, for good.
IdsInv ==
    /\ \A i \in Nat, r \in Rows : Claims(i, r) => i < nextId["src"]
    /\ \A i \in Nat, r, q \in Rows : Claims(i, r) /\ Claims(i, q) => r = q
    /\ \A w \in Writers, r \in Rows :
          wrote[w]["src"][r] # 0 => table["src"][r].id \in {0, wrote[w]["src"][r]}

\* The source is left alone, but that transactions may be rolled back.
SourceRests ==
    /\ nextId'["src"] = nextId["src"]
    /\ table'["src"] = table["src"]
    /\ \A w \in Writers, r \in Rows : wrote'[w]["src"][r] \in {0, wrote[w]["src"][r]}

\* w's transaction ends in the source with a commit.
SourceCommits(w) ==
    /\ nextId' = nextId
    /\ Apply(w, "src")
    /\ \A r \in Rows : wrote'[w]["src"][r] = 0
    /\ \A v \in Writers \ {w} : wrote'[v] = wrote[v]

\* A row that no transaction has written is not changed by any of them.
LEMMA UntouchedRow ==
    ASSUME PoolInv, NEW w \in Writers, NEW d \in Databases, Apply(w, d),
           NEW r \in Rows, wrote[w][d][r] = 0
    PROVE  \A e \in Databases : table'[e][r] = table[e][r]
  <1>1. table \in [Databases -> [Rows -> [id : Nat, n : Nat]]]
    BY DEF PoolInv, PoolTypeOK
  <1>2. table'[d][r] = table[d][r]
    BY <1>1 DEF Apply
  <1>3. \A e \in Databases \ {d} : table'[e] = table[e]
    BY <1>1 DEF Apply
  <1> QED
    BY <1>2, <1>3

LEMMA SourceSteps ==
    ASSUME PoolInv, [PoolNext]_poolVars
    PROVE  \/ SourceRests
           \/ \E w \in Writers : Upsert(w, "src") /\ table' = table
           \/ \E w \in Writers : SourceCommits(w)
  <1>1. "src" \in Databases /\ "dst" \in Databases
    BY DEF Databases
  <1>2. table \in [Databases -> [Rows -> [id : Nat, n : Nat]]] /\ nextId \in [Databases -> Nat \ {0}]
        /\ wrote \in [Writers -> [Databases -> [Rows -> Nat]]]
    BY DEF PoolInv, PoolTypeOK
  <1>3. ASSUME NEW w \in Writers, ExecFirst(w)
        PROVE  Upsert(w, "src") /\ table' = table
    BY <1>3, FirstIsSource DEF ExecFirst, PoolInv
  <1>4. ASSUME NEW w \in Writers, ExecSecond(w)
        PROVE  SourceRests
    <2>1. Db2(w) = "dst"
      BY <1>4, FirstIsSource DEF ExecSecond, PoolInv, Shape
    <2>2. tx[w].at \in Rows
      BY DEF PoolInv, PoolTypeOK, Transactions
    <2> QED
      BY <1>1, <1>2, <1>4, <2>1, <2>2 DEF ExecSecond, Upsert, SourceRests
  <1>5. ASSUME NEW w \in Writers, EndFirst(w) \/ EndFirstFails(w)
        PROVE  SourceRests \/ SourceCommits(w)
    <2>1. Db1(w) = "src"
      BY <1>5, FirstIsSource DEF EndFirst, EndFirstFails, PoolInv, Shape
    <2>2. nextId' = nextId /\ Forget(w, "src") /\ (Apply(w, "src") \/ table' = table)
      BY <1>5, <2>1 DEF EndFirst, EndFirstFails
    <2>3. /\ \A v \in Writers \ {w} : wrote'[v] = wrote[v]
          /\ \A r \in Rows : wrote'[w]["src"][r] = 0
      BY <1>1, <2>2, ForgetEffect
    <2> QED
      BY <2>2, <2>3 DEF SourceRests, SourceCommits
  <1>6. ASSUME NEW w \in Writers, EndSecond(w)
        PROVE  SourceRests
    <2>1. Db2(w) = "dst"
      BY <1>6, FirstIsSource DEF EndSecond, PoolInv, Shape
    <2>2. nextId' = nextId /\ Forget(w, "dst") /\ (Apply(w, "dst") \/ table' = table)
      BY <1>6, <2>1 DEF EndSecond
    <2>3. table'["src"] = table["src"]
      BY <1>1, <2>2, ApplyEffect
    <2>4. \A v \in Writers : wrote'[v]["src"] = wrote[v]["src"]
      BY <1>1, <2>2, ForgetEffect
    <2> QED
      BY <2>2, <2>3, <2>4 DEF SourceRests
  <1>7. ASSUME NEW w \in Writers,
               Begin(w) \/ ExecFirstFails(w) \/ ExecSecondFails(w)
               \/ (\E p \in Patterns : UpdatePattern(p)) \/ UNCHANGED poolVars
        PROVE  SourceRests
    BY <1>7 DEF Begin, ExecFirstFails, ExecSecondFails, UpdatePattern, poolVars, stores, SourceRests
  <1>8. ASSUME (\E p \in Patterns : UpdatePattern(p)) \/ UNCHANGED poolVars
        PROVE  SourceRests
    BY <1>8 DEF UpdatePattern, poolVars, stores, SourceRests
  <1>9. ASSUME NEW w \in Writers, LeakEnds(w)
        PROVE  SourceRests
    BY <1>1, <1>2, <1>9 DEF LeakEnds, NoWrites, stores, SourceRests
  <1>10. CASE Down
    BY <1>1, <1>10 DEF Down, Crash, ExecPanics, Die, NoWrites, stores, SourceRests
  <1> QED
    BY <1>3, <1>4, <1>5, <1>6, <1>7, <1>8, <1>9, <1>10 DEF PoolNext, WriterStep, WriterFault

LEMMA RestsKeepsIds ==
    ASSUME IdsInv, SourceRests
    PROVE  IdsInv'
  <1>1. \A i, r : r \in Rows /\ Claims(i, r)' => Claims(i, r)
    BY DEF Claims, SourceRests
  <1>2. \A w \in Writers, r \in Rows :
          wrote'[w]["src"][r] # 0 => table'["src"][r].id \in {0, wrote'[w]["src"][r]}
    BY DEF IdsInv, SourceRests
  <1> QED
    BY <1>1, <1>2 DEF IdsInv, SourceRests

\* A new row takes an id that nobody has.
LEMMA UpsertKeepsIds ==
    ASSUME PoolInv, IdsInv, NEW w \in Writers, Upsert(w, "src"), table' = table
    PROVE  IdsInv'
  <1> DEFINE r  == tx[w].at
             id == table["src"][r].id
             k  == IF id = 0 THEN nextId["src"] ELSE id
  <1>1. "src" \in Databases /\ r \in Rows /\ id \in Nat /\ nextId["src"] \in Nat \ {0}
        /\ nextId \in [Databases -> Nat \ {0}]
        /\ wrote \in [Writers -> [Databases -> [Rows -> Nat]]]
    BY DEF PoolInv, PoolTypeOK, Transactions, Databases
  <1>2. /\ \A v \in Writers, q \in Rows :
              wrote'[v]["src"][q] = IF v = w /\ q = r THEN k ELSE wrote[v]["src"][q]
        /\ nextId'["src"] = IF id = 0 THEN nextId["src"] + 1 ELSE nextId["src"]
    BY <1>1 DEF Upsert
  <1>3. \A i, q : q \in Rows /\ Claims(i, q)' => Claims(i, q) \/ (i = k /\ q = r)
    BY <1>2 DEF Claims
  <1>4. id # 0 => Claims(k, r)
    BY DEF Claims
  <1>5. \A v \in Writers \ {w} : wrote[v]["src"][r] = 0
    BY DEF Upsert, Unlocked
  <1>6. \A i \in Nat, q \in Rows : Claims(i, q)' => i < nextId'["src"]
    BY <1>1, <1>2, <1>3, <1>4 DEF IdsInv
  <1>7. \A i \in Nat, p, q \in Rows : Claims(i, p)' /\ Claims(i, q)' => p = q
    <2>1. CASE id # 0
      BY <1>1, <1>3, <1>4, <2>1 DEF IdsInv
    <2>2. CASE id = 0
      <3>1. \A q \in Rows : ~Claims(k, q)
        BY <1>1, <2>2 DEF IdsInv
      <3> QED
        BY <1>1, <1>3, <3>1 DEF IdsInv
    <2> QED
      BY <2>1, <2>2
  <1>8. \A v \in Writers, q \in Rows :
          wrote'[v]["src"][q] # 0 => table'["src"][q].id \in {0, wrote'[v]["src"][q]}
    BY <1>2, <1>5 DEF IdsInv
  <1> QED
    BY <1>6, <1>7, <1>8 DEF IdsInv

\* A commit turns what was about to be given into what is given.
LEMMA CommitKeepsIds ==
    ASSUME PoolInv, IdsInv, NEW w \in Writers, SourceCommits(w)
    PROVE  /\ IdsInv'
           /\ \A r \in Rows : table["src"][r].id # 0 => table'["src"][r].id = table["src"][r].id
  <1>1. "src" \in Databases /\ wrote \in [Writers -> [Databases -> [Rows -> Nat]]]
        /\ table \in [Databases -> [Rows -> [id : Nat, n : Nat]]]
    BY DEF PoolInv, PoolTypeOK, Databases
  <1>2. \A r \in Rows : table'["src"][r].id =
          IF wrote[w]["src"][r] = 0 THEN table["src"][r].id ELSE wrote[w]["src"][r]
    <2> DEFINE row(r) == IF wrote[w]["src"][r] = 0 THEN table["src"][r]
                         ELSE [id |-> wrote[w]["src"][r], n |-> table["src"][r].n + 1]
    <2>1. \A r \in Rows : table'["src"][r] = row(r)
      BY <1>1 DEF SourceCommits, Apply
    <2>2. \A r \in Rows : row(r).id =
            IF wrote[w]["src"][r] = 0 THEN table["src"][r].id ELSE wrote[w]["src"][r]
      OBVIOUS
    <2> QED
      BY <2>1, <2>2
  <1>3. \A i, r : r \in Rows /\ Claims(i, r)' => Claims(i, r)
    BY <1>2 DEF Claims, SourceCommits
  <1>4. ASSUME NEW v \in Writers, NEW r \in Rows, wrote'[v]["src"][r] # 0
        PROVE  table'["src"][r].id \in {0, wrote'[v]["src"][r]}
    <2>1. v # w /\ wrote'[v] = wrote[v]
      BY <1>4 DEF SourceCommits
    <2>2. wrote[w]["src"][r] = 0
      BY <1>1, <1>4, <2>1 DEF PoolInv, Exclusive
    <2> QED
      BY <1>2, <1>4, <2>1, <2>2 DEF IdsInv
  <1>5. IdsInv'
    BY <1>3, <1>4 DEF IdsInv, SourceCommits
  <1> QED
    BY <1>2, <1>5 DEF IdsInv

\* What a step of the pool does to the ids.
LEMMA IdsKept ==
    ASSUME PoolInv, IdsInv, [PoolNext]_poolVars
    PROVE  /\ IdsInv'
           /\ \A r \in Rows : table["src"][r].id # 0 => table'["src"][r].id = table["src"][r].id
  <1>1. CASE SourceRests
    BY <1>1, RestsKeepsIds DEF SourceRests
  <1>2. ASSUME NEW w \in Writers, Upsert(w, "src"), table' = table
        PROVE  IdsInv'
    BY <1>2, UpsertKeepsIds
  <1>3. ASSUME NEW w \in Writers, SourceCommits(w)
        PROVE  /\ IdsInv'
               /\ \A r \in Rows : table["src"][r].id # 0 => table'["src"][r].id = table["src"][r].id
    BY <1>3, CommitKeepsIds
  <1> QED
    BY <1>1, <1>2, <1>3, SourceSteps

-----------------------------------------------------------------------------
(* Repaired rows.                                                          *)

Scans == [pc : {"off", "read", "compare"}, offset : Nat, row : Rows \cup {0},
          id : Nat, n : Nat, cancelled : BOOLEAN]

\* What is reported is an id, and a fixer holds the id of its row.
ReportsInv ==
    /\ scan \in Scans
    /\ scan.pc = "compare" => scan.id # 0
    /\ 0 \notin events
    /\ \A f \in Fixers : fix[f] # NoFix =>
          fix[f].id # 0 /\ table["src"][fix[f].row].id = fix[f].id

Untouched(r) == \A w \in Writers, d \in Databases : wrote[w][d][r] = 0

\* The target has row r as the source has it, id included, no transaction has
\* written it, and a fixer that holds it holds it as it is.
Repaired(r) ==
    /\ InSrc(r)
    /\ table["dst"][r] = table["src"][r]
    /\ Untouched(r)
    /\ \A f \in Fixers : fix[f].row = r => fix[f].n = table["src"][r].n

LEMMA ReportsInit == Init => IdsInv /\ ReportsInv
  <1> SUFFICES ASSUME Init PROVE IdsInv /\ ReportsInv
    OBVIOUS
  <1>1. /\ \A r \in Rows : table["src"][r].id = 0
        /\ \A w \in Writers, r \in Rows : wrote[w]["src"][r] = 0
    BY DEF Init, PoolInit, NoWrites, Databases
  <1>2. IdsInv
    BY <1>1 DEF IdsInv, Claims
  <1>3. NoScan \in Scans /\ NoScan.pc = "off"
    BY DEF NoScan, Scans
  <1> QED
    BY <1>2, <1>3 DEF Init, ReportsInv

LEMMA ReportsNext ==
    ASSUME MigratorInv, IdsInv, ReportsInv, [Next]_vars
    PROVE  IdsInv' /\ ReportsInv'
  <1>1. PoolInv /\ DOMAIN fix = Fixers /\ \A f \in Fixers : fix[f] # NoFix => fix[f].row \in Rows
    BY DEF MigratorInv, FixBehind
  <1>2. table \in [Databases -> [Rows -> [id : Nat, n : Nat]]] /\ "src" \in Databases
    BY <1>1 DEF PoolInv, PoolTypeOK, Databases
  <1>3. NoScan \in Scans /\ NoScan.pc = "off"
    BY DEF NoScan, Scans
  <1>4. ASSUME [PoolNext]_poolVars, scan' \in Scans, scan'.pc = "compare" => scan'.id # 0,
               0 \notin events', \A f \in Fixers : fix'[f] \in {fix[f], NoFix}
        PROVE  IdsInv' /\ ReportsInv'
    <2>1. IdsInv' /\ \A r \in Rows : table["src"][r].id # 0 => table'["src"][r].id = table["src"][r].id
      BY <1>1, <1>4, IdsKept
    <2> QED
      BY <1>1, <1>4, <2>1 DEF ReportsInv
  <1>5. ASSUME SourceRests, table' = table, scan' \in Scans, scan'.pc = "compare" => scan'.id # 0,
               0 \notin events', \A f \in Fixers : fix'[f] \in {fix[f], NoFix}
        PROVE  IdsInv' /\ ReportsInv'
    BY <1>5, RestsKeepsIds DEF ReportsInv
  <1>6. ASSUME NEW w \in Writers, Pool(w)
        PROVE  IdsInv' /\ ReportsInv'
    BY <1>4, <1>6 DEF Pool, PoolNext, migVars, ReportsInv
  <1>7. CASE Restart
    <2>1. 0 \notin events'
      BY <1>7 DEF Restart, MigratorDies, ReportsInv
    <2> QED
      BY <1>3, <1>4, <1>7, <2>1 DEF Restart, MigratorDies, PoolNext
  <1>8. ASSUME NEW p \in Patterns, Switch(p)
        PROVE  IdsInv' /\ ReportsInv'
    BY <1>4, <1>8 DEF Switch, PoolNext, migVars, ReportsInv
  <1>9. ASSUME UNCHANGED table, UNCHANGED wrote, UNCHANGED nextId
        PROVE  SourceRests
    BY <1>9 DEF SourceRests
  <1>10. CASE StartFull
    <2>1. scan' \in Scans /\ scan'.pc = "read"
      BY <1>3, <1>10 DEF StartFull, Scans
    <2> QED
      BY <1>5, <1>9, <1>10, <2>1 DEF StartFull, poolVars, ReportsInv
  <1>11. CASE StopFull
    <2>1. scan' \in Scans /\ scan'.pc = scan.pc /\ scan'.id = scan.id
      BY <1>11 DEF StopFull, Scans, ReportsInv
    <2> QED
      BY <1>5, <1>9, <1>11, <2>1 DEF StopFull, stores, ReportsInv
  <1>12. CASE ReadBase
    <2>1. scan' \in Scans /\ (scan'.pc = "compare" => scan'.id # 0)
      <3>1. CASE scan' = NoScan
        BY <1>3, <3>1
      <3>2. ASSUME NEW r \in Rows, AtOffset(scan.offset, r),
                   scan' = [scan EXCEPT !.pc = "compare", !.row = r,
                                !.id = table["src"][r].id, !.n = table["src"][r].n]
            PROVE  scan' \in Scans /\ scan'.id # 0
        <4>1. table["src"][r].id \in Nat /\ table["src"][r].n \in Nat /\ table["src"][r].id # 0
          BY <1>2, <3>2 DEF AtOffset, InSrc
        <4> QED
          BY <3>2, <4>1 DEF Scans, ReportsInv
      <3> QED
        BY <1>12, <3>1, <3>2 DEF ReadBase
    <2> QED
      BY <1>5, <1>9, <1>12, <2>1 DEF ReadBase, poolVars, ReportsInv
  <1>13. ASSUME NextRow PROVE scan' \in Scans /\ scan'.pc = "read"
    <2>1. scan \in Scans /\ scan.offset + 1 \in Nat
      BY DEF Scans, ReportsInv
    <2>2. scan' = [scan EXCEPT !.pc = "read", !.offset = scan.offset + 1, !.row = 0, !.id = 0, !.n = 0]
      BY <1>13, <2>1 DEF NextRow, Scans
    <2> QED
      BY <2>1, <2>2 DEF Scans
  <1>14. CASE Compare
    BY <1>5, <1>9, <1>13, <1>14 DEF Compare, poolVars, ReportsInv
  <1>15. CASE ScanFails
    BY <1>3, <1>5, <1>9, <1>13, <1>15 DEF ScanFails, stores, ReportsInv
  <1>16. ASSUME NEW f \in Fixers, NEW r \in Rows, FixRead(f, r)
         PROVE  IdsInv' /\ ReportsInv'
    <2>1. /\ UNCHANGED <<table, wrote, nextId, scan>> /\ 0 \notin events'
          /\ fix' = [fix EXCEPT ![f] = [row |-> r, id |-> table["src"][r].id, n |-> table["src"][r].n]]
          /\ table["src"][r].id # 0
      BY <1>16 DEF FixRead, poolVars, ReportsInv
    <2> QED
      BY <1>1, <1>9, <2>1, RestsKeepsIds DEF ReportsInv
  <1>17. ASSUME NEW f \in Fixers, FixWrite(f)
         PROVE  IdsInv' /\ ReportsInv'
    <2>1. table'["src"] = table["src"] /\ nextId'["src"] = nextId["src"]
      BY <1>2, <1>17 DEF FixWrite
    <2>2. /\ UNCHANGED <<wrote, scan, events>>
          /\ fix' = [fix EXCEPT ![f] = NoFix]
      BY <1>17 DEF FixWrite
    <2> QED
      BY <1>1, <2>1, <2>2, RestsKeepsIds DEF SourceRests, ReportsInv
  <1>18. ASSUME NEW f \in Fixers, FixRejected(f)
         PROVE  IdsInv' /\ ReportsInv'
    BY <1>1, <1>5, <1>9, <1>18 DEF FixRejected, poolVars, ReportsInv
  <1>19. ASSUME NEW f \in Fixers, FixFails(f)
         PROVE  IdsInv' /\ ReportsInv'
    <2>1. 0 \notin events'
      BY <1>19 DEF FixFails, ReportsInv
    <2> QED
      BY <1>1, <1>5, <1>9, <1>19, <2>1 DEF FixFails, stores, ReportsInv
  <1>20. CASE UNCHANGED vars
    BY <1>5, <1>9, <1>20 DEF vars, poolVars, stores, migVars, ReportsInv
  <1> QED
    BY <1>6, <1>7, <1>8, <1>10, <1>11, <1>12, <1>14, <1>15, <1>16, <1>17, <1>18, <1>19, <1>20
       DEF Next, Scan, Fixer

\* The fixes of other rows do not take a repaired row for theirs, and the fixes
\* of this one write what is there.
LEMMA FixKeepsRepaired ==
    ASSUME MigratorInv, IdsInv, ReportsInv, NEW f \in Fixers, FixWrite(f),
           NEW r \in Rows, Repaired(r)
    PROVE  table'["src"] = table["src"] /\ table'["dst"][r] = table["dst"][r]
  <1> DEFINE q == fix[f].row
             i == fix[f].id
  <1>1. /\ table \in [Databases -> [Rows -> [id : Nat, n : Nat]]]
        /\ "src" \in Databases /\ "dst" \in Databases
    BY DEF MigratorInv, PoolInv, PoolTypeOK, Databases
  <1>2. q \in Rows /\ i # 0 /\ table["src"][q].id = i
    BY DEF FixWrite, ReportsInv, MigratorInv, FixBehind
  <1>3. table["dst"][r].id # 0 /\ table["dst"][r] = table["src"][r]
    BY DEF Repaired, InSrc
  <1>4. table'["src"] = table["src"]
    BY <1>1 DEF FixWrite
  <1>5. CASE r = q
    <2>1. fix[f].n = table["dst"][r].n
      BY <1>3, <1>5 DEF Repaired
    <2>2. table'["dst"][r] = [id |-> table["dst"][r].id, n |-> fix[f].n]
      BY <1>1, <1>3, <1>5 DEF FixWrite
    <2>3. table["dst"][r] \in [id : Nat, n : Nat]
      BY <1>1
    <2> QED
      BY <1>4, <2>1, <2>2, <2>3
  <1>6. CASE r # q
    <2>1. Claims(i, q) /\ Claims(table["src"][r].id, r)
      BY <1>2, <1>3 DEF Claims
    <2>2. i \in Nat
      BY <1>1, <1>2
    <2>3. table["src"][r].id # i
      <3>1. \A p \in Rows : Claims(i, p) /\ Claims(i, q) => p = q
        BY <1>2, <2>2 DEF IdsInv
      <3> QED
        BY <1>6, <2>1, <3>1
    <2>4. r \notin Holder(i, q)
      BY <1>3, <2>3 DEF Holder
    <2> QED
      BY <1>1, <1>4, <1>6, <2>4 DEF FixWrite
  <1> QED
    BY <1>5, <1>6

LEMMA PoolKeepsUntouched ==
    ASSUME PoolInv, [PoolNext]_poolVars, NEW r \in Rows, Untouched(r)
    PROVE  \A d \in Databases : table'[d][r] = table[d][r]
  <1>1. ASSUME NEW w \in Writers, NEW d \in Databases, Apply(w, d)
        PROVE  \A e \in Databases : table'[e][r] = table[e][r]
    BY <1>1, UntouchedRow DEF Untouched
  <1>2. ASSUME NEW w \in Writers, EndFirst(w) \/ EndFirstFails(w)
        PROVE  \A e \in Databases : table'[e][r] = table[e][r]
    <2>1. Db1(w) \in Databases
      BY <1>2, FirstIsSource DEF EndFirst, EndFirstFails, PoolInv, Shape, Databases
    <2> QED
      BY <1>1, <1>2, <2>1 DEF EndFirst, EndFirstFails
  <1>3. ASSUME NEW w \in Writers, EndSecond(w)
        PROVE  \A e \in Databases : table'[e][r] = table[e][r]
    <2>1. Db2(w) \in Databases
      BY <1>3, FirstIsSource DEF EndSecond, PoolInv, Shape, Databases
    <2> QED
      BY <1>1, <1>3, <2>1 DEF EndSecond
  <1>4. ASSUME NEW w \in Writers,
               Begin(w) \/ ExecFirst(w) \/ ExecSecond(w) \/ LeakEnds(w)
               \/ ExecFirstFails(w) \/ ExecSecondFails(w)
        PROVE  table' = table
    BY <1>4 DEF Begin, ExecFirst, ExecSecond, LeakEnds, ExecFirstFails, ExecSecondFails, stores
  <1>5. ASSUME Down \/ (\E p \in Patterns : UpdatePattern(p)) \/ UNCHANGED poolVars
        PROVE  table' = table
    BY <1>5 DEF Down, Crash, ExecPanics, Die, UpdatePattern, poolVars, stores
  <1> QED
    BY <1>2, <1>3, <1>4, <1>5 DEF PoolNext, WriterStep, WriterFault

\* What Converges reaches for a row is lost only to a transaction that writes
\* it: no other commit, no fix of this row or another, however late, no scan,
\* failure, crash or change of the pattern takes the two databases apart again.
THEOREM RepairedStays ==
    Spec => [][\A r \in Rows : Repaired(r) /\ Untouched(r)' => Repaired(r)']_vars
  <1>1. MigratorInv /\ IdsInv /\ ReportsInv /\ [Next]_vars =>
            [\A r \in Rows : Repaired(r) /\ Untouched(r)' => Repaired(r)']_vars
    <2> SUFFICES ASSUME MigratorInv, IdsInv, ReportsInv, Next,
                        NEW r \in Rows, Repaired(r), Untouched(r)'
                 PROVE  Repaired(r)'
      OBVIOUS
    <2>1. PoolInv /\ DOMAIN fix = Fixers /\ NoFix.row # r /\ "src" \in Databases /\ "dst" \in Databases
      BY DEF MigratorInv, NoFix, Rows, Databases
    <2>2. ASSUME \A d \in Databases : table'[d][r] = table[d][r],
                 \A f \in Fixers : fix'[f] \in {fix[f], NoFix}
          PROVE  Repaired(r)'
      BY <2>1, <2>2 DEF Repaired, InSrc
    <2>3. ASSUME [PoolNext]_poolVars, \A f \in Fixers : fix'[f] \in {fix[f], NoFix}
          PROVE  Repaired(r)'
      BY <2>1, <2>2, <2>3, PoolKeepsUntouched DEF Repaired
    <2>4. ASSUME NEW w \in Writers, Pool(w)
          PROVE  Repaired(r)'
      BY <2>3, <2>4 DEF Pool, PoolNext, migVars
    <2>5. CASE Restart
      BY <2>3, <2>5 DEF Restart, MigratorDies, PoolNext
    <2>6. ASSUME NEW p \in Patterns, Switch(p)
          PROVE  Repaired(r)'
      BY <2>3, <2>6 DEF Switch, PoolNext, migVars
    <2>7. CASE StartFull \/ StopFull \/ Scan \/ ScanFails
      BY <2>2, <2>7 DEF StartFull, StopFull, Scan, ReadBase, Compare, ScanFails, poolVars, stores
    <2>8. ASSUME NEW f \in Fixers, NEW q \in Rows, FixRead(f, q)
          PROVE  Repaired(r)'
      <3>1. /\ table' = table
            /\ fix' = [fix EXCEPT ![f] = [row |-> q, id |-> table["src"][q].id, n |-> table["src"][q].n]]
        BY <2>8 DEF FixRead, poolVars
      <3>2. \A g \in Fixers : fix'[g].row = r => fix'[g].n = table["src"][r].n
        BY <2>1, <3>1 DEF Repaired
      <3> QED
        BY <3>1, <3>2 DEF Repaired, InSrc
    <2>9. ASSUME NEW f \in Fixers, FixWrite(f)
          PROVE  Repaired(r)'
      <3>1. fix' = [fix EXCEPT ![f] = NoFix]
        BY <2>9 DEF FixWrite
      <3>2. \A d \in Databases : table'[d][r] = table[d][r]
        BY <2>9, FixKeepsRepaired DEF Databases
      <3> QED
        BY <2>1, <2>2, <3>1, <3>2
    <2>10. ASSUME NEW f \in Fixers, FixRejected(f) \/ FixFails(f)
           PROVE  Repaired(r)'
      BY <2>1, <2>2, <2>10 DEF FixRejected, FixFails, poolVars, stores
    <2> QED
      BY <2>4, <2>5, <2>6, <2>7, <2>8, <2>9, <2>10 DEF Next, Fixer
  <1>2. Spec => []MigratorInv
    BY MigratorInvInit, MigratorInvNext, PTL DEF Spec
  <1>3. Spec => [](IdsInv /\ ReportsInv)
    <2>1. MigratorInv /\ IdsInv /\ ReportsInv /\ [Next]_vars => (IdsInv /\ ReportsInv)'
      BY ReportsNext
    <2> QED
      BY <1>2, <2>1, ReportsInit, PTL DEF Spec
  <1> QED
    BY <1>1, <1>2, <1>3, PTL DEF Spec
=============================================================================
