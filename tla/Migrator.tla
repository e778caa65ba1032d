------------------------------- MODULE Migrator -------------------------------
(***************************************************************************)
(* pkg/migrator around the double-write pool: the scheduler's handlers     *)
(* change the pattern and start and stop a full validation; the validator  *)
(* scans the source table by id and offset, compares each row with the     *)
(* target's row of that id and reports a difference to Kafka; the fixers   *)
(* consume the reports, read the source row and upsert it into the target. *)
(* Every pattern validates and fixes in the direction source to target.    *)
(*                                                                         *)
(* The table's rows are never deleted, so a reported id is always found in *)
(* the source.  The scan in the other direction reports nothing: its query *)
(* names no table.                                                         *)
(***************************************************************************)
EXTENDS DoubleWritePool

CONSTANT Fixers  \* goroutines of the fixer's consumer, one per partition

VARIABLES
    scan,    \* validateBaseToTarget: where it is, and the row it has read
    events,  \* reported ids that no fixer has taken
    fix      \* each fixer: the event and the source row it has read

migVars == <<scan, events, fix>>
vars == <<poolVars, migVars>>

NoScan == [pc |-> "off", offset |-> 0, row |-> 0, id |-> 0, n |-> 0, cancelled |-> FALSE]
NoFix == [row |-> 0, id |-> 0, n |-> 0]

Init ==
    /\ PoolInit
    /\ scan = NoScan
    /\ events = {}
    /\ fix = [f \in Fixers |-> NoFix]

-----------------------------------------------------------------------------
(* The scheduler's handlers.                                               *)

Switch(p) ==
    /\ pattern # p
    /\ UpdatePattern(p)
    /\ UNCHANGED migVars

\* A start during a validation is a StopFull and a StartFull.
StartFull ==
    /\ scan.pc = "off"
    /\ scan' = [NoScan EXCEPT !.pc = "read"]
    /\ UNCHANGED <<poolVars, events, fix>>

StopFull ==
    /\ scan.pc # "off"
    /\ ~scan.cancelled
    /\ Fault
    /\ scan' = [scan EXCEPT !.cancelled = TRUE]
    /\ UNCHANGED <<pattern, stores, tx, wrote, acked, begun, events, fix>>

-----------------------------------------------------------------------------
(* validateBaseToTarget.                                                   *)

InSrc(r) == table["src"][r].id # 0

\* ORDER BY id OFFSET k LIMIT 1.
AtOffset(k, r) ==
    /\ InSrc(r)
    /\ Cardinality({q \in Rows : InSrc(q) /\ table["src"][q].id < table["src"][r].id}) = k

\* The cancelled context is noticed by the next query of the source.
ReadBase ==
    /\ scan.pc = "read"
    /\ \/ /\ scan.cancelled \/ \A r \in Rows : ~AtOffset(scan.offset, r)
          /\ scan' = NoScan
       \/ /\ ~scan.cancelled
          /\ \E r \in Rows :
                 /\ AtOffset(scan.offset, r)
                 /\ scan' = [scan EXCEPT !.pc = "compare", !.row = r,
                                !.id = table["src"][r].id, !.n = table["src"][r].n]
    /\ UNCHANGED <<poolVars, events, fix>>

NextRow == scan' = [scan EXCEPT !.pc = "read", !.offset = @ + 1, !.row = 0, !.id = 0, !.n = 0]

Agrees == table["dst"][scan.row] = [id |-> scan.id, n |-> scan.n]

Compare ==
    /\ scan.pc = "compare"
    /\ events' = IF Agrees THEN events ELSE events \cup {scan.id}
    /\ NextRow
    /\ UNCHANGED <<poolVars, fix>>

\* A query or the report fails: a timeout ends the scan, anything else is
\* logged and costs the row.
ScanFails ==
    /\ scan.pc # "off"
    /\ Fault
    /\ \/ scan' = NoScan
       \/ scan.offset < NumRows /\ NextRow
    /\ UNCHANGED <<pattern, stores, tx, wrote, acked, begun, events, fix>>

-----------------------------------------------------------------------------
(* OverrideFixer.Fix.                                                      *)

FixRead(f, r) ==
    LET i == table["src"][r].id IN
    /\ fix[f] = NoFix
    /\ i \in events
    /\ events' = events \ {i}
    /\ fix' = [fix EXCEPT ![f] = [row |-> r, id |-> i, n |-> table["src"][r].n]]
    /\ UNCHANGED <<poolVars, scan>>

\* The target's row with the id, if another key has it.
Holder(i, r) == {q \in Rows \ {r} : table["dst"][q].id = i}

\* The key and the id are in two rows of the target: a duplicate key.
Clash(i, r) == table["dst"][r].id \notin {0, i} /\ Holder(i, r) # {}

\* No transaction has locked a row that has the key or the id of the upsert.
FixUnlocked(f) ==
    \A w \in Writers, r \in Rows :
        wrote[w]["dst"][r] # 0 =>
            r # fix[f].row /\ fix[f].id \notin {table["dst"][r].id, wrote[w]["dst"][r]}

\* Mutant of FixWrite: an UPDATE instead of the upsert.
FixWriteUpdateOnly(f) ==
    LET r == fix[f].row IN
    /\ fix[f] # NoFix
    /\ FixUnlocked(f)
    /\ ~Clash(fix[f].id, r)
    /\ table' = [table EXCEPT !["dst"][r].n = IF table["dst"][r].id = 0 THEN 0 ELSE fix[f].n]
    /\ fix' = [fix EXCEPT ![f] = NoFix]
    /\ UNCHANGED <<nextId, pattern, tx, wrote, acked, begun, faults, scan, events>>

\* INSERT ... ON DUPLICATE KEY UPDATE of every column but the id: a row with
\* the id takes the key over, a row with the key keeps its own id.
FixWrite(f) ==
    LET r == fix[f].row
        i == fix[f].id
        old == table["dst"][r].id
    IN  /\ fix[f] # NoFix
        /\ FixUnlocked(f)
        /\ ~Clash(i, r)
        /\ table' = [table EXCEPT !["dst"] = [q \in Rows |->
               IF q = r THEN [id |-> IF old = 0 THEN i ELSE old, n |-> fix[f].n]
               ELSE IF q \in Holder(i, r) THEN [id |-> 0, n |-> 0]
               ELSE @[q]]]
        /\ nextId' = [nextId EXCEPT !["dst"] = IF @ > i THEN @ ELSE i + 1]
        /\ fix' = [fix EXCEPT ![f] = NoFix]
        /\ UNCHANGED <<pattern, tx, wrote, acked, begun, faults, scan, events>>

\* The upsert fails three times, for good; the mark of a later message passes
\* this one.
FixRejected(f) ==
    /\ fix[f] # NoFix
    /\ Clash(fix[f].id, fix[f].row)
    /\ FixUnlocked(f)
    /\ fix' = [fix EXCEPT ![f] = NoFix]
    /\ UNCHANGED <<poolVars, scan, events>>

\* A query fails: the handler reads and writes again, or this was the third try.
FixFails(f) ==
    /\ fix[f] # NoFix
    /\ Fault
    /\ events' \in {events, events \cup {fix[f].id}}
    /\ fix' = [fix EXCEPT ![f] = NoFix]
    /\ UNCHANGED <<pattern, stores, tx, wrote, acked, begun, scan>>

-----------------------------------------------------------------------------

\* The validator and the fixers live in the process of the pool.  The events
\* in hand are delivered again, and perhaps others whose mark was not committed
\* (any id of the source stands for those).
MigratorDies ==
    /\ scan' = NoScan
    /\ \E again \in SUBSET {table["src"][r].id : r \in Rows} :
           events' = events \cup ((again \cup {fix[f].id : f \in Fixers}) \ {0})
    /\ fix' = [f \in Fixers |-> NoFix]

Pool(w) ==
    /\ Begin(w) \/ WriterStep(w) \/ WriterFault(w)
    /\ UNCHANGED migVars

Restart == Down /\ MigratorDies

Scan == ReadBase \/ Compare

Fixer(f) ==
    \/ \E r \in Rows : FixRead(f, r)
    \/ FixWrite(f)
    \/ FixRejected(f)

Next ==
    \/ \E w \in Writers : Pool(w)
    \/ Restart
    \/ \E p \in Patterns : Switch(p)
    \/ StartFull
    \/ StopFull
    \/ Scan
    \/ ScanFails
    \/ \E f \in Fixers : Fixer(f) \/ FixFails(f)

Spec == Init /\ [][Next]_vars

\* Transactions, scans and fixers are goroutines that run whenever they can;
\* the panic is theirs as well.  A partition is read in order, so an event does
\* not wait for ever behind later ones.  StartFull is the operator's promise to
\* validate again after a validation has ended.
FairSpec ==
    /\ Spec
    /\ \A w \in Writers : WF_vars(WriterStep(w) /\ UNCHANGED migVars)
    /\ \A w \in Writers : WF_vars(ExecPanics(w) /\ MigratorDies)
    /\ WF_vars(StartFull) /\ WF_vars(Scan)
    /\ \A f \in Fixers : WF_vars(Fixer(f)) /\ \A r \in Rows : SF_vars(FixRead(f, r))

-----------------------------------------------------------------------------

\* Once writes and faults stop and the operator keeps validating, every row of
\* the target has the source's value for good, or its id belongs to another
\* key of the target.
Converges ==
    <>[](\A r \in Rows : \/ table["dst"][r].n = table["src"][r].n
                         \/ Clash(table["src"][r].id, r))
=============================================================================
