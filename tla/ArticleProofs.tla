----------------------------- MODULE ArticleProofs -----------------------------
(***************************************************************************)
(* What the tables and the cached pages promise, for any number of         *)
(* articles, writes, goroutines and any page size.                         *)
(***************************************************************************)
EXTENDS Article, TLAPS

-----------------------------------------------------------------------------
(* Types.  The only fields that need an argument are the pages that are    *)
(* read from the table and the sequences of calls.                         *)

\* A page of the table is a page.
LEMMA PageOfTable ==
    ASSUME TypeOK, NEW off \in Offsets
    PROVE  GetByAuthor(off) \in Page
  <1>1. \A a \in Existing : a \in Articles /\ author[a] \in Row
    BY DEF TypeOK, Existing
  <1> QED
    BY <1>1 DEF GetByAuthor, Page, Texts

\* The first article of a page gives calls that cache it.
LEMMA CallsOfPage ==
    ASSUME NEW rows \in SUBSET (Articles \X Row), NEW texts \in SUBSET Texts,
           NEW c \in PreCache(rows, texts)
    PROVE  c \in Call /\ c.op = "Set"
  <1>1. PICK r \in rows : c = [op |-> "Set", id |-> r[1], row |-> r[2], texts |-> texts]
    BY DEF PreCache, FirstOf
  <1>2. r[1] \in Articles /\ r[2] \in Row
    OBVIOUS
  <1> QED
    BY <1>1, <1>2 DEF Call

\* What is at the head of a slot, and what it carries.
LEMMA HeadIsCall ==
    ASSUME TypeOK, NEW s \in Slots, todo[s] # <<>>
    PROVE  /\ Head(todo[s]) \in Call
           /\ Tail(todo[s]) \in Seq(Call)
  BY DEF TypeOK

LEMMA CallFields ==
    ASSUME NEW c \in Call
    PROVE  /\ c.op \in {"Set", "SetPub"} => c.id \in Articles /\ c.row \in Row
           /\ c.op = "Set" => c.texts \subseteq Texts
           /\ c.op = "SetFirstPage" => c.page \in Page
           /\ c.op = "ReadPub" => c.id \in Articles
           /\ c.op = "ReadPage" => c.off \in Offsets
  BY DEF Call

LEMMA SpawnType ==
    ASSUME TypeOK, NEW s \in Slots, NEW calls \in Seq(Call), Spawn(s, calls)
    PROVE  todo' \in [Slots -> Seq(Call)]
  BY DEF TypeOK, Spawn

LEMMA DoneType ==
    ASSUME TypeOK, NEW s \in Slots, todo[s] # <<>>, Done(s)
    PROVE  todo' \in [Slots -> Seq(Call)]
  <1>1. Tail(todo[s]) \in Seq(Call)
    BY HeadIsCall
  <1> QED
    BY <1>1 DEF TypeOK, Done

LEMMA InitType == Init => TypeOK
  <1> SUFFICES ASSUME Init PROVE TypeOK
    OBVIOUS
  <1>1. writes \in 0..MaxWrites
    BY MaxWritesAssumption DEF Init
  <1>2. todo \in [Slots -> Seq(Call)]
    BY DEF Init
  <1> QED
    BY <1>1, <1>2 DEF Init, TypeOK

LEMMA SaveType ==
    ASSUME TypeOK, NEW a \in Articles, NEW s \in Slots, Save(a, s)
    PROVE  TypeOK'
  <1>1. [ver |-> writes', status |-> "unpublished"] \in Row /\ writes' \in 0..MaxWrites
    BY MaxWritesAssumption DEF Save, TypeOK, Row, Status
  <1>2. <<DelFirstPage>> \in Seq(Call)
    BY DEF DelFirstPage, Call
  <1>3. todo' \in [Slots -> Seq(Call)] /\ blamed' \in BOOLEAN
    <2>1. CASE Spawn(s, <<DelFirstPage>>) /\ blamed' = blamed
      BY <2>1, <1>2, SpawnType DEF TypeOK
    <2>2. CASE UNCHANGED todo /\ blamed' = TRUE
      BY <2>2 DEF TypeOK
    <2> QED
      BY <2>1, <2>2 DEF Save
  <1> QED
    BY <1>1, <1>3 DEF Save, TypeOK

LEMMA PublishType ==
    ASSUME TypeOK, NEW a \in Articles, NEW s \in Slots, Publish(a, s)
    PROVE  TypeOK'
  <1> DEFINE row == [ver |-> writes + 1, status |-> "published"]
  <1>1. row \in Row /\ writes' \in 0..MaxWrites /\ row.ver \in 1..MaxWrites
    BY MaxWritesAssumption DEF Publish, TypeOK, Row, Status
  <1>2. /\ author' = [author EXCEPT ![a] = row]
        /\ reader' = [reader EXCEPT ![a] = row]
        /\ released' = [released EXCEPT ![a] = @ \union {row.ver}]
    BY DEF Publish
  <1>3. DelFirstPage \in Call /\ [op |-> "SetPub", id |-> a, row |-> row] \in Call
    BY <1>1 DEF DelFirstPage, Call
  <1>4. AfterSync(a, row) \in Seq(Call)
    BY <1>3 DEF AfterSync
  <1>5. todo' \in [Slots -> Seq(Call)] /\ blamed' \in BOOLEAN
    <2>1. CASE Spawn(s, AfterSync(a, row)) /\ blamed' = blamed
      BY <2>1, <1>4, SpawnType DEF TypeOK
    <2>2. CASE UNCHANGED todo /\ blamed' = TRUE
      BY <2>2 DEF TypeOK
    <2> QED
      BY <2>1, <2>2 DEF Publish
  <1>6. released' \in [Articles -> SUBSET (1..MaxWrites)]
    BY <1>1, <1>2 DEF TypeOK
  <1>7. author' \in [Articles -> Row \union {NoRow}] /\ reader' \in [Articles -> Row \union {NoRow}]
    BY <1>1, <1>2 DEF TypeOK
  <1> QED
    BY <1>1, <1>5, <1>6, <1>7 DEF Publish, TypeOK

LEMMA WithdrawType ==
    ASSUME TypeOK, NEW a \in Articles, Withdraw(a)
    PROVE  TypeOK'
  <1>1. author[a] \in Row /\ reader[a] \in Row
    BY DEF TypeOK, Withdraw
  <1>2. /\ [author[a] EXCEPT !.status = "private"] \in Row
        /\ [reader[a] EXCEPT !.status = "private"] \in Row
    BY <1>1 DEF Row, Status
  <1> QED
    BY <1>2 DEF Withdraw, TypeOK

LEMMA ReadType ==
    ASSUME TypeOK, Read
    PROVE  TypeOK'
  <1>1. PICK s \in Slots :
            \/ \E a \in Articles : GetPublishedById(a, s) \/ ListPub(a, s)
            \/ ListHit(s)
            \/ \E off \in Offsets : ListMiss(off, s)
    BY DEF Read
  <1>2. ASSUME NEW calls \in Seq(Call), Spawn(s, calls),
               UNCHANGED <<tables, firstPage, detail, pubCache, blamed>>
        PROVE  TypeOK'
    BY <1>2, SpawnType DEF TypeOK, tables
  <1>3. ASSUME NEW a \in Articles, GetPublishedById(a, s) PROVE TypeOK'
    <2>1. <<[op |-> "ReadPub", id |-> a]>> \in Seq(Call)
      BY DEF Call
    <2> QED
      BY <2>1, <1>2, <1>3 DEF GetPublishedById
  <1>4. ASSUME NEW a \in Articles, ListPub(a, s) PROVE TypeOK'
    <2>1. reader[a] \in Row
      BY <1>4 DEF ListPub, TypeOK
    <2>2. <<[op |-> "SetPub", id |-> a, row |-> reader[a]]>> \in Seq(Call)
      BY <2>1 DEF Call
    <2> QED
      BY <2>2, <1>2, <1>4 DEF ListPub
  <1>5. CASE ListHit(s)
    <2>1. firstPage.rows \in SUBSET (Articles \X Row) /\ {firstPage.text} \in SUBSET Texts
      BY <1>5 DEF ListHit, TypeOK, Page
    <2>2. PICK c \in PreCache(firstPage.rows, {firstPage.text}) : Spawn(s, <<c>>)
      BY <1>5 DEF ListHit
    <2>3. <<c>> \in Seq(Call)
      BY <2>1, CallsOfPage
    <2> QED
      BY <2>2, <2>3, <1>2, <1>5 DEF ListHit
  <1>6. ASSUME NEW off \in Offsets, ListMiss(off, s) PROVE TypeOK'
    <2>1. <<[op |-> "ReadPage", off |-> off]>> \in Seq(Call)
      BY DEF Call
    <2> QED
      BY <2>1, <1>2, <1>6 DEF ListMiss
  <1> QED
    BY <1>1, <1>3, <1>4, <1>5, <1>6

LEMMA RunType ==
    ASSUME TypeOK, NEW s \in Slots, Run(s)
    PROVE  TypeOK'
  <1> DEFINE c == Head(todo[s])
  <1>1. todo[s] # <<>> /\ c \in Call
    BY HeadIsCall DEF Run
  <1>2. Done(s) => todo' \in [Slots -> Seq(Call)]
    BY <1>1, DoneType
  <1>3. CASE DoDelFirstPage(s)
    BY <1>2, <1>3 DEF DoDelFirstPage, TypeOK, tables
  <1>4. CASE DoSetFirstPage(s)
    <2>1. firstPage' \in Page
      BY <1>1, <1>4, CallFields DEF DoSetFirstPage, Abstracts, Page, Texts
    <2>2. blamed' \in BOOLEAN
      BY <1>4 DEF DoSetFirstPage, Stale
    <2> QED
      BY <2>1, <2>2, <1>2, <1>4 DEF DoSetFirstPage, TypeOK, tables
  <1>5. CASE DoSet(s)
    <2>1. PICK t \in c.texts : detail' = [detail EXCEPT ![c.id] = [row |-> c.row, text |-> t]]
      BY <1>5 DEF DoSet
    <2>2. c.id \in Articles /\ [row |-> c.row, text |-> t] \in Copy
      BY <1>1, <1>5, CallFields DEF DoSet, Copy
    <2>3. detail' \in [Articles -> Copy \union {NoCopy}]
      BY <2>1, <2>2 DEF TypeOK
    <2> QED
      BY <1>2, <1>5, <2>3 DEF DoSet, TypeOK, tables
  <1>6. CASE DoSetPub(s)
    BY <1>1, <1>2, <1>6, CallFields DEF DoSetPub, TypeOK, tables
  <1>7. CASE DoReadPub(s)
    <2>1. c.id \in Articles
      BY <1>1, <1>7, CallFields DEF DoReadPub
    <2>2. reader[c.id] # NoRow => reader[c.id] \in Row
      BY <2>1 DEF TypeOK
    <2>3. reader[c.id] # NoRow => <<[op |-> "SetPub", id |-> c.id, row |-> reader[c.id]]>> \in Seq(Call)
      BY <2>1, <2>2 DEF Call
    <2>4. todo' \in [Slots -> Seq(Call)]
      BY <2>3, <1>7 DEF DoReadPub, TypeOK
    <2> QED
      BY <2>4, <1>7 DEF DoReadPub, TypeOK, tables
  <1>8. CASE DoReadPage(s)
    <2> DEFINE page == GetByAuthor(c.off)
               store == [op |-> "SetFirstPage", page |-> page]
    <2>1. c.off \in Offsets
      BY <1>1, <1>8, CallFields DEF DoReadPage
    <2>2. page \in Page
      BY <2>1, PageOfTable
    <2>3. store \in Call
      BY <2>2 DEF Call
    <2>4. CASE todo' = [todo EXCEPT ![s] = <<store>>]
      <3>1. todo' \in [Slots -> Seq(Call)]
        BY <2>3, <2>4 DEF TypeOK
      <3> QED
        BY <3>1, <1>8 DEF DoReadPage, TypeOK, tables
    <2>5. ASSUME NEW d \in PreCache(page.rows, Texts),
                 todo' \in {[todo EXCEPT ![s] = <<store, d>>], [todo EXCEPT ![s] = <<d, store>>]}
          PROVE  TypeOK'
      <3>1. page.rows \in SUBSET (Articles \X Row)
        BY <2>2 DEF Page
      <3>2. d \in Call
        BY <3>1, CallsOfPage
      <3>3. <<store, d>> \in Seq(Call) /\ <<d, store>> \in Seq(Call)
        BY <2>3, <3>2
      <3>4. todo' \in [Slots -> Seq(Call)]
        BY <2>5, <3>3 DEF TypeOK
      <3> QED
        BY <3>4, <1>8 DEF DoReadPage, TypeOK, tables
    <2> QED
      BY <2>4, <2>5, <1>8 DEF DoReadPage
  <1>9. CASE DoFails(s)
    BY <1>2, <1>9 DEF DoFails, TypeOK, tables
  <1> QED
    BY <1>3, <1>4, <1>5, <1>6, <1>7, <1>8, <1>9 DEF Run

LEMMA ExpireType ==
    ASSUME TypeOK, Expire
    PROVE  TypeOK'
  BY DEF Expire, ExpireFirstPage, ExpireDetail, ExpirePub, TypeOK, tables

LEMMA NextType ==
    ASSUME TypeOK, [Next]_vars
    PROVE  TypeOK'
  <1>1. ASSUME NEW a \in Articles, Write(a) PROVE TypeOK'
    BY <1>1, SaveType, PublishType, WithdrawType DEF Write
  <1>2. CASE UNCHANGED vars
    BY <1>2 DEF TypeOK, vars
  <1> QED
    BY <1>1, <1>2, ReadType, RunType, ExpireType DEF Next

\* The type invariant.
THEOREM TypeCorrect == Spec => []TypeOK
  <1> QED
    BY InitType, NextType, PTL DEF Spec

-----------------------------------------------------------------------------
(* The tables.  The clock is what makes a new version larger than every    *)
(* version there is.                                                       *)

Clock == \A a \in Articles : author[a].ver <= writes

TablesInv == Clock /\ TablesAgree

\* A row of the tables has a number, and so has the absence of one.
LEMMA Versions ==
    ASSUME TypeOK, NEW a \in Articles
    PROVE  /\ author[a].ver \in Nat /\ reader[a].ver \in Nat /\ writes \in Nat
           /\ NoRow.ver = 0
  BY MaxWritesAssumption DEF TypeOK, Row, NoRow

LEMMA TablesInit == Init => TablesInv
  BY DEF Init, TablesInv, Clock, TablesAgree, NoRow

LEMMA SaveTables ==
    ASSUME TypeOK, TablesInv, NEW a \in Articles, NEW s \in Slots, Save(a, s)
    PROVE  TablesInv'
  <1>1. /\ writes' = writes + 1 /\ reader' = reader
        /\ author' = [author EXCEPT ![a] = [ver |-> writes', status |-> "unpublished"]]
    BY DEF Save
  <1> SUFFICES ASSUME NEW b \in Articles
               PROVE  /\ author'[b].ver <= writes'
                      /\ author'[b].status = "published" => reader'[b] = author'[b]
                      /\ author'[b].status = "private" => reader'[b].status = "private"
                      /\ reader'[b].ver <= author'[b].ver
    BY DEF TablesInv, Clock, TablesAgree
  <1>2. CASE b = a
    BY <1>1, <1>2, Versions DEF TypeOK, TablesInv, Clock, TablesAgree
  <1>3. CASE b # a
    BY <1>1, <1>3, Versions DEF TypeOK, TablesInv, Clock, TablesAgree
  <1> QED
    BY <1>2, <1>3

LEMMA PublishTables ==
    ASSUME TypeOK, TablesInv, NEW a \in Articles, NEW s \in Slots, Publish(a, s)
    PROVE  TablesInv'
  <1> DEFINE row == [ver |-> writes + 1, status |-> "published"]
  <1>1. /\ writes' = writes + 1
        /\ author' = [author EXCEPT ![a] = row]
        /\ reader' = [reader EXCEPT ![a] = row]
    BY DEF Publish
  <1> SUFFICES ASSUME NEW b \in Articles
               PROVE  /\ author'[b].ver <= writes'
                      /\ author'[b].status = "published" => reader'[b] = author'[b]
                      /\ author'[b].status = "private" => reader'[b].status = "private"
                      /\ reader'[b].ver <= author'[b].ver
    BY DEF TablesInv, Clock, TablesAgree
  <1>2. CASE b = a
    BY <1>1, <1>2, Versions DEF TypeOK
  <1>3. CASE b # a
    BY <1>1, <1>3, Versions DEF TypeOK, TablesInv, Clock, TablesAgree
  <1> QED
    BY <1>2, <1>3

LEMMA WithdrawTables ==
    ASSUME TypeOK, TablesInv, NEW a \in Articles, Withdraw(a)
    PROVE  TablesInv'
  <1>1. author[a] \in Row /\ reader[a] \in Row
    BY DEF TypeOK, Withdraw
  <1>2. /\ author'[a].ver = author[a].ver /\ author'[a].status = "private"
        /\ reader'[a].ver = reader[a].ver /\ reader'[a].status = "private"
        /\ writes' = writes
        /\ \A b \in Articles \ {a} : author'[b] = author[b] /\ reader'[b] = reader[b]
    BY <1>1 DEF Withdraw, TypeOK, Row
  <1> QED
    BY <1>2 DEF TablesInv, Clock, TablesAgree

LEMMA TablesFrame ==
    ASSUME TablesInv, UNCHANGED <<author, reader, writes>>
    PROVE  TablesInv'
  BY DEF TablesInv, Clock, TablesAgree

\* Only Write touches the tables.
LEMMA OthersKeepTables ==
    ASSUME \/ Read
           \/ \E s \in Slots : Run(s)
           \/ Expire
           \/ UNCHANGED vars
    PROVE  UNCHANGED tables
  <1>1. CASE Read
    BY <1>1 DEF Read, GetPublishedById, ListPub, ListHit, ListMiss
  <1>2. ASSUME NEW s \in Slots, Run(s) PROVE UNCHANGED tables
    BY <1>2 DEF Run, DoDelFirstPage, DoSetFirstPage, DoSet, DoSetPub, DoReadPub, DoReadPage, DoFails
  <1>3. CASE Expire
    BY <1>3 DEF Expire, ExpireFirstPage, ExpireDetail, ExpirePub
  <1>4. CASE UNCHANGED vars
    BY <1>4 DEF vars, tables
  <1> QED
    BY <1>1, <1>2, <1>3, <1>4

LEMMA TablesNext ==
    ASSUME TypeOK, TablesInv, [Next]_vars
    PROVE  TablesInv'
  <1>1. ASSUME NEW a \in Articles, Write(a) PROVE TablesInv'
    BY <1>1, SaveTables, PublishTables, WithdrawTables DEF Write
  <1>2. CASE UNCHANGED tables
    BY <1>2, TablesFrame DEF tables
  <1> QED
    BY <1>1, <1>2, OthersKeepTables DEF Next

\* The author's table and the published one never contradict each other.
THEOREM TablesCorrect == Spec => []TablesAgree
  <1>1. Init => TablesInv
    BY TablesInit
  <1>2. TypeOK /\ TablesInv /\ [Next]_vars => TablesInv'
    BY TablesNext
  <1>3. TablesInv => TablesAgree
    BY DEF TablesInv
  <1> QED
    BY <1>1, <1>2, <1>3, TypeCorrect, PTL DEF Spec

-----------------------------------------------------------------------------
(* What readers can get.                                                   *)

\* The calls of a slot that fill the readers' cache carry released rows.
Clean(calls, rel) ==
    \A i \in DOMAIN calls : calls[i].op = "SetPub" => calls[i].row.ver \in rel[calls[i].id]

DraftsInv ==
    /\ \A a \in Articles : reader[a] # NoRow => reader[a].ver \in released[a]
    /\ \A a \in Articles : pubCache[a] # NoRow => pubCache[a].ver \in released[a]
    /\ \A s \in Slots : Clean(todo[s], released)

LEMMA DraftsInvSuffices ==
    ASSUME TypeOK
    PROVE  DraftsInv => NoDraftServed
  BY DEF DraftsInv, NoDraftServed, Clean

LEMMA DraftsInit == Init => DraftsInv
  BY DEF Init, DraftsInv, Clean

\* A slot that takes clean calls stays clean.
LEMMA CleanSlot ==
    ASSUME TypeOK, DraftsInv, NEW s \in Slots, NEW calls, Clean(calls, released),
           todo' = [todo EXCEPT ![s] = calls]
    PROVE  \A t \in Slots : Clean(todo'[t], released)
  BY DEF TypeOK, DraftsInv

\* What is left of clean calls is clean.
LEMMA CleanTail ==
    ASSUME TypeOK, DraftsInv, NEW s \in Slots, todo[s] # <<>>
    PROVE  Clean(Tail(todo[s]), released)
  <1>1. todo[s] \in Seq(Call) /\ Clean(todo[s], released)
    BY DEF TypeOK, DraftsInv
  <1>2. \A i \in DOMAIN Tail(todo[s]) :
           i + 1 \in DOMAIN todo[s] /\ Tail(todo[s])[i] = todo[s][i + 1]
    BY <1>1
  <1> QED
    BY <1>1, <1>2 DEF Clean

\* A step that changes only slots, and fills the readers' cache with nothing.
LEMMA DraftsFrame ==
    ASSUME TypeOK, DraftsInv, NEW s \in Slots, NEW calls, Clean(calls, released),
           todo' = [todo EXCEPT ![s] = calls], UNCHANGED <<reader, released, pubCache>>
    PROVE  DraftsInv'
  BY CleanSlot DEF DraftsInv

LEMMA SaveDrafts ==
    ASSUME TypeOK, DraftsInv, NEW a \in Articles, NEW s \in Slots, Save(a, s)
    PROVE  DraftsInv'
  <1>1. Clean(<<DelFirstPage>>, released)
    BY DEF Clean, DelFirstPage
  <1>2. UNCHANGED <<reader, released, pubCache>>
    BY DEF Save
  <1>3. CASE Spawn(s, <<DelFirstPage>>)
    BY <1>1, <1>2, <1>3, DraftsFrame DEF Spawn
  <1>4. CASE UNCHANGED todo
    BY <1>2, <1>4 DEF DraftsInv
  <1> QED
    BY <1>3, <1>4 DEF Save

LEMMA PublishDrafts ==
    ASSUME TypeOK, DraftsInv, NEW a \in Articles, NEW s \in Slots, Publish(a, s)
    PROVE  DraftsInv'
  <1> DEFINE row == [ver |-> writes + 1, status |-> "published"]
  <1>1. /\ reader' = [reader EXCEPT ![a] = row]
        /\ released' = [released EXCEPT ![a] = @ \union {row.ver}]
        /\ pubCache' = pubCache
    BY DEF Publish
  <1>2. /\ row.ver \in released'[a]
        /\ \A b \in Articles : released[b] \subseteq released'[b]
    BY <1>1 DEF TypeOK
  <1>3. \A b \in Articles : reader'[b] # NoRow => reader'[b].ver \in released'[b]
    BY <1>1, <1>2 DEF DraftsInv, TypeOK
  <1>4. \A t \in Slots : Clean(todo[t], released')
    <2> SUFFICES ASSUME NEW t \in Slots, NEW i \in DOMAIN todo[t], todo[t][i].op = "SetPub"
                 PROVE  todo[t][i].row.ver \in released'[todo[t][i].id]
      BY DEF Clean
    <2>1. todo[t][i] \in Call
      BY DEF TypeOK
    <2>2. todo[t][i].id \in Articles
      BY <2>1, CallFields
    <2> QED
      BY <2>2, <1>2 DEF DraftsInv, Clean
  <1>5. Clean(AfterSync(a, row), released')
    BY <1>2 DEF Clean, AfterSync, DelFirstPage
  <1>6. \A t \in Slots : Clean(todo'[t], released')
    <2>1. CASE todo' = [todo EXCEPT ![s] = AfterSync(a, row)]
      BY <2>1, <1>4, <1>5 DEF TypeOK
    <2>2. CASE todo' = todo
      BY <2>2, <1>4
    <2> QED
      BY <2>1, <2>2 DEF Publish, Spawn
  <1>7. \A b \in Articles : pubCache'[b] # NoRow => pubCache'[b].ver \in released'[b]
    BY <1>1, <1>2 DEF DraftsInv
  <1> QED
    BY <1>3, <1>6, <1>7 DEF DraftsInv

LEMMA WithdrawDrafts ==
    ASSUME TypeOK, DraftsInv, NEW a \in Articles, Withdraw(a)
    PROVE  DraftsInv'
  <1>1. reader[a] \in Row /\ reader[a] # NoRow
    BY DEF TypeOK, Withdraw
  <1>2. /\ reader'[a].ver = reader[a].ver
        /\ \A b \in Articles \ {a} : reader'[b] = reader[b]
    BY <1>1 DEF Withdraw, TypeOK, Row
  <1> QED
    BY <1>1, <1>2 DEF Withdraw, DraftsInv

LEMMA ReadDrafts ==
    ASSUME TypeOK, DraftsInv, Read
    PROVE  DraftsInv'
  <1>1. PICK s \in Slots :
            \/ \E a \in Articles : GetPublishedById(a, s) \/ ListPub(a, s)
            \/ ListHit(s)
            \/ \E off \in Offsets : ListMiss(off, s)
    BY DEF Read
  <1>2. ASSUME NEW a \in Articles, GetPublishedById(a, s) PROVE DraftsInv'
    <2>1. Clean(<<[op |-> "ReadPub", id |-> a]>>, released)
      BY DEF Clean
    <2> QED
      BY <2>1, <1>2, DraftsFrame DEF GetPublishedById, Spawn, tables
  <1>3. ASSUME NEW a \in Articles, ListPub(a, s) PROVE DraftsInv'
    <2>1. reader[a].ver \in released[a]
      BY <1>3 DEF ListPub, DraftsInv
    <2>2. Clean(<<[op |-> "SetPub", id |-> a, row |-> reader[a]]>>, released)
      BY <2>1 DEF Clean
    <2> QED
      BY <2>2, <1>3, DraftsFrame DEF ListPub, Spawn, tables
  <1>4. CASE ListHit(s)
    <2>1. firstPage.rows \in SUBSET (Articles \X Row) /\ {firstPage.text} \in SUBSET Texts
      BY <1>4 DEF ListHit, TypeOK, Page
    <2>2. PICK c \in PreCache(firstPage.rows, {firstPage.text}) : Spawn(s, <<c>>)
      BY <1>4 DEF ListHit
    <2>3. Clean(<<c>>, released)
      BY <2>1, CallsOfPage DEF Clean
    <2> QED
      BY <2>2, <2>3, <1>4, DraftsFrame DEF ListHit, Spawn, tables
  <1>5. ASSUME NEW off \in Offsets, ListMiss(off, s) PROVE DraftsInv'
    <2>1. Clean(<<[op |-> "ReadPage", off |-> off]>>, released)
      BY DEF Clean
    <2> QED
      BY <2>1, <1>5, DraftsFrame DEF ListMiss, Spawn, tables
  <1> QED
    BY <1>1, <1>2, <1>3, <1>4, <1>5

LEMMA RunDrafts ==
    ASSUME TypeOK, DraftsInv, NEW s \in Slots, Run(s)
    PROVE  DraftsInv'
  <1> DEFINE c == Head(todo[s])
  <1>1. todo[s] # <<>> /\ c \in Call
    BY HeadIsCall DEF Run
  <1>2. ASSUME Done(s), UNCHANGED <<reader, released, pubCache>> PROVE DraftsInv'
    BY <1>1, <1>2, CleanTail, DraftsFrame DEF Done
  <1>3. CASE DoDelFirstPage(s) \/ DoSetFirstPage(s) \/ DoSet(s) \/ DoFails(s)
    BY <1>2, <1>3 DEF DoDelFirstPage, DoSetFirstPage, DoSet, DoFails, tables
  <1>4. CASE DoSetPub(s)
    <2>1. c.id \in Articles /\ c.op = "SetPub"
      BY <1>1, <1>4, CallFields DEF DoSetPub
    <2>2. 1 \in DOMAIN todo[s] /\ c = todo[s][1]
      BY <1>1 DEF TypeOK
    <2>3. c.row.ver \in released[c.id]
      BY <2>1, <2>2 DEF DraftsInv, Clean
    <2>4. \A a \in Articles : pubCache'[a] # NoRow => pubCache'[a].ver \in released[a]
      BY <2>1, <2>3, <1>4 DEF DoSetPub, DraftsInv, TypeOK
    <2>5. \A t \in Slots : Clean(todo'[t], released)
      BY <1>1, <1>4, CleanTail, CleanSlot DEF DoSetPub, Done
    <2> QED
      BY <2>4, <2>5, <1>4 DEF DoSetPub, DraftsInv, tables
  <1>5. CASE DoReadPub(s)
    <2>1. c.id \in Articles
      BY <1>1, <1>5, CallFields DEF DoReadPub
    <2>2. reader[c.id] # NoRow =>
              Clean(<<[op |-> "SetPub", id |-> c.id, row |-> reader[c.id]]>>, released)
      BY <2>1 DEF DraftsInv, Clean
    <2>3. Clean(<<>>, released)
      BY DEF Clean
    <2>4. CASE reader[c.id] = NoRow
      BY <2>3, <2>4, <1>5, DraftsFrame DEF DoReadPub, tables
    <2>5. CASE reader[c.id] # NoRow
      BY <2>2, <2>5, <1>5, DraftsFrame DEF DoReadPub, tables
    <2> QED
      BY <2>4, <2>5
  <1>6. CASE DoReadPage(s)
    <2> DEFINE page == GetByAuthor(c.off)
               store == [op |-> "SetFirstPage", page |-> page]
    <2>1. page.rows \in SUBSET (Articles \X Row)
      BY <1>1, <1>6, CallFields, PageOfTable DEF DoReadPage, Page
    <2>2. CASE todo' = [todo EXCEPT ![s] = <<store>>]
      <3>1. Clean(<<store>>, released)
        BY DEF Clean
      <3> QED
        BY <3>1, <2>2, <1>6, DraftsFrame DEF DoReadPage, tables
    <2>3. ASSUME NEW d \in PreCache(page.rows, Texts),
                 todo' \in {[todo EXCEPT ![s] = <<store, d>>], [todo EXCEPT ![s] = <<d, store>>]}
          PROVE  DraftsInv'
      <3>1. d.op = "Set"
        BY <2>1, CallsOfPage
      <3>2. Clean(<<store, d>>, released) /\ Clean(<<d, store>>, released)
        BY <3>1 DEF Clean
      <3> QED
        BY <3>2, <2>3, <1>6, DraftsFrame DEF DoReadPage, tables
    <2> QED
      BY <2>2, <2>3, <1>6 DEF DoReadPage
  <1> QED
    BY <1>3, <1>4, <1>5, <1>6 DEF Run

LEMMA ExpireDrafts ==
    ASSUME TypeOK, DraftsInv, Expire
    PROVE  DraftsInv'
  BY DEF Expire, ExpireFirstPage, ExpireDetail, ExpirePub, DraftsInv, TypeOK, tables

LEMMA DraftsNext ==
    ASSUME TypeOK, DraftsInv, [Next]_vars
    PROVE  DraftsInv'
  <1>1. ASSUME NEW a \in Articles, Write(a) PROVE DraftsInv'
    BY <1>1, SaveDrafts, PublishDrafts, WithdrawDrafts DEF Write
  <1>2. CASE UNCHANGED vars
    BY <1>2 DEF DraftsInv, vars
  <1> QED
    BY <1>1, <1>2, ReadDrafts, RunDrafts, ExpireDrafts DEF Next

\* No draft reaches the readers, whatever goroutines and writes interleave.
THEOREM DraftsCorrect == Spec => []NoDraftServed
  <1>1. Init => DraftsInv
    BY DraftsInit
  <1>2. TypeOK /\ DraftsInv /\ [Next]_vars => DraftsInv'
    BY DraftsNext
  <1>3. TypeOK /\ DraftsInv => NoDraftServed
    BY DraftsInvSuffices
  <1> QED
    BY <1>1, <1>2, <1>3, TypeCorrect, PTL DEF Spec

-----------------------------------------------------------------------------
(* Stale first pages.  A handler that has to delete the first page does it *)
(* before anything else, so a call that is not a delete leaves every       *)
(* pending delete pending.                                                 *)

Deletes(calls) == \E i \in DOMAIN calls : calls[i].op = "DelFirstPage"

DeleteIsFirst ==
    \A s \in Slots : \A i \in DOMAIN todo[s] : todo[s][i].op = "DelFirstPage" => i = 1

StaleInv == DeleteIsFirst /\ StalePageHasCause

LEMMA StaleInit == Init => StaleInv
  BY DEF Init, StaleInv, DeleteIsFirst, StalePageHasCause, Stale, NoPage

\* A page stays as stale as it was while it and the author's table do.
LEMMA StaleFrame ==
    ASSUME UNCHANGED <<author, firstPage>>
    PROVE  Stale(firstPage)' <=> Stale(firstPage)
  BY DEF Stale, Abstracts, GetByAuthor, Existing, Newer

\* A slot that had no delete left takes calls without one.
LEMMA CauseKept ==
    ASSUME TypeOK, StaleInv, NEW s \in Slots, ~Deletes(todo[s]),
           NEW calls \in Seq(Call), ~Deletes(calls), todo' = [todo EXCEPT ![s] = calls],
           UNCHANGED <<author, firstPage>>, blamed => blamed'
    PROVE  StaleInv'
  <1>1. /\ todo'[s] = calls
        /\ \A t \in Slots \ {s} : todo'[t] = todo[t]
    BY DEF TypeOK
  <1>2. DeleteIsFirst'
    BY <1>1 DEF StaleInv, DeleteIsFirst, Deletes
  <1>3. ASSUME NEW t \in Slots, Deletes(todo[t]) PROVE Deletes(todo'[t])
    <2>1. t # s
      BY <1>3
    <2> QED
      BY <2>1, <1>1, <1>3
  <1>4. StalePageHasCause'
    BY <1>3, StaleFrame DEF StaleInv, StalePageHasCause, Deletes
  <1> QED
    BY <1>2, <1>4 DEF StaleInv

\* A slot that takes calls which may start with a delete: the order holds.
LEMMA DeleteIsFirstSlot ==
    ASSUME TypeOK, DeleteIsFirst, NEW s \in Slots, NEW calls,
           \A i \in DOMAIN calls : calls[i].op = "DelFirstPage" => i = 1,
           todo' = [todo EXCEPT ![s] = calls]
    PROVE  DeleteIsFirst'
  BY DEF TypeOK, DeleteIsFirst

\* What is left of a slot's calls holds no delete.
LEMMA NoDeleteInTail ==
    ASSUME TypeOK, DeleteIsFirst, NEW s \in Slots, todo[s] # <<>>
    PROVE  Tail(todo[s]) \in Seq(Call) /\ ~Deletes(Tail(todo[s]))
  <1>1. todo[s] \in Seq(Call)
    BY DEF TypeOK
  <1>2. \A i \in DOMAIN Tail(todo[s]) :
           /\ i \in Nat \ {0} /\ i + 1 \in DOMAIN todo[s]
           /\ Tail(todo[s])[i] = todo[s][i + 1]
    BY <1>1
  <1>3. ASSUME NEW i \in DOMAIN Tail(todo[s]) PROVE Tail(todo[s])[i].op # "DelFirstPage"
    BY <1>2 DEF DeleteIsFirst
  <1> QED
    BY <1>1, <1>3 DEF Deletes

\* A handler whose first call is not a delete has none to make.
LEMMA NoDeleteAtHead ==
    ASSUME TypeOK, DeleteIsFirst, NEW s \in Slots, todo[s] # <<>>,
           Head(todo[s]).op # "DelFirstPage"
    PROVE  ~Deletes(todo[s])
  <1>1. todo[s] \in Seq(Call)
    BY DEF TypeOK
  <1>2. Head(todo[s]) = todo[s][1]
    BY <1>1
  <1> QED
    BY <1>2 DEF Deletes, DeleteIsFirst

LEMMA SaveStale ==
    ASSUME TypeOK, StaleInv, NEW a \in Articles, NEW s \in Slots, Save(a, s)
    PROVE  StaleInv'
  <1>1. CASE Spawn(s, <<DelFirstPage>>)
    <2>1. \A i \in DOMAIN <<DelFirstPage>> : i = 1
      OBVIOUS
    <2>2. DeleteIsFirst'
      BY <1>1, <2>1, DeleteIsFirstSlot DEF Spawn, StaleInv
    <2>3. todo'[s] = <<DelFirstPage>>
      BY <1>1 DEF Spawn, TypeOK
    <2>4. 1 \in DOMAIN todo'[s] /\ todo'[s][1].op = "DelFirstPage"
      BY <2>3 DEF DelFirstPage
    <2> QED
      BY <2>2, <2>4 DEF StaleInv, StalePageHasCause
  <1>2. CASE todo' = todo /\ blamed' = TRUE
    BY <1>2 DEF StaleInv, DeleteIsFirst, StalePageHasCause
  <1> QED
    BY <1>1, <1>2 DEF Save

LEMMA PublishStale ==
    ASSUME TypeOK, StaleInv, NEW a \in Articles, NEW s \in Slots, Publish(a, s)
    PROVE  StaleInv'
  <1> DEFINE row == [ver |-> writes + 1, status |-> "published"]
             calls == AfterSync(a, row)
  <1>1. /\ 1 \in DOMAIN calls /\ calls[1].op = "DelFirstPage"
        /\ \A i \in DOMAIN calls : calls[i].op = "DelFirstPage" => i = 1
    <2>1. CASE author[a] = NoRow
      BY <2>1 DEF AfterSync, DelFirstPage
    <2>2. CASE author[a] # NoRow
      BY <2>2 DEF AfterSync, DelFirstPage
    <2> QED
      BY <2>1, <2>2
  <1>2. CASE Spawn(s, calls)
    <2>1. DeleteIsFirst'
      BY <1>1, <1>2, DeleteIsFirstSlot DEF Spawn, StaleInv
    <2>2. todo'[s] = calls
      BY <1>2 DEF Spawn, TypeOK
    <2> QED
      BY <2>1, <2>2, <1>1 DEF StaleInv, StalePageHasCause
  <1>3. CASE todo' = todo /\ blamed' = TRUE
    BY <1>3 DEF StaleInv, DeleteIsFirst, StalePageHasCause
  <1> QED
    BY <1>2, <1>3 DEF Publish

LEMMA WithdrawStale ==
    ASSUME StaleInv, NEW a \in Articles, Withdraw(a)
    PROVE  StaleInv'
  BY DEF Withdraw, StaleInv, DeleteIsFirst, StalePageHasCause

\* Every step of a reader puts into an empty slot a call that is no delete.
LEMMA ReadStale ==
    ASSUME TypeOK, StaleInv, Read
    PROVE  StaleInv'
  <1>1. PICK s \in Slots :
            \/ \E a \in Articles : GetPublishedById(a, s) \/ ListPub(a, s)
            \/ ListHit(s)
            \/ \E off \in Offsets : ListMiss(off, s)
    BY DEF Read
  <1>2. UNCHANGED <<author, firstPage, blamed>>
    BY <1>1 DEF GetPublishedById, ListPub, ListHit, ListMiss, tables
  <1>3. PICK c : c.op # "DelFirstPage" /\ Spawn(s, <<c>>)
    <2>1. ASSUME NEW a \in Articles, GetPublishedById(a, s)
          PROVE  \E c : c.op # "DelFirstPage" /\ Spawn(s, <<c>>)
      BY <2>1 DEF GetPublishedById
    <2>2. ASSUME NEW a \in Articles, ListPub(a, s)
          PROVE  \E c : c.op # "DelFirstPage" /\ Spawn(s, <<c>>)
      BY <2>2 DEF ListPub
    <2>3. ASSUME ListHit(s)
          PROVE  \E c : c.op # "DelFirstPage" /\ Spawn(s, <<c>>)
      BY <2>3 DEF ListHit, PreCache
    <2>4. ASSUME NEW off \in Offsets, ListMiss(off, s)
          PROVE  \E c : c.op # "DelFirstPage" /\ Spawn(s, <<c>>)
      BY <2>4 DEF ListMiss
    <2> QED
      BY <1>1, <2>1, <2>2, <2>3, <2>4
  <1>4. TypeOK'
    BY ReadType
  <1>5. <<c>> \in Seq(Call)
    <2>1. todo'[s] = <<c>>
      BY <1>3 DEF Spawn, TypeOK
    <2> QED
      BY <2>1, <1>4 DEF TypeOK
  <1>6. ~Deletes(todo[s]) /\ ~Deletes(<<c>>)
    BY <1>3 DEF Spawn, Deletes
  <1> QED
    BY <1>2, <1>3, <1>5, <1>6, CauseKept DEF Spawn

\* What the slow paths of the two reads leave to do holds no delete.
LEMMA ReadCalls ==
    ASSUME TypeOK, NEW s \in Slots, DoReadPub(s) \/ DoReadPage(s)
    PROVE  \E calls : ~Deletes(calls) /\ todo' = [todo EXCEPT ![s] = calls]
  <1>1. CASE DoReadPub(s)
    <2> DEFINE a == Head(todo[s]).id
               calls == IF reader[a] = NoRow THEN <<>>
                        ELSE <<[op |-> "SetPub", id |-> a, row |-> reader[a]]>>
    <2>1. ~Deletes(calls)
      <3>1. CASE reader[a] = NoRow
        BY <3>1 DEF Deletes
      <3>2. CASE reader[a] # NoRow
        BY <3>2 DEF Deletes
      <3> QED
        BY <3>1, <3>2
    <2>2. todo' = [todo EXCEPT ![s] = calls]
      BY <1>1 DEF DoReadPub
    <2> QED
      BY <2>1, <2>2
  <1>2. CASE DoReadPage(s)
    <2> DEFINE page == GetByAuthor(Head(todo[s]).off)
               store == [op |-> "SetFirstPage", page |-> page]
    <2>1. CASE todo' = [todo EXCEPT ![s] = <<store>>]
      <3>1. ~Deletes(<<store>>)
        BY DEF Deletes
      <3> QED
        BY <2>1, <3>1
    <2>2. ASSUME NEW c \in PreCache(page.rows, Texts),
                 todo' \in {[todo EXCEPT ![s] = <<store, c>>], [todo EXCEPT ![s] = <<c, store>>]}
          PROVE  \E calls : ~Deletes(calls) /\ todo' = [todo EXCEPT ![s] = calls]
      <3>1. c.op = "Set"
        BY DEF PreCache
      <3>2. ~Deletes(<<store, c>>) /\ ~Deletes(<<c, store>>)
        BY <3>1 DEF Deletes
      <3> QED
        BY <3>2, <2>2
    <2> QED
      BY <1>2, <2>1, <2>2 DEF DoReadPage
  <1> QED
    BY <1>1, <1>2

\* A delete drops the page and a store decides anew whether it is stale; any
\* other call is made by a slot that holds no delete, and leaves the page.
LEMMA RunStale ==
    ASSUME TypeOK, StaleInv, NEW s \in Slots, Run(s)
    PROVE  StaleInv'
  <1>1. todo[s] # <<>> /\ todo[s] \in Seq(Call) /\ DeleteIsFirst
    BY DEF Run, TypeOK, StaleInv
  <1>2. Tail(todo[s]) \in Seq(Call) /\ ~Deletes(Tail(todo[s]))
    BY <1>1, NoDeleteInTail
  <1>3. Done(s) => DeleteIsFirst'
    BY <1>1, <1>2, DeleteIsFirstSlot DEF Done, Deletes
  <1>4. CASE DoDelFirstPage(s)
    <2>1. ~Stale(firstPage)'
      BY <1>4 DEF DoDelFirstPage, Stale
    <2> QED
      BY <2>1, <1>3, <1>4 DEF DoDelFirstPage, StaleInv, StalePageHasCause
  <1>5. CASE DoSetFirstPage(s)
    <2>1. blamed' = Stale(firstPage)'
      BY <1>5 DEF DoSetFirstPage, Stale, Abstracts, tables, GetByAuthor, Existing, Newer
    <2> QED
      BY <2>1, <1>3, <1>5 DEF DoSetFirstPage, StaleInv, StalePageHasCause
  <1>6. CASE DoFails(s) /\ Head(todo[s]).op = "DelFirstPage"
    BY <1>3, <1>6 DEF DoFails, StaleInv, StalePageHasCause
  <1>7. ASSUME Head(todo[s]).op # "DelFirstPage", Done(s), UNCHANGED <<author, firstPage>>,
               blamed => blamed'
        PROVE  StaleInv'
    BY <1>1, <1>2, <1>7, NoDeleteAtHead, CauseKept DEF Done
  <1>8. CASE DoFails(s) /\ Head(todo[s]).op # "DelFirstPage"
    BY <1>7, <1>8 DEF DoFails, tables
  <1>9. CASE DoSet(s) \/ DoSetPub(s)
    BY <1>7, <1>9 DEF DoSet, DoSetPub, tables
  <1>10. CASE DoReadPub(s) \/ DoReadPage(s)
    <2>1. ~Deletes(todo[s]) /\ UNCHANGED <<author, firstPage, blamed>>
      BY <1>1, <1>10, NoDeleteAtHead DEF DoReadPub, DoReadPage, tables
    <2>2. PICK calls : ~Deletes(calls) /\ todo' = [todo EXCEPT ![s] = calls]
      BY <1>1, <1>10, ReadCalls
    <2>3. calls \in Seq(Call)
      <3>1. todo'[s] = calls
        BY <2>2 DEF TypeOK
      <3>2. TypeOK'
        BY RunType
      <3> QED
        BY <3>1, <3>2 DEF TypeOK
    <2> QED
      BY <2>1, <2>2, <2>3, CauseKept
  <1> QED
    BY <1>4, <1>5, <1>6, <1>8, <1>9, <1>10 DEF Run

LEMMA ExpireStale ==
    ASSUME StaleInv, Expire
    PROVE  StaleInv'
  <1>1. todo' = todo
    BY DEF Expire, ExpireFirstPage, ExpireDetail, ExpirePub
  <1>2. CASE ExpireFirstPage
    BY <1>1, <1>2 DEF ExpireFirstPage, StaleInv, DeleteIsFirst, StalePageHasCause, Stale
  <1>3. CASE UNCHANGED <<author, firstPage, blamed>>
    BY <1>1, <1>3, StaleFrame DEF StaleInv, DeleteIsFirst, StalePageHasCause
  <1> QED
    BY <1>2, <1>3 DEF Expire, ExpireDetail, ExpirePub, tables

LEMMA StaleNext ==
    ASSUME TypeOK, StaleInv, [Next]_vars
    PROVE  StaleInv'
  <1>1. ASSUME NEW a \in Articles, Write(a) PROVE StaleInv'
    BY <1>1, SaveStale, PublishStale, WithdrawStale DEF Write
  <1>2. CASE UNCHANGED vars
    BY <1>2, StaleFrame DEF vars, StaleInv, DeleteIsFirst, StalePageHasCause
  <1> QED
    BY <1>1, <1>2, ReadStale, RunStale, ExpireStale DEF Next

\* A stale first page always has one of the four known causes: there is no
\* interleaving of writes, reads, goroutines and failures with another one.
THEOREM StalePagesHaveCause == Spec => []StalePageHasCause
  <1>1. Init => StaleInv
    BY StaleInit
  <1>2. TypeOK /\ StaleInv /\ [Next]_vars => StaleInv'
    BY StaleNext
  <1>3. StaleInv => StalePageHasCause
    BY DEF StaleInv
  <1> QED
    BY <1>1, <1>2, <1>3, TypeCorrect, PTL DEF Spec

-----------------------------------------------------------------------------
(* The cached copies while nobody writes.                                  *)

\* A call that stores what its table has, and no other page than the first.
Current(c) ==
    /\ c.op = "ReadPage" => c.off = 0
    /\ c.op = "SetFirstPage" => c.page = GetByAuthor(0)
    /\ c.op = "Set" => c.row = author[c.id]
    /\ c.op = "SetPub" => c.row = reader[c.id]

\* Every copy there is, or that a call is about to store, has the version and
\* the status of its table; the first page is the first.
CopiesFresh ==
    /\ firstPage \in {NoPage, Abstracts(GetByAuthor(0))}
    /\ \A a \in Articles :
          /\ detail[a] # NoCopy => detail[a].row = author[a]
          /\ pubCache[a] # NoRow => pubCache[a] = reader[a]

CallsFresh == \A s \in Slots : \A i \in DOMAIN todo[s] : Current(todo[s][i])

ViewsFresh == CopiesFresh /\ CallsFresh

\* What the queries return depends on the tables alone.
LEMMA CurrentKept ==
    ASSUME UNCHANGED tables
    PROVE  /\ \A off : GetByAuthor(off)' = GetByAuthor(off)
           /\ \A c : Current(c)' <=> Current(c)
  BY DEF tables, Current, GetByAuthor, Existing, Newer

\* A slot that is given current calls.
LEMMA SlotFresh ==
    ASSUME TypeOK, CallsFresh, UNCHANGED tables, NEW s \in Slots, NEW calls,
           todo' = [todo EXCEPT ![s] = calls],
           \A i \in DOMAIN calls : Current(calls[i])
    PROVE  CallsFresh'
  <1> SUFFICES ASSUME NEW t \in Slots, NEW i \in DOMAIN todo'[t]
               PROVE  Current(todo'[t][i])
    BY CurrentKept DEF CallsFresh
  <1>1. todo'[t] = IF t = s THEN calls ELSE todo[t]
    BY DEF TypeOK
  <1> QED
    BY <1>1 DEF CallsFresh

\* The first article of a page that its query would return is a current copy.
LEMMA PageIsCurrent ==
    ASSUME NEW off, NEW texts, NEW c \in PreCache(GetByAuthor(off).rows, texts)
    PROVE  Current(c)
  <1>1. PICK r \in GetByAuthor(off).rows :
            c = [op |-> "Set", id |-> r[1], row |-> r[2], texts |-> texts]
    BY DEF PreCache, FirstOf
  <1>2. r[2] = author[r[1]]
    BY <1>1 DEF GetByAuthor
  <1> QED
    BY <1>1, <1>2 DEF Current

\* Readers take what they store from the tables, or from copies that are fresh.
LEMMA ReadFresh ==
    ASSUME TypeOK, ViewsFresh, UNCHANGED tables, Read, ~OtherPageListed'
    PROVE  ViewsFresh'
  <1>1. PICK s \in Slots :
            \/ \E a \in Articles : GetPublishedById(a, s) \/ ListPub(a, s)
            \/ ListHit(s)
            \/ \E off \in Offsets : ListMiss(off, s)
    BY DEF Read
  <1>2. UNCHANGED <<firstPage, detail, pubCache>>
    BY <1>1 DEF GetPublishedById, ListPub, ListHit, ListMiss
  <1>3. PICK c : Current(c) /\ Spawn(s, <<c>>)
    <2>1. ASSUME NEW a \in Articles, GetPublishedById(a, s)
          PROVE  \E c : Current(c) /\ Spawn(s, <<c>>)
      BY <2>1 DEF GetPublishedById, Current
    <2>2. ASSUME NEW a \in Articles, ListPub(a, s)
          PROVE  \E c : Current(c) /\ Spawn(s, <<c>>)
      BY <2>2 DEF ListPub, Current
    <2>3. ASSUME ListHit(s)
          PROVE  \E c : Current(c) /\ Spawn(s, <<c>>)
      <3>1. firstPage.rows = GetByAuthor(0).rows
        BY <2>3 DEF ListHit, ViewsFresh, CopiesFresh, Abstracts, GetByAuthor
      <3>2. PICK c \in PreCache(firstPage.rows, {firstPage.text}) : Spawn(s, <<c>>)
        BY <2>3 DEF ListHit
      <3>3. c \in PreCache(GetByAuthor(0).rows, {firstPage.text})
        BY <3>1, <3>2
      <3> QED
        BY <3>2, <3>3, PageIsCurrent
    <2>4. ASSUME NEW off \in Offsets, ListMiss(off, s)
          PROVE  \E c : Current(c) /\ Spawn(s, <<c>>)
      <3> DEFINE c == [op |-> "ReadPage", off |-> off]
      <3>1. Spawn(s, <<c>>)
        BY <2>4 DEF ListMiss
      <3>2. todo'[s] = <<c>>
        BY <3>1 DEF Spawn, TypeOK
      <3>3. 1 \in DOMAIN todo'[s] /\ todo'[s][1].op = "ReadPage" /\ todo'[s][1].off = off
        BY <3>2
      <3>4. off = 0
        BY <3>3 DEF OtherPageListed
      <3>5. Current(c)
        BY <3>4 DEF Current
      <3> QED
        BY <3>1, <3>5
    <2> QED
      BY <1>1, <2>1, <2>2, <2>3, <2>4
  <1>4. CallsFresh'
    <2>1. todo' = [todo EXCEPT ![s] = <<c>>] /\ \A i \in DOMAIN <<c>> : Current(<<c>>[i])
      BY <1>3 DEF Spawn
    <2> QED
      BY <2>1, SlotFresh DEF ViewsFresh
  <1>5. CopiesFresh'
    BY <1>2, CurrentKept DEF ViewsFresh, CopiesFresh, Abstracts, tables
  <1> QED
    BY <1>4, <1>5 DEF ViewsFresh

\* What the slow paths leave to do is current.
LEMMA ReadCallsFresh ==
    ASSUME TypeOK, NEW s \in Slots, todo[s] # <<>>, Current(Head(todo[s])),
           DoReadPub(s) \/ DoReadPage(s)
    PROVE  \E calls : /\ todo' = [todo EXCEPT ![s] = calls]
                      /\ \A i \in DOMAIN calls : Current(calls[i])
  <1>1. CASE DoReadPub(s)
    <2> DEFINE a == Head(todo[s]).id
               c == [op |-> "SetPub", id |-> a, row |-> reader[a]]
               calls == IF reader[a] = NoRow THEN <<>> ELSE <<c>>
    <2>1. Current(c)
      BY DEF Current
    <2>2. todo' = [todo EXCEPT ![s] = calls]
      BY <1>1 DEF DoReadPub
    <2> HIDE DEF c
    <2>3. \A i \in DOMAIN calls : Current(calls[i])
      BY <2>1
    <2> QED
      BY <2>2, <2>3
  <1>2. CASE DoReadPage(s)
    <2> DEFINE off == Head(todo[s]).off
               store == [op |-> "SetFirstPage", page |-> GetByAuthor(off)]
    <2>1. Current(store)
      BY <1>2 DEF Current, DoReadPage
    <2>2. \/ todo' = [todo EXCEPT ![s] = <<store>>]
          \/ \E c \in PreCache(GetByAuthor(off).rows, Texts) :
                todo' \in {[todo EXCEPT ![s] = <<store, c>>], [todo EXCEPT ![s] = <<c, store>>]}
      BY <1>2 DEF DoReadPage
    <2> HIDE DEF store, off
    <2>3. CASE todo' = [todo EXCEPT ![s] = <<store>>]
      <3>1. \A i \in DOMAIN <<store>> : Current(<<store>>[i])
        BY <2>1
      <3> QED
        BY <2>3, <3>1
    <2>4. ASSUME NEW c \in PreCache(GetByAuthor(off).rows, Texts),
                 todo' \in {[todo EXCEPT ![s] = <<store, c>>], [todo EXCEPT ![s] = <<c, store>>]}
          PROVE  \E calls : /\ todo' = [todo EXCEPT ![s] = calls]
                            /\ \A i \in DOMAIN calls : Current(calls[i])
      <3>1. Current(c)
        BY PageIsCurrent
      <3>2. /\ \A i \in DOMAIN <<store, c>> : Current(<<store, c>>[i])
            /\ \A i \in DOMAIN <<c, store>> : Current(<<c, store>>[i])
        BY <2>1, <3>1
      <3> QED
        BY <2>4, <3>2
    <2> QED
      BY <2>2, <2>3, <2>4
  <1> QED
    BY <1>1, <1>2

\* A call stores what is current, and what is left of its slot is current.
LEMMA RunFresh ==
    ASSUME TypeOK, ViewsFresh, UNCHANGED tables, NEW s \in Slots, Run(s)
    PROVE  ViewsFresh'
  <1> DEFINE c == Head(todo[s])
  <1>1. todo[s] # <<>> /\ todo[s] \in Seq(Call)
    BY DEF Run, TypeOK
  <1>2. Current(c) /\ c \in Call
    <2>1. 1 \in DOMAIN todo[s] /\ c = todo[s][1] /\ c \in Call
      BY <1>1
    <2> HIDE DEF c
    <2> QED
      BY <2>1 DEF ViewsFresh, CallsFresh
  <1>3. Done(s) => CallsFresh'
    <2> SUFFICES ASSUME Done(s) PROVE CallsFresh'
      OBVIOUS
    <2>1. ASSUME NEW i \in DOMAIN Tail(todo[s])
          PROVE  i + 1 \in DOMAIN todo[s] /\ Tail(todo[s])[i] = todo[s][i + 1]
      BY <1>1, <2>1
    <2>2. \A i \in DOMAIN Tail(todo[s]) : Current(Tail(todo[s])[i])
      BY <2>1 DEF ViewsFresh, CallsFresh
    <2> QED
      BY <2>2, SlotFresh DEF Done, ViewsFresh
  <1>4. UNCHANGED <<firstPage, detail, pubCache>> => CopiesFresh'
    BY CurrentKept DEF ViewsFresh, CopiesFresh, Abstracts, tables
  <1>5. CASE DoDelFirstPage(s)
    BY <1>3, <1>5 DEF DoDelFirstPage, ViewsFresh, CopiesFresh, Abstracts, tables
  <1>6. CASE DoSetFirstPage(s)
    <2>1. firstPage' = Abstracts(GetByAuthor(0))
      BY <1>2, <1>6 DEF DoSetFirstPage, Current
    <2>2. firstPage' = Abstracts(GetByAuthor(0))'
      BY <2>1, CurrentKept DEF Abstracts
    <2> QED
      BY <1>3, <1>6, <2>2 DEF DoSetFirstPage, ViewsFresh, CopiesFresh, tables
  <1>7. CASE DoSet(s)
    <2>1. PICK t \in c.texts : detail' = [detail EXCEPT ![c.id] = [row |-> c.row, text |-> t]]
      BY <1>7 DEF DoSet
    <2>2. c.row = author[c.id] /\ UNCHANGED <<firstPage, pubCache>>
      BY <1>2, <1>7 DEF DoSet, Current
    <2>3. \A a \in Articles : detail'[a] = detail[a] \/ detail'[a].row = author[a]
      BY <2>1, <2>2 DEF TypeOK
    <2>4. CopiesFresh'
      BY <2>2, <2>3, CurrentKept DEF ViewsFresh, CopiesFresh, Abstracts, tables
    <2> QED
      BY <1>3, <1>7, <2>4 DEF DoSet, ViewsFresh
  <1>8. CASE DoSetPub(s)
    <2>1. /\ pubCache' = [pubCache EXCEPT ![c.id] = c.row] /\ c.row = reader[c.id]
          /\ UNCHANGED <<firstPage, detail>>
      BY <1>2, <1>8 DEF DoSetPub, Current
    <2>2. \A a \in Articles : pubCache'[a] \in {pubCache[a], reader[a]}
      BY <2>1 DEF TypeOK
    <2>3. CopiesFresh'
      BY <2>1, <2>2, CurrentKept DEF ViewsFresh, CopiesFresh, Abstracts, tables
    <2> QED
      BY <1>3, <1>8, <2>3 DEF DoSetPub, ViewsFresh
  <1>9. CASE DoReadPub(s) \/ DoReadPage(s)
    <2>1. CallsFresh'
      BY <1>1, <1>2, <1>9, ReadCallsFresh, SlotFresh DEF ViewsFresh
    <2> QED
      BY <1>4, <1>9, <2>1 DEF DoReadPub, DoReadPage, ViewsFresh
  <1>10. CASE DoFails(s)
    BY <1>3, <1>4, <1>10 DEF DoFails, ViewsFresh
  <1> QED
    BY <1>5, <1>6, <1>7, <1>8, <1>9, <1>10 DEF Run

\* What ViewsConverge reaches is lost only by another write or by the listing of
\* another page: while the tables stay as they are and nobody lists a page but
\* the first, no read, goroutine, failure or expiry puts another version or
\* status into the author's copy or the readers', or another page into the
\* first.  (The text of the author's copy does get cut: that is a hit's doing.)
THEOREM FreshViewsStay ==
    Spec => [][ViewsFresh /\ UNCHANGED tables /\ ~OtherPageListed' => ViewsFresh']_vars
  <1>1. TypeOK /\ [Next]_vars =>
            [ViewsFresh /\ UNCHANGED tables /\ ~OtherPageListed' => ViewsFresh']_vars
    <2> SUFFICES ASSUME TypeOK, Next, ViewsFresh, UNCHANGED tables, ~OtherPageListed'
                 PROVE  ViewsFresh'
      OBVIOUS
    <2>1. ASSUME NEW a \in Articles, Write(a)
          PROVE  FALSE
      <3>1. writes \in Nat /\ author[a] \in Row \union {NoRow}
        BY MaxWritesAssumption DEF TypeOK
      <3>2. CASE Withdraw(a)
        BY <3>1, <3>2 DEF Withdraw, tables, Row, TypeOK
      <3>3. ASSUME NEW s \in Slots, Save(a, s) \/ Publish(a, s)
            PROVE  FALSE
        BY <3>1, <3>3 DEF Save, Publish, tables
      <3> QED
        BY <2>1, <3>2, <3>3 DEF Write
    <2>2. CASE Expire
      <3>1. /\ UNCHANGED todo
            /\ firstPage' \in {firstPage, NoPage}
            /\ \A a \in Articles : /\ detail'[a] \in {detail[a], NoCopy}
                                   /\ pubCache'[a] \in {pubCache[a], NoRow}
        BY <2>2 DEF Expire, ExpireFirstPage, ExpireDetail, ExpirePub, TypeOK
      <3>2. CopiesFresh'
        BY <3>1, CurrentKept DEF ViewsFresh, CopiesFresh, Abstracts, tables
      <3>3. CallsFresh'
        BY <3>1, CurrentKept DEF ViewsFresh, CallsFresh
      <3> QED
        BY <3>2, <3>3 DEF ViewsFresh
    <2> QED
      BY <2>1, <2>2, ReadFresh, RunFresh DEF Next
  <1> QED
    BY <1>1, TypeCorrect, PTL DEF Spec
=============================================================================
