-------------------------------- MODULE Article --------------------------------
(***************************************************************************)
(* cmd/article: the author's table and the published table, written        *)
(* together by Publish and Withdraw, and the three Redis copies of them:   *)
(* the author's first page, the author's copy of one article, the reader's *)
(* copy of one article.                                                    *)
(*                                                                         *)
(* A row is its content (the number of the write that made it, which also  *)
(* stands for utime) and its status.  A cache may have the whole text of a *)
(* content or a cut one: its abstract (the first hundred characters), or   *)
(* what a data race made of the two.  An article that is its own abstract  *)
(* is left out.                                                            *)
(*                                                                         *)
(* One author; ids are chosen by the model.  Handlers answer               *)
(* before their cache calls are done: what a handler or a goroutine it     *)
(* started has still to do is a sequence of calls in a slot of `todo`.     *)
(* Each of these calls can fail (they use the context of a request that is *)
(* over), which the code only logs.                                        *)
(***************************************************************************)
EXTENDS Integers, FiniteSets, Sequences

CONSTANTS
    Articles,
    PageSize,   \* the only page size that reads the first-page cache, 100
    MaxWrites,  \* bound: calls of Save and Publish that commit
    NumSlots    \* bound: handlers and goroutines that are still at work

ASSUME PageSizeAssumption == PageSize \in Nat \ {0}
ASSUME MaxWritesAssumption == MaxWrites \in Nat
ASSUME NumSlotsAssumption == NumSlots \in Nat

VARIABLES
    author,     \* table articles: a row, or NoRow
    reader,     \* table published_articles
    writes,     \* the clock: writes committed so far
    firstPage,  \* cache: the page of the author, or NoPage
    detail,     \* cache: the author's copy of an article
    pubCache,   \* cache: the readers' copy of an article
    todo,       \* calls that handlers and goroutines have still to make
    released,   \* history: contents that were committed as published
    blamed      \* history: the first page is stale for a known reason

tables == <<author, reader, writes, released>>
vars == <<author, reader, writes, firstPage, detail, pubCache, todo, released, blamed>>

Status == {"unpublished", "published", "private"}
NoRow == [ver |-> 0, status |-> "none"]
Row == [ver : 1..MaxWrites, status : Status]
Slots == 1..NumSlots

\* Bound on what List is asked for: the first page, and one that starts at the
\* second article.
Offsets == {0, 1}

\* The Content of a cached domain.Article.
Texts == {"whole", "cut"}

\* The author's copy of an article.
Copy == [row : Row, text : Texts]
NoCopy == [row |-> NoRow, text |-> "none"]

\* SELECT ... ORDER BY utime DESC LIMIT PageSize OFFSET off
Existing == {a \in Articles : author[a] # NoRow}
Newer(a) == {b \in Existing : author[b].ver > author[a].ver}
GetByAuthor(off) ==
    [off |-> off, text |-> "whole",
     rows |-> {<<a, author[a]>> :
                 a \in {b \in Existing : Cardinality(Newer(b)) \in off..(off + PageSize - 1)}}]

NoPage == [off |-> -1, text |-> "none", rows |-> {}]
Page == [off : Offsets, text : Texts, rows : SUBSET (Articles \X Row)]

\* SetFirstPage gives every article of the page its abstract for a content.
Abstracts(page) == [page EXCEPT !.text = "cut"]

\* The first article of a page, if the page has one.
FirstOf(rows) ==
    {r \in rows : \A q \in rows : q[2].ver <= r[2].ver}

Call ==
    [op : {"DelFirstPage"}]
        \union [op : {"SetFirstPage"}, page : Page]
        \union [op : {"Set"}, id : Articles, row : Row, texts : SUBSET Texts]
        \union [op : {"SetPub"}, id : Articles, row : Row]
        \union [op : {"ReadPub"}, id : Articles]
        \union [op : {"ReadPage"}, off : Offsets]

\* A page is stale when its query would now return something else.
Stale(p) == p # NoPage /\ p # Abstracts(GetByAuthor(p.off))

TypeOK ==
    /\ author \in [Articles -> Row \union {NoRow}]
    /\ reader \in [Articles -> Row \union {NoRow}]
    /\ writes \in 0..MaxWrites
    /\ firstPage \in Page \union {NoPage}
    /\ detail \in [Articles -> Copy \union {NoCopy}]
    /\ pubCache \in [Articles -> Row \union {NoRow}]
    /\ todo \in [Slots -> Seq(Call)]
    /\ released \in [Articles -> SUBSET (1..MaxWrites)]
    /\ blamed \in BOOLEAN

Init ==
    /\ author = [a \in Articles |-> NoRow]
    /\ reader = [a \in Articles |-> NoRow]
    /\ writes = 0
    /\ firstPage = NoPage
    /\ detail = [a \in Articles |-> NoCopy]
    /\ pubCache = [a \in Articles |-> NoRow]
    /\ todo = [s \in Slots |-> <<>>]
    /\ released = [a \in Articles |-> {}]
    /\ blamed = FALSE

\* Slots are alike: the first free one is taken.
Spawn(s, calls) ==
    /\ todo[s] = <<>>
    /\ \A t \in 1..(s - 1) : todo[t] # <<>>
    /\ todo' = [todo EXCEPT ![s] = calls]

-----------------------------------------------------------------------------
(* Writes.  A failed one rolls back and starts nothing: it is a stutter.   *)

DelFirstPage == [op |-> "DelFirstPage"]

\* Mutant: the first page is not deleted after a save.
SaveKeepsPage(a, s) ==
    /\ writes < MaxWrites
    /\ writes' = writes + 1
    /\ author' = [author EXCEPT ![a] = [ver |-> writes', status |-> "unpublished"]]
    /\ UNCHANGED <<reader, released, firstPage, detail, pubCache, todo, blamed>>

\* Save: Insert or UpdateById, always with the status "unpublished"; the
\* handler then deletes the first page, unless the answer of the database is
\* lost.
Save(a, s) ==
    /\ writes < MaxWrites
    /\ writes' = writes + 1
    /\ author' = [author EXCEPT ![a] = [ver |-> writes', status |-> "unpublished"]]
    /\ \/ Spawn(s, <<DelFirstPage>>) /\ blamed' = blamed
       \/ UNCHANGED todo /\ blamed' = TRUE
    /\ UNCHANGED <<reader, released, firstPage, detail, pubCache>>

\* What the goroutine of Publish does.  A new article is still cached under
\* the id the request had, 0, which no article has.
AfterSync(a, row) ==
    IF author[a] = NoRow THEN <<DelFirstPage>>
    ELSE <<DelFirstPage, [op |-> "SetPub", id |-> a, row |-> row]>>

\* Mutant: no transaction, and the upsert of the published row fails.
PublishHalf(a, s) ==
    /\ writes < MaxWrites
    /\ writes' = writes + 1
    /\ author' = [author EXCEPT ![a] = [ver |-> writes', status |-> "published"]]
    /\ blamed' = TRUE
    /\ UNCHANGED <<reader, released, firstPage, detail, pubCache, todo>>

\* dao.Sync: both tables in one transaction; a commit whose answer is lost
\* starts no goroutine.
Publish(a, s) ==
    LET row == [ver |-> writes + 1, status |-> "published"]
    IN  /\ writes < MaxWrites
        /\ writes' = writes + 1
        /\ author' = [author EXCEPT ![a] = row]
        /\ reader' = [reader EXCEPT ![a] = row]
        /\ released' = [released EXCEPT ![a] = @ \union {row.ver}]
        /\ \/ Spawn(s, AfterSync(a, row)) /\ blamed' = blamed
           \/ UNCHANGED todo /\ blamed' = TRUE
        /\ UNCHANGED <<firstPage, detail, pubCache>>

\* SyncStatus: each UPDATE must change exactly one row, and MySQL does not
\* count a row that already has the status.  No cache is touched.
Withdraw(a) ==
    /\ author[a] # NoRow /\ author[a].status # "private"
    /\ reader[a] # NoRow /\ reader[a].status # "private"
    /\ author' = [author EXCEPT ![a].status = "private"]
    /\ reader' = [reader EXCEPT ![a].status = "private"]
    /\ blamed' = TRUE
    /\ UNCHANGED <<writes, released, firstPage, detail, pubCache, todo>>

-----------------------------------------------------------------------------
(* Reads.                                                                  *)

\* GetPublishedById: a hit changes nothing; a miss, and any error of Redis, goes
\* on to the table.
GetPublishedById(a, s) ==
    /\ Spawn(s, <<[op |-> "ReadPub", id |-> a]>>)
    /\ UNCHANGED <<tables, firstPage, detail, pubCache, blamed>>

\* ListPub: the first row of the page, whatever its status, is cached for the
\* readers (PreSetPub); with the right offset any row is the first.
ListPub(a, s) ==
    /\ reader[a] # NoRow
    /\ Spawn(s, <<[op |-> "SetPub", id |-> a, row |-> reader[a]]>>)
    /\ UNCHANGED <<tables, firstPage, detail, pubCache, blamed>>

\* Mutant: the first article of an empty page is cached, a zero article.
PreCacheUnchecked(rows, texts) ==
    IF rows = {} THEN {[op |-> "Set", id |-> 0, row |-> NoRow, texts |-> texts]}
    ELSE {[op |-> "Set", id |-> r[1], row |-> r[2], texts |-> texts] : r \in FirstOf(rows)}

\* preCache of a page's first article, with one of the texts that it may find in
\* the slice; none above a megabyte, which is the same as a failed call.
PreCache(rows, texts) ==
    {[op |-> "Set", id |-> r[1], row |-> r[2], texts |-> texts] : r \in FirstOf(rows)}

\* List, a hit: the goroutine caches the first article of the cached page, of
\* which the page has the abstract.
ListHit(s) ==
    /\ firstPage # NoPage
    /\ \E c \in PreCache(firstPage.rows, {firstPage.text}) : Spawn(s, <<c>>)
    /\ UNCHANGED <<tables, firstPage, detail, pubCache, blamed>>

\* List, a miss or an error of Redis, or a page that does not use the cache.
ListMiss(off, s) ==
    /\ Spawn(s, <<[op |-> "ReadPage", off |-> off]>>)
    /\ UNCHANGED <<tables, firstPage, detail, pubCache, blamed>>

-----------------------------------------------------------------------------
(* The calls that are still to be made.                                    *)

Done(s) == todo' = [todo EXCEPT ![s] = Tail(@)]

DoDelFirstPage(s) ==
    /\ Head(todo[s]).op = "DelFirstPage"
    /\ Done(s)
    /\ firstPage' = NoPage
    /\ blamed' = FALSE
    /\ UNCHANGED <<tables, detail, pubCache>>

\* Any page that was read from the table, at whatever offset, is stored as the
\* first page, in abstracts.
DoSetFirstPage(s) ==
    /\ Head(todo[s]).op = "SetFirstPage"
    /\ Done(s)
    /\ firstPage' = Abstracts(Head(todo[s]).page)
    /\ blamed' = Stale(firstPage')
    /\ UNCHANGED <<tables, detail, pubCache>>

DoSet(s) ==
    /\ Head(todo[s]).op = "Set"
    /\ Done(s)
    /\ LET c == Head(todo[s])
       IN  \E t \in c.texts : detail' = [detail EXCEPT ![c.id] = [row |-> c.row, text |-> t]]
    /\ UNCHANGED <<tables, firstPage, pubCache, blamed>>

DoSetPub(s) ==
    /\ Head(todo[s]).op = "SetPub"
    /\ Done(s)
    /\ pubCache' = [pubCache EXCEPT ![Head(todo[s]).id] = Head(todo[s]).row]
    /\ UNCHANGED <<tables, firstPage, detail, blamed>>

\* Mutant: the slow path reads the author's table.
DoReadPubOfAuthor(s) ==
    /\ Head(todo[s]).op = "ReadPub"
    /\ LET a == Head(todo[s]).id
       IN  todo' = [todo EXCEPT ![s] =
               IF author[a] = NoRow THEN <<>>
               ELSE <<[op |-> "SetPub", id |-> a, row |-> author[a]]>>]
    /\ UNCHANGED <<tables, firstPage, detail, pubCache, blamed>>

\* The slow path of GetPublishedById: no row, or a goroutine that caches it.
DoReadPub(s) ==
    /\ Head(todo[s]).op = "ReadPub"
    /\ LET a == Head(todo[s]).id
       IN  todo' = [todo EXCEPT ![s] =
               IF reader[a] = NoRow THEN <<>>
               ELSE <<[op |-> "SetPub", id |-> a, row |-> reader[a]]>>]
    /\ UNCHANGED <<tables, firstPage, detail, pubCache, blamed>>

\* The slow path of List.  The handler stores the page while a goroutine
\* caches its first article: either may be first.  The two share the slice, in
\* which SetFirstPage is replacing the texts: a data race.
DoReadPage(s) ==
    /\ Head(todo[s]).op = "ReadPage"
    /\ LET page == GetByAuthor(Head(todo[s]).off)
           store == [op |-> "SetFirstPage", page |-> page]
       IN  \/ page.rows = {} /\ todo' = [todo EXCEPT ![s] = <<store>>]
           \/ \E c \in PreCache(page.rows, Texts) :
                todo' \in {[todo EXCEPT ![s] = <<store, c>>], [todo EXCEPT ![s] = <<c, store>>]}
    /\ UNCHANGED <<tables, firstPage, detail, pubCache, blamed>>

\* Redis or the database fails: a read ends its handler, the rest goes on.
DoFails(s) ==
    /\ Done(s)
    /\ blamed' = (blamed \/ Head(todo[s]).op = "DelFirstPage")
    /\ UNCHANGED <<tables, firstPage, detail, pubCache>>

Run(s) ==
    /\ todo[s] # <<>>
    /\ \/ DoDelFirstPage(s) \/ DoSetFirstPage(s) \/ DoSet(s)
       \/ DoSetPub(s) \/ DoReadPub(s) \/ DoReadPage(s) \/ DoFails(s)

-----------------------------------------------------------------------------
(* Expiry: ten minutes, one minute, thirty minutes (one after ListPub).    *)

ExpireFirstPage ==
    /\ firstPage # NoPage
    /\ firstPage' = NoPage
    /\ blamed' = FALSE
    /\ UNCHANGED <<tables, detail, pubCache, todo>>

ExpireDetail(a) ==
    /\ detail[a] # NoCopy
    /\ detail' = [detail EXCEPT ![a] = NoCopy]
    /\ UNCHANGED <<tables, firstPage, pubCache, todo, blamed>>

\* Mutant: the readers' copy has no time to live.
ExpirePubNever(a) == FALSE /\ UNCHANGED vars

ExpirePub(a) ==
    /\ pubCache[a] # NoRow
    /\ pubCache' = [pubCache EXCEPT ![a] = NoRow]
    /\ UNCHANGED <<tables, firstPage, detail, todo, blamed>>

Write(a) == Withdraw(a) \/ \E s \in Slots : Save(a, s) \/ Publish(a, s)

Read ==
    \E s \in Slots :
        \/ \E a \in Articles : GetPublishedById(a, s) \/ ListPub(a, s)
        \/ ListHit(s)
        \/ \E off \in Offsets : ListMiss(off, s)

Expire == ExpireFirstPage \/ \E a \in Articles : ExpireDetail(a) \/ ExpirePub(a)

Next ==
    \/ \E a \in Articles : Write(a)
    \/ Read
    \/ \E s \in Slots : Run(s)
    \/ Expire

Spec == Init /\ [][Next]_vars

\* Started goroutines run and every key has a time to live.  Nobody has to
\* call, and no call has to succeed.
FairSpec ==
    /\ Spec
    /\ \A s \in Slots : WF_vars(Run(s))
    /\ WF_vars(ExpireFirstPage)
    /\ \A a \in Articles : WF_vars(ExpireDetail(a)) /\ WF_vars(ExpirePub(a))

-----------------------------------------------------------------------------
(* Properties.                                                             *)

\* The two tables never contradict each other: a row that the author sees as
\* published is the row the readers get, one that is private is private for
\* them, and readers never have a later text than the author (dao.Sync and
\* SyncStatus write both or none).
TablesAgree ==
    \A a \in Articles :
        /\ author[a].status = "published" => reader[a] = author[a]
        /\ author[a].status = "private" => reader[a].status = "private"
        /\ reader[a].ver <= author[a].ver

\* What readers can get, from the table, from the cache or from a call that
\* is about to fill it, was published once: a draft that was only saved never
\* reaches them, in whatever order goroutines and writes interleave.
NoDraftServed ==
    \A a \in Articles :
        /\ reader[a] # NoRow => reader[a].ver \in released[a]
        /\ pubCache[a] # NoRow => pubCache[a].ver \in released[a]
        /\ \A s \in Slots : \A i \in DOMAIN todo[s] :
             LET c == todo[s][i]
             IN  c.op = "SetPub" /\ c.id = a => c.row.ver \in released[a]

\* A first page outlives a write for one of four reasons only: its delete is
\* still to come or failed, the answer of a commit was lost, the article was
\* withdrawn, or a read that began before the write stored its page after it.
StalePageHasCause ==
    Stale(firstPage) =>
        \/ blamed
        \/ \E s \in Slots : \E i \in DOMAIN todo[s] : todo[s][i].op = "DelFirstPage"

\* A handler is at work on a page other than the first.
OtherPageListed ==
    \E s \in Slots : \E i \in DOMAIN todo[s] :
        \/ todo[s][i].op = "ReadPage" /\ todo[s][i].off # 0
        \/ todo[s][i].op = "SetFirstPage" /\ todo[s][i].page.off # 0

\* Whatever was cached out of turn, once the author stops writing every copy
\* has in the end the version and the status that its table has: the author's
\* copy (its text may be cut), the readers', and the first page, unless
\* other pages, which are stored in its place, are listed again and again.
ViewsConverge ==
    /\ []<>OtherPageListed \/ <>[](firstPage \in {NoPage, Abstracts(GetByAuthor(0))})
    /\ <>[](\A a \in Articles :
              /\ detail[a] # NoCopy => detail[a].row = author[a]
              /\ pubCache[a] # NoRow => pubCache[a] = reader[a])
================================================================================
