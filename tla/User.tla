--------------------------------- MODULE User ---------------------------------
(***************************************************************************)
(* cmd/user: registration by telephone, WeChat and e-mail over the unique  *)
(* indexes of one table, and the cached profiles.                          *)
(*                                                                         *)
(* FindOrCreate is three statements without a transaction: look up,        *)
(* insert, look up again.  Two first logins with one name cross, and the   *)
(* unique index decides.  A profile is read through a cache which an edit   *)
(* clears after it has written the row.  A row is the name it was          *)
(* registered under and the number of the edit that wrote it; its id is    *)
(* its place in the table.  Every statement can fail, and a write can      *)
(* commit with its answer lost.                                            *)
(***************************************************************************)
EXTENDS Integers, FiniteSets, Sequences

CONSTANTS
    Phones, OpenIds, Emails,  \* the names under which a user is registered
    MaxEdits,                 \* bound: edits that commit
    NumSlots                  \* bound: handlers at work

ASSUME NamesAssumption ==
    /\ IsFiniteSet(Phones \union OpenIds \union Emails)
    /\ Phones \intersect OpenIds = {}
    /\ (Phones \union OpenIds) \intersect Emails = {}
ASSUME MaxEditsAssumption == MaxEdits \in Nat
ASSUME NumSlotsAssumption == NumSlots \in Nat

VARIABLES
    users,    \* the table, in the order of its ids
    edits,    \* edits committed so far
    cache,    \* the copy of a profile in Redis: its edit, or NoCopy
    hs,       \* what each handler will do next
    given,    \* history: <<name, id>>, the answers of FindOrCreate
    misled,   \* history: names that were answered "not found"
    refused   \* history: open ids whose insert has failed

vars == <<users, edits, cache, hs, given, misled, refused>>
profiles == <<edits, cache>>
answers == <<given, misled, refused>>

Names == Phones \union OpenIds \union Emails
Slots == 1..NumSlots
Ids == 1..Cardinality(Names)
NoCopy == -1
Idle == [at |-> "idle"]

Handler ==
    {Idle}
        \union [at : {"find", "create", "again"}, name : Phones \union OpenIds]
        \union [at : {"load", "delete"}, id : Ids]
        \union [at : {"fill"}, id : Ids, copy : 0..MaxEdits]

TypeOK ==
    /\ users \in Seq([name : Names, ver : 0..MaxEdits])
    /\ Len(users) <= Cardinality(Names)
    /\ edits \in 0..MaxEdits
    /\ cache \in [Ids -> 0..MaxEdits \union {NoCopy}]
    /\ hs \in [Slots -> Handler]
    /\ given \subseteq (Phones \union OpenIds) \X Ids
    /\ misled \subseteq Phones \union OpenIds
    /\ refused \subseteq OpenIds

Init ==
    /\ users = <<>>
    /\ edits = 0
    /\ cache = [i \in Ids |-> NoCopy]
    /\ hs = [s \in Slots |-> Idle]
    /\ given = {}
    /\ misled = {}
    /\ refused = {}

\* Slots are alike: the first free one is taken.
Begin(s, h) ==
    /\ hs[s] = Idle
    /\ \A t \in 1..(s - 1) : hs[t] # Idle
    /\ hs' = [hs EXCEPT ![s] = h]

Goto(s, h) == hs' = [hs EXCEPT ![s] = h]

\* The rows with a name.
RowsOf(n) == {i \in DOMAIN users : users[i].name = n}

\* First orders by the primary key.
First(n) == CHOOSE i \in RowsOf(n) : \A j \in RowsOf(n) : i <= j

\* INSERT: MySQL refuses a second row with the name.
Insert(n) ==
    /\ RowsOf(n) = {}
    /\ users' = Append(users, [name |-> n, ver |-> 0])

\* The copy of a profile is not its row.
Stale(i) == cache[i] \notin {NoCopy, users[i].ver}

-----------------------------------------------------------------------------
(* Registration.                                                           *)

\* One insert; a name that is taken is an error and changes nothing.
Signup(n) ==
    /\ Insert(n)
    /\ UNCHANGED <<profiles, answers, hs>>

\* FindOrCreate and FindOrCreateByWechat.
FindOrCreate(n, s) ==
    /\ Begin(s, [at |-> "find", name |-> n])
    /\ UNCHANGED <<users, profiles, answers>>

\* The first look-up: found, not found, or failed.
FindByName(s) ==
    /\ hs[s].at = "find"
    /\ LET n == hs[s].name
       IN  \/ /\ RowsOf(n) # {}
              /\ given' = given \union {<<n, First(n)>>}
              /\ Goto(s, Idle)
           \/ /\ RowsOf(n) = {}
              /\ Goto(s, [hs[s] EXCEPT !.at = "create"])
              /\ UNCHANGED given
           \/ Goto(s, Idle) /\ UNCHANGED given
    /\ UNCHANGED <<users, profiles, misled, refused>>

\* Mutant: FindOrCreate does not look at the error either.
RefusedUnseen(s) ==
    /\ Goto(s, [hs[s] EXCEPT !.at = "again"])
    /\ UNCHANGED refused

\* Where an error of the insert that is no duplicate leads: FindOrCreate gives
\* up, FindOrCreateByWechat does not look at it.
Refused(s) ==
    \/ hs[s].name \in Phones /\ Goto(s, Idle) /\ UNCHANGED refused
    \/ /\ hs[s].name \in OpenIds
       /\ Goto(s, [hs[s] EXCEPT !.at = "again"])
       /\ refused' = refused \union {hs[s].name}

\* The insert: done, refused as a duplicate, or failed, be it after a commit.
Create(s) ==
    /\ hs[s].at = "create"
    /\ LET n == hs[s].name
       IN  \/ /\ \/ Insert(n)
                 \/ RowsOf(n) # {} /\ UNCHANGED users
              /\ Goto(s, [hs[s] EXCEPT !.at = "again"])
              /\ UNCHANGED refused
           \/ /\ Insert(n) \/ UNCHANGED users
              /\ Refused(s)
    /\ UNCHANGED <<profiles, given, misled>>

\* The second look-up ends the handler whatever it finds.
FindAgain(s) ==
    /\ hs[s].at = "again"
    /\ Goto(s, Idle)
    /\ LET n == hs[s].name
       IN  \/ /\ RowsOf(n) # {}
              /\ given' = given \union {<<n, First(n)>>}
              /\ UNCHANGED misled
           \/ /\ RowsOf(n) = {}
              /\ misled' = misled \union {n}
              /\ UNCHANGED given
           \/ UNCHANGED <<given, misled>>
    /\ UNCHANGED <<users, profiles, refused>>

-----------------------------------------------------------------------------
(* Profiles.                                                               *)

\* FindById: a hit changes nothing; a miss, or any error of Redis, goes on to
\* the table.
Profile(i, s) ==
    /\ Begin(s, [at |-> "load", id |-> i])
    /\ UNCHANGED <<users, profiles, answers>>

\* Mutant: a failed read of the table is not noticed; nothing is cached as the
\* profile.
LoadUnchecked(s) ==
    /\ hs[s].at = "load"
    /\ \E copy \in {users[hs[s].id].ver, NoCopy} :
          Goto(s, [at |-> "fill", id |-> hs[s].id, copy |-> copy])
    /\ UNCHANGED <<users, profiles, answers>>

\* The read of the table; an error ends the handler.
Load(s) ==
    /\ hs[s].at = "load"
    /\ LET i == hs[s].id
       IN  \/ Goto(s, [at |-> "fill", id |-> i, copy |-> users[i].ver])
           \/ Goto(s, Idle)
    /\ UNCHANGED <<users, profiles, answers>>

\* An error of the cache is ignored.
Fill(s) ==
    /\ hs[s].at = "fill"
    /\ Goto(s, Idle)
    /\ LET i == hs[s].id
       IN  cache' = [cache EXCEPT ![i] = hs[s].copy] \/ UNCHANGED cache
    /\ UNCHANGED <<users, edits, answers>>

\* Update: the row first.  When the answer is lost the copy is not deleted.
Edit(i, s) ==
    /\ edits < MaxEdits
    /\ edits' = edits + 1
    /\ users' = [users EXCEPT ![i].ver = edits']
    /\ Begin(s, [at |-> "delete", id |-> i]) \/ UNCHANGED hs
    /\ UNCHANGED <<cache, answers>>

Delete(s) ==
    /\ hs[s].at = "delete"
    /\ Goto(s, Idle)
    /\ LET i == hs[s].id
       IN  cache' = [cache EXCEPT ![i] = NoCopy] \/ UNCHANGED cache
    /\ UNCHANGED <<users, edits, answers>>

\* Mutant: a copy has no time to live.
ExpireNever(i) == FALSE /\ UNCHANGED vars

\* Fifteen minutes.
Expire(i) ==
    /\ cache[i] # NoCopy
    /\ cache' = [cache EXCEPT ![i] = NoCopy]
    /\ UNCHANGED <<users, edits, hs, answers>>

Run(s) ==
    \/ FindByName(s) \/ Create(s) \/ FindAgain(s)
    \/ Load(s) \/ Fill(s) \/ Delete(s)

Next ==
    \/ \E n \in Emails : Signup(n)
    \/ \E s \in Slots :
         \/ \E n \in Phones \union OpenIds : FindOrCreate(n, s)
         \/ \E i \in DOMAIN users : Profile(i, s) \/ Edit(i, s)
         \/ Run(s)
    \/ \E i \in Ids : Expire(i)

Spec == Init /\ [][Next]_vars

\* A handler's calls end, with an answer or an error, and every copy has a time
\* to live.
FairSpec ==
    /\ Spec
    /\ \A s \in Slots : WF_vars(Run(s))
    /\ \A i \in Ids : WF_vars(Expire(i))

-----------------------------------------------------------------------------
(* Properties.                                                             *)

\* However first logins with a name cross, and whichever of their inserts fails
\* (a duplicate is taken as "somebody else was first"): whoever logged in with
\* the name was given its one user, and FindOrCreate never answers that the user
\* it should have created is not found.  FindOrCreateByWechat may, but only for
\* a name whose insert has failed.
LoginsAgree ==
    /\ \A a \in given : RowsOf(a[1]) = {a[2]}
    /\ misled \subseteq refused

\* Once nobody edits any more, every cached profile becomes and stays the row,
\* whatever was filled or not deleted out of turn.
ProfilesConverge ==
    <>[](\A i \in DOMAIN users : ~Stale(i))
================================================================================
