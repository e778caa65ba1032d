------------------------------- MODULE UserProofs -------------------------------
(***************************************************************************)
(* Theorems about cmd/user for every set of names and every number of      *)
(* edits and handlers.                                                     *)
(*                                                                         *)
(* IInv is the inductive invariant.  Unique is what the unique indexes     *)
(* give; HeldInv says what a handler may rely on between two of its        *)
(* statements: the row of a profile is there, and the insert has left a    *)
(* row with the name, or was refused for a WeChat user.  A row is never    *)
(* deleted and never changes its name, so both survive every step of the   *)
(* other handlers.                                                         *)
(***************************************************************************)
EXTENDS User, FiniteSetTheorems, SequenceTheorems, TLAPS

Unique ==
    \A i, j \in DOMAIN users : users[i].name = users[j].name => i = j

HeldInv ==
    \A s \in Slots :
        /\ hs[s].at \in {"load", "delete", "fill"} => hs[s].id \in DOMAIN users
        /\ hs[s].at = "again" => RowsOf(hs[s].name) # {} \/ hs[s].name \in refused

IInv == TypeOK /\ Unique /\ HeldInv /\ LoginsAgree

USE NamesAssumption, MaxEditsAssumption, NumSlotsAssumption

-----------------------------------------------------------------------------
(* The table.                                                              *)

Row == [name : Names, ver : 0..MaxEdits]

\* With unique names, a name that is found is found in one row.
LEMMA OneRow ==
    ASSUME TypeOK, Unique, NEW n, RowsOf(n) # {}
    PROVE  /\ RowsOf(n) = {First(n)}
           /\ First(n) \in DOMAIN users
  <1>1. PICK i \in DOMAIN users : users[i].name = n
    BY DEF RowsOf
  <1>2. RowsOf(n) = {i}
    BY <1>1 DEF RowsOf, Unique
  <1>3. i \in Int
    BY <1>1 DEF TypeOK
  <1>4. First(n) = i
    <2>1. i \in RowsOf(n) /\ \A j \in RowsOf(n) : i <= j
      BY <1>2, <1>3
    <2>2. \A k \in RowsOf(n) : k = i
      BY <1>2
    <2> QED
      BY <2>1, <2>2 DEF First
  <1> QED
    BY <1>1, <1>2, <1>4

\* Rows with different names are no more than the names.
LEMMA FewRows ==
    ASSUME NEW t \in Seq(Row),
           \A i, j \in DOMAIN t : t[i].name = t[j].name => i = j
    PROVE  Len(t) <= Cardinality(Names)
  <1> DEFINE f == [i \in 1..Len(t) |-> t[i].name]
  <1>1. Len(t) \in Nat /\ DOMAIN t = 1..Len(t) /\ \A i \in 1..Len(t) : t[i] \in Row
    OBVIOUS
  <1>2. IsFiniteSet(Names)
    BY DEF Names
  <1>3. f \in Injection(1..Len(t), Names)
    BY <1>1 DEF Injection, IsInjective, Row
  <1>4. Cardinality(1..Len(t)) <= Cardinality(Names)
    BY <1>2, <1>3, FS_Injection
  <1>5. Cardinality(1..Len(t)) = IF 1 > Len(t) THEN 0 ELSE Len(t) - 1 + 1
    BY <1>1, FS_Interval
  <1> QED
    BY <1>1, <1>4, <1>5

\* The table as the invariant knows it.
TableInv == users \in Seq(Row) /\ Len(users) <= Cardinality(Names) /\ Unique

\* An insert adds the name at the end and disturbs no other.
LEMMA InsertEffect ==
    ASSUME TypeOK, Unique, NEW n \in Names, Insert(n)
    PROVE  /\ TableInv'
           /\ DOMAIN users \subseteq DOMAIN users'
           /\ RowsOf(n)' # {}
           /\ \A m : RowsOf(m) # {} => RowsOf(m)' = RowsOf(m)
  <1> DEFINE r == [name |-> n, ver |-> 0]
             k == Len(users) + 1
  <1>1. users \in Seq(Row) /\ r \in Row
    BY DEF TypeOK, Row
  <1>2. /\ users' \in Seq(Row) /\ Len(users') = k /\ Len(users) \in Nat
        /\ \A i \in 1..Len(users) : users'[i] = users[i]
        /\ users'[k] = r
    BY <1>1, AppendProperties DEF Insert
  <1>3. /\ DOMAIN users = 1..Len(users) /\ DOMAIN users' = 1..k
        /\ DOMAIN users \subseteq DOMAIN users' /\ k \in DOMAIN users'
        /\ \A i \in DOMAIN users' : i \in DOMAIN users \/ i = k
        /\ k \notin DOMAIN users
    BY <1>1, <1>2
  <1>4. \A i \in DOMAIN users : users[i].name # n
    BY DEF Insert, RowsOf
  <1> HIDE DEF k
  <1>5. Unique'
    BY <1>2, <1>3, <1>4 DEF Unique
  <1>6. Len(users') <= Cardinality(Names)
    BY <1>2, <1>5, FewRows DEF Unique
  <1>7. k \in RowsOf(n)'
    BY <1>2, <1>3 DEF RowsOf, k
  <1>8. ASSUME NEW m, RowsOf(m) # {}
        PROVE  RowsOf(m)' = RowsOf(m)
    <2>1. m # n
      BY <1>4, <1>8 DEF RowsOf
    <2>2. /\ users'[k].name = n
          /\ \A i \in DOMAIN users : users'[i].name = users[i].name
      BY <1>2, <1>3
    <2>3. {i \in DOMAIN users' : users'[i].name = m} = {i \in DOMAIN users : users[i].name = m}
      BY <1>3, <2>1, <2>2
    <2> QED
      BY <2>3 DEF RowsOf
  <1> QED
    BY <1>2, <1>3, <1>5, <1>6, <1>7, <1>8 DEF TableInv

\* An edit keeps the names.
LEMMA EditEffect ==
    ASSUME TypeOK, Unique, NEW i \in DOMAIN users, NEW e \in 0..MaxEdits,
           users' = [users EXCEPT ![i].ver = e]
    PROVE  /\ TableInv'
           /\ DOMAIN users' = DOMAIN users
           /\ \A m : RowsOf(m)' = RowsOf(m)
  <1> DEFINE r == [users[i] EXCEPT !.ver = e]
  <1>0. users \in Seq(Row)
    BY DEF TypeOK, Row
  <1>1. users \in Seq(Row) /\ DOMAIN users = 1..Len(users) /\ users[i] \in Row
    BY <1>0
  <1>2. r \in Row /\ r.name = users[i].name
    BY <1>1 DEF Row
  <1>3. users' = [users EXCEPT ![i] = r]
    OBVIOUS
  <1> HIDE DEF r
  <1>4. /\ users' \in Seq(Row) /\ Len(users') = Len(users)
        /\ \A j \in 1..Len(users) : users'[j] = IF j = i THEN r ELSE users[j]
    BY <1>1, <1>2, <1>3, ExceptSeq
  <1>5. /\ DOMAIN users' = DOMAIN users
        /\ \A j \in DOMAIN users : users'[j].name = users[j].name
    BY <1>1, <1>2, <1>4
  <1>6. Unique'
    BY <1>5 DEF Unique
  <1> QED
    BY <1>4, <1>5, <1>6 DEF TableInv, RowsOf, TypeOK

-----------------------------------------------------------------------------
(* The handlers.                                                           *)

\* What a handler carries.
LEMMA HandlerFields ==
    ASSUME NEW h \in Handler
    PROVE  /\ h.at \in {"idle", "find", "create", "again", "load", "delete", "fill"}
           /\ h.at \in {"find", "create", "again"} =>
                 h \in [at : {"find", "create", "again"}, name : Phones \union OpenIds]
           /\ h.at \in {"load", "delete"} => h \in [at : {"load", "delete"}, id : Ids]
           /\ h.at = "fill" => h \in [at : {"fill"}, id : Ids, copy : 0..MaxEdits]
  BY DEF Handler, Idle

LEMMA NameOf ==
    ASSUME TypeOK, NEW s \in Slots, hs[s].at \in {"find", "create", "again"}
    PROVE  /\ hs[s].name \in Phones \union OpenIds
           /\ \A p \in {"find", "create", "again"} :
                 /\ [hs[s] EXCEPT !.at = p] \in Handler
                 /\ [hs[s] EXCEPT !.at = p].at = p
                 /\ [hs[s] EXCEPT !.at = p].name = hs[s].name
  <1>1. hs[s] \in [at : {"find", "create", "again"}, name : Phones \union OpenIds]
    BY HandlerFields DEF TypeOK
  <1> QED
    BY <1>1 DEF Handler

LEMMA IdleHandler == Idle \in Handler /\ Idle.at = "idle"
  BY DEF Handler, Idle

\* A step of one handler; the others keep what they rely on, for rows stay.
LEMMA HeldKept ==
    ASSUME IInv, NEW s \in Slots, NEW h \in Handler, Goto(s, h),
           DOMAIN users \subseteq DOMAIN users',
           \A m : RowsOf(m) # {} => RowsOf(m)' # {},
           refused \subseteq refused',
           h.at \in {"load", "delete", "fill"} => h.id \in DOMAIN users',
           h.at = "again" => RowsOf(h.name)' # {} \/ h.name \in refused'
    PROVE  hs' \in [Slots -> Handler] /\ HeldInv'
  <1>1. hs \in [Slots -> Handler]
    BY DEF IInv, TypeOK
  <1>2. /\ hs' \in [Slots -> Handler] /\ hs'[s] = h
        /\ \A t \in Slots : t # s => hs'[t] = hs[t]
    BY <1>1 DEF Goto
  <1>3. ASSUME NEW t \in Slots
        PROVE  (/\ hs[t].at \in {"load", "delete", "fill"} => hs[t].id \in DOMAIN users
                /\ hs[t].at = "again" => RowsOf(hs[t].name) # {} \/ hs[t].name \in refused)'
    <2>1. CASE t = s
      BY <1>2, <2>1 DEF RowsOf
    <2>2. CASE t # s
      BY <1>2, <2>2 DEF IInv, HeldInv, RowsOf
    <2> QED
      BY <2>1, <2>2
  <1> QED
    BY <1>2, <1>3 DEF HeldInv

-----------------------------------------------------------------------------
(* One step per action.                                                    *)

\* What every step does to the table: rows and names stay.
TableGrows ==
    /\ TableInv'
    /\ DOMAIN users \subseteq DOMAIN users'
    /\ \A m : RowsOf(m) # {} => RowsOf(m)' = RowsOf(m)

LEMMA SameTable ==
    ASSUME IInv, UNCHANGED users
    PROVE  TableGrows
  BY DEF IInv, TypeOK, TableGrows, TableInv, Row, RowsOf, Unique

LEMMA RegisteredTable ==
    ASSUME IInv, NEW n \in Names, Insert(n)
    PROVE  TableGrows /\ RowsOf(n)' # {}
  BY InsertEffect DEF IInv, TableGrows

\* The answers that were given stay true while the table grows.
LEMMA AnswersKept ==
    ASSUME IInv, TableGrows, given' = given, misled' = misled, refused \subseteq refused'
    PROVE  LoginsAgree'
  BY DEF IInv, LoginsAgree, TableGrows

\* A name that is found is answered with its one row.
LEMMA AnswerFound ==
    ASSUME IInv, UNCHANGED <<users, misled, refused>>, NEW n \in Phones \union OpenIds,
           RowsOf(n) # {}, given' = given \union {<<n, First(n)>>}
    PROVE  LoginsAgree' /\ given' \subseteq (Phones \union OpenIds) \X Ids
  <1>1. RowsOf(n) = {First(n)} /\ First(n) \in DOMAIN users
    BY OneRow DEF IInv
  <1>2. First(n) \in Ids
    BY <1>1, FS_CardinalityType DEF IInv, TypeOK, Ids, Names
  <1>3. \A m : RowsOf(m)' = RowsOf(m)
    BY DEF RowsOf
  <1> DEFINE new == <<n, First(n)>>
  <1>4. /\ new \in (Phones \union OpenIds) \X Ids
        /\ new[1] = n /\ new[2] = First(n)
    BY <1>2
  <1> HIDE DEF new
  <1>5. given' = given \union {new} /\ misled' = misled /\ refused' = refused
    BY DEF new
  <1>6. ASSUME NEW a \in given'
        PROVE  RowsOf(a[1])' = {a[2]}
    <2>1. CASE a \in given
      BY <1>3, <2>1 DEF IInv, LoginsAgree
    <2>2. CASE a = new
      BY <1>1, <1>3, <1>4, <2>2
    <2> QED
      BY <1>5, <2>1, <2>2
  <1>7. LoginsAgree'
    BY <1>5, <1>6 DEF IInv, LoginsAgree
  <1>8. given' \subseteq (Phones \union OpenIds) \X Ids
    BY <1>4, <1>5 DEF IInv, TypeOK
  <1> QED
    BY <1>7, <1>8

\* The parts make the invariant.
LEMMA Assemble ==
    ASSUME IInv, TableGrows, LoginsAgree', HeldInv',
           hs' \in [Slots -> Handler], edits' \in 0..MaxEdits,
           cache' \in [Ids -> 0..MaxEdits \union {NoCopy}],
           given' \subseteq (Phones \union OpenIds) \X Ids,
           misled' \subseteq Phones \union OpenIds, refused' \subseteq OpenIds
    PROVE  IInv'
  BY DEF IInv, TypeOK, TableGrows, TableInv, Row

LEMMA SignupIInv ==
    ASSUME IInv, NEW n \in Emails, Signup(n)
    PROVE  IInv'
  <1>1. n \in Names /\ Insert(n) /\ UNCHANGED <<edits, cache, hs, given, misled, refused>>
    BY DEF Signup, profiles, answers, Names
  <1>2. TableGrows
    BY <1>1, RegisteredTable
  <1>3. HeldInv'
    BY <1>1, <1>2 DEF IInv, HeldInv, TableGrows, RowsOf
  <1> QED
    BY <1>1, <1>2, <1>3, AnswersKept, Assemble DEF IInv, TypeOK

LEMMA FindOrCreateIInv ==
    ASSUME IInv, NEW s \in Slots, NEW n \in Phones \union OpenIds, FindOrCreate(n, s)
    PROVE  IInv'
  <1> DEFINE h == [at |-> "find", name |-> n]
  <1>1. Goto(s, h) /\ UNCHANGED <<users, edits, cache, given, misled, refused>>
    BY DEF FindOrCreate, Begin, Goto, profiles, answers
  <1>2. h \in Handler /\ h.at = "find"
    BY DEF Handler
  <1>3. TableGrows
    BY <1>1, SameTable
  <1> HIDE DEF h
  <1>4. hs' \in [Slots -> Handler] /\ HeldInv'
    BY <1>1, <1>2, <1>3, HeldKept DEF TableGrows
  <1> QED
    BY <1>1, <1>3, <1>4, AnswersKept, Assemble DEF IInv, TypeOK

LEMMA FindByNameIInv ==
    ASSUME IInv, NEW s \in Slots, FindByName(s)
    PROVE  IInv'
  <1> DEFINE n == hs[s].name
             g == [hs[s] EXCEPT !.at = "create"]
  <1>1. /\ hs[s].at = "find" /\ UNCHANGED <<users, edits, cache, misled, refused>>
        /\ \/ /\ RowsOf(n) # {} /\ given' = given \union {<<n, First(n)>>}
              /\ Goto(s, Idle)
           \/ given' = given /\ (Goto(s, g) \/ Goto(s, Idle))
    BY DEF FindByName, profiles
  <1>2. n \in Phones \union OpenIds /\ g \in Handler /\ g.at = "create"
    BY <1>1, NameOf DEF IInv
  <1>3. TableGrows
    BY <1>1, SameTable
  <1> HIDE DEF n, g
  <1>4. hs' \in [Slots -> Handler] /\ HeldInv'
    BY <1>1, <1>2, <1>3, HeldKept, IdleHandler DEF TableGrows
  <1>5. LoginsAgree' /\ given' \subseteq (Phones \union OpenIds) \X Ids
    <2>1. CASE given' = given
      BY <1>1, <1>3, <2>1, AnswersKept DEF IInv, TypeOK
    <2>2. CASE RowsOf(n) # {} /\ given' = given \union {<<n, First(n)>>}
      BY <1>1, <1>2, <2>2, AnswerFound
    <2> QED
      BY <1>1, <2>1, <2>2
  <1> QED
    BY <1>1, <1>3, <1>4, <1>5, Assemble DEF IInv, TypeOK

LEMMA CreateIInv ==
    ASSUME IInv, NEW s \in Slots, Create(s)
    PROVE  IInv'
  <1> SUFFICES ASSUME NEW n, n = hs[s].name,
                      NEW g, g = [hs[s] EXCEPT !.at = "again"]
               PROVE  IInv'
    OBVIOUS
  <1>1. /\ hs[s].at = "create" /\ UNCHANGED <<edits, cache, given, misled>>
        /\ Insert(n) \/ UNCHANGED users
        /\ \/ /\ Goto(s, g) /\ refused' = refused
              /\ Insert(n) \/ (RowsOf(n) # {} /\ UNCHANGED users)
           \/ Goto(s, Idle) /\ refused' = refused
           \/ /\ Goto(s, g) /\ n \in OpenIds
              /\ refused' = refused \union {n}
    BY DEF Create, Refused, profiles
  <1>2. /\ n \in Phones \union OpenIds /\ n \in Names
        /\ g \in Handler /\ g.at = "again" /\ g.name = n
    BY <1>1, NameOf DEF IInv, Names
  <1>3. TableGrows
    BY <1>1, <1>2, SameTable, RegisteredTable
  <1>4. refused \subseteq refused' /\ refused' \subseteq OpenIds
    BY <1>1 DEF IInv, TypeOK
  <1>5. Goto(s, Idle) \/ (Goto(s, g) /\ (RowsOf(n)' # {} \/ n \in refused'))
    BY <1>1, <1>2, <1>3, RegisteredTable DEF TableGrows
  <1>6. hs' \in [Slots -> Handler] /\ HeldInv'
    <2>1. CASE Goto(s, Idle)
      BY <1>3, <1>4, <2>1, HeldKept, IdleHandler DEF TableGrows
    <2>2. CASE Goto(s, g) /\ (RowsOf(n)' # {} \/ n \in refused')
      <3>1. RowsOf(g.name)' # {} \/ g.name \in refused'
        BY <1>2, <2>2
      <3> QED
        BY <1>2, <1>3, <1>4, <2>2, <3>1, HeldKept DEF TableGrows
    <2> QED
      BY <1>5, <2>1, <2>2
  <1> QED
    BY <1>1, <1>3, <1>4, <1>6, AnswersKept, Assemble DEF IInv, TypeOK

LEMMA FindAgainIInv ==
    ASSUME IInv, NEW s \in Slots, FindAgain(s)
    PROVE  IInv'
  <1> DEFINE n == hs[s].name
  <1>1. /\ hs[s].at = "again" /\ UNCHANGED <<users, edits, cache, refused>> /\ Goto(s, Idle)
        /\ \/ /\ RowsOf(n) # {} /\ given' = given \union {<<n, First(n)>>}
              /\ misled' = misled
           \/ RowsOf(n) = {} /\ misled' = misled \union {n} /\ given' = given
           \/ UNCHANGED <<given, misled>>
    BY DEF FindAgain, profiles
  <1>2. n \in Phones \union OpenIds /\ (RowsOf(n) # {} \/ n \in refused)
    BY <1>1, NameOf DEF IInv, HeldInv
  <1>3. TableGrows
    BY <1>1, SameTable
  <1> HIDE DEF n
  <1>4. hs' \in [Slots -> Handler] /\ HeldInv'
    BY <1>1, <1>3, HeldKept, IdleHandler DEF TableGrows
  <1>5. /\ LoginsAgree' /\ given' \subseteq (Phones \union OpenIds) \X Ids
        /\ misled' \subseteq Phones \union OpenIds
    <2>1. CASE UNCHANGED <<given, misled>>
      BY <1>1, <1>3, <2>1, AnswersKept DEF IInv, TypeOK
    <2>2. CASE RowsOf(n) # {} /\ given' = given \union {<<n, First(n)>>} /\ misled' = misled
      BY <1>1, <1>2, <2>2, AnswerFound DEF IInv, TypeOK
    <2>3. CASE RowsOf(n) = {} /\ misled' = misled \union {n} /\ given' = given
      BY <1>1, <1>2, <1>3, <2>3 DEF IInv, TypeOK, LoginsAgree, TableGrows
    <2> QED
      BY <1>1, <2>1, <2>2, <2>3
  <1> QED
    BY <1>1, <1>3, <1>4, <1>5, Assemble DEF IInv, TypeOK

\* The steps of the profiles change no answer.
LEMMA ProfileIInv ==
    ASSUME IInv, NEW s \in Slots,
           (\E i \in DOMAIN users : Profile(i, s)) \/ Load(s) \/ Fill(s) \/ Delete(s)
    PROVE  IInv'
  <1>1. UNCHANGED <<users, edits, given, misled, refused>>
    BY DEF Profile, Load, Fill, Delete, profiles, answers
  <1>2. TableGrows
    BY <1>1, SameTable
  <1>3. ASSUME NEW h \in Handler, Goto(s, h), h.at \in {"idle", "load", "fill"},
               h.at \in {"load", "fill"} => h.id \in DOMAIN users
        PROVE  hs' \in [Slots -> Handler] /\ HeldInv'
    BY <1>1, <1>2, <1>3, HeldKept DEF TableGrows
  <1>4. CASE \E i \in DOMAIN users : Profile(i, s)
    <2>1. PICK i \in DOMAIN users : Profile(i, s)
      BY <1>4
    <2> DEFINE h == [at |-> "load", id |-> i]
    <2>2. h \in Handler /\ h.at = "load" /\ h.id = i
      BY FS_CardinalityType DEF IInv, TypeOK, Ids, Handler, Names
    <2>3. Goto(s, h) /\ UNCHANGED cache
      BY <2>1 DEF Profile, Begin, Goto, profiles
    <2> HIDE DEF h
    <2> QED
      BY <1>1, <1>2, <1>3, <2>2, <2>3, AnswersKept, Assemble DEF IInv, TypeOK
  <1>5. CASE Load(s)
    <2> DEFINE i == hs[s].id
               h == [at |-> "fill", id |-> i, copy |-> users[i].ver]
    <2>1. hs[s].at = "load" /\ (Goto(s, h) \/ Goto(s, Idle)) /\ UNCHANGED cache
      BY <1>5 DEF Load, profiles
    <2>2. i \in DOMAIN users /\ i \in Ids
      BY <2>1, HandlerFields DEF IInv, TypeOK, HeldInv
    <2>3. users[i].ver \in 0..MaxEdits
      <3>1. users \in Seq(Row)
        BY DEF IInv, TypeOK, Row
      <3>2. users[i] \in Row
        BY <2>2, <3>1
      <3> QED
        BY <3>2 DEF Row
    <2>4. h \in Handler /\ h.at = "fill" /\ h.id = i
      BY <2>2, <2>3 DEF Handler
    <2> HIDE DEF h
    <2>5. hs' \in [Slots -> Handler] /\ HeldInv'
      BY <1>3, <2>1, <2>2, <2>4, IdleHandler
    <2> QED
      BY <1>1, <1>2, <2>1, <2>5, AnswersKept, Assemble DEF IInv, TypeOK
  <1>6. CASE Fill(s) \/ Delete(s)
    <2>1. Goto(s, Idle) /\ hs[s].at \in {"fill", "delete"}
      BY <1>6 DEF Fill, Delete
    <2>2. cache' \in [Ids -> 0..MaxEdits \union {NoCopy}]
      <3>1. cache \in [Ids -> 0..MaxEdits \union {NoCopy}]
        BY DEF IInv, TypeOK
      <3>2. CASE Fill(s)
        <4>1. hs[s].copy \in 0..MaxEdits
          BY <3>2, HandlerFields DEF Fill, IInv, TypeOK
        <4> QED
          BY <3>1, <3>2, <4>1 DEF Fill
      <3>3. CASE Delete(s)
        BY <3>1, <3>3 DEF Delete
      <3> QED
        BY <1>6, <3>2, <3>3
    <2>3. hs' \in [Slots -> Handler] /\ HeldInv'
      BY <1>3, <2>1, IdleHandler
    <2> QED
      BY <1>1, <1>2, <2>2, <2>3, AnswersKept, Assemble DEF IInv, TypeOK
  <1> QED
    BY <1>4, <1>5, <1>6

LEMMA EditIInv ==
    ASSUME IInv, NEW s \in Slots, NEW i \in DOMAIN users, Edit(i, s)
    PROVE  IInv'
  <1> DEFINE h == [at |-> "delete", id |-> i]
  <1>1. /\ edits < MaxEdits /\ edits' = edits + 1
        /\ users' = [users EXCEPT ![i].ver = edits']
        /\ Goto(s, h) \/ hs' = hs
        /\ UNCHANGED <<cache, given, misled, refused>>
    BY DEF Edit, Begin, Goto, answers
  <1>2. edits' \in 0..MaxEdits
    BY <1>1 DEF IInv, TypeOK
  <1>3. TableGrows /\ DOMAIN users' = DOMAIN users
    <2>1. PICK e \in 0..MaxEdits : users' = [users EXCEPT ![i].ver = e]
      BY <1>1, <1>2
    <2>2. TableInv' /\ DOMAIN users' = DOMAIN users /\ \A m : RowsOf(m)' = RowsOf(m)
      BY <2>1, EditEffect DEF IInv
    <2> QED
      BY <2>2 DEF TableGrows
  <1>4. h \in Handler /\ h.at = "delete" /\ h.id = i
    BY FS_CardinalityType DEF IInv, TypeOK, Ids, Handler, Names
  <1> HIDE DEF h
  <1>5. hs' \in [Slots -> Handler] /\ HeldInv'
    <2>1. CASE Goto(s, h)
      BY <1>1, <1>3, <1>4, <2>1, HeldKept DEF TableGrows
    <2>2. CASE hs' = hs
      BY <1>1, <1>3, <2>2 DEF IInv, TypeOK, HeldInv, TableGrows, RowsOf
    <2> QED
      BY <1>1, <2>1, <2>2
  <1> QED
    BY <1>1, <1>2, <1>3, <1>5, AnswersKept, Assemble DEF IInv, TypeOK

LEMMA ExpireIInv ==
    ASSUME IInv, (\E i \in Ids : Expire(i)) \/ UNCHANGED vars
    PROVE  IInv'
  <1>1. UNCHANGED <<users, edits, hs, given, misled, refused>>
    BY DEF Expire, answers, vars
  <1>2. cache' \in [Ids -> 0..MaxEdits \union {NoCopy}]
    BY DEF Expire, vars, IInv, TypeOK
  <1>3. TableGrows
    BY <1>1, SameTable
  <1>4. HeldInv'
    BY <1>1 DEF IInv, HeldInv, RowsOf
  <1> QED
    BY <1>1, <1>2, <1>3, <1>4, AnswersKept, Assemble DEF IInv, TypeOK

LEMMA InitIInv == Init => IInv
  <1> SUFFICES ASSUME Init PROVE IInv
    OBVIOUS
  <1>1. users = <<>> /\ Len(users) = 0 /\ DOMAIN users = {}
    BY DEF Init
  <1>2. Cardinality(Names) \in Nat
    BY FS_CardinalityType DEF Names
  <1>3. TypeOK
    BY <1>1, <1>2 DEF Init, TypeOK, Handler
  <1> QED
    BY <1>1, <1>3 DEF Init, IInv, Unique, HeldInv, LoginsAgree, Idle

LEMMA Invariance == Spec => []IInv
  <1>1. IInv /\ [Next]_vars => IInv'
    BY SignupIInv, FindOrCreateIInv, FindByNameIInv, CreateIInv, FindAgainIInv, ProfileIInv,
       EditIInv, ExpireIInv DEF Next, Run
  <1> QED
    BY <1>1, InitIInv, PTL DEF Spec

-----------------------------------------------------------------------------
(* What registration promises.                                             *)

\* The table holds no more rows than there are names, and a handler that reads
\* or writes a profile has the id of a row.
THEOREM TypeCorrect == Spec => []TypeOK
  <1>1. IInv => TypeOK
    BY DEF IInv
  <1> QED
    BY <1>1, Invariance, PTL

\* However many first logins cross, and whichever of their statements fail:
\* everybody who logs in with a name is given the one user of that name, and
\* only a WeChat login whose insert failed is told that its user is not found.
THEOREM FirstLoginsAgree == Spec => []LoginsAgree
  <1>1. IInv => LoginsAgree
    BY DEF IInv
  <1> QED
    BY <1>1, Invariance, PTL

-----------------------------------------------------------------------------
(* The cached profiles.                                                    *)

\* An id that is not given out yet has no copy.
CachedInv == \A i \in Ids \ DOMAIN users : cache[i] = NoCopy

\* Every copy there is, or that a handler is about to store, is its row.
ProfilesFresh ==
    /\ \A i \in DOMAIN users : ~Stale(i)
    /\ \A s \in Slots :
          hs[s].at = "fill" => hs[s].copy = users[hs[s].id].ver

\* But for an edit, a step leaves the rows that there are alone.
LEMMA RowsKept ==
    ASSUME IInv, [Next]_vars
    PROVE  /\ DOMAIN users \subseteq DOMAIN users'
           /\ edits' = edits => \A i \in DOMAIN users : users'[i] = users[i]
  <1>1. users \in Seq(Row) /\ edits \in Nat
    BY DEF IInv, TypeOK, Row
  <1>2. ASSUME NEW n \in Names, Insert(n)
        PROVE  /\ DOMAIN users \subseteq DOMAIN users'
               /\ \A i \in DOMAIN users : users'[i] = users[i]
    <2> DEFINE r == [name |-> n, ver |-> 0]
    <2>1. r \in Row /\ users' = Append(users, r)
      BY <1>2 DEF Row, Insert
    <2> HIDE DEF r
    <2> QED
      BY <1>1, <2>1, AppendProperties
  <1>3. ASSUME NEW n \in Emails, Signup(n)
        PROVE  \E m \in Names : Insert(m)
    BY <1>3 DEF Signup, Names
  <1>4. ASSUME NEW s \in Slots, Create(s)
        PROVE  (\E m \in Names : Insert(m)) \/ users' = users
    <2>1. hs[s].name \in Names
      BY <1>4, NameOf DEF Create, IInv, Names
    <2> QED
      BY <1>4, <2>1 DEF Create
  <1>5. ASSUME NEW s \in Slots, NEW i \in DOMAIN users, Edit(i, s)
        PROVE  edits' # edits /\ DOMAIN users' = DOMAIN users
    BY <1>1, <1>5 DEF Edit
  <1>6. ASSUME NEW s \in Slots,
               \/ \E n \in Phones \union OpenIds : FindOrCreate(n, s)
               \/ \E i \in DOMAIN users : Profile(i, s)
               \/ FindByName(s) \/ FindAgain(s) \/ Load(s) \/ Fill(s) \/ Delete(s)
        PROVE  users' = users
    BY <1>6 DEF FindOrCreate, Profile, FindByName, FindAgain, Load, Fill, Delete
  <1>7. (\E i \in Ids : Expire(i)) \/ UNCHANGED vars => users' = users
    BY DEF Expire, vars
  <1> QED
    BY <1>2, <1>3, <1>4, <1>5, <1>6, <1>7 DEF Next, Run

\* A copy comes from a handler that fills it.
LEMMA CopiesFilled ==
    ASSUME IInv, [Next]_vars, NEW i \in Ids
    PROVE  \/ cache'[i] \in {cache[i], NoCopy}
           \/ \E s \in Slots : hs[s].at = "fill" /\ hs[s].id = i /\ cache'[i] = hs[s].copy
  <1>1. cache \in [Ids -> 0..MaxEdits \union {NoCopy}]
    BY DEF IInv, TypeOK
  <1>2. ASSUME NEW s \in Slots, Fill(s)
        PROVE  \/ cache'[i] = cache[i]
               \/ hs[s].at = "fill" /\ hs[s].id = i /\ cache'[i] = hs[s].copy
    BY <1>1, <1>2 DEF Fill
  <1>3. ASSUME NEW s \in Slots, Delete(s)
        PROVE  cache'[i] \in {cache[i], NoCopy}
    BY <1>1, <1>3 DEF Delete
  <1>4. ASSUME NEW j \in Ids, Expire(j)
        PROVE  cache'[i] \in {cache[i], NoCopy}
    BY <1>1, <1>4 DEF Expire
  <1>5. ASSUME NEW s \in Slots,
               \/ \E n \in Phones \union OpenIds : FindOrCreate(n, s)
               \/ \E j \in DOMAIN users : Profile(j, s) \/ Edit(j, s)
               \/ FindByName(s) \/ Create(s) \/ FindAgain(s) \/ Load(s)
        PROVE  cache' = cache
    BY <1>5 DEF FindOrCreate, Profile, Edit, FindByName, Create, FindAgain, Load, profiles
  <1>6. (\E n \in Emails : Signup(n)) \/ UNCHANGED vars => cache' = cache
    BY DEF Signup, vars, profiles
  <1> QED
    BY <1>2, <1>3, <1>4, <1>5, <1>6 DEF Next, Run

\* What a handler fills in, it has just read.
LEMMA FillsRead ==
    ASSUME IInv, [Next]_vars, NEW s \in Slots, hs'[s].at = "fill"
    PROVE  \/ hs'[s] = hs[s]
           \/ hs'[s].id \in DOMAIN users /\ hs'[s].copy = users[hs'[s].id].ver
  <1>1. hs \in [Slots -> Handler]
    BY DEF IInv, TypeOK
  <1>2. ASSUME NEW t \in Slots, NEW h, Goto(t, h), h.at # "fill"
        PROVE  hs'[s] = hs[s]
    BY <1>1, <1>2 DEF Goto
  <1>3. ASSUME NEW t \in Slots, Load(t)
        PROVE  \/ hs'[s] = hs[s]
               \/ hs'[s].id \in DOMAIN users /\ hs'[s].copy = users[hs'[s].id].ver
    <2>1. hs[t].id \in DOMAIN users
      BY <1>3 DEF Load, IInv, HeldInv
    <2> QED
      BY <1>1, <1>3, <2>1, <1>2, IdleHandler DEF Load, Goto
  <1>4. ASSUME NEW t \in Slots, FindByName(t) \/ Create(t) \/ FindAgain(t)
        PROVE  hs'[s] = hs[s]
    <2>1. [hs[t] EXCEPT !.at = "create"].at # "fill" /\ [hs[t] EXCEPT !.at = "again"].at # "fill"
      BY <1>4, NameOf DEF FindByName, Create, FindAgain, IInv
    <2> QED
      BY <1>2, <1>4, <2>1, IdleHandler DEF FindByName, Create, FindAgain, Refused
  <1>5. ASSUME NEW t \in Slots, Fill(t) \/ Delete(t)
        PROVE  hs'[s] = hs[s]
    BY <1>2, <1>5, IdleHandler DEF Fill, Delete
  <1>6. ASSUME NEW t \in Slots,
               \/ \E n \in Phones \union OpenIds : FindOrCreate(n, t)
               \/ \E i \in DOMAIN users : Profile(i, t) \/ Edit(i, t)
        PROVE  hs'[s] = hs[s]
    BY <1>1, <1>6 DEF FindOrCreate, Profile, Edit, Begin
  <1>7. (\E n \in Emails : Signup(n)) \/ (\E i \in Ids : Expire(i)) \/ UNCHANGED vars => hs' = hs
    BY DEF Signup, Expire, vars
  <1> QED
    BY <1>3, <1>4, <1>5, <1>6, <1>7 DEF Next, Run

\* What ProfilesConverge reaches is lost only by another edit: no login, no
\* reader and no crossing of the two makes a profile stale.
THEOREM FreshProfilesStay ==
    Spec => [][ProfilesFresh /\ edits' = edits => ProfilesFresh']_vars
  <1>1. Init => CachedInv
    BY DEF Init, CachedInv
  <1>2. IInv /\ CachedInv /\ [Next]_vars => CachedInv'
    <2> SUFFICES ASSUME IInv, CachedInv, [Next]_vars, NEW i \in Ids, i \notin DOMAIN users'
                 PROVE  cache'[i] = NoCopy
      BY DEF CachedInv, Ids
    <2>1. i \notin DOMAIN users
      BY RowsKept
    <2>2. ~\E s \in Slots : hs[s].at = "fill" /\ hs[s].id = i
      BY <2>1 DEF IInv, HeldInv
    <2> QED
      BY <2>1, <2>2, CopiesFilled DEF CachedInv
  <1>3. IInv /\ IInv' /\ CachedInv /\ [Next]_vars =>
            [ProfilesFresh /\ edits' = edits => ProfilesFresh']_vars
    <2> SUFFICES ASSUME IInv, IInv', CachedInv, [Next]_vars, ProfilesFresh, edits' = edits
                 PROVE  ProfilesFresh'
      OBVIOUS
    <2>1. /\ DOMAIN users \subseteq DOMAIN users'
          /\ \A i \in DOMAIN users : users'[i] = users[i]
      BY RowsKept
    <2>2. DOMAIN users' \subseteq Ids
      <3>1. Cardinality(Names) \in Nat
        BY FS_CardinalityType DEF Names
      <3>2. Len(users') \in Nat /\ DOMAIN users' = 1..Len(users') /\ Len(users') <= Cardinality(Names)
        BY DEF IInv, TypeOK
      <3> QED
        BY <3>1, <3>2 DEF Ids
    <2>3. ASSUME NEW i \in DOMAIN users'
          PROVE  cache'[i] \in {NoCopy, users'[i].ver}
      <3>1. i \in Ids
        BY <2>2
      <3>2. CASE i \in DOMAIN users
        <4>1. cache[i] \in {NoCopy, users'[i].ver}
          BY <2>1, <3>2 DEF ProfilesFresh, Stale
        <4>2. \A s \in Slots : hs[s].at = "fill" /\ hs[s].id = i => hs[s].copy = users'[i].ver
          BY <2>1, <3>2 DEF ProfilesFresh
        <4> QED
          BY <3>1, <4>1, <4>2, CopiesFilled
      <3>3. CASE i \notin DOMAIN users
        <4>1. cache[i] = NoCopy
          BY <3>1, <3>3 DEF CachedInv
        <4>2. ~\E s \in Slots : hs[s].at = "fill" /\ hs[s].id = i
          BY <3>3 DEF IInv, HeldInv
        <4> QED
          BY <3>1, <4>1, <4>2, CopiesFilled
      <3> QED
        BY <3>2, <3>3
    <2>4. ASSUME NEW s \in Slots, hs'[s].at = "fill"
          PROVE  hs'[s].copy = users'[hs'[s].id].ver
      <3>1. CASE hs'[s] = hs[s]
        <4>1. hs[s].id \in DOMAIN users /\ hs[s].copy = users[hs[s].id].ver
          BY <2>4, <3>1 DEF IInv, HeldInv, ProfilesFresh
        <4> QED
          BY <2>1, <3>1, <4>1
      <3>2. CASE hs'[s].id \in DOMAIN users /\ hs'[s].copy = users[hs'[s].id].ver
        BY <2>1, <3>2
      <3> QED
        BY <2>4, <3>1, <3>2, FillsRead
    <2> QED
      BY <2>3, <2>4 DEF ProfilesFresh, Stale
  <1> QED
    BY <1>1, <1>2, <1>3, Invariance, PTL DEF Spec
=============================================================================
