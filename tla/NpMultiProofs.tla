---------------------------- MODULE NpMultiProofs ----------------------------
(***************************************************************************)
(* What holds of the multi-process server for every number of processes    *)
(* and users, every set of names and lines, and however the processes and  *)
(* their signals interleave.                                               *)
(*                                                                         *)
(* Inv is inductive: the values have their types, and the table in memory  *)
(* and every copy of it are good: ordered, within bounds, and true of the  *)
(* processes they name.                                                    *)
(*                                                                         *)
(* With the record of mishaps three more are, each until what ends it:     *)
(* Turn, until updates overlap (what a process will store follows from the *)
(* table as it is), OneMessage, until a message is written over another,   *)
(* and Kept, until anything of Harms (who is in the table, and who holds a *)
(* semaphore).                                                             *)
(***************************************************************************)
EXTENDS NpMultiHistory, UserTableProofs, FiniteSetTheorems

\* A table that is ordered and bounded, and whose entries agree with the uids
\* u of the processes and the places c where they are.
Good(t, u, c) ==
    /\ t \in Seq(UserEntry)
    /\ Increasing(t) /\ Len(t) <= MaxUsers
    /\ \A i \in DOMAIN t : t[i].pid # Nobody => /\ c[t[i].pid] \notin {"none", "enter"}
                                                /\ u[t[i].pid] = t[i].uid

\* What is neither a table nor a copy has its type.
RestOK ==
    /\ message \in Proc \cup {Nobody}
    /\ semR \in Nat /\ semW \in Nat
    /\ pc \in [Proc -> Place]
    /\ task \in [Proc -> Task]
    /\ uid \in [Proc -> Uid \cup {0}]
    /\ target \in [Proc -> Proc \cup {Nobody}]
    /\ usr1 \in [Proc -> {"none", "show", "post"}]
    /\ usr2 \subseteq Proc
    /\ owed \in [Proc -> SUBSET Proc]
    /\ interrupted \in 0..MaxInterrupted

TablesGood == Good(table, uid, pc) /\ \A p \in Proc : Good(copy[p], uid, pc)

Inv == RestOK /\ copy \in [Proc -> Seq(UserEntry)] /\ TablesGood

-----------------------------------------------------------------------------
(* Good tables *)

LEMMA GoodElements ==
    ASSUME NEW u, NEW c, NEW t, Good(t, u, c)
    PROVE  /\ Len(t) \in Nat /\ DOMAIN t = 1..Len(t)
           /\ \A i \in DOMAIN t : t[i] \in UserEntry
BY ElementOfSeq, LenProperties DEF Good

\* A table stays good as long as who has come from newUserIn keeps its uid and
\* does not go back.
LEMMA GoodPersists ==
    ASSUME NEW t, NEW u1, NEW c1, NEW u2, NEW c2, Good(t, u1, c1),
           \A q \in Proc : c1[q] \notin {"none", "enter"} =>
                               c2[q] \notin {"none", "enter"} /\ u2[q] = u1[q]
    PROVE  Good(t, u2, c2)
<1>1. ASSUME NEW i \in DOMAIN t, t[i].pid # Nobody
      PROVE  c2[t[i].pid] \notin {"none", "enter"} /\ u2[t[i].pid] = t[i].uid
  <2>1. t[i] \in UserEntry
      BY GoodElements
  <2>2. t[i].pid \in Proc
      BY <1>1, <2>1 DEF UserEntry
  <2>3. c1[t[i].pid] \notin {"none", "enter"} /\ u1[t[i].pid] = t[i].uid
      BY <1>1 DEF Good
  <2> QED BY <2>2, <2>3
<1> QED BY <1>1 DEF Good

LEMMA GoodEmpty ==
    ASSUME NEW u, NEW c
    PROVE  Good(<< >>, u, c)
<1>1. << >> \in Seq(UserEntry) /\ Len(<< >>) = 0 /\ DOMAIN << >> = {}
    BY EmptySeq
<1> QED BY <1>1, MaxUsersAssumption DEF Good, Increasing

\* Reading the text of the table loses processes, never uids.
LEMMA GoodInfoList ==
    ASSUME NEW u, NEW c, NEW t, Good(t, u, c)
    PROVE  /\ Good(getInfoList(t), u, c)
           /\ DOMAIN getInfoList(t) = DOMAIN t
           /\ \A i \in DOMAIN t : /\ getInfoList(t)[i].uid = t[i].uid
                                  /\ getInfoList(t)[i].pid \in {t[i].pid, Nobody}
<1> DEFINE r == getInfoList(t)
<1>1. Len(t) \in Nat /\ DOMAIN t = 1..Len(t) /\ \A i \in DOMAIN t : t[i] \in UserEntry
    BY GoodElements
<1>2. ASSUME NEW i \in DOMAIN t
      PROVE  /\ r[i] \in UserEntry /\ r[i].uid = t[i].uid /\ r[i].pid \in {t[i].pid, Nobody}
  <2>1. r[i] = IF t[i].name \in CommaNames
               THEN [t[i] EXCEPT !.name = Half, !.pid = Nobody] ELSE t[i]
      BY DEF getInfoList
  <2>2. t[i] \in UserEntry
      BY <1>1
  <2> QED BY <2>1, <2>2 DEF UserEntry
<1>3. DOMAIN r = DOMAIN t
    BY DEF getInfoList
<1>4. r \in [1..Len(t) -> UserEntry]
    BY <1>1, <1>2 DEF getInfoList
<1>5. r \in Seq(UserEntry) /\ Len(r) = Len(t)
    BY <1>1, <1>3, <1>4, IsASeq, LenProperties
<1>6. Increasing(r)
    BY <1>2, <1>3 DEF Good, Increasing
<1>7. \A i \in DOMAIN r : r[i].pid # Nobody => c[r[i].pid] \notin {"none", "enter"} /\ u[r[i].pid] = r[i].uid
    BY <1>2, <1>3 DEF Good
<1> HIDE DEF r
<1> QED BY <1>2, <1>3, <1>5, <1>6, <1>7 DEF Good, r

LEMMA GoodRemoved ==
    ASSUME NEW u, NEW c, NEW t, Good(t, u, c), NEW k \in DOMAIN t
    PROVE  Good(RemoveAt(t, k), u, c)
<1> DEFINE r == RemoveAt(t, k)
<1>1. Len(t) \in Nat /\ DOMAIN t = 1..Len(t) /\ t \in Seq(UserEntry) /\ k \in 1..Len(t)
    BY GoodElements DEF Good
<1>2. /\ r \in Seq(UserEntry) /\ Len(r) = Len(t) - 1
      /\ \A i \in 1..(k - 1) : r[i] = t[i]
      /\ \A i \in k..(Len(t) - 1) : r[i] = t[i + 1]
    BY <1>1, RemoveAtFacts
<1> HIDE DEF r
<1>3. DOMAIN r = 1..(Len(t) - 1)
    BY <1>1, <1>2, LenProperties
<1> DEFINE o(i) == IF i < k THEN i ELSE i + 1
<1>4. \A i \in DOMAIN r : o(i) \in DOMAIN t /\ r[i] = t[o(i)]
    BY <1>1, <1>2, <1>3
<1>5. \A i, j \in DOMAIN r : i < j => o(i) < o(j)
    BY <1>1, <1>3
<1> HIDE DEF o
<1>6. Increasing(r)
    BY <1>4, <1>5 DEF Good, Increasing
<1>7. \A i \in DOMAIN r : r[i].pid # Nobody => c[r[i].pid] \notin {"none", "enter"} /\ u[r[i].pid] = r[i].uid
    BY <1>4 DEF Good
<1>8. Len(r) <= MaxUsers
    BY <1>1, <1>2, MaxUsersAssumption DEF Good
<1> QED BY <1>2, <1>6, <1>7, <1>8 DEF Good, r

LEMMA GoodNamed ==
    ASSUME NEW u, NEW c, NEW t, Good(t, u, c), NEW k \in DOMAIN t, NEW n \in NickNames
    PROVE  Good([t EXCEPT ![k].name = n], u, c)
<1> DEFINE r == [t EXCEPT ![k].name = n]
<1>1. Len(t) \in Nat /\ DOMAIN t = 1..Len(t) /\ \A i \in DOMAIN t : t[i] \in UserEntry
    BY GoodElements
<1>2. t \in [1..Len(t) -> UserEntry]
    BY <1>1, LenProperties DEF Good
<1>3. ASSUME NEW i \in DOMAIN t
      PROVE  r[i] \in UserEntry /\ r[i].uid = t[i].uid /\ r[i].pid = t[i].pid
  <2>1. r[i] = IF i = k THEN [t[i] EXCEPT !.name = n] ELSE t[i]
      BY <1>2
  <2>2. t[i] \in UserEntry
      BY <1>1
  <2> QED BY <2>1, <2>2 DEF UserEntry
<1>4. DOMAIN r = DOMAIN t
    BY <1>2
<1>5. r \in [1..Len(t) -> UserEntry]
    BY <1>1, <1>2, <1>3
<1>6. r \in Seq(UserEntry) /\ Len(r) = Len(t)
    BY <1>1, <1>4, <1>5, IsASeq, LenProperties
<1> HIDE DEF r
<1>7. Increasing(r)
    BY <1>3, <1>4 DEF Good, Increasing
<1>8. \A i \in DOMAIN r : r[i].pid # Nobody => c[r[i].pid] \notin {"none", "enter"} /\ u[r[i].pid] = r[i].uid
    BY <1>3, <1>4 DEF Good
<1> QED BY <1>6, <1>7, <1>8 DEF Good, r
\* A new user, in the gap that its uid was taken from or not in the table.
LEMMA GoodEntered ==
    ASSUME RestOK, NEW t, Good(t, uid, pc), NEW p \in Proc, pc[p] = "enter",
           NEW u2, u2 = [uid EXCEPT ![p] = NewUid(t)],
           NEW c2, c2 = [pc EXCEPT ![p] = "wipe"]
    PROVE  NewUid(t) \in Uid /\ Good(Enter(t, Entry(p)), u2, c2)
<1> DEFINE k == FirstGap(t)
           e == [Entry(p) EXCEPT !.uid = k]
           r == InsertAt(t, k, e)
<1>1. /\ Len(t) \in Nat /\ DOMAIN t = 1..Len(t) /\ t \in Seq(UserEntry)
      /\ \A i \in DOMAIN t : t[i] \in UserEntry
    BY GoodElements DEF Good
<1>2. k \in 1..(Len(t) + 1)
    BY <1>1, FirstGapFacts
<1>3. \A j \in Uid : [Entry(p) EXCEPT !.uid = j] \in UserEntry /\ [Entry(p) EXCEPT !.uid = j].uid = j
    BY DEF Entry, UserEntry
<1>4. NewUid(t) \in Uid
    BY <1>1, <1>2, MaxUsersAssumption DEF NewUid, Uid
<1>5. 1 \in Uid /\ Entry(p) \in UserEntry
    BY MaxUsersAssumption DEF Entry, UserEntry, Uid
<1>6. \A i \in DOMAIN t : t[i].uid \in Uid
    BY <1>1 DEF UserEntry
<1> HIDE DEF k
<1>7. /\ Enter(t, Entry(p)) \in Seq(UserEntry)
      /\ Increasing(Enter(t, Entry(p))) /\ Len(Enter(t, Entry(p))) <= MaxUsers
  <2>1. Increasing(t) /\ Len(t) <= MaxUsers
      BY DEF Good
  <2> QED BY <1>1, <1>3, <1>5, <1>6, <2>1, EnterCorrect
<1>8. Good(t, u2, c2)
    BY GoodPersists DEF RestOK
<1>9. CASE ~(k <= Len(t) \/ k <= MaxUsers)
  <2>1. Enter(t, Entry(p)) = t
      BY <1>9 DEF Enter, k
  <2> QED BY <1>4, <1>8, <2>1
<1>10. CASE k <= Len(t) \/ k <= MaxUsers
  <2>1. k \in Uid /\ k <= MaxUsers
      BY <1>1, <1>2, <1>10, MaxUsersAssumption DEF Good, Uid
  <2>2. Enter(t, Entry(p)) = r
      BY <1>10 DEF Enter, k
  <2>3. NewUid(t) = k
      BY <2>1 DEF NewUid, k
  <2>4. e \in UserEntry /\ e.uid = k /\ e.pid = p
      BY <2>1, <1>3 DEF Entry
  <2> HIDE DEF e
  <2>5. /\ Len(r) = Len(t) + 1 /\ r \in Seq(UserEntry)
        /\ \A i \in 1..(k - 1) : r[i] = t[i]
        /\ r[k] = e
        /\ \A i \in (k + 1)..(Len(t) + 1) : r[i] = t[i - 1]
    <3>1. t \in Seq(UserEntry) /\ k \in 1..(Len(t) + 1) /\ e \in UserEntry
        BY <1>1, <1>2, <2>4
    <3> QED BY ONLY <3>1, InsertAtFacts
  <2> HIDE DEF r
  <2>6. DOMAIN r = 1..(Len(t) + 1)
      BY <2>5, LenProperties
  <2>7. u2[p] = k /\ c2[p] = "wipe"
      BY <2>3 DEF RestOK
  <2>8. ASSUME NEW i \in DOMAIN r, r[i].pid # Nobody
        PROVE  c2[r[i].pid] \notin {"none", "enter"} /\ u2[r[i].pid] = r[i].uid
    <3>1. CASE i = k
        BY <3>1, <2>4, <2>5, <2>7
    <3>2. CASE i # k
      <4>1. PICK j \in DOMAIN t : r[i] = t[j]
        <5>1. CASE i < k
            BY <5>1, <1>1, <1>2, <2>5, <2>6
        <5>2. CASE i > k
            BY <5>2, <1>1, <1>2, <2>5, <2>6
        <5> QED BY <5>1, <5>2, <3>2, <1>2, <2>6
      <4> QED BY <4>1, <2>8, <1>8 DEF Good
    <3> QED BY <3>1, <3>2
  <2> QED BY <1>4, <1>7, <2>2, <2>8 DEF Good
<1> QED BY <1>9, <1>10

-----------------------------------------------------------------------------
(* Steps *)

\* Nobody goes back behind newUserIn or gets another uid.
Onward ==
    \A q \in Proc : pc[q] \notin {"none", "enter"} =>
                        pc'[q] \notin {"none", "enter"} /\ uid'[q] = uid[q]

LEMMA TablesPersist ==
    ASSUME TablesGood, Onward
    PROVE  Good(table, uid', pc') /\ \A p \in Proc : Good(copy[p], uid', pc')
<1>1. Good(table, uid', pc')
    BY GoodPersists DEF TablesGood, Onward
<1>2. ASSUME NEW p \in Proc PROVE Good(copy[p], uid', pc')
  <2>1. Good(copy[p], uid, pc)
      BY DEF TablesGood
  <2> QED BY <2>1, GoodPersists DEF Onward
<1> QED BY <1>1, <1>2

LEMMA TablesKept ==
    ASSUME Inv, Onward, UNCHANGED <<table, copy>>
    PROVE  copy' \in [Proc -> Seq(UserEntry)] /\ TablesGood'
BY TablesPersist DEF Inv, TablesGood

LEMMA CopyChanged ==
    ASSUME Inv, Onward, UNCHANGED table, NEW p \in Proc, NEW t,
           Good(t, uid', pc'), copy' = [copy EXCEPT ![p] = t]
    PROVE  copy' \in [Proc -> Seq(UserEntry)] /\ TablesGood'
<1>1. t \in Seq(UserEntry)
    BY DEF Good
<1>2. copy' \in [Proc -> Seq(UserEntry)]
    BY <1>1 DEF Inv
<1>3. ASSUME NEW q \in Proc PROVE Good(copy'[q], uid', pc')
  <2>1. copy'[q] = IF q = p THEN t ELSE copy[q]
      BY DEF Inv
  <2>2. Good(copy[q], uid', pc')
      BY TablesPersist DEF Inv
  <2> QED BY <2>1, <2>2
<1>4. Good(table', uid', pc')
    BY TablesPersist DEF Inv
<1> QED BY <1>2, <1>3, <1>4 DEF TablesGood

\* A process goes to a place behind newUserIn.
LEMMA GotoOnward ==
    ASSUME RestOK, NEW p \in Proc, NEW place \in Place \ {"none", "enter"},
           Goto(p, place), UNCHANGED uid
    PROVE  Onward /\ pc' \in [Proc -> Place]
BY DEF RestOK, Goto, Onward

\* The table as it is read.
LEMMA ReadGood ==
    ASSUME Inv
    PROVE  /\ Good(Read, uid, pc) /\ DOMAIN Read = DOMAIN table
           /\ \A i \in DOMAIN table : /\ Read[i].uid = table[i].uid
                                      /\ Read[i].pid \in {table[i].pid, Nobody}
BY GoodInfoList DEF Inv, TablesGood, Read

LEMMA MyIndexFacts ==
    ASSUME Inv, NEW p \in Proc, ~Lost(p)
    PROVE  MyIndex(p) \in DOMAIN Read
<1>1. table \in Seq(UserEntry) /\ uid[p] \in UidsOf(table)
    BY DEF Inv, TablesGood, Good, Lost, InTable
<1>2. MyIndex(p) \in DOMAIN table
    BY <1>1, IndexByIdFacts DEF MyIndex
<1> QED BY <1>2, ReadGood

LEMMA InitInv == Init => Inv
<1> SUFFICES ASSUME Init PROVE Inv
    OBVIOUS
<1>1. RestOK
    BY BoundsAssumption DEF Init, RestOK, Place, Task
<1>2. copy \in [Proc -> Seq(UserEntry)]
    BY EmptySeq DEF Init
<1>3. TablesGood
    BY GoodEmpty DEF Init, TablesGood
<1> QED BY <1>1, <1>2, <1>3 DEF Inv

\* The end of a process keeps everything good.
LEMMA DiesInv ==
    ASSUME Inv, NEW p \in Proc, Dies(p), UNCHANGED <<memory, interrupted>>
    PROVE  Inv'
<1>1. RestOK'
    BY DEF Inv, RestOK, Dies, memory, Place, Task
<1>2. Onward
    BY DEF Inv, RestOK, Dies, Onward
<1>3. copy' = [copy EXCEPT ![p] = << >>] /\ UNCHANGED table
    BY DEF Dies, memory
<1>4. copy' \in [Proc -> Seq(UserEntry)] /\ TablesGood'
    BY <1>2, <1>3, GoodEmpty, CopyChanged
<1> QED BY <1>1, <1>4 DEF Inv
\* Steps that leave the table and the copies alone.
LEMMA LocalStepInv ==
    ASSUME Inv, NEW p \in Proc,
           Connect(p) \/ TakeR(p) \/ TakeW(p) \/ Put(p) \/ Lock(p) \/ Yell(p) \/ TellPut(p)
    PROVE  Inv'
<1>1. RestOK
    BY DEF Inv
<1>2. RestOK' /\ Onward /\ UNCHANGED <<table, copy>>
  <2>1. CASE Connect(p)
      BY <1>1, <2>1 DEF Connect, Goto, RestOK, Onward, memory, signals, Place
  <2>2. CASE TakeR(p)
      BY <1>1, <2>2 DEF TakeR, Runs, Goto, RestOK, Onward, signals, Place
  <2>3. CASE TakeW(p)
      BY <1>1, <2>3 DEF TakeW, Runs, Goto, RestOK, Onward, signals, Place
  <2>4. CASE Put(p)
      BY <1>1, <2>4 DEF Put, Runs, Goto, RestOK, Onward, signals, Place
  <2>5. CASE Lock(p)
      BY <1>1, <2>5 DEF Lock, Runs, Goto, RestOK, Onward, signals, Place
  <2>6. CASE Yell(p)
      BY <1>1, <2>6 DEF Yell, Types, Runs, Goto, RestOK, Onward, memory, signals, Place
  <2>7. CASE TellPut(p)
      BY <1>1, <2>7 DEF TellPut, Runs, Goto, RestOK, Onward, signals, Place
  <2> QED BY <2>1, <2>2, <2>3, <2>4, <2>5, <2>6, <2>7
<1> QED BY <1>2, TablesKept DEF Inv

LEMMA ReadToTellInv ==
    ASSUME Inv, NEW p \in Proc, ReadToTell(p)
    PROVE  Inv'
<1>1. RestOK /\ Goto(p, "tellPut") /\ UNCHANGED <<memory, task, uid, copy, signals, owed, interrupted>>
    BY DEF Inv, ReadToTell
<1>2. Onward /\ pc' \in [Proc -> Place]
    BY <1>1, GotoOnward DEF Place
<1>3. target' \in [Proc -> Proc \cup {Nobody}]
  <2>1. PICK i \in DOMAIN table : target' = [target EXCEPT ![p] = Read[i].pid]
      BY DEF ReadToTell
  <2>2. Read[i] \in UserEntry
      BY <2>1, ReadGood, GoodElements
  <2> QED BY <1>1, <2>1, <2>2 DEF RestOK, UserEntry
<1>4. RestOK'
    BY <1>1, <1>2, <1>3 DEF RestOK, memory, signals
<1> QED BY <1>1, <1>2, <1>4, TablesKept DEF Inv, memory

LEMMA TellSendInv ==
    ASSUME Inv, NEW p \in Proc, TellSend(p)
    PROVE  Inv'
<1>1. /\ RestOK /\ Goto(p, "idle") /\ target' = [target EXCEPT ![p] = Nobody]
      /\ UNCHANGED <<memory, task, uid, copy, usr2, interrupted>>
    BY DEF Inv, TellSend
<1>2. Onward /\ pc' \in [Proc -> Place]
    BY <1>1, GotoOnward DEF Place
<1>3. usr1' \in [Proc -> {"none", "show", "post"}]
    BY <1>1 DEF TellSend, RestOK, Raised
<1>4. owed' \in [Proc -> SUBSET Proc]
    BY <1>1 DEF TellSend, RestOK
<1>5. RestOK'
    BY <1>1, <1>2, <1>3, <1>4 DEF RestOK, memory
<1> QED BY <1>1, <1>2, <1>5, TablesKept DEF Inv, memory

\* A handler that may have interrupted sem_wait().
LEMMA HandledOnward ==
    ASSUME RestOK, NEW p \in Proc, Handled(p), UNCHANGED uid
    PROVE  Onward /\ pc' \in [Proc -> Place] /\ interrupted' \in 0..MaxInterrupted
<1>1. CASE UNCHANGED <<pc, interrupted>>
    BY <1>1 DEF RestOK, Onward
<1>2. CASE /\ Waits(p) /\ interrupted < MaxInterrupted
           /\ Goto(p, Past[pc[p]]) /\ interrupted' = interrupted + 1
  <2>1. Past[pc[p]] \in Place \ {"none", "enter"}
    <3>1. pc[p] \in {"takeR", "takeW", "lock"}
        BY <1>2 DEF Waits
    <3>2. Past["takeR"] = "takeW" /\ Past["takeW"] = "put" /\ Past["lock"] = "wipe"
        BY DEF Past
    <3> QED BY <3>1, <3>2 DEF Place
  <2>2. Onward /\ pc' \in [Proc -> Place]
    <3> DEFINE place == Past[pc[p]]
    <3>1. place \in Place \ {"none", "enter"} /\ Goto(p, place)
        BY <1>2, <2>1
    <3> HIDE DEF place
    <3> QED BY <3>1, GotoOnward
  <2>3. interrupted' \in 0..MaxInterrupted
      BY <1>2, BoundsAssumption DEF RestOK
  <2> QED BY <2>2, <2>3
<1> QED BY <1>1, <1>2 DEF Handled

LEMMA getBroadcastInv ==
    ASSUME Inv, NEW p \in Proc, getBroadcast(p)
    PROVE  Inv'
<1>1. /\ RestOK /\ Handled(p)
      /\ UNCHANGED <<table, message, semW, task, uid, copy, target, usr2>>
    BY DEF Inv, getBroadcast
<1>2. Onward /\ pc' \in [Proc -> Place] /\ interrupted' \in 0..MaxInterrupted
    BY <1>1, HandledOnward
<1>3. semR' \in Nat /\ usr1' \in [Proc -> {"none", "show", "post"}] /\ owed' \in [Proc -> SUBSET Proc]
    BY <1>1 DEF RestOK, getBroadcast
<1>4. RestOK'
    BY <1>1, <1>2, <1>3 DEF RestOK
<1> QED BY <1>1, <1>2, <1>4, TablesKept DEF Inv

LEMMA getUserPipeSigInv ==
    ASSUME Inv, NEW p \in Proc, getUserPipeSig(p)
    PROVE  Inv'
<1>1. /\ RestOK /\ Handled(p) /\ usr2' = usr2 \ {p}
      /\ UNCHANGED <<memory, task, uid, copy, target, usr1, owed>>
    BY DEF Inv, getUserPipeSig
<1>2. Onward /\ pc' \in [Proc -> Place] /\ interrupted' \in 0..MaxInterrupted
    BY <1>1, HandledOnward
<1>3. RestOK'
    BY <1>1, <1>2 DEF RestOK, memory
<1> QED BY <1>1, <1>2, <1>3, TablesKept DEF Inv, memory

LEMMA EndInv ==
    ASSUME Inv, NEW p \in Proc,
           Leave(p) \/ Crashes(p) \/ NoUser(p) \/ Vanish(p) \/ KilledInLogin(p)
    PROVE  Inv'
BY DiesInv DEF Leave, Crashes, NoUser, Vanish, KilledInLogin

LEMMA WipeInv ==
    ASSUME Inv, NEW p \in Proc, Wipe(p)
    PROVE  Inv'
<1>1. /\ RestOK /\ Goto(p, "fill") /\ table' = << >>
      /\ UNCHANGED <<message, semR, semW, task, uid, copy, target, signals, owed, interrupted>>
    BY DEF Inv, Wipe
<1>2. Onward /\ pc' \in [Proc -> Place]
    BY <1>1, GotoOnward DEF Place
<1>3. RestOK'
    BY <1>1, <1>2 DEF RestOK, signals
<1>4. Good(table', uid', pc')
    BY <1>1, GoodEmpty
<1>5. \A q \in Proc : Good(copy'[q], uid', pc')
    BY <1>1, <1>2, TablesPersist DEF Inv
<1> QED BY <1>1, <1>3, <1>4, <1>5 DEF Inv, TablesGood

LEMMA FillInv ==
    ASSUME Inv, NEW p \in Proc, Fill(p)
    PROVE  Inv'
<1>1. /\ RestOK /\ Goto(p, "look") /\ table' = copy[p]
      /\ UNCHANGED <<message, semR, task, uid, copy, target, signals, owed, interrupted>>
    BY DEF Inv, Fill
<1>2. Onward /\ pc' \in [Proc -> Place]
    BY <1>1, GotoOnward DEF Place
<1>3. semW' \in Nat
    BY <1>1 DEF Fill, RestOK
<1>4. RestOK'
    BY <1>1, <1>2, <1>3 DEF RestOK, signals
<1>5. \A q \in Proc : Good(copy[q], uid', pc')
    BY <1>2, TablesPersist DEF Inv
<1> QED BY <1>1, <1>4, <1>5 DEF Inv, TablesGood

LEMMA LookInv ==
    ASSUME Inv, NEW p \in Proc, Look(p)
    PROVE  Inv'
<1>1. /\ RestOK /\ Goto(p, "takeR") /\ copy' = [copy EXCEPT ![p] = Read]
      /\ UNCHANGED <<memory, task, uid, target, signals, owed, interrupted>>
    BY DEF Inv, Look
<1>2. Onward /\ pc' \in [Proc -> Place]
    BY <1>1, GotoOnward DEF Place
<1>3. RestOK'
    BY <1>1, <1>2 DEF RestOK, memory, signals
<1>4. Good(Read, uid', pc')
    BY <1>2, ReadGood, GoodPersists DEF Onward
<1>5. copy' \in [Proc -> Seq(UserEntry)] /\ TablesGood'
    BY <1>1, <1>2, <1>4, CopyChanged DEF memory
<1> QED BY <1>3, <1>5 DEF Inv

LEMMA SendInv ==
    ASSUME Inv, NEW p \in Proc, Send(p)
    PROVE  Inv'
<1> DEFINE t == copy[p]
           place == IF task[p] = "exit" THEN "leaving" ELSE "idle"
<1>1. /\ RestOK /\ Goto(p, place) /\ copy' = [copy EXCEPT ![p] = << >>]
      /\ UNCHANGED <<table, message, semW, uid, target, usr2, interrupted>>
    BY DEF Inv, Send
<1>2. place \in Place \ {"none", "enter"}
    BY DEF Place
<1> HIDE DEF place
<1>3. Onward /\ pc' \in [Proc -> Place]
    BY <1>1, <1>2, GotoOnward
<1>4. semR' \in Nat
    BY <1>1 DEF Send, RestOK
<1>5. task' \in [Proc -> Task]
    BY <1>1 DEF Send, RestOK, Task
<1>6. usr1' \in [Proc -> {"none", "show", "post"}]
  <2>1. \A q \in Proc, v \in {"show", "post"} : Raised(q, v) \in {"none", "show", "post"}
      BY <1>1 DEF Raised, RestOK
  <2>2. usr1' = [q \in Proc |-> IF q \in Pids(t)
                                THEN Raised(q, IF q = Poster(t) THEN "post" ELSE "show")
                                ELSE usr1[q]]
      BY DEF Send
  <2>3. \A q \in Proc : usr1[q] \in {"none", "show", "post"}
      BY <1>1 DEF RestOK
  <2> QED BY <2>1, <2>2, <2>3
<1>7. owed' \in [Proc -> SUBSET Proc]
  <2>1. owed' = [q \in Proc |-> IF q \in Pids(t) /\ Alive(q) THEN owed[q] \cup {p} ELSE owed[q]]
      BY DEF Send
  <2>2. \A q \in Proc : owed[q] \subseteq Proc
      BY <1>1 DEF RestOK
  <2> QED BY <2>1, <2>2
<1>8. RestOK'
    BY <1>1, <1>3, <1>4, <1>5, <1>6, <1>7 DEF RestOK
<1>9. copy' \in [Proc -> Seq(UserEntry)] /\ TablesGood'
    BY <1>1, <1>3, GoodEmpty, CopyChanged
<1> QED BY <1>8, <1>9 DEF Inv

LEMMA ReadToEnterInv ==
    ASSUME Inv, NEW p \in Proc, ReadToEnter(p)
    PROVE  Inv'
<1>1. /\ RestOK /\ pc[p] = "enter" /\ pc' = [pc EXCEPT ![p] = "wipe"]
      /\ uid' = [uid EXCEPT ![p] = NewUid(Read)]
      /\ copy' = [copy EXCEPT ![p] = Enter(Read, Entry(p))]
      /\ UNCHANGED <<memory, task, target, signals, owed, interrupted>>
    BY DEF Inv, ReadToEnter, Runs, Goto, Entered
<1>2. NewUid(Read) \in Uid /\ Good(Enter(Read, Entry(p)), uid', pc')
    BY <1>1, ReadGood, GoodEntered
<1>3. Onward /\ pc' \in [Proc -> Place] /\ uid' \in [Proc -> Uid \cup {0}]
    BY <1>1, <1>2 DEF RestOK, Onward, Place
<1>4. RestOK'
    BY <1>1, <1>3 DEF RestOK, memory, signals
<1>5. copy' \in [Proc -> Seq(UserEntry)] /\ TablesGood'
    BY <1>1, <1>2, <1>3, CopyChanged DEF memory
<1> QED BY <1>4, <1>5 DEF Inv

LEMMA ReadToExitInv ==
    ASSUME Inv, NEW p \in Proc, ReadToExit(p)
    PROVE  Inv'
<1>1. /\ RestOK /\ Goto(p, "lock") /\ copy' = [copy EXCEPT ![p] = WithoutMe(p)]
      /\ task' = [task EXCEPT ![p] = "exit"]
      /\ usr2' = usr2 \cup {q \in Proc : q \in Pids(Read) /\ Alive(q)}
      /\ UNCHANGED <<memory, uid, target, usr1, owed, interrupted>>
    BY DEF Inv, ReadToExit
<1>2. Onward /\ pc' \in [Proc -> Place]
    BY <1>1, GotoOnward DEF Place
<1>3. task' \in [Proc -> Task] /\ usr2' \subseteq Proc
    BY <1>1 DEF RestOK, Task
<1>4. RestOK'
    BY <1>1, <1>2, <1>3 DEF RestOK, memory
<1>5. Good(Read, uid', pc')
    BY <1>2, ReadGood, GoodPersists DEF Onward
<1>6. Good(WithoutMe(p), uid', pc')
  <2>1. CASE Lost(p)
      BY <2>1, <1>5 DEF WithoutMe
  <2>2. CASE ~Lost(p)
    <3>1. MyIndex(p) \in DOMAIN Read
        BY <2>2, MyIndexFacts
    <3>2. Good(RemoveAt(Read, MyIndex(p)), uid', pc')
        BY <1>5, <3>1, GoodRemoved
    <3> QED BY <2>2, <3>2 DEF WithoutMe
  <2> QED BY <2>1, <2>2
<1>7. copy' \in [Proc -> Seq(UserEntry)] /\ TablesGood'
    BY <1>1, <1>2, <1>6, CopyChanged DEF memory
<1> QED BY <1>4, <1>7 DEF Inv

LEMMA ReadToNameInv ==
    ASSUME Inv, NEW p \in Proc, ReadToName(p)
    PROVE  Inv'
<1>1. PICK n \in NickNames :
          copy' = [copy EXCEPT ![p] = IF Lost(p) THEN Read ELSE [Read EXCEPT ![MyIndex(p)].name = n]]
    BY DEF ReadToName
<1>2. /\ RestOK /\ Goto(p, "wipe") /\ task' = [task EXCEPT ![p] = "name"]
      /\ UNCHANGED <<memory, uid, target, signals, owed, interrupted>>
    BY DEF Inv, ReadToName
<1>3. Onward /\ pc' \in [Proc -> Place]
    BY <1>2, GotoOnward DEF Place
<1>4. task' \in [Proc -> Task]
    BY <1>2 DEF RestOK, Task
<1>5. RestOK'
    BY <1>2, <1>3, <1>4 DEF RestOK, memory, signals
<1>6. Good(Read, uid', pc')
    BY <1>3, ReadGood, GoodPersists DEF Onward
<1> DEFINE t == IF Lost(p) THEN Read ELSE [Read EXCEPT ![MyIndex(p)].name = n]
<1>7. Good(t, uid', pc')
  <2>1. CASE Lost(p)
      BY <2>1, <1>6
  <2>2. CASE ~Lost(p)
    <3>1. MyIndex(p) \in DOMAIN Read
        BY <2>2, MyIndexFacts
    <3>2. Good([Read EXCEPT ![MyIndex(p)].name = n], uid', pc')
        BY <1>6, <3>1, GoodNamed
    <3> QED BY <2>2, <3>2
  <2> QED BY <2>1, <2>2
<1>8. copy' = [copy EXCEPT ![p] = t]
    BY <1>1
<1> HIDE DEF t
<1>9. copy' \in [Proc -> Seq(UserEntry)] /\ TablesGood'
    BY <1>2, <1>3, <1>7, <1>8, CopyChanged DEF memory
<1> QED BY <1>5, <1>9 DEF Inv

-----------------------------------------------------------------------------
(* Theorems *)

LEMMA StepInv == Inv /\ [Next]_vars => Inv'
<1> SUFFICES ASSUME Inv, [Next]_vars PROVE Inv'
    OBVIOUS
<1>1. CASE UNCHANGED vars
  <2>1. UNCHANGED <<table, message, semR, semW, pc, task, uid, copy, target, usr1, usr2, owed, interrupted>>
      BY <1>1 DEF vars, memory, local, signals
  <2>2. RestOK'
      BY <2>1 DEF Inv, RestOK
  <2>3. TablesGood'
      BY <2>1 DEF Inv, TablesGood
  <2> QED BY <2>1, <2>2, <2>3 DEF Inv
<1>2. ASSUME NEW p \in Proc, Connect(p) \/ Step(p) \/ Line(p) \/ Vanish(p)
      PROVE  Inv'
  <2>1. CASE Step(p)
      BY <2>1, LocalStepInv, ReadToEnterInv, WipeInv, FillInv, LookInv, SendInv, TellSendInv,
         getBroadcastInv, getUserPipeSigInv, EndInv DEF Step
  <2>2. CASE Line(p)
      BY <2>2, LocalStepInv, ReadToExitInv, ReadToNameInv, ReadToTellInv, EndInv DEF Line
  <2> QED BY <1>2, <2>1, <2>2, LocalStepInv, EndInv
<1> QED BY <1>1, <1>2 DEF Next

LEMMA Invariance == Spec => []Inv
<1>1. Init => Inv
    BY InitInv
<1>2. Inv /\ [Next]_vars => Inv'
    BY StepInv
<1> QED BY <1>1, <1>2, PTL DEF Spec

\* The shared memory and the processes keep their types: in particular every
\* uid that newUserIn gives, the overfull room included, is within the bound.
THEOREM TypeCorrect == Spec => []TypeOK
<1>1. Inv => TypeOK
    BY DEF Inv, TablesGood, Good, RestOK, TypeOK
<1> QED BY <1>1, Invariance, PTL

\* Every table that is in memory or about to be stored is ordered and within
\* bounds, however unlocked updates, signals and deaths interleave.
THEOREM TablesOrdered == Spec => []TableOrdered
<1>1. Inv => TableOrdered
    BY DEF Inv, TablesGood, Good, TableOrdered, Tables
<1> QED BY <1>1, Invariance, PTL

\* Entries of the tables are never wrong about who has which uid, and no
\* process is in a table twice.
THEOREM TablesTruthful == Spec => []EntriesTruthful
<1>1. ASSUME Inv, NEW t \in Tables, NEW i \in DOMAIN t, t[i].pid # Nobody
      PROVE  /\ pc[t[i].pid] \notin {"none", "enter"} /\ uid[t[i].pid] = t[i].uid
             /\ \A j \in DOMAIN t : t[j].pid = t[i].pid => j = i
  <2>1. Good(t, uid, pc)
      BY <1>1 DEF Inv, TablesGood, Tables
  <2>2. pc[t[i].pid] \notin {"none", "enter"} /\ uid[t[i].pid] = t[i].uid
      BY <1>1, <2>1 DEF Good
  <2>3. ASSUME NEW j \in DOMAIN t, t[j].pid = t[i].pid PROVE j = i
    <3>1. t[j].uid = t[i].uid
        BY <1>1, <2>1, <2>2, <2>3 DEF Good
    <3>2. DOMAIN t = 1..Len(t) /\ \A k \in DOMAIN t : t[k].uid \in Nat
        BY <2>1, GoodElements DEF UserEntry, Uid
    <3>3. ~(i < j) /\ ~(j < i)
        BY <2>1, <3>1, <3>2 DEF Good, Increasing
    <3> QED BY <3>2, <3>3
  <2> QED BY <2>2, <2>3
<1>2. Inv => EntriesTruthful
    BY <1>1 DEF EntriesTruthful
<1> QED BY <1>2, Invariance, PTL

-----------------------------------------------------------------------------
(* Updates that do not overlap *)

Does(p) == Connect(p) \/ Step(p) \/ Line(p) \/ Vanish(p)

\* What a step leaves alone of another process.
LEMMA OthersKept ==
    ASSUME Inv, NEW p \in Proc, Does(p), NEW q \in Proc, q # p
    PROVE  pc'[q] = pc[q] /\ task'[q] = task[q] /\ copy'[q] = copy[q] /\ uid'[q] = uid[q]
<1>1. CASE Dies(p)
    BY <1>1 DEF Dies, Inv, RestOK
<1>2. CASE Connect(p) \/ TakeR(p) \/ TakeW(p) \/ Put(p) \/ Lock(p) \/ Yell(p) \/ TellPut(p)
           \/ TellSend(p) \/ ReadToTell(p) \/ Wipe(p) \/ Fill(p)
    BY <1>2 DEF Connect, TakeR, TakeW, Put, Lock, Yell, TellPut, TellSend, ReadToTell, Wipe, Fill, Goto, Inv, RestOK
<1>3. CASE ReadToEnter(p) \/ Look(p) \/ Send(p) \/ ReadToExit(p) \/ ReadToName(p)
    BY <1>3 DEF ReadToEnter, Look, Send, ReadToExit, ReadToName, Goto, Inv, RestOK
<1>4. CASE getBroadcast(p) \/ getUserPipeSig(p)
    BY <1>4 DEF getBroadcast, getUserPipeSig, Handled, Goto, Inv, RestOK
<1> QED BY <1>1, <1>2, <1>3, <1>4 DEF Does, Step, Line, Leave, Crashes, NoUser, Vanish, KilledInLogin

\* A handler moves its process on at most, from where it waited.
LEMMA HandlerMoves ==
    ASSUME Inv, NEW p \in Proc, getBroadcast(p) \/ getUserPipeSig(p)
    PROVE  /\ UNCHANGED <<table, message, semW, task, uid, copy, target>> /\ usr2' \subseteq usr2
           /\ \/ pc' = pc
              \/ interrupted' = interrupted + 1 /\ Waits(p) /\ pc' = [pc EXCEPT ![p] = Past[pc[p]]]
BY DEF getBroadcast, getUserPipeSig, Handled, Goto, memory, Inv, RestOK

\* What a process is going to store.
Renamed(p, n) == IF Lost(p) THEN Read ELSE [Read EXCEPT ![MyIndex(p)].name = n]

Plan(p) ==
    /\ pc[p] = "wipe" /\ task[p] = "login" => copy[p] = Entered(p) /\ uid[p] = NewUid(Read)
    /\ pc[p] = "wipe" /\ task[p] = "name" =>
           \E n \in NickNames : ~NameTaken(n) /\ copy[p] = Renamed(p, n)
    /\ pc[p] \in {"lock", "wipe"} /\ task[p] = "exit" => copy[p] = WithoutMe(p)

\* Which task brings a process where.
OnTask(p) ==
    /\ pc[p] \in {"none", "enter"} => task[p] = "login"
    /\ pc[p] \in {"idle", "tellPut", "tellSend"} => task[p] = "chat"
    /\ pc[p] \in {"wipe", "fill"} => task[p] # "chat"
    /\ pc[p] \in {"lock", "leaving"} => task[p] = "exit"
    /\ pc[p] = "dead" => task[p] = "chat"
Tasks == \A p \in Proc : OnTask(p)

\* Who is not in the table yet, and is not told of anything.
Newcomer(p) == pc[p] \in {"none", "enter"} \/ (pc[p] \in {"wipe", "fill"} /\ task[p] = "login")
Unknown(p) == Newcomer(p) => p \notin usr2 /\ p \notin Pids(table)

\* One process at a time updates the table, what it will store follows from
\* the table as it is, and who is not stored yet is known to nobody.
Apart == \A p, q \in Proc : Updating(p) /\ Updating(q) => p = q
Turn == Apart /\ \A p \in Proc : Plan(p) /\ Unknown(p)

LEMMA OnTaskStep ==
    ASSUME Inv, Tasks, NEW p \in Proc, Does(p)
    PROVE  Tasks'
<1> SUFFICES ASSUME NEW q \in Proc PROVE OnTask(q)'
    BY DEF Tasks
<1>0. OnTask(q) /\ OnTask(p) /\ RestOK
    BY DEF Tasks, Inv
<1>1. CASE q # p
    BY <1>0, <1>1, OthersKept DEF OnTask
<1>2. CASE q = p
  <2>1. CASE Dies(p)
      BY <1>0, <1>2, <2>1 DEF Dies, RestOK, OnTask
  <2>2. CASE Connect(p) \/ TakeR(p) \/ TakeW(p) \/ Put(p) \/ Lock(p) \/ Yell(p)
      BY <1>0, <1>2, <2>2 DEF Connect, TakeR, TakeW, Put, Lock, Yell, Types, Runs, Goto, RestOK, OnTask
  <2>3. CASE TellPut(p) \/ TellSend(p) \/ ReadToTell(p) \/ Wipe(p) \/ Fill(p) \/ Look(p)
      BY <1>0, <1>2, <2>3 DEF TellPut, TellSend, ReadToTell, Wipe, Fill, Look, Types, Runs, Goto, RestOK, OnTask
  <2>4. CASE ReadToEnter(p) \/ ReadToName(p) \/ ReadToExit(p)
      BY <1>0, <1>2, <2>4 DEF ReadToEnter, ReadToName, ReadToExit, Types, Runs, Goto, RestOK, OnTask
  <2>5. CASE Send(p)
    <3>1. /\ pc'[p] = IF task[p] = "exit" THEN "leaving" ELSE "idle"
          /\ task'[p] = IF task[p] = "exit" THEN task[p] ELSE "chat"
        BY <1>0, <2>5 DEF Send, Goto, RestOK
    <3> QED BY <1>0, <1>2, <3>1 DEF OnTask
  <2>6. CASE getBroadcast(p) \/ getUserPipeSig(p)
    <3>1. task' = task /\ (pc' = pc \/ (Waits(p) /\ pc' = [pc EXCEPT ![p] = Past[pc[p]]]))
        BY <2>6, HandlerMoves
    <3>2. pc'[p] = pc[p] \/ (pc[p] = "lock" /\ pc'[p] = "wipe") \/ pc'[p] \in {"takeW", "put"}
        BY <1>0, <3>1 DEF Waits, Past, RestOK
    <3> QED BY <1>0, <1>2, <3>1, <3>2 DEF OnTask
  <2> QED BY <1>2, <2>1, <2>2, <2>3, <2>4, <2>5, <2>6
      DEF Does, Step, Line, Leave, Crashes, NoUser, Vanish, KilledInLogin
<1> QED BY <1>1, <1>2

\* Only memset and memcpy write the table, and only memset leaves it empty.
LEMMA TableKept ==
    ASSUME Inv, NEW p \in Proc, Does(p), ~Wipe(p), ~Fill(p)
    PROVE  table' = table /\ (pc'[p] = "fill" => pc' = pc)
<1>1. CASE Dies(p) /\ UNCHANGED memory
    BY <1>1 DEF Dies, Inv, RestOK, memory
<1>2. CASE Connect(p) \/ TakeR(p) \/ TakeW(p) \/ Put(p) \/ Lock(p) \/ Yell(p) \/ TellPut(p)
           \/ TellSend(p) \/ ReadToTell(p)
    BY <1>2 DEF Connect, TakeR, TakeW, Put, Lock, Yell, TellPut, TellSend, ReadToTell, Goto, Inv, RestOK, memory
<1>3. CASE ReadToEnter(p) \/ Look(p) \/ ReadToExit(p) \/ ReadToName(p)
    BY <1>3 DEF ReadToEnter, Look, ReadToExit, ReadToName, Goto, Inv, RestOK, memory
<1>4. CASE Send(p)
  <2>1. table' = table /\ pc'[p] \in {"leaving", "idle"}
      BY <1>4 DEF Send, Goto, Inv, RestOK
  <2> QED BY <2>1
<1>5. CASE getBroadcast(p) \/ getUserPipeSig(p)
  <2>1. table' = table
      BY <1>5, HandlerMoves
  <2>2. pc' = pc \/ pc'[p] \in {"takeW", "put", "wipe"}
      BY <1>5 DEF getBroadcast, getUserPipeSig, Handled, Waits, Past, Goto, Inv, RestOK
  <2> QED BY <2>1, <2>2
<1> QED BY <1>1, <1>2, <1>3, <1>4, <1>5 DEF Does, Step, Line, Leave, Crashes, NoUser, Vanish, KilledInLogin

LEMMA PlanKept ==
    ASSUME NEW q \in Proc, Plan(q), UNCHANGED table,
           pc'[q] = pc[q] \/ (pc[q] = "lock" /\ pc'[q] = "wipe" /\ task[q] = "exit"),
           task'[q] = task[q], copy'[q] = copy[q], uid'[q] = uid[q]
    PROVE  Plan(q)'
BY DEF Plan, Entered, Read, NameTaken, Renamed, WithoutMe, Lost, InTable, MyIndex

LEMMA PlanStep ==
    ASSUME Inv, Tasks, Turn, NEW p \in Proc, Does(p), NEW q \in Proc
    PROVE  Plan(q)'
<1>0. Plan(q) /\ OnTask(p) /\ OnTask(q) /\ RestOK /\ copy \in [Proc -> Seq(UserEntry)]
    BY DEF Turn, Tasks, Inv
<1>1. CASE q # p /\ ~Updating(q)
  <2>1. pc'[q] = pc[q]
      BY <1>1, OthersKept
  <2> QED BY <1>1, <2>1 DEF Plan, Updating
<1>2. CASE q # p /\ Updating(q)
  <2>1. ~Wipe(p) /\ ~Fill(p)
      BY <1>2 DEF Turn, Apart, Updating, Wipe, Fill, Runs
  <2>2. UNCHANGED table
      BY <2>1, TableKept
  <2>3. pc'[q] = pc[q] /\ task'[q] = task[q] /\ copy'[q] = copy[q] /\ uid'[q] = uid[q]
      BY <1>2, OthersKept
  <2> QED BY <1>0, <2>2, <2>3, PlanKept
<1>3. CASE q = p
  <2>1. CASE ReadToEnter(p)
    <3>1. /\ copy'[p] = Entered(p) /\ uid'[p] = NewUid(Read) /\ UNCHANGED <<table, task>>
          /\ pc'[p] = "wipe" /\ task[p] = "login"
        BY <1>0, <2>1 DEF ReadToEnter, Goto, RestOK, memory, Runs, OnTask
    <3> QED BY <1>3, <3>1 DEF Plan, Entered, Read
  <2>2. CASE ReadToName(p)
    <3>1. /\ \E n \in NickNames : ~NameTaken(n) /\ copy'[p] = Renamed(p, n)
          /\ UNCHANGED <<table, uid>> /\ pc'[p] = "wipe" /\ task'[p] = "name"
        BY <1>0, <2>2 DEF ReadToName, Goto, RestOK, memory, Renamed
    <3> QED BY <1>3, <3>1 DEF Plan, NameTaken, Renamed, Read, Lost, InTable, MyIndex
  <2>3. CASE ReadToExit(p)
    <3>1. /\ copy'[p] = WithoutMe(p) /\ UNCHANGED <<table, uid>> /\ pc'[p] = "lock" /\ task'[p] = "exit"
        BY <1>0, <2>3 DEF ReadToExit, Goto, RestOK, memory
    <3> QED BY <1>3, <3>1 DEF Plan, WithoutMe, Read, Lost, InTable, MyIndex
  <2>4. CASE Lock(p) \/ getBroadcast(p) \/ getUserPipeSig(p)
    <3>1. UNCHANGED <<table, task, copy, uid>>
        BY <2>4 DEF Lock, getBroadcast, getUserPipeSig, memory
    <3>2. pc[p] = "lock" => task[p] = "exit"
        BY <1>0 DEF OnTask
    <3>3. pc'[p] = pc[p] \/ (pc[p] = "lock" /\ pc'[p] = "wipe") \/ pc'[p] \in {"takeW", "put"}
        BY <1>0, <2>4 DEF Lock, Runs, getBroadcast, getUserPipeSig, Handled, Waits, Past, Goto, RestOK
    <3>4. CASE pc'[p] \in {"takeW", "put"}
        BY <1>3, <3>4 DEF Plan
    <3> QED BY <1>0, <1>3, <3>1, <3>2, <3>3, <3>4, PlanKept
  <2>5. CASE pc'[p] \notin {"lock", "wipe"}
      BY <1>3, <2>5 DEF Plan
  <2>6. CASE Dies(p)
      BY <1>0, <2>5, <2>6 DEF Dies, RestOK
  <2>7. CASE Connect(p) \/ TakeR(p) \/ TakeW(p) \/ Put(p) \/ Yell(p) \/ TellPut(p)
             \/ TellSend(p) \/ ReadToTell(p) \/ Wipe(p) \/ Fill(p) \/ Look(p) \/ Send(p)
      BY <1>0, <2>5, <2>7 DEF Connect, TakeR, TakeW, Put, Yell, TellPut, TellSend, ReadToTell, Wipe, Fill, Look, Send,
         Goto, RestOK
  <2> QED BY <1>3, <2>1, <2>2, <2>3, <2>4, <2>6, <2>7
      DEF Does, Step, Line, Leave, Crashes, NoUser, Vanish, KilledInLogin
<1> QED BY <1>1, <1>2, <1>3

\* Only "exit" raises SIGUSR2, for who is in the table.
LEMMA SignalsKnown ==
    ASSUME Inv, NEW p \in Proc, Does(p)
    PROVE  usr2' \subseteq usr2 \cup Pids(table)
<1>1. CASE ReadToExit(p)
  <2>1. usr2' = usr2 \cup {q \in Proc : q \in Pids(Read) /\ Alive(q)}
      BY <1>1 DEF ReadToExit
  <2>2. \A q \in Proc : q \in Pids(Read) => q \in Pids(table)
      BY ReadGood, ProcAssumption DEF Pids
  <2> QED BY <2>1, <2>2
<1>2. CASE Dies(p)
    BY <1>2 DEF Dies
<1>3. CASE Connect(p) \/ TakeR(p) \/ TakeW(p) \/ Put(p) \/ Lock(p) \/ Yell(p) \/ TellPut(p)
           \/ TellSend(p) \/ ReadToTell(p) \/ Wipe(p) \/ Fill(p)
    BY <1>3 DEF Connect, TakeR, TakeW, Put, Lock, Yell, TellPut, TellSend, ReadToTell, Wipe, Fill, signals
<1>4. CASE ReadToEnter(p) \/ Look(p) \/ Send(p) \/ ReadToName(p) \/ getBroadcast(p) \/ getUserPipeSig(p)
    BY <1>4 DEF ReadToEnter, Look, Send, ReadToName, getBroadcast, getUserPipeSig, signals
<1> QED BY <1>1, <1>2, <1>3, <1>4 DEF Does, Step, Line, Leave, Crashes, NoUser, Vanish, KilledInLogin

LEMMA NewcomerBefore ==
    ASSUME Inv, Tasks, NEW p \in Proc, Does(p), NEW q \in Proc, Newcomer(q)'
    PROVE  Newcomer(q) /\ ~(q = p /\ Fill(p))
<1>0. RestOK /\ OnTask(p)
    BY DEF Inv, Tasks
<1>1. CASE q # p
    BY <1>1, OthersKept DEF Newcomer
<1>2. CASE q = p
  <2>1. CASE Dies(p)
      BY <1>0, <1>2, <2>1 DEF Dies, RestOK, Newcomer
  <2>2. CASE Connect(p) \/ TakeR(p) \/ TakeW(p) \/ Put(p) \/ Lock(p) \/ Yell(p) \/ TellPut(p)
             \/ TellSend(p) \/ ReadToTell(p) \/ Wipe(p) \/ Fill(p)
      BY <1>0, <1>2, <2>2 DEF Connect, TakeR, TakeW, Put, Lock, Yell, TellPut, TellSend, ReadToTell, Wipe, Fill,
         Types, Runs, Goto, RestOK, OnTask, Newcomer
  <2>3. CASE ReadToEnter(p) \/ Look(p) \/ ReadToExit(p) \/ ReadToName(p)
    <3>1. CASE ReadToEnter(p)
        BY <1>2, <3>1 DEF ReadToEnter, Runs, Fill, Newcomer
    <3>2. CASE Look(p) \/ ReadToExit(p)
      <4>1. pc'[p] \in {"takeR", "lock"}
          BY <1>0, <3>2 DEF Look, ReadToExit, Goto, RestOK
      <4> QED BY <1>2, <4>1 DEF Newcomer
    <3>3. CASE ReadToName(p)
      <4>1. pc'[p] = "wipe" /\ task'[p] = "name"
          BY <1>0, <3>3 DEF ReadToName, Goto, RestOK
      <4> QED BY <1>2, <4>1 DEF Newcomer
    <3> QED BY <2>3, <3>1, <3>2, <3>3
  <2>4. CASE Send(p)
    <3>1. pc'[p] \in {"leaving", "idle"}
        BY <1>0, <2>4 DEF Send, Goto, RestOK
    <3> QED BY <1>2, <3>1 DEF Newcomer
  <2>5. CASE getBroadcast(p) \/ getUserPipeSig(p)
    <3>1. /\ task' = task /\ ~Fill(p)
          /\ pc'[p] = pc[p] \/ (pc[p] = "lock" /\ pc'[p] = "wipe") \/ pc'[p] \in {"takeW", "put"}
      <4>1. task' = task /\ (pc' = pc \/ (Waits(p) /\ pc' = [pc EXCEPT ![p] = Past[pc[p]]]))
          BY <2>5, HandlerMoves
      <4>2. ~Fill(p)
          BY <2>5, <1>0 DEF Fill, Runs, getBroadcast, getUserPipeSig
      <4> QED BY <1>0, <4>1, <4>2 DEF Waits, Past, RestOK
    <3> QED BY <1>0, <1>2, <3>1 DEF Newcomer, OnTask
  <2> QED BY <1>2, <2>1, <2>2, <2>3, <2>4, <2>5 DEF Does, Step, Line, Leave, Crashes, NoUser, Vanish, KilledInLogin
<1> QED BY <1>1, <1>2

LEMMA UnknownStep ==
    ASSUME Inv, Tasks, Turn, NEW p \in Proc, Does(p), NEW q \in Proc
    PROVE  Unknown(q)'
<1> SUFFICES ASSUME Newcomer(q)' PROVE q \notin usr2' /\ q \notin Pids(table')
    BY DEF Unknown, Pids
<1>1. Newcomer(q) /\ q \notin usr2 /\ q \notin Pids(table) /\ ~(q = p /\ Fill(p))
    BY NewcomerBefore DEF Turn, Unknown
<1>2. q \notin usr2'
    BY <1>1, SignalsKnown
<1>3. CASE Wipe(p)
    BY <1>2, <1>3 DEF Wipe, Pids
<1>4. CASE Fill(p)
  <2>1. q # p /\ table' = copy[p] /\ Updating(p)
      BY <1>1, <1>4 DEF Fill, Runs, Updating
  <2>2. pc[q] \in {"none", "enter"}
      BY <1>1, <2>1 DEF Turn, Apart, Updating, Newcomer
  <2>3. \A i \in DOMAIN copy[p] : copy[p][i].pid # q
      BY <2>2, ProcAssumption DEF Inv, TablesGood, Good
  <2> QED BY <2>1, <2>3, <1>2 DEF Pids
<1>5. CASE ~Wipe(p) /\ ~Fill(p)
    BY <1>1, <1>2, <1>5, TableKept
<1> QED BY <1>2, <1>3, <1>4, <1>5

LEMMA InitTurn == Init => Tasks /\ Turn
BY DEF Init, Tasks, Turn, Apart, Updating, OnTask, Plan, Unknown, Pids

LEMMA TurnStep ==
    ASSUME Inv, Tasks, Turn, NEW p \in Proc, Does(p), Apart'
    PROVE  Turn'
BY PlanStep, UnknownStep DEF Turn

-----------------------------------------------------------------------------
(* The tables are the chat room *)

NickOf(t, u) == t[IndexById(t, u)].name
Members(t) == [u \in UidsOf(t) |-> NickOf(t, u)]

LEMMA NickOfUser ==
    ASSUME NEW t \in Seq(UserEntry), Increasing(t), NEW i \in DOMAIN t
    PROVE  NickOf(t, t[i].uid) = t[i].name
<1>1. \A j \in DOMAIN t : t[j] \in UserEntry
    BY ElementOfSeq, LenProperties
<1>2. \A j \in DOMAIN t : t[j].uid \in Uid
    BY <1>1 DEF UserEntry
<1> QED BY <1>2, IndexOfUser DEF NickOf

\* Who enters gets the lowest uid that nobody has, and no name.
LEMMA EnteredMembers ==
    ASSUME NEW t \in Seq(UserEntry), Increasing(t), Len(t) <= MaxUsers, NEW p \in Proc
    PROVE  \/ Enter(t, Entry(p)) = t
           \/ \E u \in Uid \ UidsOf(t) :
                 /\ 1..(u - 1) \subseteq UidsOf(t)
                 /\ Members(Enter(t, Entry(p))) =
                        [v \in UidsOf(t) \cup {u} |-> IF v = u THEN NoName ELSE Members(t)[v]]
<1> DEFINE e(k) == [Entry(p) EXCEPT !.uid = k]
           n == Enter(t, Entry(p))
<1>1. /\ Entry(p) \in UserEntry
      /\ \A k \in Uid : /\ e(k) \in UserEntry /\ e(k).uid = k /\ e(k).name = NoName
    BY MaxUsersAssumption DEF Entry, UserEntry, Uid
<1>2. \A i \in DOMAIN t : t[i] \in UserEntry
    BY ElementOfSeq, LenProperties
<1>3. \A i \in DOMAIN t : t[i].uid \in Uid
    BY <1>2 DEF UserEntry
<1>4. /\ n \in Seq(UserEntry) /\ Increasing(n)
      /\ \/ n = t
         \/ \E k \in Uid \ UidsOf(t) :
               /\ k \in 1..(Len(t) + 1)
               /\ n = InsertAt(t, k, e(k))
               /\ 1..(k - 1) \subseteq UidsOf(t)
  <2>1. \A k \in Uid : [Entry(p) EXCEPT !.uid = k] \in UserEntry /\ [Entry(p) EXCEPT !.uid = k].uid = k
      BY <1>1
  <2>2. t \in Seq(UserEntry) /\ Entry(p) \in UserEntry /\ Increasing(t) /\ Len(t) <= MaxUsers
      BY <1>1
  <2> QED BY ONLY <1>3, <2>1, <2>2, EnterCorrect
<1> HIDE DEF n, e
<1>5. ASSUME NEW k \in Uid \ UidsOf(t), k \in 1..(Len(t) + 1), n = InsertAt(t, k, e(k)),
             1..(k - 1) \subseteq UidsOf(t)
      PROVE  Members(n) = [v \in UidsOf(t) \cup {k} |-> IF v = k THEN NoName ELSE Members(t)[v]]
  <2>1. t \in Seq(UserEntry) /\ e(k) \in UserEntry /\ k \in 1..(Len(t) + 1)
      BY <1>1, <1>5
  <2> DEFINE m == InsertAt(t, k, e(k))
  <2>2. /\ k \in DOMAIN m /\ m[k] = e(k)
        /\ \A i \in DOMAIN t : \E j \in DOMAIN m : m[j] = t[i]
        /\ \A j \in DOMAIN m : j = k \/ \E i \in DOMAIN t : m[j] = t[i]
    <3> DEFINE x == e(k)
    <3>1. t \in Seq(UserEntry) /\ x \in UserEntry /\ k \in 1..(Len(t) + 1)
        BY <2>1
    <3> HIDE DEF x
    <3>2. /\ k \in DOMAIN InsertAt(t, k, x) /\ InsertAt(t, k, x)[k] = x
          /\ \A i \in DOMAIN t : \E j \in DOMAIN InsertAt(t, k, x) : InsertAt(t, k, x)[j] = t[i]
          /\ \A j \in DOMAIN InsertAt(t, k, x) : j = k \/ \E i \in DOMAIN t : InsertAt(t, k, x)[j] = t[i]
        BY ONLY <3>1, InsertKeepsAll
    <3> QED BY <3>2 DEF x
  <2>3. n = m
      BY <1>5
  <2> HIDE DEF m
  <2>4. n[k].uid = k /\ n[k].name = NoName /\ k \in DOMAIN n
      BY <1>1, <2>2, <2>3
  <2>5. UidsOf(n) = UidsOf(t) \cup {k}
      BY <2>2, <2>3, <2>4 DEF UidsOf
  <2>6. NickOf(n, k) = NoName
      BY <1>4, <2>4, NickOfUser
  <2>7. \A v \in UidsOf(t) : NickOf(n, v) = NickOf(t, v)
    <3> SUFFICES ASSUME NEW i \in DOMAIN t
                 PROVE  NickOf(n, t[i].uid) = NickOf(t, t[i].uid)
        BY DEF UidsOf
    <3>1. PICK j \in DOMAIN n : n[j] = t[i]
        BY <2>2, <2>3
    <3> QED BY <1>4, <3>1, NickOfUser
  <2> QED BY <2>5, <2>6, <2>7 DEF Members
<1> QED BY <1>4, <1>5 DEF n

\* A name changes the name of one user and nothing else.
LEMMA NamedFields ==
    ASSUME NEW t \in Seq(UserEntry), NEW k \in DOMAIN t, NEW n \in NickNames, NEW r,
           r = [t EXCEPT ![k].name = n]
    PROVE  /\ DOMAIN r = DOMAIN t
           /\ \A i \in DOMAIN t : /\ r[i].uid = t[i].uid /\ r[i].pid = t[i].pid
                                  /\ r[i].name = IF i = k THEN n ELSE t[i].name
<1>1. t \in [1..Len(t) -> UserEntry] /\ \A i \in DOMAIN t : t[i] \in UserEntry
    BY ElementOfSeq, LenProperties
<1>2. ASSUME NEW i \in DOMAIN t
      PROVE  r[i].uid = t[i].uid /\ r[i].pid = t[i].pid /\ r[i].name = IF i = k THEN n ELSE t[i].name
  <2>1. r[i] = IF i = k THEN [t[i] EXCEPT !.name = n] ELSE t[i]
      BY <1>1
  <2>2. t[i] \in UserEntry
      BY <1>1
  <2> QED BY <2>1, <2>2 DEF UserEntry
<1> QED BY <1>1, <1>2

LEMMA NamedMembers ==
    ASSUME NEW t \in Seq(UserEntry), Increasing(t), NEW k \in DOMAIN t, NEW n \in NickNames,
           NEW r \in Seq(UserEntry), Increasing(r), DOMAIN r = DOMAIN t,
           \A i \in DOMAIN t : r[i].uid = t[i].uid /\ r[i].name = IF i = k THEN n ELSE t[i].name
    PROVE  /\ t[k].uid \in UidsOf(t)
           /\ Members(r) = [v \in UidsOf(t) |-> IF v = t[k].uid THEN n ELSE Members(t)[v]]
<1>1. \A i \in DOMAIN t : t[i] \in UserEntry
    BY ElementOfSeq, LenProperties
<1>2. UidsOf(r) = UidsOf(t) /\ t[k].uid \in UidsOf(t)
    BY DEF UidsOf
<1>3. ASSUME NEW i \in DOMAIN t, t[i].uid = t[k].uid PROVE i = k
  <2>1. \A j \in DOMAIN t : t[j].uid \in Uid
      BY <1>1 DEF UserEntry
  <2>2. IndexById(t, t[i].uid) = i /\ IndexById(t, t[k].uid) = k
      BY <2>1, IndexOfUser
  <2> QED BY <1>3, <2>2
<1>4. ASSUME NEW i \in DOMAIN t
      PROVE  NickOf(r, t[i].uid) = IF t[i].uid = t[k].uid THEN n ELSE NickOf(t, t[i].uid)
  <2>1. NickOf(t, t[i].uid) = t[i].name /\ NickOf(r, r[i].uid) = r[i].name
      BY NickOfUser
  <2> QED BY <1>3, <2>1
<1>5. \A v \in UidsOf(t) : NickOf(r, v) = IF v = t[k].uid THEN n ELSE NickOf(t, v)
    BY <1>4 DEF UidsOf
<1> QED BY <1>2, <1>5 DEF Members

\* Who leaves is the only one who is gone.
LEMMA RemovedMembers ==
    ASSUME NEW t \in Seq(UserEntry), Increasing(t), NEW k \in DOMAIN t,
           NEW r, r = RemoveAt(t, k), r \in Seq(UserEntry), Increasing(r)
    PROVE  t[k].uid \in UidsOf(t) /\ Members(r) = [v \in UidsOf(t) \ {t[k].uid} |-> Members(t)[v]]
<1>1. DOMAIN t = 1..Len(t) /\ \A i \in DOMAIN t : t[i] \in UserEntry
    BY ElementOfSeq, LenProperties
<1>2. /\ \A i \in DOMAIN r : \E j \in DOMAIN t \ {k} : r[i] = t[j]
      /\ \A j \in DOMAIN t \ {k} : \E i \in DOMAIN r : r[i] = t[j]
  <2>1. k \in 1..Len(t)
      BY <1>1
  <2>2. /\ \A i \in DOMAIN RemoveAt(t, k) : \E j \in DOMAIN t \ {k} : RemoveAt(t, k)[i] = t[j]
        /\ \A j \in DOMAIN t \ {k} : \E i \in DOMAIN RemoveAt(t, k) : RemoveAt(t, k)[i] = t[j]
      BY <2>1, RemoveElements
  <2> QED BY <2>2
<1>3. ASSUME NEW i \in DOMAIN t, t[i].uid = t[k].uid PROVE i = k
  <2>1. \A j \in DOMAIN t : t[j].uid \in Uid
      BY <1>1 DEF UserEntry
  <2>2. IndexById(t, t[i].uid) = i /\ IndexById(t, t[k].uid) = k
      BY <2>1, IndexOfUser
  <2> QED BY <1>3, <2>2
<1>4. UidsOf(r) = UidsOf(t) \ {t[k].uid} /\ t[k].uid \in UidsOf(t)
  <2>1. ASSUME NEW i \in DOMAIN r PROVE r[i].uid \in UidsOf(t) \ {t[k].uid}
    <3>1. PICK j \in DOMAIN t \ {k} : r[i] = t[j]
        BY <1>2
    <3> QED BY <1>3, <3>1 DEF UidsOf
  <2>2. ASSUME NEW j \in DOMAIN t, t[j].uid # t[k].uid PROVE t[j].uid \in UidsOf(r)
    <3>1. PICK i \in DOMAIN r : r[i] = t[j]
        BY <1>2, <2>2
    <3> QED BY <3>1 DEF UidsOf
  <2> QED BY <2>1, <2>2 DEF UidsOf
<1>5. \A v \in UidsOf(r) : NickOf(r, v) = NickOf(t, v)
  <2> SUFFICES ASSUME NEW i \in DOMAIN r PROVE NickOf(r, r[i].uid) = NickOf(t, r[i].uid)
      BY DEF UidsOf
  <2>1. PICK j \in DOMAIN t : r[i] = t[j]
      BY <1>2
  <2> QED BY <2>1, NickOfUser
<1> QED BY <1>4, <1>5 DEF Members

\* Names without a comma are read as they were written.
Plain(t) == \A i \in DOMAIN t : t[i].name \notin CommaNames
Plains == Plain(table) /\ \A p \in Proc : Plain(copy[p])

LEMMA ReadIsTable ==
    ASSUME Plain(table), table \in Seq(UserEntry)
    PROVE  Read = table
<1>1. table \in [1..Len(table) -> UserEntry]
    BY LenProperties
<1>2. getInfoList(table) = [i \in DOMAIN table |-> table[i]]
    BY DEF getInfoList, Plain
<1> QED BY <1>1, <1>2 DEF Read

\* What users see stored: what is about to be stored, or what is.
StoredBy ==
    Apart => /\ (\A p \in Proc : pc[p] # "fill") => Stored = table
             /\ \A p \in Proc : pc[p] = "fill" => Stored = copy[p]

LEMMA StoredIs == StoredBy
<1> SUFFICES ASSUME Apart
             PROVE  /\ (\A p \in Proc : pc[p] # "fill") => Stored = table
                    /\ \A p \in Proc : pc[p] = "fill" => Stored = copy[p]
    BY DEF StoredBy
<1>1. ASSUME NEW p \in Proc, pc[p] = "fill" PROVE Stored = copy[p]
  <2> DEFINE c == CHOOSE q \in Proc : pc[q] = "fill"
  <2>1. c \in Proc /\ pc[c] = "fill"
      BY <1>1
  <2>2. c = p
      BY <1>1, <2>1 DEF Apart, Updating
  <2> QED BY <1>1, <2>2 DEF Stored
<1> QED BY <1>1 DEF Stored

\* The memset is the step where users see a change: what it empties is filled
\* before anybody stores another, and who is to fill it is not cut short.
LEMMA StoredStep ==
    ASSUME Inv, Turn, Apart', NEW p \in Proc, Does(p)
    PROVE  /\ ~Wipe(p) => Stored' = Stored
           /\ Wipe(p) => Stored = table /\ Stored' = copy[p]
<1>0. /\ RestOK
      /\ \A q \in Proc : pc[q] = "fill" => Stored = copy[q]
      /\ (\A q \in Proc : pc[q] # "fill") => Stored = table
    BY StoredIs DEF Inv, StoredBy, Turn
<1>1. /\ \A q \in Proc : pc'[q] = "fill" => Stored' = copy'[q]
      /\ (\A q \in Proc : pc'[q] # "fill") => Stored' = table'
  <2>1. StoredBy'
      BY StoredIs, PTL
  <2> QED BY <2>1 DEF StoredBy
<1>2. \A q \in Proc : q # p => pc'[q] = pc[q] /\ copy'[q] = copy[q]
    BY OthersKept
<1>3. \A q, r \in Proc : pc[q] = "fill" /\ pc[r] \in {"wipe", "fill"} => q = r
    BY DEF Turn, Apart, Updating
<1>4. ASSUME Wipe(p) PROVE Stored = table /\ Stored' = copy[p]
  <2>1. pc[p] = "wipe" /\ pc'[p] = "fill" /\ copy' = copy
      BY <1>0, <1>4 DEF Wipe, Runs, Goto, RestOK
  <2>2. \A q \in Proc : pc[q] # "fill"
      BY <1>3, <2>1
  <2> QED BY <1>0, <1>1, <2>1, <2>2
<1>5. ASSUME Fill(p) PROVE Stored' = Stored
  <2>1. pc[p] = "fill" /\ pc'[p] = "look" /\ table' = copy[p]
      BY <1>0, <1>5 DEF Fill, Runs, Goto, RestOK
  <2>2. \A q \in Proc : pc'[q] # "fill"
      BY <1>2, <1>3, <2>1
  <2> QED BY <1>0, <1>1, <2>1, <2>2
<1>6. ASSUME ~Wipe(p), ~Fill(p), \A q \in Proc : pc[q] # "fill"
      PROVE  Stored' = Stored
  <2>1. table' = table /\ \A q \in Proc : pc'[q] # "fill"
      BY <1>2, <1>6, TableKept
  <2> QED BY <1>0, <1>1, <1>6, <2>1
<1>7. ASSUME ~Wipe(p), ~Fill(p), NEW q \in Proc, pc[q] = "fill"
      PROVE  Stored' = Stored
  <2>1. CASE q # p
      BY <1>0, <1>1, <1>2, <1>7, <2>1
  <2>2. CASE q = p
    <3>1. ~KilledInLogin(p)
        BY <1>7, <2>2 DEF KilledInLogin, Turn, Unknown, Newcomer
    <3>2. ~Connect(p) /\ ~Line(p) /\ ~Vanish(p)
        BY <1>7, <2>2 DEF Connect, Line, Vanish, ReadToExit, ReadToName, Yell, ReadToTell, NoUser, Crashes, Types, Runs
    <3>3. getBroadcast(p) \/ getUserPipeSig(p)
        BY <1>7, <2>2, <3>1, <3>2 DEF Does, Step, ReadToEnter, Look, TakeR, TakeW, Put, Send, Lock, Leave,
           TellPut, TellSend, Runs
    <3>4. copy' = copy
        BY <3>3, HandlerMoves
    <3>5. pc' = pc
        BY <1>7, <2>2, <3>3 DEF getBroadcast, getUserPipeSig, Handled, Waits
    <3> QED BY <1>0, <1>1, <1>7, <3>4, <3>5
  <2> QED BY <2>1, <2>2
<1> QED BY <1>4, <1>5, <1>6, <1>7

Serves == [Room!Next]_RoomMembers

LEMMA StoreServes ==
    ASSUME Plain(table), Inv, Tasks, Turn, NEW p \in Proc, pc[p] = "wipe",
           Stored = table, Stored' = copy[p]
    PROVE  Serves
<1>1. /\ table \in Seq(UserEntry) /\ Increasing(table) /\ Len(table) <= MaxUsers
      /\ copy[p] \in Seq(UserEntry) /\ Increasing(copy[p])
    BY DEF Inv, TablesGood, Good
<1>2. Read = table
    BY <1>1, ReadIsTable
<1>3. RoomMembers = Members(table) /\ RoomMembers' = Members(copy[p])
    BY DEF RoomMembers, Members, NickOf
<1>4. DOMAIN RoomMembers = UidsOf(table)
    BY <1>3 DEF Members
<1>5. task[p] \in {"login", "name", "exit"} /\ Plan(p)
    BY DEF Turn, Tasks, OnTask, Inv, RestOK, Task
<1>6. CASE copy[p] = table
    BY <1>3, <1>6 DEF Serves
<1>7. CASE task[p] = "login" /\ copy[p] # table
  <2>1. copy[p] = Enter(table, Entry(p))
      BY <1>2, <1>5, <1>7 DEF Plan, Entered
  <2>2. PICK u \in Uid \ UidsOf(table) :
            /\ 1..(u - 1) \subseteq UidsOf(table)
            /\ Members(Enter(table, Entry(p))) =
                   [v \in UidsOf(table) \cup {u} |-> IF v = u THEN NoName ELSE Members(table)[v]]
      BY <1>1, <1>7, <2>1, EnteredMembers
  <2>3. RoomMembers' = [v \in UidsOf(table) \cup {u} |-> IF v = u THEN NoName ELSE RoomMembers[v]]
      BY <1>3, <2>1, <2>2
  <2>4. Room!Arrive
    <3>1. u \in (1..MaxUsers) \ DOMAIN RoomMembers /\ 1..(u - 1) \subseteq DOMAIN RoomMembers
        BY <1>4, <2>2 DEF Uid
    <3> QED BY <1>4, <2>3, <3>1 DEF Room!Arrive, Room!Present, RoomMembers, Members, NickOf
  <2> QED BY <2>4 DEF Serves, Room!Next
<1>8. CASE task[p] = "name" /\ copy[p] # table
  <2>1. PICK n \in NickNames : ~NameTaken(n) /\ copy[p] = Renamed(p, n)
      BY <1>5, <1>8 DEF Plan
  <2> DEFINE k == MyIndex(p)
  <2>2. k \in DOMAIN table /\ copy[p] = [table EXCEPT ![k].name = n]
    <3>1. ~Lost(p)
        BY <1>2, <1>8, <2>1 DEF Renamed
    <3> QED BY <1>2, <2>1, <3>1, MyIndexFacts DEF Renamed
  <2> HIDE DEF k
  <2>3. /\ table[k].uid \in UidsOf(table)
        /\ Members(copy[p]) = [v \in UidsOf(table) |-> IF v = table[k].uid THEN n ELSE Members(table)[v]]
    <3> DEFINE r == copy[p]
    <3>1. /\ table \in Seq(UserEntry) /\ Increasing(table) /\ k \in DOMAIN table /\ n \in NickNames
          /\ r \in Seq(UserEntry) /\ Increasing(r)
        BY <1>1, <2>2
    <3>2. r = [table EXCEPT ![k].name = n]
        BY <2>2
    <3> HIDE DEF r
    <3>3. /\ DOMAIN r = DOMAIN table
          /\ \A i \in DOMAIN table : r[i].uid = table[i].uid /\ r[i].name = IF i = k THEN n ELSE table[i].name
        BY ONLY <3>1, <3>2, NamedFields
    <3>4. /\ table[k].uid \in UidsOf(table)
          /\ Members(r) = [v \in UidsOf(table) |-> IF v = table[k].uid THEN n ELSE Members(table)[v]]
        BY ONLY <3>1, <3>3, NamedMembers
    <3> QED BY <3>4 DEF r
  <2>4. \A v \in UidsOf(table) : RoomMembers[v] # n
    <3> SUFFICES ASSUME NEW i \in DOMAIN table PROVE NickOf(table, table[i].uid) # n
        BY <1>3 DEF Members, UidsOf
    <3>1. table[i].name # n
        BY <1>2, <2>1 DEF NameTaken
    <3> QED BY <1>1, <3>1, NickOfUser
  <2>5. Room!Rename
    <3>1. \E u \in DOMAIN RoomMembers, m \in NickNames :
             /\ \A v \in DOMAIN RoomMembers : RoomMembers[v] # m
             /\ RoomMembers' = [RoomMembers EXCEPT ![u] = m]
        BY <1>3, <1>4, <2>3, <2>4, SMTT(30)
    <3> QED BY <3>1 DEF Room!Rename, Room!Present, RoomMembers, Members, NickOf
  <2> QED BY <2>5 DEF Serves, Room!Next
<1>9. CASE task[p] = "exit" /\ copy[p] # table
  <2> DEFINE k == MyIndex(p)
  <2>1. k \in DOMAIN table /\ copy[p] = RemoveAt(table, k)
    <3>1. copy[p] = WithoutMe(p)
        BY <1>5, <1>9 DEF Plan
    <3>2. ~Lost(p)
        BY <1>2, <1>9, <3>1 DEF WithoutMe
    <3> QED BY <1>2, <3>1, <3>2, MyIndexFacts DEF WithoutMe
  <2> HIDE DEF k
  <2>2. /\ table[k].uid \in UidsOf(table)
        /\ Members(copy[p]) = [v \in UidsOf(table) \ {table[k].uid} |-> Members(table)[v]]
      BY <1>1, <2>1, RemovedMembers
  <2>3. Room!Depart
    <3>1. \E u \in DOMAIN RoomMembers :
             /\ RoomMembers' = [v \in DOMAIN RoomMembers \ {u} |-> RoomMembers[v]]
             /\ {} = {x \in {} : u \notin {x[1], x[2]}}
        BY <1>3, <1>4, <2>2
    <3> QED BY <3>1 DEF Room!Depart, Room!Present, RoomMembers, Members, NickOf
  <2> QED BY <2>3 DEF Serves, Room!Next
<1> QED BY <1>5, <1>6, <1>7, <1>8, <1>9

LEMMA RoomStep ==
    ASSUME Inv, Tasks, Turn, Apart', Plain(table), NEW p \in Proc, Does(p)
    PROVE  Serves
<1>1. CASE ~Wipe(p)
  <2>1. Stored' = Stored
      BY <1>1, StoredStep
  <2> QED BY <2>1 DEF Serves, RoomMembers
<1>2. CASE Wipe(p)
  <2>1. Stored = table /\ Stored' = copy[p] /\ pc[p] = "wipe"
      BY <1>2, StoredStep DEF Wipe, Runs
  <2> QED BY <2>1, StoreServes
<1> QED BY <1>1, <1>2

\* What holds until updates overlap, and until a name has a comma.
UntilOverlap == "overlap" \notin mishaps => Turn
UntilComma == "comma" \notin mishaps => Plains
HInv == Inv /\ Tasks /\ UntilOverlap /\ UntilComma

\* What a step without the mishap of that name has not met.
LEMMA Met ==
    ASSUME Record
    PROVE  /\ mishaps \subseteq mishaps'
           /\ "overlap" \notin mishaps' => ~Overlaps
           /\ "overwrite" \notin mishaps' => ~Overwrites
           /\ "drop" \notin mishaps' => ~Drops
           /\ "interrupt" \notin mishaps' => interrupted' = interrupted
           /\ "death" \notin mishaps' => ~Deaths
           /\ "comma" \notin mishaps' => ~Commas
           /\ "full" \notin mishaps' => ~Fills
BY DEF Record, Mishaps

LEMMA HStep ==
    ASSUME HInv, NEW p \in Proc, Does(p), Record
    PROVE  HInv' /\ (mishaps' \cap {"overlap", "comma"} = {} => Serves)
<1>1. Inv' /\ Tasks'
    BY StepInv, OnTaskStep DEF HInv, Next, Does
<1>2. ASSUME "overlap" \notin mishaps' PROVE Turn /\ Apart' /\ Turn'
  <2>1. Apart'
      BY <1>2, Met DEF Overlaps, Apart, Updating
  <2>2. Turn
      BY <1>2, Met DEF HInv, UntilOverlap
  <2> QED BY <2>1, <2>2, TurnStep DEF HInv
<1>3. ASSUME "comma" \notin mishaps' PROVE Plains /\ Plains'
  <2>1. Plains
      BY <1>3, Met DEF HInv, UntilComma
  <2>2. \A q \in Proc : Plain(copy'[q])
      BY <1>3, Met DEF Commas, Plain
  <2>3. Plain(table')
    <3>1. table' = table \/ table' = << >> \/ table' = copy[p]
        BY TableKept DEF Wipe, Fill, HInv
    <3> QED BY <2>1, <3>1 DEF Plains, Plain
  <2> QED BY <2>1, <2>2, <2>3 DEF Plains, Plain
<1>4. ASSUME mishaps' \cap {"overlap", "comma"} = {} PROVE Serves
  <2>1. Turn /\ Apart' /\ Plain(table)
      BY <1>2, <1>3, <1>4 DEF Plains
  <2> QED BY <2>1, RoomStep DEF HInv
<1> QED BY <1>1, <1>2, <1>3, <1>4 DEF HInv, UntilOverlap, UntilComma

\* Whoever steps does what NpMulti has it do.
LEMMA HDoes ==
    ASSUME HNext
    PROVE  Record /\ \E p \in Proc : Does(p)
BY DEF HNext, Begins, Does

LEMMA HKept ==
    ASSUME HInv, UNCHANGED histories
    PROVE  HInv'
<1>1. UNCHANGED <<table, message, semR, semW, pc, task, uid, copy, target, usr1, usr2, owed, interrupted, mishaps>>
    BY DEF histories, vars, memory, local, signals
<1>2. Inv'
    BY <1>1, StepInv DEF HInv, vars, memory, local, signals
<1>3. Tasks'
    BY <1>1 DEF HInv, Tasks, OnTask
<1>4. Turn => Turn'
  <2>1. ASSUME NEW q \in Proc, Plan(q) PROVE Plan(q)'
      BY <1>1, <2>1, PlanKept
  <2>2. ASSUME NEW q \in Proc, Unknown(q) PROVE Unknown(q)'
      BY <1>1, <2>2 DEF Unknown, Newcomer, Pids
  <2>3. Apart => Apart'
      BY <1>1 DEF Apart, Updating
  <2> QED BY <2>1, <2>2, <2>3 DEF Turn
<1>5. Plains => Plains'
    BY <1>1 DEF Plains, Plain
<1> QED BY <1>1, <1>2, <1>3, <1>4, <1>5 DEF HInv, UntilOverlap, UntilComma

LEMMA InitH == HInit => HInv
<1> SUFFICES ASSUME HInit PROVE HInv
    OBVIOUS
<1>1. Inv /\ Tasks /\ Turn
    BY InitInv, InitTurn DEF HInit
<1>2. Plains
    BY DEF HInit, Init, Plains, Plain
<1> QED BY <1>1, <1>2 DEF HInv, UntilOverlap, UntilComma

LEMMA HInvariance == HSpec => []HInv
<1>1. HInv /\ [HNext]_histories => HInv'
    BY HStep, HDoes, HKept
<1> QED BY <1>1, InitH, PTL DEF HSpec

\* Until two updates of the table overlap, or a name has a comma in it, every
\* change of the table is a move of the chat room, for any number of users and
\* processes, however they interleave, wait, are interrupted and die.
THEOREM ServesChatRoom == HSpec => FollowsRoom
<1>1. HInv /\ [HNext]_histories =>
          [mishaps' \cap {"overlap", "comma"} = {} => [Room!Next]_RoomMembers]_histories
    BY HStep, HDoes DEF Serves
<1> QED BY <1>1, HInvariance, PTL DEF HSpec, FollowsRoom

-----------------------------------------------------------------------------
(* Every message is shown, unless one is written over it *)

\* There is one message at a time: whoever has written it is the only one who
\* has not announced it, nobody is still to show another, and it is the only
\* one that anybody is still to show.
OneMessage ==
    /\ \A q \in Proc : usr1[q] = "none" => owed[q] = {}
    /\ \A q \in Proc : owed[q] \subseteq {message}
    /\ \A p \in Proc : Writing(p) => message = p /\ \A q \in Proc : usr1[q] = "none"

LEMMA AnnounceShown ==
    ASSUME Inv, OneMessage, NEW p \in Proc, Send(p) \/ TellSend(p)
    PROVE  OneMessage'
<1>1. /\ Writing(p) /\ message = p /\ message' = message
      /\ RestOK
    BY DEF Send, TellSend, Runs, OneMessage, Writing, Inv, memory
<1>2. \A q \in Proc : usr1[q] = "none" /\ owed[q] = {}
    BY <1>1 DEF OneMessage
<1>3. \A q \in Proc : \/ usr1'[q] # "none" /\ owed'[q] \in {{}, {p}}
                      \/ usr1'[q] = "none" /\ owed'[q] = {}
  <2> SUFFICES ASSUME NEW q \in Proc
               PROVE  \/ usr1'[q] # "none" /\ owed'[q] \in {{}, {p}}
                      \/ usr1'[q] = "none" /\ owed'[q] = {}
      OBVIOUS
  <2>1. CASE Send(p)
    <3>1. PICK v \in {"post", "show"} :
             /\ usr1'[q] = IF q \in Pids(copy[p]) THEN Raised(q, v) ELSE usr1[q]
             /\ owed'[q] = IF q \in Pids(copy[p]) /\ Alive(q) THEN owed[q] \cup {p} ELSE owed[q]
        BY <2>1 DEF Send
    <3> QED BY <1>2, <3>1 DEF Raised
  <2>2. CASE TellSend(p)
    <3>1. /\ usr1'[q] = IF q = target[p] THEN Raised(q, "show") ELSE usr1[q]
          /\ owed'[q] = IF q = target[p] /\ Alive(q) THEN owed[q] \cup {p} ELSE owed[q]
        BY <2>2 DEF TellSend
    <3> QED BY <1>2, <3>1 DEF Raised
  <2> QED BY <2>1, <2>2
<1>4. pc'[p] \in {"idle", "leaving"} /\ \A q \in Proc : q # p => pc'[q] = pc[q]
    BY <1>1 DEF Send, TellSend, Goto, RestOK
<1>5. \A q \in Proc : ~Writing(q)'
  <2>1. \A q \in Proc : q # p => ~Writing(q)
      BY <1>1 DEF OneMessage
  <2> QED BY <1>4, <2>1 DEF Writing
<1> QED BY <1>1, <1>3, <1>5 DEF OneMessage

LEMMA HandlerShown ==
    ASSUME Inv, OneMessage, NEW p \in Proc, getBroadcast(p)
    PROVE  OneMessage'
<1>1. /\ usr1[p] # "none" /\ usr1' = [usr1 EXCEPT ![p] = "none"] /\ message' = message
      /\ owed' = [owed EXCEPT ![p] = @ \ {message}] /\ RestOK
    BY DEF getBroadcast, Inv
<1>2. \A q \in Proc : /\ usr1'[q] = IF q = p THEN "none" ELSE usr1[q]
                      /\ owed'[q] = IF q = p THEN owed[q] \ {message} ELSE owed[q]
    BY <1>1 DEF RestOK
<1>3. \A q \in Proc : ~Writing(q)
    BY <1>1 DEF OneMessage
<1>4. \A q \in Proc : ~Writing(q)'
  <2>1. pc' = pc \/ (Waits(p) /\ pc' = [pc EXCEPT ![p] = Past[pc[p]]])
      BY HandlerMoves
  <2>2. \A q \in Proc : pc'[q] \in {pc[q], "takeW", "put", "wipe"}
      BY <1>1, <2>1 DEF Waits, Past, RestOK
  <2> QED BY <1>3, <2>2 DEF Writing
<1> QED BY <1>1, <1>2, <1>4 DEF OneMessage

LEMMA DiesShown ==
    ASSUME Inv, OneMessage, NEW p \in Proc, Dies(p), UNCHANGED memory
    PROVE  OneMessage'
<1>1. /\ usr1' = [usr1 EXCEPT ![p] = "none"] /\ owed' = [owed EXCEPT ![p] = {}]
      /\ pc' = [pc EXCEPT ![p] = "dead"] /\ message' = message /\ RestOK
    BY DEF Dies, memory, Inv
<1>2. \A q \in Proc : /\ usr1'[q] = IF q = p THEN "none" ELSE usr1[q]
                      /\ owed'[q] = IF q = p THEN {} ELSE owed[q]
                      /\ pc'[q] = IF q = p THEN "dead" ELSE pc[q]
    BY <1>1 DEF RestOK
<1> QED BY <1>1, <1>2 DEF OneMessage, Writing

\* A message that is written over nobody's meets nobody who is to show one.
LEMMA PutShown ==
    ASSUME Inv, OneMessage, NEW p \in Proc, Put(p) \/ TellPut(p), ~Overwrites
    PROVE  OneMessage'
<1>1. /\ message' = p /\ UNCHANGED <<usr1, owed>>
      /\ ~Writing(p) /\ Writing(p)' /\ \A q \in Proc : q # p => pc'[q] = pc[q]
    BY DEF Put, TellPut, Runs, signals, Writing, Goto, Inv, RestOK
<1>2. \A q \in Proc : ~Writing(q) /\ usr1[q] = "none"
    BY <1>1 DEF Overwrites
<1>3. \A q \in Proc : owed[q] = {}
    BY <1>2 DEF OneMessage
<1>4. \A q \in Proc : Writing(q)' => q = p
    BY <1>1, <1>2 DEF Writing
<1> QED BY <1>1, <1>2, <1>3, <1>4 DEF OneMessage

LEMMA QuietShown ==
    ASSUME Inv, OneMessage, NEW p \in Proc,
           \/ Connect(p) \/ ReadToEnter(p) \/ Wipe(p) \/ Fill(p) \/ Look(p) \/ TakeR(p) \/ TakeW(p) \/ Lock(p)
           \/ ReadToExit(p) \/ ReadToName(p) \/ Yell(p) \/ ReadToTell(p) \/ getUserPipeSig(p)
    PROVE  OneMessage'
<1>1. RestOK
    BY DEF Inv
<1>2. UNCHANGED <<message, usr1, owed>>
  <2>1. CASE Connect(p) \/ TakeR(p) \/ TakeW(p) \/ Lock(p) \/ Yell(p) \/ ReadToTell(p) \/ Wipe(p) \/ Fill(p)
      BY <2>1 DEF Connect, TakeR, TakeW, Lock, Yell, ReadToTell, Wipe, Fill, memory, signals
  <2>2. CASE ReadToEnter(p) \/ Look(p) \/ ReadToExit(p) \/ ReadToName(p) \/ getUserPipeSig(p)
      BY <2>2 DEF ReadToEnter, Look, ReadToExit, ReadToName, getUserPipeSig, memory, signals
  <2> QED BY <2>1, <2>2
<1>3. \A q \in Proc : pc'[q] = pc[q] \/ pc'[q] \notin {"send", "tellSend"}
  <2>1. CASE Connect(p) \/ TakeR(p) \/ TakeW(p) \/ Lock(p) \/ Yell(p) \/ ReadToTell(p) \/ Wipe(p) \/ Fill(p)
      BY <1>1, <2>1 DEF Connect, TakeR, TakeW, Lock, Yell, ReadToTell, Wipe, Fill, Goto, RestOK
  <2>2. CASE ReadToEnter(p) \/ Look(p) \/ ReadToExit(p) \/ ReadToName(p)
      BY <1>1, <2>2 DEF ReadToEnter, Look, ReadToExit, ReadToName, Goto, RestOK
  <2>3. CASE getUserPipeSig(p)
    <3>1. pc' = pc \/ (Waits(p) /\ pc' = [pc EXCEPT ![p] = Past[pc[p]]])
        BY <2>3, HandlerMoves
    <3> QED BY <1>1, <3>1 DEF Waits, Past, RestOK
  <2> QED BY <2>1, <2>2, <2>3
<1> QED BY <1>2, <1>3 DEF OneMessage, Writing

UntilOverwritten == "overwrite" \notin mishaps => OneMessage

\* Unless a message is written over another that is on its way, whoever has no
\* signal pending has shown every message that was sent to it, for any number
\* of broadcasts under way, interrupted ones and those of the dead included.
THEOREM BroadcastsShown == HSpec => []ShownUnlessOverwritten
<1>1. HInit => UntilOverwritten
    BY DEF HInit, Init, UntilOverwritten, OneMessage, Writing
<1>2. HInv /\ UntilOverwritten /\ [HNext]_histories => UntilOverwritten'
  <2> SUFFICES ASSUME HInv, UntilOverwritten, [HNext]_histories, "overwrite" \notin mishaps'
               PROVE  OneMessage'
      BY DEF UntilOverwritten
  <2>1. CASE UNCHANGED histories
    <3>1. OneMessage /\ UNCHANGED <<message, pc, usr1, owed>>
        BY <2>1 DEF UntilOverwritten, histories, vars, memory, local, signals
    <3> QED BY <3>1 DEF OneMessage, Writing
  <2>2. CASE HNext
    <3>1. PICK p \in Proc : Does(p)
        BY <2>2, HDoes
    <3>2. OneMessage /\ ~Overwrites
        BY <2>2, HDoes, Met DEF UntilOverwritten
    <3> QED BY <3>1, <3>2, AnnounceShown, HandlerShown, DiesShown, PutShown, QuietShown
        DEF Does, Step, Line, Leave, Crashes, NoUser, Vanish, KilledInLogin, HInv
  <2> QED BY <2>1, <2>2
<1>3. UntilOverwritten => ShownUnlessOverwritten
    BY DEF UntilOverwritten, OneMessage, ShownUnlessOverwritten, EveryBroadcastShown, Without
<1> QED BY <1>1, <1>2, <1>3, HInvariance, PTL DEF HSpec

-----------------------------------------------------------------------------
(* Who is in the table, and who has the semaphores *)

\* The newcomer is added to who is there, if there is room.
LEMMA EnteredPids ==
    ASSUME NEW t \in Seq(UserEntry), Increasing(t), FirstGap(t) <= MaxUsers, NEW p \in Proc
    PROVE  Pids(Enter(t, Entry(p))) = Pids(t) \cup {p}
<1> DEFINE k == FirstGap(t)
           x == [Entry(p) EXCEPT !.uid = k]
           n == InsertAt(t, k, x)
<1>1. k \in 1..(Len(t) + 1) /\ Len(t) \in Nat
    BY FirstGapFacts, LenProperties
<1>2. k \in Uid
    BY <1>1, MaxUsersAssumption DEF Uid
<1>3. Enter(t, Entry(p)) = n
    BY <1>1, <1>2 DEF Enter, Uid
<1> HIDE DEF k
<1>4. x \in UserEntry /\ x.pid = p
    BY <1>2 DEF Entry, UserEntry
<1> HIDE DEF x
<1>5. /\ k \in DOMAIN n /\ n[k] = x
      /\ \A i \in DOMAIN t : \E j \in DOMAIN n : n[j] = t[i]
      /\ \A j \in DOMAIN n : j = k \/ \E i \in DOMAIN t : n[j] = t[i]
  <2>1. t \in Seq(UserEntry) /\ x \in UserEntry /\ k \in 1..(Len(t) + 1)
      BY <1>1, <1>4
  <2> QED BY ONLY <2>1, InsertKeepsAll
<1> HIDE DEF n
<1>6. Pids(n) = Pids(t) \cup {p}
    BY <1>4, <1>5 DEF Pids
<1> QED BY <1>3, <1>6

LEMMA RemovedPids ==
    ASSUME NEW t \in Seq(UserEntry), NEW k \in DOMAIN t,
           \A i \in DOMAIN t : t[i].pid = t[k].pid => i = k
    PROVE  Pids(RemoveAt(t, k)) = Pids(t) \ {t[k].pid}
<1> DEFINE r == RemoveAt(t, k)
<1>1. k \in 1..Len(t)
    BY LenProperties
<1>2. /\ \A i \in DOMAIN r : \E j \in DOMAIN t \ {k} : r[i] = t[j]
      /\ \A j \in DOMAIN t \ {k} : \E i \in DOMAIN r : r[i] = t[j]
    BY <1>1, RemoveElements
<1> HIDE DEF r
<1>3. ASSUME NEW i \in DOMAIN r PROVE r[i].pid \in Pids(t) \ {t[k].pid}
  <2>1. PICK j \in DOMAIN t \ {k} : r[i] = t[j]
      BY <1>2
  <2> QED BY <2>1 DEF Pids
<1>4. ASSUME NEW j \in DOMAIN t, t[j].pid # t[k].pid PROVE t[j].pid \in Pids(r)
  <2>1. PICK i \in DOMAIN r : r[i] = t[j]
      BY <1>2, <1>4
  <2> QED BY <2>1 DEF Pids
<1>5. Pids(r) = Pids(t) \ {t[k].pid}
    BY <1>3, <1>4 DEF Pids
<1> QED BY <1>5 DEF r

LEMMA NamedPids ==
    ASSUME NEW t, NEW r, DOMAIN r = DOMAIN t, \A i \in DOMAIN t : r[i].pid = t[i].pid
    PROVE  Pids(r) = Pids(t)
BY DEF Pids

\* Who is in the table: from the memcpy of its login to that of its exit.
Enrolled(p) ==
    /\ pc[p] \notin {"none", "enter", "leaving", "dead"}
    /\ ~(pc[p] = "wipe" /\ task[p] = "login")
    /\ ~(task[p] = "exit" /\ pc[p] \in {"fill", "look", "takeR", "takeW", "put", "send"})

\* Who has semW.
HoldsW(p) == pc[p] = "put" \/ (task[p] = "exit" /\ pc[p] \in {"wipe", "fill"})
\* Nobody who is about to be stored has found the table full.
Placed == \A p \in Proc : pc[p] = "wipe" /\ task[p] = "login" => FirstGap(Read) <= MaxUsers

\* Each semaphore has one holder at most; semR goes from who broadcasts to who
\* is told to give it back.
InR(p) == pc[p] \in {"takeW", "put", "send"}
HoldsR(p) == InR(p) \/ usr1[p] = "post"
OneW == \A p, q \in Proc : HoldsW(p) /\ HoldsW(q) => p = q
OneR == \A p, q \in Proc : /\ InR(p) /\ InR(q) => p = q
                           /\ usr1[p] = "post" /\ usr1[q] = "post" => p = q
                           /\ ~(InR(p) /\ usr1[q] = "post")
SemWBack == semW = IF \E p \in Proc : HoldsW(p) THEN 0 ELSE 1
SemRBack == semR = IF \E p \in Proc : HoldsR(p) THEN 0 ELSE 1

Enrolment == Pids(Stored) = {p \in Proc : Enrolled(p)}

Kept == Enrolment /\ Placed /\ OneW /\ SemWBack /\ OneR /\ SemRBack

\* What a step is that meets nothing harmful.
Calm(p) ==
    /\ Inv /\ Tasks /\ Turn /\ Turn' /\ Plain(table) /\ Kept
    /\ p \in Proc /\ Does(p)
    /\ interrupted' = interrupted /\ ~Deaths /\ ~Drops /\ ~Fills

LEMMA PidOnce ==
    ASSUME NEW u, NEW c, NEW t, Good(t, u, c), NEW i \in DOMAIN t, NEW j \in DOMAIN t,
           t[i].pid = t[j].pid, t[i].pid # Nobody
    PROVE  i = j
<1>1. t[i].uid = t[j].uid
    BY DEF Good
<1>2. DOMAIN t = 1..Len(t) /\ Len(t) \in Nat /\ t[i].uid \in Nat /\ t[j].uid \in Nat
  <2>1. t[i] \in UserEntry /\ t[j] \in UserEntry
      BY GoodElements
  <2> QED BY <2>1, GoodElements DEF UserEntry, Uid
<1>3. ~(i < j) /\ ~(j < i)
    BY <1>1, <1>2 DEF Good, Increasing
<1> QED BY <1>2, <1>3

LEMMA FindsItself ==
    ASSUME Inv, Enrolment, NEW p \in Proc, Enrolled(p), Stored = table
    PROVE  ~Lost(p) /\ MyIndex(p) \in DOMAIN table /\ table[MyIndex(p)].pid = p
<1>1. PICK i \in DOMAIN table : table[i].pid = p
    BY DEF Enrolment, Pids
<1>2. p # Nobody
    BY ProcAssumption
<1>3. Good(table, uid, pc)
    BY DEF Inv, TablesGood
<1>4. uid[p] = table[i].uid
    BY <1>1, <1>2, <1>3 DEF Good
<1>5. \A j \in DOMAIN table : table[j].uid \in Uid
  <2>1. \A j \in DOMAIN table : table[j] \in UserEntry
      BY <1>3, GoodElements
  <2> QED BY <2>1 DEF UserEntry
<1>6. MyIndex(p) = i
  <2>1. table \in Seq(UserEntry) /\ Increasing(table)
      BY <1>3 DEF Good
  <2>2. IndexById(table, table[i].uid) = i
      BY <1>5, <2>1, IndexOfUser
  <2> QED BY <1>4, <2>2 DEF MyIndex
<1> QED BY <1>1, <1>4, <1>6 DEF Lost, InTable, UidsOf

\* A process ends after an "exit" only.
LEMMA NobodyDies ==
    ASSUME NEW p \in Proc, Calm(p)
    PROVE  ~NoUser(p) /\ ~Crashes(p) /\ ~Vanish(p) /\ ~KilledInLogin(p)
<1>1. Dies(p) => ~Alive(p) \/ pc[p] = "leaving"
  <2>1. Dies(p) => pc'[p] = "dead"
      BY DEF Dies, Calm, Inv, RestOK
  <2> QED BY <2>1 DEF Calm, Deaths, Alive
<1>2. ~NoUser(p) /\ ~Crashes(p) /\ ~Vanish(p)
    BY <1>1 DEF NoUser, Crashes, Vanish, Types, Runs, Alive
<1>3. KilledInLogin(p) => Alive(p) /\ pc[p] # "leaving"
    BY DEF KilledInLogin, Calm, Tasks, OnTask, Turn, Unknown, Newcomer, Alive
<1> QED BY <1>1, <1>2, <1>3 DEF KilledInLogin

\* And nobody is moved by a signal.
LEMMA HandlerStays ==
    ASSUME NEW p \in Proc, Calm(p), getBroadcast(p) \/ getUserPipeSig(p)
    PROVE  pc' = pc
<1>1. interrupted \in Nat /\ interrupted' = interrupted
    BY BoundsAssumption DEF Calm, Inv, RestOK
<1> QED BY <1>1, HandlerMoves DEF Calm

LEMMA EnrolledKept ==
    ASSUME NEW p \in Proc, Calm(p), ~Wipe(p), NEW q \in Proc
    PROVE  Enrolled(q)' <=> Enrolled(q)
<1>0. RestOK /\ OnTask(p) /\ Inv /\ Does(p)
    BY DEF Calm, Inv, Tasks
<1>1. CASE q # p
    BY <1>0, <1>1, OthersKept DEF Enrolled
<1>2. CASE q = p
  <2>1. CASE Leave(p)
      BY <1>0, <1>2, <2>1 DEF Leave, Dies, Runs, RestOK, Enrolled
  <2>2. CASE Connect(p) \/ TakeR(p) \/ TakeW(p) \/ Put(p) \/ Yell(p)
      BY <1>0, <1>2, <2>2 DEF Connect, TakeR, TakeW, Put, Yell, Types, Runs, Goto, RestOK, OnTask, Enrolled
  <2>3. CASE TellPut(p) \/ TellSend(p) \/ ReadToTell(p) \/ Fill(p) \/ Lock(p)
      BY <1>0, <1>2, <2>3 DEF TellPut, TellSend, ReadToTell, Fill, Lock, Types, Runs, Goto, RestOK, OnTask, Enrolled
  <2>4. CASE ReadToEnter(p) \/ Look(p) \/ ReadToExit(p) \/ ReadToName(p)
      BY <1>0, <1>2, <2>4 DEF ReadToEnter, Look, ReadToExit, ReadToName, Types, Runs, Goto, RestOK, OnTask, Enrolled
  <2>5. CASE Send(p)
    <3>1. /\ pc[p] = "send" /\ pc'[p] = IF task[p] = "exit" THEN "leaving" ELSE "idle"
          /\ task'[p] = IF task[p] = "exit" THEN task[p] ELSE "chat"
        BY <1>0, <2>5 DEF Send, Runs, Goto, RestOK
    <3> QED BY <1>2, <3>1 DEF Enrolled
  <2>6. CASE getBroadcast(p) \/ getUserPipeSig(p)
    <3>1. task' = task
        BY <2>6 DEF getBroadcast, getUserPipeSig
    <3> QED BY <2>6, <3>1, HandlerStays DEF Enrolled
  <2> QED BY <1>0, <1>2, <2>1, <2>2, <2>3, <2>4, <2>5, <2>6, NobodyDies DEF Does, Step, Line
<1> QED BY <1>1, <1>2

\* What a change of the table does to who is in it.
LEMMA StorePids ==
    ASSUME Inv, Tasks, Turn, Plain(table), Enrolment, Placed, NEW p \in Proc, pc[p] = "wipe", Stored = table
    PROVE  \/ task[p] = "login" /\ Pids(copy[p]) = Pids(table) \cup {p}
           \/ task[p] = "name" /\ Pids(copy[p]) = Pids(table)
           \/ task[p] = "exit" /\ Pids(copy[p]) = Pids(table) \ {p}
<1>1. /\ Good(table, uid, pc) /\ table \in Seq(UserEntry) /\ Increasing(table)
      /\ task[p] \in {"login", "name", "exit"} /\ Plan(p)
    BY DEF Inv, TablesGood, Good, Turn, Tasks, OnTask, RestOK, Task
<1>2. Read = table
    BY <1>1, ReadIsTable
<1>3. \A i \in DOMAIN table : /\ table[i].pid \in Proc
                              /\ \A j \in DOMAIN table : table[i].pid = table[j].pid => i = j
  <2>1. \A i \in DOMAIN table : table[i].pid \in Proc
      BY DEF Enrolment, Pids
  <2>2. \A i \in DOMAIN table : table[i].pid # Nobody
      BY <2>1, ProcAssumption
  <2> QED BY <1>1, <2>1, <2>2, PidOnce
<1>4. CASE task[p] = "login"
  <2>1. copy[p] = Enter(table, Entry(p))
      BY <1>1, <1>2, <1>4 DEF Plan, Entered
  <2>2. FirstGap(table) <= MaxUsers
      BY <1>2, <1>4 DEF Placed
  <2> QED BY <1>1, <1>4, <2>1, <2>2, EnteredPids
<1>5. Enrolled(p) => ~Lost(p) /\ MyIndex(p) \in DOMAIN table /\ table[MyIndex(p)].pid = p
    BY FindsItself
<1>6. CASE task[p] = "name"
  <2>1. PICK n \in NickNames : copy[p] = Renamed(p, n)
      BY <1>1, <1>6 DEF Plan
  <2>2. MyIndex(p) \in DOMAIN table /\ copy[p] = [table EXCEPT ![MyIndex(p)].name = n]
      BY <1>2, <1>5, <1>6, <2>1 DEF Enrolled, Renamed
  <2> DEFINE r == copy[p]
             k == MyIndex(p)
  <2>3. r = [table EXCEPT ![k].name = n] /\ k \in DOMAIN table /\ table \in Seq(UserEntry) /\ n \in NickNames
      BY <1>1, <2>2
  <2> HIDE DEF r, k
  <2>4. DOMAIN r = DOMAIN table /\ \A i \in DOMAIN table : r[i].pid = table[i].pid
      BY ONLY <2>3, NamedFields
  <2>5. Pids(r) = Pids(table)
      BY ONLY <2>4, NamedPids
  <2> QED BY <1>6, <2>5 DEF r
<1>7. CASE task[p] = "exit"
  <2>1. ~Lost(p) /\ MyIndex(p) \in DOMAIN table /\ table[MyIndex(p)].pid = p
      BY <1>5, <1>7 DEF Enrolled
  <2>2. copy[p] = RemoveAt(table, MyIndex(p))
      BY <1>1, <1>2, <1>7, <2>1 DEF Plan, WithoutMe
  <2> QED BY <1>1, <1>3, <1>7, <2>1, <2>2, RemovedPids
<1> QED BY <1>1, <1>4, <1>6, <1>7

LEMMA EnrolmentStep ==
    ASSUME NEW p \in Proc, Calm(p)
    PROVE  Enrolment'
<1>0. Inv /\ Tasks /\ Turn /\ Turn' /\ Apart' /\ Does(p) /\ Enrolment /\ Placed /\ Plain(table)
    BY DEF Calm, Turn, Kept
<1>1. CASE ~Wipe(p)
  <2>1. Stored' = Stored
      BY <1>0, <1>1, StoredStep
  <2>2. \A q \in Proc : Enrolled(q)' <=> Enrolled(q)
      BY <1>1, EnrolledKept
  <2> QED BY <1>0, <2>1, <2>2 DEF Enrolment
<1>2. CASE Wipe(p)
  <2>1. Stored = table /\ Stored' = copy[p]
      BY <1>0, <1>2, StoredStep
  <2>2. pc[p] = "wipe" /\ pc'[p] = "fill" /\ task' = task
      BY <1>0, <1>2 DEF Wipe, Runs, Goto, Inv, RestOK
  <2>3. \A q \in Proc : q # p => (Enrolled(q)' <=> Enrolled(q))
      BY <1>0, OthersKept DEF Enrolled
  <2>4. /\ task[p] = "login" => ~Enrolled(p) /\ Enrolled(p)'
        /\ task[p] = "name" => Enrolled(p) /\ Enrolled(p)'
        /\ task[p] = "exit" => Enrolled(p) /\ ~Enrolled(p)'
      BY <2>2 DEF Enrolled
  <2>5. Pids(Stored') = {q \in Proc : Enrolled(q)'}
      BY <1>0, <2>1, <2>2, <2>3, <2>4, StorePids DEF Enrolment
  <2> QED BY <2>5 DEF Enrolment
<1> QED BY <1>1, <1>2

LEMMA PlacedStep ==
    ASSUME NEW p \in Proc, Calm(p)
    PROVE  Placed'
<1> SUFFICES ASSUME NEW q \in Proc, pc'[q] = "wipe", task'[q] = "login"
             PROVE  FirstGap(Read') <= MaxUsers
    BY DEF Placed
<1>0. Inv /\ RestOK /\ Tasks /\ Turn /\ Does(p) /\ Placed
    BY DEF Calm, Kept, Inv
<1>1. Newcomer(q)'
    BY DEF Newcomer
<1>2. Newcomer(q)
    BY <1>0, <1>1, NewcomerBefore
<1>3. CASE pc[q] = "wipe"
  <2>1. ~Wipe(p) /\ ~Fill(p)
    <3>1. CASE q = p
        BY <1>0, <3>1 DEF Wipe, Fill, Runs, Goto, RestOK
    <3>2. CASE q # p
        BY <1>0, <1>3, <3>2 DEF Turn, Apart, Updating, Wipe, Fill, Runs
    <3> QED BY <3>1, <3>2
  <2>2. table' = table
      BY <1>0, <2>1, TableKept
  <2>3. task[q] = "login"
      BY <1>2, <1>3 DEF Newcomer
  <2> QED BY <1>0, <1>3, <2>2, <2>3 DEF Placed, Read
<1>4. CASE pc[q] # "wipe"
  <2>1. q = p
      BY <1>0, <1>4, OthersKept
  <2>2. ReadToEnter(p)
    <3>1. CASE Connect(p) \/ TakeR(p) \/ TakeW(p) \/ Put(p) \/ Lock(p) \/ Yell(p) \/ TellPut(p)
               \/ TellSend(p) \/ ReadToTell(p) \/ Wipe(p) \/ Fill(p)
      <4>1. pc'[p] # "wipe" \/ Lock(p)
          BY <1>0, <3>1 DEF Connect, TakeR, TakeW, Put, Yell, TellPut, TellSend, ReadToTell, Wipe, Fill, Goto, RestOK
      <4>2. ~Lock(p)
          BY <1>0, <1>2, <2>1 DEF Lock, Runs, Newcomer
      <4> QED BY <2>1, <4>1, <4>2
    <3>2. CASE Look(p) \/ ReadToExit(p) \/ ReadToName(p)
        BY <1>0, <1>2, <2>1, <3>2 DEF Look, ReadToExit, ReadToName, Types, Runs, Goto, RestOK, Newcomer
    <3>3. CASE Send(p) \/ Leave(p)
        BY <1>0, <1>2, <2>1, <3>3 DEF Send, Leave, Runs, Newcomer
    <3>4. CASE getBroadcast(p) \/ getUserPipeSig(p)
        BY <1>4, <3>4, HandlerStays
    <3> QED BY <1>0, <3>1, <3>2, <3>3, <3>4, NobodyDies DEF Does, Step, Line
  <2>3. pc[p] = "enter" /\ Read' = Read
      BY <2>2 DEF ReadToEnter, Runs, memory, Read
  <2>4. ~(FirstGap(Read) > MaxUsers)
      BY <2>1, <2>3 DEF Calm, Fills
  <2>5. FirstGap(Read) \in Nat
    <3>1. Read \in Seq(UserEntry)
        BY <1>0, ReadGood DEF Good
    <3>2. FirstGap(Read) \in 1..(Len(Read) + 1) /\ Len(Read) \in Nat
        BY <3>1, FirstGapFacts, LenProperties
    <3> QED BY <3>2
  <2> QED BY <2>3, <2>4, <2>5, MaxUsersAssumption
<1> QED BY <1>3, <1>4

-----------------------------------------------------------------------------
(* The semaphores *)

LEMMA SemWStep ==
    ASSUME NEW p \in Proc, Calm(p)
    PROVE  OneW' /\ SemWBack'
<1>0. /\ Inv /\ RestOK /\ Does(p) /\ OnTask(p) /\ OneW
      /\ semW = IF \E q \in Proc : HoldsW(q) THEN 0 ELSE 1
    BY DEF Calm, Inv, Tasks, Kept, SemWBack
<1>1. \A q \in Proc : q # p => (HoldsW(q)' <=> HoldsW(q))
    BY <1>0, OthersKept DEF HoldsW
<1>2. CASE TakeW(p) \/ Lock(p)
  <2>1. semW > 0 /\ semW' = semW - 1 /\ HoldsW(p)'
    <3>1. CASE TakeW(p)
        BY <1>0, <3>1 DEF TakeW, Goto, RestOK, HoldsW
    <3>2. CASE Lock(p)
        BY <1>0, <3>2 DEF Lock, Runs, Goto, RestOK, OnTask, HoldsW
    <3> QED BY <1>2, <3>1, <3>2
  <2>2. \A q \in Proc : ~HoldsW(q)
      BY <1>0, <2>1
  <2>3. OneW'
      BY <1>1, <2>2 DEF OneW
  <2>4. semW' = 0
      BY <1>0, <2>1, <2>2
  <2> QED BY <2>1, <2>3, <2>4 DEF SemWBack
<1>3. CASE Put(p) \/ (Fill(p) /\ task[p] = "exit")
  <2>1. semW' = semW + 1 /\ HoldsW(p) /\ ~HoldsW(p)'
    <3>1. CASE Put(p)
        BY <1>0, <3>1 DEF Put, Runs, Goto, RestOK, HoldsW
    <3>2. CASE Fill(p) /\ task[p] = "exit"
        BY <1>0, <3>2 DEF Fill, Runs, Goto, RestOK, HoldsW
    <3> QED BY <1>3, <3>1, <3>2
  <2>2. \A q \in Proc : HoldsW(q) => q = p
      BY <1>0, <2>1 DEF OneW
  <2>3. \A q \in Proc : ~HoldsW(q)'
      BY <1>1, <2>1, <2>2
  <2> QED BY <1>0, <2>1, <2>3 DEF SemWBack, OneW
<1>4. ASSUME semW' = semW, HoldsW(p)' <=> HoldsW(p) PROVE OneW' /\ SemWBack'
  <2>1. \A q \in Proc : HoldsW(q)' <=> HoldsW(q)
      BY <1>1, <1>4
  <2> QED BY <1>0, <1>4, <2>1 DEF SemWBack, OneW
<1>5. CASE Connect(p) \/ TakeR(p) \/ Yell(p) \/ TellPut(p) \/ TellSend(p) \/ ReadToTell(p) \/ Wipe(p)
           \/ (Fill(p) /\ task[p] # "exit")
  <2>1. semW' = semW /\ (HoldsW(p)' <=> HoldsW(p))
      BY <1>0, <1>5 DEF Connect, TakeR, Yell, TellPut, TellSend, ReadToTell, Wipe, Fill, Types, Runs, Goto, RestOK, memory,
         OnTask, HoldsW
  <2> QED BY <2>1, <1>4
<1>6. CASE ReadToEnter(p) \/ Look(p) \/ ReadToExit(p) \/ ReadToName(p)
  <2>1. semW' = semW /\ (HoldsW(p)' <=> HoldsW(p))
      BY <1>0, <1>6 DEF ReadToEnter, Look, ReadToExit, ReadToName, Types, Runs, Goto, RestOK, memory, OnTask, HoldsW
  <2> QED BY <2>1, <1>4
<1>7. CASE Send(p)
  <2>1. semW' = semW /\ pc[p] = "send" /\ pc'[p] \in {"leaving", "idle"}
      BY <1>0, <1>7 DEF Send, Runs, Goto, RestOK
  <2>2. HoldsW(p)' <=> HoldsW(p)
      BY <2>1 DEF HoldsW
  <2> QED BY <2>1, <2>2, <1>4
<1>8. CASE Leave(p)
  <2>1. semW' = semW /\ pc[p] = "leaving" /\ pc'[p] = "dead"
      BY <1>0, <1>8 DEF Leave, Dies, Runs, RestOK, memory
  <2>2. HoldsW(p)' <=> HoldsW(p)
      BY <2>1 DEF HoldsW
  <2> QED BY <2>1, <2>2, <1>4
<1>9. CASE getBroadcast(p) \/ getUserPipeSig(p)
  <2>1. semW' = semW /\ task' = task /\ pc' = pc
      BY <1>0, <1>9, HandlerMoves, HandlerStays
  <2>2. HoldsW(p)' <=> HoldsW(p)
      BY <2>1 DEF HoldsW
  <2> QED BY <2>1, <2>2, <1>4
<1> QED BY <1>0, <1>2, <1>3, <1>5, <1>6, <1>7, <1>8, <1>9, NobodyDies DEF Does, Step, Line

\* Who sends is heard by all, and tells one to give semR back, if there is one.
LEMMA SendsFirst ==
    ASSUME NEW p \in Proc, Calm(p), Send(p)
    PROVE  /\ InR(p) /\ pc'[p] \in {"leaving", "idle"}
           /\ \A q \in Proc : usr1'[q] = "post" => copy[p] # << >> /\ q = Poster(copy[p])
           /\ copy[p] # << >> => Poster(copy[p]) \in Proc /\ usr1'[Poster(copy[p])] = "post"
           /\ semR' = IF copy[p] = << >> THEN semR + 1 ELSE semR
<1>1. RestOK /\ copy[p] \in Seq(UserEntry) /\ OneR
    BY DEF Calm, Inv, Kept
<1>2. pc[p] = "send" /\ pc'[p] \in {"leaving", "idle"}
    BY <1>1 DEF Send, Runs, Goto, RestOK
<1>3. \A q \in Proc : usr1[q] # "post"
    BY <1>1, <1>2 DEF OneR, InR
<1>4. \A q \in Pids(copy[p]) : q # Nobody /\ Alive(q) /\ usr1[q] = "none"
    BY <1>2 DEF Calm, Drops, Writing, Addressees
<1>5. /\ semR' = IF copy[p] = << >> THEN semR + 1 ELSE semR
      /\ \A q \in Proc : usr1'[q] = IF q \in Pids(copy[p])
                                    THEN Raised(q, IF q = Poster(copy[p]) THEN "post" ELSE "show")
                                    ELSE usr1[q]
    BY DEF Send
<1>6. \A q \in Proc : usr1'[q] = "post" => q \in Pids(copy[p]) /\ q = Poster(copy[p])
    BY <1>3, <1>4, <1>5 DEF Raised
<1>7. \A q \in Pids(copy[p]) : copy[p] # << >>
    BY DEF Pids
<1>8. ASSUME copy[p] # << >> PROVE Poster(copy[p]) \in Pids(copy[p]) /\ Poster(copy[p]) \in Proc
  <2>1. Len(copy[p]) \in DOMAIN copy[p]
      BY <1>1, <1>8, EmptySeq, LenProperties
  <2>2. copy[p][Len(copy[p])] \in UserEntry
      BY <1>1, <2>1, ElementOfSeq, LenProperties
  <2> QED BY <1>4, <2>1, <2>2 DEF Poster, Pids, UserEntry
<1>9. ASSUME copy[p] # << >> PROVE usr1'[Poster(copy[p])] = "post"
    BY <1>4, <1>5, <1>8, <1>9 DEF Raised
<1> QED BY <1>2, <1>5, <1>6, <1>7, <1>8, <1>9 DEF InR

\* Only a broadcast tells anybody to give semR back.
LEMMA PostersKept ==
    ASSUME NEW p \in Proc, Does(p), ~Send(p), ~getBroadcast(p), NEW q \in Proc,
           ~Leave(p), ~Crashes(p), ~NoUser(p), ~Vanish(p), ~KilledInLogin(p)
    PROVE  usr1'[q] = "post" <=> usr1[q] = "post"
<1>1. CASE TellSend(p)
  <2>1. usr1'[q] = IF q = target[p] THEN Raised(q, "show") ELSE usr1[q]
      BY <1>1 DEF TellSend
  <2> QED BY <2>1 DEF Raised
<1>2. CASE Connect(p) \/ TakeR(p) \/ TakeW(p) \/ Put(p) \/ Lock(p) \/ Yell(p) \/ TellPut(p)
           \/ ReadToTell(p) \/ Wipe(p) \/ Fill(p)
    BY <1>2 DEF Connect, TakeR, TakeW, Put, Lock, Yell, TellPut, ReadToTell, Wipe, Fill, signals
<1>3. CASE ReadToEnter(p) \/ Look(p) \/ ReadToExit(p) \/ ReadToName(p) \/ getUserPipeSig(p)
    BY <1>3 DEF ReadToEnter, Look, ReadToExit, ReadToName, getUserPipeSig, signals
<1> QED BY <1>1, <1>2, <1>3 DEF Does, Step, Line

LEMMA SemRStep ==
    ASSUME NEW p \in Proc, Calm(p)
    PROVE  OneR' /\ SemRBack'
<1>0. /\ Inv /\ RestOK /\ Does(p) /\ OnTask(p) /\ OneR
      /\ semR = IF \E q \in Proc : HoldsR(q) THEN 0 ELSE 1
    BY DEF Calm, Inv, Tasks, Kept, SemRBack
<1>1. \A q \in Proc : q # p => (InR(q)' <=> InR(q))
    BY <1>0, OthersKept DEF InR
<1>2. ~NoUser(p) /\ ~Crashes(p) /\ ~Vanish(p) /\ ~KilledInLogin(p)
    BY NobodyDies
<1>3. CASE TakeR(p)
  <2>1. semR > 0 /\ semR' = semR - 1 /\ InR(p)' /\ usr1' = usr1
      BY <1>0, <1>3 DEF TakeR, Goto, RestOK, InR, signals
  <2>2. \A q \in Proc : ~InR(q) /\ usr1[q] # "post"
      BY <1>0, <2>1 DEF HoldsR
  <2>3. OneR'
      BY <1>1, <2>1, <2>2 DEF OneR
  <2>4. semR' = 0 /\ HoldsR(p)'
      BY <1>0, <2>1, <2>2 DEF HoldsR
  <2> QED BY <2>3, <2>4 DEF SemRBack
<1>4. CASE Send(p)
  <2>1. semR = 0 /\ InR(p) /\ \A q \in Proc : ~InR(q)'
    <3>1. InR(p) /\ ~InR(p)'
        BY <1>4, SendsFirst DEF InR
    <3>2. \A q \in Proc : q # p => ~InR(q)
        BY <1>0, <3>1 DEF OneR
    <3> QED BY <1>0, <1>1, <3>1, <3>2 DEF HoldsR
  <2>2. OneR'
      BY <1>4, <2>1, SendsFirst DEF OneR
  <2>3. CASE copy[p] = << >>
    <3>1. semR' = 1 /\ \A q \in Proc : ~HoldsR(q)'
        BY <1>4, <2>1, <2>3, SendsFirst DEF HoldsR
    <3> QED BY <2>2, <3>1 DEF SemRBack
  <2>4. CASE copy[p] # << >>
    <3>1. semR' = 0 /\ \E q \in Proc : HoldsR(q)'
        BY <1>4, <2>1, <2>4, SendsFirst DEF HoldsR
    <3> QED BY <2>2, <3>1 DEF SemRBack
  <2> QED BY <2>3, <2>4
<1>5. CASE getBroadcast(p)
  <2>1. /\ usr1[p] # "none" /\ usr1' = [usr1 EXCEPT ![p] = "none"]
        /\ semR' = IF usr1[p] = "post" THEN semR + 1 ELSE semR
      BY <1>5 DEF getBroadcast
  <2>2. \A q \in Proc : InR(q)' <=> InR(q)
      BY <1>5, HandlerStays DEF InR
  <2>3. \A q \in Proc : usr1'[q] = IF q = p THEN "none" ELSE usr1[q]
      BY <1>0, <2>1 DEF RestOK
  <2>4. OneR'
      BY <1>0, <2>2, <2>3 DEF OneR
  <2>5. CASE usr1[p] = "post"
    <3>1. \A q \in Proc : ~HoldsR(q)'
        BY <1>0, <2>2, <2>3, <2>5 DEF OneR, HoldsR
    <3>2. semR' = 1
        BY <1>0, <2>1, <2>5 DEF HoldsR
    <3> QED BY <2>4, <3>1, <3>2 DEF SemRBack
  <2>6. CASE usr1[p] # "post"
    <3>1. semR' = semR /\ \A q \in Proc : HoldsR(q)' <=> HoldsR(q)
        BY <2>1, <2>2, <2>3, <2>6 DEF HoldsR
    <3> QED BY <1>0, <2>4, <3>1 DEF SemRBack
  <2> QED BY <2>5, <2>6
<1>6. ASSUME semR' = semR, \A q \in Proc : InR(q)' <=> InR(q),
             \A q \in Proc : usr1'[q] = "post" <=> usr1[q] = "post"
      PROVE  OneR' /\ SemRBack'
  <2>1. OneR'
      BY <1>0, <1>6 DEF OneR
  <2>2. \A q \in Proc : HoldsR(q)' <=> HoldsR(q)
      BY <1>6 DEF HoldsR
  <2> QED BY <1>0, <1>6, <2>1, <2>2 DEF SemRBack
<1>7. CASE Leave(p)
  <2>1. /\ semR' = semR /\ usr1[p] = "none" /\ usr1' = [usr1 EXCEPT ![p] = "none"]
        /\ pc[p] = "leaving" /\ pc' = [pc EXCEPT ![p] = "dead"]
      BY <1>7 DEF Leave, Dies, Runs, memory
  <2>2. \A q \in Proc : InR(q)' <=> InR(q)
      BY <1>0, <2>1 DEF RestOK, InR
  <2>3. \A q \in Proc : usr1'[q] = usr1[q]
      BY <1>0, <2>1 DEF RestOK
  <2> QED BY <1>6, <2>1, <2>2, <2>3
<1>8. CASE ~TakeR(p) /\ ~Send(p) /\ ~getBroadcast(p) /\ ~Leave(p)
  <2>1. semR' = semR /\ (InR(p)' <=> InR(p))
    <3>1. CASE Connect(p) \/ TakeW(p) \/ Put(p) \/ Lock(p) \/ Yell(p) \/ TellPut(p)
               \/ TellSend(p) \/ ReadToTell(p) \/ Wipe(p) \/ Fill(p)
        BY <1>0, <3>1 DEF Connect, TakeW, Put, Lock, Yell, TellPut, TellSend, ReadToTell, Wipe, Fill, Types, Runs, Goto,
           RestOK, memory, InR
    <3>2. CASE ReadToEnter(p) \/ Look(p) \/ ReadToExit(p) \/ ReadToName(p)
        BY <1>0, <3>2 DEF ReadToEnter, Look, ReadToExit, ReadToName, Types, Runs, Goto, RestOK, memory, InR
    <3>3. CASE getUserPipeSig(p)
      <4>1. pc' = pc
          BY <3>3, HandlerStays
      <4> QED BY <3>3, <4>1 DEF getUserPipeSig, memory, InR
    <3> QED BY <1>0, <1>2, <1>8, <3>1, <3>2, <3>3 DEF Does, Step, Line
  <2>2. \A q \in Proc : usr1'[q] = "post" <=> usr1[q] = "post"
      BY <1>0, <1>2, <1>8, PostersKept
  <2> QED BY <1>1, <1>6, <2>1, <2>2
<1> QED BY <1>3, <1>4, <1>5, <1>7, <1>8

Harms == {"overlap", "death", "drop", "comma", "full", "interrupt"}
UntilHarm == mishaps \cap Harms = {} => Kept

LEMMA KeptStep ==
    ASSUME HInv, HInv', UntilHarm, NEW p \in Proc, Does(p), Record, mishaps' \cap Harms = {}
    PROVE  Kept'
<1>1. Calm(p)
  <2>1. Turn /\ Turn' /\ Plain(table) /\ Kept
    <3>1. "overlap" \notin mishaps /\ "overlap" \notin mishaps' /\ "comma" \notin mishaps /\ mishaps \cap Harms = {}
        BY Met DEF Harms
    <3>2. Turn'
        BY <3>1 DEF HInv, UntilOverlap
    <3> QED BY <3>1, <3>2 DEF HInv, UntilOverlap, UntilComma, Plains, UntilHarm
  <2>2. interrupted' = interrupted /\ ~Deaths /\ ~Drops /\ ~Fills
      BY Met DEF Harms
  <2> QED BY <2>1, <2>2 DEF Calm, HInv
<1> QED BY <1>1, EnrolmentStep, PlacedStep, SemWStep, SemRStep DEF Kept

LEMMA InitKept == Init => Kept
<1> SUFFICES ASSUME Init PROVE Kept
    OBVIOUS
<1>1. Stored = << >> /\ \A p \in Proc : ~Enrolled(p) /\ ~HoldsW(p) /\ ~HoldsR(p)
    BY DEF Init, Stored, Enrolled, HoldsW, HoldsR, InR
<1>2. Enrolment
    BY <1>1 DEF Enrolment, Pids
<1>3. SemWBack /\ SemRBack /\ OneW /\ OneR
    BY <1>1 DEF Init, SemWBack, SemRBack, OneW, OneR, HoldsR
<1>4. Placed
    BY DEF Init, Placed
<1> QED BY <1>2, <1>3, <1>4 DEF Kept

LEMMA StillKept ==
    ASSUME Kept, UNCHANGED vars
    PROVE  Kept'
<1>1. UNCHANGED <<table, semR, semW, pc, task, copy, usr1>>
    BY DEF vars, memory, local, signals
<1>2. Enrolment'
    BY <1>1 DEF Kept, Enrolment, Enrolled, Stored
<1>3. SemWBack' /\ SemRBack'
    BY <1>1 DEF Kept, SemWBack, SemRBack, HoldsW, HoldsR, InR
<1>4. OneW' /\ OneR' /\ Placed'
    BY <1>1 DEF Kept, OneW, OneR, Placed, Read, HoldsW, InR
<1> QED BY <1>2, <1>3, <1>4 DEF Kept

\* Between two lines nobody is missing from the table, nobody is left in it,
\* and both semaphores are free, however many processes were at it together,
\* unless one of the mishaps the code has no protection for has happened.
THEOREM TablesComplete == HSpec => []Complete
<1>1. HInit => UntilHarm
    BY InitKept DEF HInit, UntilHarm
<1>2. HInv /\ HInv' /\ UntilHarm /\ [HNext]_histories => UntilHarm'
  <2> SUFFICES ASSUME HInv, HInv', UntilHarm, [HNext]_histories, mishaps' \cap Harms = {}
               PROVE  Kept'
      BY DEF UntilHarm
  <2>1. CASE UNCHANGED histories
      BY <2>1, StillKept DEF UntilHarm, histories
  <2>2. CASE HNext
      BY <2>2, HDoes, KeptStep
  <2> QED BY <2>1, <2>2
<1>3. ASSUME HInv, UntilHarm PROVE Complete
  <2> SUFFICES ASSUME Busy = {}, mishaps \cap Harms = {}
               PROVE  /\ semR = 1 /\ semW = 1
                      /\ Pids(table) = {p \in Proc : pc[p] = "idle"}
                      /\ \A i \in DOMAIN table : uid[table[i].pid] = table[i].uid
      BY DEF Complete, Without, Harms
  <2>0. Kept /\ Inv /\ Apart
      BY <1>3 DEF UntilHarm, HInv, UntilOverlap, Turn, Harms
  <2>1. \A p \in Proc : pc[p] \in {"none", "idle", "dead"} /\ usr1[p] = "none"
      BY DEF Busy
  <2>2. \A p \in Proc : /\ ~HoldsW(p) /\ ~HoldsR(p)
                        /\ Enrolled(p) <=> pc[p] = "idle"
      BY <2>1 DEF HoldsW, HoldsR, InR, Enrolled
  <2>3. Stored = table
      BY <2>0, <2>1, StoredIs DEF StoredBy
  <2>4. semR = 1 /\ semW = 1
      BY <2>0, <2>2 DEF Kept, SemRBack, SemWBack
  <2>5. Pids(table) = {p \in Proc : pc[p] = "idle"}
      BY <2>0, <2>2, <2>3 DEF Kept, Enrolment
  <2>6. ASSUME NEW i \in DOMAIN table PROVE uid[table[i].pid] = table[i].uid
    <3>1. table[i].pid # Nobody
        BY <2>5, ProcAssumption DEF Pids
    <3> QED BY <2>0, <3>1 DEF Inv, TablesGood, Good
  <2> QED BY <2>4, <2>5, <2>6
<1> QED BY <1>1, <1>2, <1>3, HInvariance, PTL DEF HSpec
=============================================================================
