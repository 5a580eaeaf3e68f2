------------------------- MODULE NpMultiPipesProofs -------------------------
(***************************************************************************)
(* What holds of the user pipes of np_multi_proc for every set of uids and *)
(* every bound on the busy ones.                                           *)
(*                                                                         *)
(* As long as nothing has disturbed the pipes, the files in the directory  *)
(* are at every moment the pipes that are being made and those in a list   *)
(* whose ends both stay: Calm is inductive, and gives PipesAgree when      *)
(* everybody is idle.                                                      *)
(***************************************************************************)
EXTENDS NpMultiPipes, UserTableProofs

Piped == [from : Users, open : BOOLEAN]
Froms(s) == {s[i].from : i \in DOMAIN s}
AllOpen(s) == \A i \in DOMAIN s : s[i].open
OnceEach(s) == \A i, j \in DOMAIN s : s[i].from = s[j].from => i = j
Sound(s) == AllOpen(s) /\ OnceEach(s)

-----------------------------------------------------------------------------
(* Numbers and lists *)

\* A uid, the uid of a logout and nobody are three things.
LEMMA Numbers ==
    /\ Users \subseteq Nat /\ Users \subseteq Int /\ 0 \notin Users
    /\ \A u \in Users : u > 0 /\ -u < 0 /\ -u # 0 /\ u \in 1 .. 30
    /\ \A u, v \in Users : -u # v /\ (-u = -v => u = v)
<1>1. \A u \in Users : u \in Nat /\ u > 0 /\ -u < 0 /\ u \in 1 .. 30
    BY UsersAssumption
<1>2. ASSUME NEW u \in Users, NEW v \in Users PROVE -u # v /\ (-u = -v => u = v)
    BY <1>1
<1> QED BY <1>1, <1>2

LEMMA NameIsNumber == \A u, v \in Nat : Name(u, v) \in Nat
    BY DEF Name

LEMMA Elements ==
    ASSUME NEW s \in Seq(Piped)
    PROVE  /\ Len(s) \in Nat /\ DOMAIN s = 1 .. Len(s)
           /\ \A i \in DOMAIN s : s[i] \in Piped /\ s[i].from \in Users /\ s[i].open \in BOOLEAN
           /\ Froms(s) \subseteq Users
<1>1. Len(s) \in Nat /\ DOMAIN s = 1 .. Len(s) /\ \A i \in DOMAIN s : s[i] \in Piped
    BY ElementOfSeq, LenProperties
<1>2. \A i \in DOMAIN s : s[i].from \in Users /\ s[i].open \in BOOLEAN
    BY <1>1 DEF Piped
<1> QED BY <1>1, <1>2 DEF Froms

\* The handler puts the pipe it has opened in front.
LEMMA Prepended ==
    ASSUME NEW s \in Seq(Piped), NEW f \in Users, NEW o \in BOOLEAN
    PROVE  /\ Entry(f, o) \o s \in Seq(Piped)
           /\ Froms(Entry(f, o) \o s) = Froms(s) \cup {f}
           /\ o /\ f \notin Froms(s) /\ Sound(s) => Sound(Entry(f, o) \o s)
<1> DEFINE e == [from |-> f, open |-> o]
           a == Entry(f, o)
           t == a \o s
           n == 1
<1>1. a \in Seq(Piped) /\ n \in Nat /\ Len(a) = n
    BY DEF Entry, Piped
<1>2. n = 1 /\ a[1] = e
    BY DEF Entry
<1> HIDE DEF a, n
<1>3. /\ t \in Seq(Piped) /\ Len(t) = n + Len(s)
      /\ \A i \in 1 .. n : t[i] = a[i]
      /\ \A i \in (n + 1) .. (n + Len(s)) : t[i] = s[i - n]
    BY <1>1, ConcatElements
<1>4. e.from = f /\ e.open = o
    OBVIOUS
<1> HIDE DEF e, t
<1>5. Len(s) \in Nat /\ DOMAIN s = 1 .. Len(s) /\ DOMAIN t = 1 .. (1 + Len(s)) /\ t[1] = e
    BY <1>2, <1>3, Elements
<1>6. \A i \in DOMAIN t : i # 1 => i - 1 \in DOMAIN s /\ t[i] = s[i - 1]
    BY <1>2, <1>3, <1>5
<1>7. \A j \in DOMAIN s : j + 1 \in DOMAIN t /\ t[j + 1] = s[j]
  <2>1. ASSUME NEW j \in DOMAIN s PROVE j + 1 \in DOMAIN t /\ t[j + 1] = s[j]
    <3>1. j + 1 \in (n + 1) .. (n + Len(s)) /\ (j + 1) - n = j /\ j + 1 \in DOMAIN t
        BY <1>2, <1>5
    <3> QED BY <1>3, <3>1
  <2> QED BY <2>1
<1>8. Froms(t) = Froms(s) \cup {f}
  <2>1. \A i \in DOMAIN t : t[i].from = f \/ t[i].from \in Froms(s)
      BY <1>4, <1>5, <1>6 DEF Froms
  <2>2. \A j \in DOMAIN s : s[j].from \in Froms(t)
      BY <1>7 DEF Froms
  <2>3. f \in Froms(t)
    <3>1. 1 \in DOMAIN t
        BY <1>5
    <3> QED BY <1>4, <1>5, <3>1 DEF Froms
  <2> QED BY <2>1, <2>2, <2>3 DEF Froms
<1>9. ASSUME o, f \notin Froms(s), Sound(s) PROVE Sound(t)
  <2>1. AllOpen(t)
      BY <1>4, <1>5, <1>6, <1>9 DEF Sound, AllOpen
  <2>2. ASSUME NEW i \in DOMAIN t, NEW j \in DOMAIN t, t[i].from = t[j].from PROVE i = j
    <3>1. i = 1 <=> j = 1
        BY <1>4, <1>5, <1>6, <1>9, <2>2 DEF Froms
    <3>2. CASE i # 1
      <4>1. i - 1 = j - 1
          BY <1>6, <1>9, <2>2, <3>1, <3>2 DEF Sound, OnceEach
      <4>2. i \in Int /\ j \in Int
          BY <1>5
      <4> QED BY <4>1, <4>2
    <3> QED BY <3>1, <3>2
  <2> QED BY <2>1, <2>2 DEF Sound, OnceEach
<1> QED BY <1>3, <1>8, <1>9 DEF a, t

\* A list that loses the one entry of a user.
LEMMA Removed ==
    ASSUME NEW s \in Seq(Piped), NEW k \in DOMAIN s
    PROVE  /\ RemoveAt(s, k) \in Seq(Piped)
           /\ Sound(s) => Sound(RemoveAt(s, k)) /\ Froms(RemoveAt(s, k)) = Froms(s) \ {s[k].from}
<1> DEFINE t == RemoveAt(s, k)
<1>1. k \in 1 .. Len(s)
    BY Elements
<1>2. t \in Seq(Piped)
    BY <1>1, RemoveAtFacts
<1>3. PICK g \in [DOMAIN t -> DOMAIN s \ {k}] :
          /\ \A i \in DOMAIN t : t[i] = s[g[i]]
          /\ \A i, j \in DOMAIN t : g[i] = g[j] => i = j
    BY <1>1, RemoveAtKeeps
<1>4. \A j \in DOMAIN s \ {k} : \E i \in DOMAIN t : t[i] = s[j]
    BY <1>1, RemoveElements
<1> HIDE DEF t
<1>5. ASSUME Sound(s) PROVE Sound(t) /\ Froms(t) = Froms(s) \ {s[k].from}
  <2>1. \A i \in DOMAIN t : g[i] \in DOMAIN s /\ g[i] # k
      BY <1>3
  <2>2. AllOpen(t)
      BY <1>3, <1>5, <2>1 DEF Sound, AllOpen
  <2>3. OnceEach(t)
      BY <1>3, <1>5, <2>1 DEF Sound, OnceEach
  <2>4. \A i \in DOMAIN t : t[i].from \in Froms(s) /\ t[i].from # s[k].from
      BY <1>3, <1>5, <2>1 DEF Froms, Sound, OnceEach
  <2>5. \A j \in DOMAIN s : s[j].from # s[k].from => s[j].from \in Froms(t)
      BY <1>4 DEF Froms
  <2> QED BY <2>2, <2>3, <2>4, <2>5 DEF Froms, Sound
<1> QED BY <1>2, <1>5 DEF t

\* The scan of the list for a user who is in it finds its entry.
LEMMA FirstFacts ==
    ASSUME TypeOK, NEW u \in Users, NEW f, HasPipe(u, f)
    PROVE  First(u, f) \in DOMAIN entries[u] /\ entries[u][First(u, f)].from = f
<1> DEFINE s == entries[u]
           I == {i \in 1 .. Len(s) : s[i].from = f}
<1>1. s \in Seq(Piped)
    BY DEF TypeOK, Piped
<1>2. Len(s) \in Nat /\ DOMAIN s = 1 .. Len(s)
    BY <1>1, Elements
<1>3. I \in SUBSET Nat /\ I # {}
    BY <1>2 DEF HasPipe
<1>4. \E k \in I : \A j \in I : k <= j
    BY <1>3, LeastExists
<1>5. First(u, f) = Min(I)
    BY <1>3 DEF First, SelectInSeq
<1>6. Min(I) \in I
    BY <1>4 DEF Min
<1> QED BY <1>2, <1>5, <1>6

-----------------------------------------------------------------------------
(* Types *)

LEMMA PresentTypes ==
    ASSUME TypeOK, NEW u \in Users
    PROVE  /\ here[u] \in BOOLEAN /\ phase[u] \in Phases
           /\ reads[u] \in Users \cup {0} /\ writes[u] \in Users \cup {0}
           /\ handler[u] \in Users \cup {0}
           /\ pending[u] \in Users \cup {0} \cup {-v : v \in Users}
           /\ entries[u] \in Seq(Piped)
    BY DEF TypeOK, Piped

\* One more entry in front of a list, one entry less in a list.
LEMMA PrependTypes ==
    ASSUME TypeOK, NEW v \in Users, NEW o \in BOOLEAN, handler[v] # 0
    PROVE  Entry(handler[v], o) \o entries[v] \in Seq(Piped)
    BY PresentTypes, Prepended

LEMMA RemoveTypes ==
    ASSUME TypeOK, NEW u \in Users, NEW f
    PROVE  [entries EXCEPT ![u] = IF HasPipe(u, f) THEN RemoveAt(@, First(u, f)) ELSE @]
             \in [Users -> Seq(Piped)]
<1> DEFINE t == RemoveAt(entries[u], First(u, f))
<1>1. entries \in [Users -> Seq(Piped)]
    BY DEF TypeOK, Piped
<1>2. ASSUME HasPipe(u, f) PROVE t \in Seq(Piped)
  <2>1. First(u, f) \in DOMAIN entries[u] /\ entries[u] \in Seq(Piped)
      BY <1>2, FirstFacts, PresentTypes
  <2> QED BY <2>1, Removed
<1> HIDE DEF t
<1>3. [entries EXCEPT ![u] = IF HasPipe(u, f) THEN t ELSE @] \in [Users -> Seq(Piped)]
    BY <1>1, <1>2
<1> QED BY <1>3 DEF t

LEMMA BroadcastTypes ==
    ASSUME TypeOK
    PROVE  /\ \A v \in Users : Kept(v) \in Seq(Piped)
           /\ [v \in Users |-> Kept(v)] \in [Users -> Seq(Piped)]
           /\ [v \in Users |-> IF v \in Hit THEN 0 ELSE handler[v]] \in [Users -> Users \cup {0}]
           /\ orphan \ Hit \subseteq Users
<1>1. ASSUME NEW v \in Users PROVE Kept(v) \in Seq(Piped)
    BY PrependTypes, PresentTypes DEF Kept
<1> QED BY <1>1, PresentTypes DEF TypeOK

LEMMA GoOnTypes ==
    ASSUME TypeOK, NEW u \in Users, NEW next \in Phases
    PROVE  GoOn(u, next) \in [Users -> Phases]
    BY PresentTypes DEF GoOn, Phases

LEMMA UnlinkTypes ==
    ASSUME TypeOK, NEW names, Unlink(names)
    PROVE  fifo' \subseteq Nat /\ orphan' \subseteq Users
    BY DEF Unlink, Waiting, TypeOK

LEMMA TypesTypes ==
    ASSUME TypeOK, NEW u \in Users, NEW n \in Users \cup {0}, NEW m \in Users \cup {0}, Types(u, n, m)
    PROVE  TypeOK'
<1> DEFINE found == n # 0 /\ here[n] /\ HasPipe(u, n)
           next == IF m = 0 THEN "runs" ELSE "mkfifo"
<1>1. next \in Phases
    BY DEF Phases
<1>2. /\ reads' = [reads EXCEPT ![u] = IF found THEN n ELSE 0]
      /\ IF found THEN Broadcast /\ phase' = GoOn(u, next)
         ELSE phase' = [phase EXCEPT ![u] = next] /\ UNCHANGED <<entries, handler, orphan>>
      /\ disturbed' \in BOOLEAN
      /\ writes' = [writes EXCEPT ![u] = m]
      /\ UNCHANGED <<here, gone, pending, fifo>>
    BY DEF Types
<1> HIDE DEF found, next
<1>3. reads' \in [Users -> Users \cup {0}] /\ writes' \in [Users -> Users \cup {0}]
  <2> DEFINE r == IF found THEN n ELSE 0
  <2>1. r \in Users \cup {0}
      OBVIOUS
  <2>2. reads' = [reads EXCEPT ![u] = r]
      BY <1>2
  <2> HIDE DEF r
  <2> QED BY <1>2, <2>1, <2>2 DEF TypeOK
<1>4. phase' \in [Users -> Phases]
  <2>1. GoOn(u, next) \in [Users -> Phases] /\ [phase EXCEPT ![u] = next] \in [Users -> Phases]
      BY <1>1, GoOnTypes DEF TypeOK
  <2> QED BY <1>2, <2>1
<1>5. entries' \in [Users -> Seq(Piped)] /\ handler' \in [Users -> Users \cup {0}] /\ orphan' \subseteq Users
    BY <1>2, BroadcastTypes DEF TypeOK, Piped, Broadcast
<1> QED BY <1>2, <1>3, <1>4, <1>5 DEF TypeOK, Piped

LEMMA WriterTypes ==
    ASSUME TypeOK, NEW u \in Users, MakeFifo(u) \/ SignalReader(u) \/ OpenToWrite(u) \/ TellPiped(u)
    PROVE  TypeOK'
<1>1. CASE MakeFifo(u)
  <2>1. phase' \in [Users -> Phases]
      BY <1>1 DEF MakeFifo, TypeOK, Phases
  <2>2. fifo' \subseteq Nat
    <3>1. u \in Nat /\ writes[u] \in Nat
      <4>1. writes[u] \in Users \cup {0}
          BY DEF TypeOK
      <4>2. Users \cup {0} \subseteq Nat
          BY Numbers
      <4> QED BY <4>1, <4>2
    <3>2. Name(u, writes[u]) \in Nat
        BY <3>1, NameIsNumber
    <3> QED BY <1>1, <3>2 DEF MakeFifo, TypeOK
  <2> QED BY <1>1, <2>1, <2>2 DEF MakeFifo, TypeOK
<1>2. CASE SignalReader(u)
  <2>1. phase' \in [Users -> Phases]
      BY <1>2 DEF SignalReader, TypeOK, Phases
  <2>2. pending' \in [Users -> Users \cup {0} \cup {-v : v \in Users}] /\ disturbed' \in BOOLEAN
      BY <1>2 DEF SignalReader, TypeOK
  <2> QED BY <1>2, <2>1, <2>2 DEF SignalReader, TypeOK
<1>3. CASE OpenToWrite(u)
  <2> DEFINE there == ReadersAt(Name(u, writes[u]))
  <2>1. \A v \in there : v \in Users /\ handler[v] # 0
      BY DEF ReadersAt, Waiting
  <2>2. entries' = [v \in Users |-> IF v \in there THEN Entry(handler[v], TRUE) \o entries[v] ELSE entries[v]]
      BY <1>3 DEF OpenToWrite
  <2>3. phase' \in [Users -> Phases] /\ handler' \in [Users -> Users \cup {0}]
      BY <1>3, PresentTypes DEF OpenToWrite, TypeOK, Phases
  <2> HIDE DEF there
  <2>4. entries' \in [Users -> Seq(Piped)]
      BY <2>1, <2>2, PrependTypes, PresentTypes
  <2> QED BY <1>3, <2>3, <2>4 DEF OpenToWrite, TypeOK, Piped
<1>4. CASE TellPiped(u)
  <2>1. "runs" \in Phases
      BY DEF Phases
  <2>2. phase' \in [Users -> Phases]
      BY <1>4, <2>1, GoOnTypes DEF TellPiped
  <2>3. entries' \in [Users -> Seq(Piped)] /\ handler' \in [Users -> Users \cup {0}] /\ orphan' \subseteq Users
      BY <1>4, BroadcastTypes DEF TellPiped, Broadcast
  <2>4. disturbed' \in BOOLEAN
      BY <1>4 DEF TellPiped, TypeOK
  <2> QED BY <1>4, <2>2, <2>3, <2>4 DEF TellPiped, TypeOK, Piped
<1> QED BY <1>1, <1>2, <1>3, <1>4

LEMMA EndLineTypes ==
    ASSUME TypeOK, NEW u \in Users, EndLine(u)
    PROVE  TypeOK'
<1>1. /\ phase' = [phase EXCEPT ![u] = "idle"]
      /\ reads' = [reads EXCEPT ![u] = 0] /\ writes' = [writes EXCEPT ![u] = 0]
      /\ UNCHANGED <<here, gone, handler, pending, disturbed>>
    BY DEF EndLine
<1>2. phase' \in [Users -> Phases]
    BY <1>1 DEF TypeOK, Phases
<1>3. fifo' \subseteq Nat /\ orphan' \subseteq Users
    BY UnlinkTypes DEF EndLine, TypeOK
<1>4. entries' \in [Users -> Seq(Piped)]
  <2>1. entries' = entries \/ entries' = [entries EXCEPT ![u] = IF HasPipe(u, reads[u])
                                                                THEN RemoveAt(@, First(u, reads[u])) ELSE @]
      BY DEF EndLine
  <2>2. entries \in [Users -> Seq(Piped)]
      BY DEF TypeOK, Piped
  <2> QED BY <2>1, <2>2, RemoveTypes
<1> QED BY <1>1, <1>2, <1>3, <1>4 DEF TypeOK, Piped

LEMMA HandlerTypes ==
    ASSUME TypeOK, NEW u \in Users, getUserPipeSig(u)
    PROVE  TypeOK'
<1>1. /\ pending' = [pending EXCEPT ![u] = 0] /\ disturbed' \in BOOLEAN
      /\ UNCHANGED <<here, gone, reads, writes>>
    BY DEF getUserPipeSig
<1>2. pending' \in [Users -> Users \cup {0} \cup {-v : v \in Users}]
    BY <1>1 DEF TypeOK
<1>3. pending[u] \in Users \cup {0} \cup {-v : v \in Users}
    BY PresentTypes
<1>4. CASE pending[u] > 0
  <2>1. pending[u] \in Users /\ openReadFIFO(u, pending[u])
      BY <1>3, <1>4, Numbers DEF getUserPipeSig
  <2>2. phase' \in [Users -> Phases] /\ handler' \in [Users -> Users \cup {0}]
      BY <2>1, PresentTypes DEF openReadFIFO, TypeOK, Phases
  <2>3. orphan' \subseteq Users /\ fifo' \subseteq Nat
      BY <2>1 DEF openReadFIFO, TypeOK
  <2>4. entries' \in [Users -> Seq(Piped)]
    <3> DEFINE o == Name(pending[u], u) \in fifo
    <3>1. entries' = entries \/ entries' = [entries EXCEPT ![u] = Entry(pending[u], o) \o entries[u]]
        BY <2>1 DEF openReadFIFO, TypeOK
    <3>2. o \in BOOLEAN
        OBVIOUS
    <3> HIDE DEF o
    <3>3. Entry(pending[u], o) \o entries[u] \in Seq(Piped)
        BY <2>1, <3>2, PresentTypes, Prepended
    <3> QED BY <3>1, <3>3 DEF TypeOK, Piped
  <2> QED BY <1>1, <1>2, <2>2, <2>3, <2>4 DEF TypeOK, Piped
<1>5. CASE ~(pending[u] > 0)
  <2> DEFINE f == -pending[u]
  <2>1. closeReadFIFO(u, f)
      BY <1>5 DEF getUserPipeSig
  <2> HIDE DEF f
  <2>2. phase' \in [Users -> Phases] /\ handler' \in [Users -> Users \cup {0}]
      BY <2>1 DEF closeReadFIFO, TypeOK, Phases
  <2>3. orphan' \subseteq Users /\ fifo' \subseteq Nat
      BY <2>1 DEF closeReadFIFO, TypeOK, Waiting
  <2>4. entries' \in [Users -> Seq(Piped)]
      BY <2>1, RemoveTypes DEF closeReadFIFO
  <2> QED BY <1>1, <1>2, <2>2, <2>3, <2>4 DEF TypeOK, Piped
<1> QED BY <1>4, <1>5

LEMMA LogoutTypes ==
    ASSUME TypeOK, NEW u \in Users, ExitPipes(u) \/ ExitSignals(u) \/ ExitLeaves(u) \/ Login(u)
                                   \/ Vanish(u)
    PROVE  TypeOK'
<1>1. CASE ExitPipes(u)
  <2>1. phase' \in [Users -> Phases]
      BY <1>1 DEF ExitPipes, TypeOK, Phases
  <2>2. fifo' \subseteq Nat /\ orphan' \subseteq Users
      BY <1>1, UnlinkTypes DEF ExitPipes
  <2>3. disturbed' \in BOOLEAN
      BY <1>1 DEF ExitPipes
  <2> QED BY <1>1, <2>1, <2>2, <2>3 DEF ExitPipes, TypeOK
<1>2. CASE ExitSignals(u)
  <2>1. phase' \in [Users -> Phases]
      BY <1>2 DEF ExitSignals, TypeOK, Phases
  <2>2. pending' \in [Users -> Users \cup {0} \cup {-v : v \in Users}]
      BY <1>2 DEF ExitSignals, TypeOK
  <2>3. disturbed' \in BOOLEAN
      BY <1>2 DEF ExitSignals, TypeOK
  <2> QED BY <1>2, <2>1, <2>2, <2>3 DEF ExitSignals, TypeOK
<1>3. CASE ExitLeaves(u)
  <2>1. "idle" \in Phases /\ <<>> \in Seq(Piped)
      BY DEF Phases
  <2>2. phase' \in [Users -> Phases]
      BY <1>3, <2>1, GoOnTypes DEF ExitLeaves
  <2>3. entries' \in [Users -> Seq(Piped)]
      BY <1>3, <2>1, BroadcastTypes DEF ExitLeaves
  <2>4. handler' \in [Users -> Users \cup {0}] /\ orphan' \subseteq Users
      BY <1>3, BroadcastTypes DEF ExitLeaves
  <2>5. disturbed' \in BOOLEAN /\ here' \in [Users -> BOOLEAN]
      BY <1>3 DEF ExitLeaves, TypeOK
  <2> QED BY <1>3, <2>2, <2>3, <2>4, <2>5 DEF ExitLeaves, TypeOK, Piped
<1>4. CASE Login(u)
  <2>1. disturbed' \in BOOLEAN /\ here' \in [Users -> BOOLEAN]
      BY <1>4 DEF Login, TypeOK
  <2>2. "idle" \in Phases
      BY DEF Phases
  <2>3. phase' \in [Users -> Phases]
      BY <1>4, <2>2, GoOnTypes DEF Login
  <2>4. entries' \in [Users -> Seq(Piped)] /\ handler' \in [Users -> Users \cup {0}] /\ orphan' \subseteq Users
      BY <1>4, BroadcastTypes DEF Login, Broadcast
  <2> QED BY <1>4, <2>1, <2>3, <2>4 DEF Login, TypeOK, Piped
<1>5. CASE Vanish(u)
  <2>1. "idle" \in Phases /\ <<>> \in Seq(Piped)
      BY DEF Phases
  <2>2. /\ phase' \in [Users -> Phases] /\ handler' \in [Users -> Users \cup {0}]
        /\ reads' \in [Users -> Users \cup {0}] /\ writes' \in [Users -> Users \cup {0}]
      BY <1>5, <2>1 DEF Vanish, TypeOK
  <2>3. /\ pending' \in [Users -> Users \cup {0} \cup {-v : v \in Users}]
        /\ entries' \in [Users -> Seq(Piped)]
      BY <1>5, <2>1 DEF Vanish, TypeOK, Piped
  <2>4. gone' \subseteq Users /\ orphan' \subseteq Users /\ disturbed' \in BOOLEAN
      BY <1>5 DEF Vanish, TypeOK
  <2> QED BY <1>5, <2>2, <2>3, <2>4 DEF Vanish, TypeOK, Piped
<1> QED BY <1>1, <1>2, <1>3, <1>4, <1>5

LEMMA InitTypes == Init => TypeOK
<1>1. <<>> \in Seq(Piped) /\ "idle" \in Phases
    BY DEF Phases
<1> QED BY <1>1, ZenonT(30) DEF Init, TypeOK, Piped

LEMMA NextTypes == TypeOK /\ [Next]_vars => TypeOK'
<1> SUFFICES ASSUME TypeOK, [Next]_vars PROVE TypeOK'
    OBVIOUS
<1>1. CASE UNCHANGED vars
    BY <1>1 DEF vars, TypeOK
<1>2. CASE Next
  <2>1. PICK u \in Users :
            \/ \E n, m \in Users \cup {0} : Types(u, n, m)
            \/ ExitPipes(u) \/ Login(u) \/ Vanish(u) \/ Step(u)
      BY <1>2 DEF Next
  <2> QED BY <2>1, TypesTypes, WriterTypes, EndLineTypes, HandlerTypes, LogoutTypes DEF Step
<1> QED BY <1>1, <1>2

\* The variables of the user pipes keep their types.
THEOREM PipesTyped == Spec => []TypeOK
    BY InitTypes, NextTypes, PTL DEF Spec

-----------------------------------------------------------------------------
(* What holds as long as nothing has disturbed the pipes *)

\* A pipe is being made from its file on, until it is in the reader's list; an entry of
\* a list is stale when one of its ends is on its way out.
Making(u) == phase[u] \in {"signal", "open", "waits"}
Leaving(u) == phase[u] \in {"unlinked", "signalled"}
Stale(f, u) == Leaving(u) \/ phase[f] = "unlinked" \/ pending[u] = -f

Listed(f, u) == f \in Froms(entries[u])
Live(f, u) == Listed(f, u) /\ ~Stale(f, u)
Makes(f, u) == Making(f) /\ writes[f] = u
Pipe(f, u) == Live(f, u) \/ Makes(f, u)

\* Nobody is waited for in vain, and there is nothing of a user who is not there or has
\* ended.
Present == \A u \in Users : ~here[u] \/ u \in gone =>
    phase[u] = "idle" /\ handler[u] = 0 /\ pending[u] = 0 /\ Froms(entries[u]) = {}
Waits == orphan = {} /\ \A u \in Users : phase[u] = "waits" => handler[u] = 0

\* What the reader has of an announcement, for each phase of the writer, and the reverse.
Writers == \A u \in Users :
    /\ phase[u] \in {"mkfifo", "signal", "open", "waits"} => writes[u] \in Users
    /\ Making(u) => here[writes[u]]
    /\ phase[u] = "signal" => pending[writes[u]] # u /\ handler[writes[u]] # u
    /\ phase[u] = "open" => pending[writes[u]] = u \/ handler[writes[u]] = u
    /\ phase[u] = "open" => pending[writes[u]] # u \/ handler[writes[u]] # u
    /\ phase[u] = "waits" => pending[writes[u]] = u /\ handler[writes[u]] # u
Announced == \A f, u \in Users :
    /\ pending[u] = f => phase[f] \in {"open", "waits"} /\ writes[f] = u
    /\ handler[u] = f => phase[f] = "open" /\ writes[f] = u

\* A list has one open entry for each user who has piped; who is gone leaves it soon.
Lists == \A u \in Users : Sound(entries[u])
Ends == \A f, u \in Users :
    /\ Listed(f, u) => here[f] \/ pending[u] = -f
    /\ Live(f, u) => ~Leaving(f)

\* The files are the pipes, each with a name of its own.
Files ==
    /\ \A n \in fifo : \E f, u \in Users : Pipe(f, u) /\ n = Name(f, u)
    /\ \A f, u \in Users : Pipe(f, u) => Name(f, u) \in fifo
    /\ \A f, u, g, v \in Users : Pipe(f, u) /\ Pipe(g, v) /\ Name(f, u) = Name(g, v) => f = g /\ u = v
Fresh == \A f, u \in Users : Makes(f, u) => ~Listed(f, u)

\* A line reads a pipe that is there.
Readers == \A u \in Users : reads[u] # 0 => phase[u] # "idle" /\ Live(reads[u], u)

\* A logout goes on while everybody else is idle.
Leavers == \A u, v \in Users :
    /\ Leaving(u) /\ v # u => phase[v] = "idle"
    /\ phase[u] = "unlinked" => pending[v] = 0
    /\ phase[u] = "signalled" => pending[v] = 0 \/ pending[v] = -u
    /\ pending[v] = -u => phase[u] = "signalled" \/ ~here[u]

Calm ==
    /\ Present /\ Waits /\ Writers /\ Announced /\ Lists
    /\ Ends /\ Files /\ Fresh /\ Readers /\ Leavers

LEMMA InitCalm == Init => Calm
<1> SUFFICES ASSUME Init PROVE Calm
    OBVIOUS
<1>1. \A u \in Users : /\ here[u] /\ u \notin gone /\ phase[u] = "idle" /\ handler[u] = 0 /\ pending[u] = 0
                       /\ reads[u] = 0 /\ writes[u] = 0 /\ entries[u] = <<>>
    BY DEF Init
<1>2. Froms(<<>>) = {} /\ Sound(<<>>) /\ fifo = {} /\ orphan = {}
    BY DEF Init, Froms, Sound, AllOpen, OnceEach
<1>3. \A u \in Users : ~Making(u) /\ ~Leaving(u) /\ \A f \in Users : ~Listed(f, u) /\ ~Pipe(f, u)
    BY <1>1, <1>2 DEF Making, Leaving, Listed, Pipe, Live, Makes
<1>4. Present /\ Waits /\ Lists /\ Readers
    BY <1>1, <1>2 DEF Present, Waits, Lists, Readers
<1>5. Writers /\ Announced
    BY <1>1, <1>3, Numbers DEF Writers, Announced, Making
<1>6. Ends /\ Files /\ Fresh
    BY <1>2, <1>3 DEF Ends, Files, Fresh, Pipe, Live, Makes
<1>7. Leavers
    BY <1>1, <1>3, Numbers DEF Leavers, Leaving
<1> QED BY <1>4, <1>5, <1>6, <1>7 DEF Calm

LEMMA DisturbedStays == TypeOK /\ disturbed /\ [Next]_vars => disturbed'
<1> SUFFICES ASSUME TypeOK, disturbed, [Next]_vars PROVE disturbed'
    OBVIOUS
<1>1. CASE UNCHANGED vars
    BY <1>1 DEF vars
<1>2. CASE Next
  <2>1. PICK u \in Users :
            \/ \E n, m \in Users \cup {0} : Types(u, n, m)
            \/ ExitPipes(u) \/ Login(u) \/ Vanish(u) \/ Step(u)
      BY <1>2 DEF Next
  <2>2. ~ExitPipes(u) /\ ~Login(u) /\ ~Vanish(u)
      BY DEF ExitPipes, Login, Vanish, MayAct
  <2>3. Step(u)
      BY <2>1, <2>2 DEF Types, MayAct
  <2>4. MakeFifo(u) \/ OpenToWrite(u) \/ EndLine(u) => disturbed'
      BY DEF MakeFifo, OpenToWrite, EndLine
  <2>5. SignalReader(u) \/ TellPiped(u) \/ getUserPipeSig(u) => disturbed'
      BY DEF SignalReader, TellPiped, getUserPipeSig
  <2>6. ExitSignals(u) \/ ExitLeaves(u) => disturbed'
      BY DEF ExitSignals, ExitLeaves
  <2> QED BY <2>3, <2>4, <2>5, <2>6 DEF Step
<1> QED BY <1>1, <1>2

\* A broadcast that finds nobody waiting changes nothing.
LEMMA Quiet ==
    ASSUME TypeOK, Hit = {}
    PROVE  /\ [v \in Users |-> Kept(v)] = entries
           /\ \A v \in Users : Kept(v) = entries[v]
           /\ [v \in Users |-> IF v \in Hit THEN 0 ELSE handler[v]] = handler
           /\ orphan \ Hit = orphan
           /\ \A u \in Users, next \in Phases : GoOn(u, next) = [phase EXCEPT ![u] = next]
<1>1. \A v \in Users : Kept(v) = entries[v]
    BY DEF Kept
<1>2. [v \in Users |-> Kept(v)] = entries
    BY <1>1 DEF TypeOK
<1>3. [v \in Users |-> IF v \in Hit THEN 0 ELSE handler[v]] = handler
    BY DEF TypeOK
<1>4. \A u \in Users, next \in Phases : GoOn(u, next) = [phase EXCEPT ![u] = next]
    BY DEF TypeOK, GoOn
<1> QED BY <1>1, <1>2, <1>3, <1>4

-----------------------------------------------------------------------------
(* Every step keeps what holds: a line *)

\* The pipes as they were leave the files as they were.
LEMMA FilesKept ==
    ASSUME Files, fifo' = fifo, \A f, u \in Users : Pipe(f, u)' <=> Pipe(f, u)
    PROVE  Files'
    BY DEF Files

\* Whoever is in a line is alone with those who are: nobody logs out meanwhile.
LEMMA NobodyLeaves ==
    ASSUME Calm, NEW u \in Users, phase[u] # "idle", ~Leaving(u)
    PROVE  \A v \in Users : ~Leaving(v)
    BY DEF Calm, Leavers

LEMMA TypesCalm ==
    ASSUME TypeOK, Calm, NEW u \in Users, NEW n \in Users \cup {0}, NEW m \in Users \cup {0},
           Types(u, n, m), ~disturbed'
    PROVE  Calm'
<1> DEFINE found == n # 0 /\ here[n] /\ HasPipe(u, n)
           next == IF m = 0 THEN "runs" ELSE "mkfifo"
           r == IF found THEN n ELSE 0
<1>1. /\ Ready(u) /\ phase[u] = "idle" /\ Exiting = {} /\ (found => Hit = {})
      /\ reads' = [reads EXCEPT ![u] = r] /\ writes' = [writes EXCEPT ![u] = m]
      /\ UNCHANGED <<here, gone, pending, fifo>>
    BY DEF Types, MayAct
<1>2. next \in {"runs", "mkfifo"} /\ (next = "mkfifo" => m \in Users)
    OBVIOUS
<1>3. r # 0 => r \in Users /\ Listed(r, u)
    BY DEF HasPipe, Listed, Froms
<1>4. entries' = entries /\ handler' = handler /\ orphan' = orphan /\ phase' = [phase EXCEPT ![u] = next]
  <2>1. CASE found
    <3>1. Broadcast /\ phase' = GoOn(u, next) /\ Hit = {}
        BY <1>1, <2>1 DEF Types
    <3>2. next \in Phases
        BY <1>2 DEF Phases
    <3> HIDE DEF next
    <3> QED BY <3>1, <3>2, Quiet DEF Broadcast
  <2>2. CASE ~found
      BY <2>2 DEF Types
  <2> QED BY <2>1, <2>2
<1> HIDE DEF found, next, r
<1>5. /\ phase'[u] = next /\ reads'[u] = r /\ writes'[u] = m
      /\ \A v \in Users \ {u} : phase'[v] = phase[v] /\ reads'[v] = reads[v] /\ writes'[v] = writes[v]
    BY <1>1, <1>4 DEF TypeOK
<1>6. here[u] /\ u \notin gone /\ handler[u] = 0 /\ pending[u] = 0
    BY <1>1 DEF Ready, Alive
<1>7. \A v \in Users : ~Leaving(v) /\ ~Leaving(v)' /\ phase[v] # "unlinked" /\ phase'[v] # "unlinked"
    BY <1>1, <1>2, <1>5 DEF Exiting, Leaving
<1>8. \A v \in Users : (Making(v)' <=> Making(v)) /\ (Making(v) => v # u)
    BY <1>1, <1>2, <1>5 DEF Making
<1>9. \A f, v \in Users : /\ Listed(f, v)' <=> Listed(f, v)
                          /\ Live(f, v)' <=> Live(f, v)
                          /\ Makes(f, v)' <=> Makes(f, v)
    BY <1>1, <1>4, <1>5, <1>7, <1>8 DEF Listed, Live, Stale, Makes
<1>10. Present' /\ Waits' /\ Lists'
    BY <1>1, <1>2, <1>4, <1>5, <1>6 DEF Calm, Present, Waits, Lists
<1>11. Writers'
    BY <1>1, <1>2, <1>4, <1>5, <1>8 DEF Calm, Writers
<1>12. Announced'
    BY <1>1, <1>4, <1>5 DEF Calm, Announced
<1>13. Ends' /\ Fresh'
    BY <1>1, <1>4, <1>7, <1>9 DEF Calm, Ends, Fresh
<1>14. Files'
    BY <1>1, <1>9, FilesKept DEF Calm, Pipe
<1>15. Readers'
  <2>1. r # 0 => Live(r, u)
      BY <1>3, <1>6, <1>7, Numbers DEF Live, Stale
  <2>2. phase'[u] # "idle"
      BY <1>2, <1>5
  <2>3. \A v \in Users : reads[v] # 0 => reads[v] \in Users
      BY PresentTypes
  <2> QED BY <1>3, <1>5, <1>9, <2>1, <2>2, <2>3 DEF Calm, Readers
<1>16. Leavers'
    BY <1>1, <1>7 DEF Calm, Leavers, Leaving
<1> QED BY <1>10, <1>11, <1>12, <1>13, <1>14, <1>15, <1>16 DEF Calm

LEMMA MakeFifoCalm ==
    ASSUME TypeOK, Calm, NEW u \in Users, MakeFifo(u)
    PROVE  Calm'
<1> DEFINE m == writes[u]
           made == here[m] /\ Name(u, m) \notin fifo
<1>1. /\ here[u] /\ u \notin gone /\ handler[u] = 0 /\ pending[u] = 0 /\ phase[u] = "mkfifo" /\ m \in Users
      /\ UNCHANGED <<here, gone, reads, writes, handler, pending, entries, orphan>>
    BY DEF MakeFifo, Ready, Alive, Calm, Writers
<1>2. /\ phase'[u] = IF made THEN "signal" ELSE "runs"
      /\ \A v \in Users \ {u} : phase'[v] = phase[v]
      /\ fifo' = IF made THEN fifo \cup {Name(u, m)} ELSE fifo
    BY DEF MakeFifo, TypeOK
<1>3. \A v \in Users : ~Leaving(v) /\ ~Leaving(v)' /\ phase[v] # "unlinked" /\ phase'[v] # "unlinked"
    BY <1>1, <1>2, NobodyLeaves DEF Leaving
<1>4. /\ \A v \in Users \ {u} : Making(v)' <=> Making(v)
      /\ ~Making(u) /\ (Making(u)' <=> made)
    BY <1>1, <1>2 DEF Making
<1>5. \A f, v \in Users : /\ Listed(f, v)' <=> Listed(f, v)
                          /\ Live(f, v)' <=> Live(f, v)
                          /\ Makes(f, v)' <=> Makes(f, v) \/ (made /\ f = u /\ v = m)
    BY <1>1, <1>2, <1>3, <1>4 DEF Listed, Live, Stale, Makes
<1>6. made => ~Listed(u, m)
  <2>1. Listed(u, m) => Live(u, m)
      BY <1>1, <1>3 DEF Live, Stale, Calm, Leavers
  <2> QED BY <1>1, <2>1 DEF Calm, Files, Pipe
<1>7. Present' /\ Waits' /\ Lists'
    BY <1>1, <1>2 DEF Calm, Present, Waits, Lists
<1>8. Writers'
  <2>1. pending[m] # u /\ handler[m] # u
      BY <1>1 DEF Calm, Announced
  <2> QED BY <1>1, <1>2, <1>4, <2>1 DEF Calm, Writers
<1>9. Announced'
    BY <1>1, <1>2 DEF Calm, Announced
<1>10. Ends' /\ Fresh'
    BY <1>1, <1>3, <1>5, <1>6 DEF Calm, Ends, Fresh
<1>11. Files'
  <2>1. CASE made
    <3>1. \A f, v \in Users : Pipe(f, v)' <=> Pipe(f, v) \/ (f = u /\ v = m)
        BY <1>5, <2>1 DEF Pipe
    <3>2. \A f, v \in Users : Pipe(f, v) => Name(f, v) # Name(u, m)
        BY <2>1 DEF Calm, Files
    <3>3. fifo' = fifo \cup {Name(u, m)}
        BY <1>2, <2>1
    <3> QED BY <1>1, <3>1, <3>2, <3>3 DEF Calm, Files
  <2>2. CASE ~made
      BY <1>2, <1>5, <2>2, FilesKept DEF Calm, Pipe
  <2> QED BY <2>1, <2>2
<1>12. Readers'
  <2>1. \A v \in Users : reads[v] # 0 => reads[v] \in Users
      BY PresentTypes
  <2> QED BY <1>1, <1>2, <1>5, <2>1 DEF Calm, Readers
<1>13. Leavers'
    BY <1>1, <1>3 DEF Calm, Leavers, Leaving
<1> QED BY <1>7, <1>8, <1>9, <1>10, <1>11, <1>12, <1>13 DEF Calm

LEMMA SignalReaderCalm ==
    ASSUME TypeOK, Calm, NEW u \in Users, SignalReader(u), ~disturbed'
    PROVE  Calm'
<1> DEFINE m == writes[u]
<1>1. /\ here[u] /\ u \notin gone /\ phase[u] = "signal" /\ m \in Users /\ here[m] /\ m \notin gone /\ pending[m] = 0
      /\ UNCHANGED <<here, gone, reads, writes, handler, entries, fifo, orphan>>
    BY DEF SignalReader, Ready, Alive, Calm, Writers
<1>2. /\ phase'[u] = "open" /\ pending'[m] = u
      /\ \A v \in Users \ {u} : phase'[v] = phase[v]
      /\ \A v \in Users \ {m} : pending'[v] = pending[v]
    BY <1>1 DEF SignalReader, TypeOK
<1>3. \A v \in Users : ~Leaving(v) /\ ~Leaving(v)' /\ phase[v] # "unlinked" /\ phase'[v] # "unlinked"
    BY <1>1, <1>2, NobodyLeaves DEF Leaving
<1>4. \A v \in Users : Making(v)' <=> Making(v)
    BY <1>1, <1>2 DEF Making
<1>5. \A f, v \in Users : /\ pending[v] = -f <=> pending'[v] = -f
                          /\ Listed(f, v)' <=> Listed(f, v)
    BY <1>1, <1>2, Numbers DEF Listed
<1>6. \A f, v \in Users : (Live(f, v)' <=> Live(f, v)) /\ (Makes(f, v)' <=> Makes(f, v))
    BY <1>1, <1>2, <1>3, <1>4, <1>5 DEF Live, Stale, Makes
<1>7. Present' /\ Waits' /\ Lists'
    BY <1>1, <1>2 DEF Calm, Present, Waits, Lists
<1>8. Writers'
  <2>1. handler[m] # u /\ u # 0
      BY <1>1, Numbers DEF Calm, Writers
  <2>2. ASSUME NEW v \in Users, v # u
        PROVE  /\ phase[v] = "signal" => pending'[writes[v]] # v
               /\ phase[v] = "open" => (pending'[writes[v]] = v <=> pending[writes[v]] = v)
               /\ phase[v] = "waits" => pending'[writes[v]] = v
    <3>1. writes[v] = m => phase[v] # "waits" /\ (phase[v] = "open" => handler[m] = v)
        BY <1>1, <2>2, Numbers DEF Calm, Writers
    <3>2. phase[v] \in {"signal", "open", "waits"} => writes[v] \in Users
        BY DEF Calm, Writers
    <3>3. CASE writes[v] = m
        BY <1>1, <1>2, <2>2, <3>1, <3>3, Numbers DEF Calm, Writers
    <3>4. CASE writes[v] # m
        BY <1>2, <3>2, <3>4 DEF Calm, Writers
    <3> QED BY <3>3, <3>4
  <2>3. ASSUME NEW v \in Users, v # u
        PROVE  /\ phase[v] \in {"mkfifo", "signal", "open", "waits"} => writes[v] \in Users
               /\ Making(v) => here[writes[v]]
               /\ phase[v] = "signal" => handler[writes[v]] # v
               /\ phase[v] = "open" => pending[writes[v]] = v \/ handler[writes[v]] = v
               /\ phase[v] = "open" => pending[writes[v]] # v \/ handler[writes[v]] # v
               /\ phase[v] = "waits" => handler[writes[v]] # v
      BY DEF Calm, Writers
  <2> QED BY <1>1, <1>2, <1>4, <2>1, <2>2, <2>3 DEF Writers
<1>9. Announced'
    BY <1>1, <1>2 DEF Calm, Announced
<1>10. Ends' /\ Fresh'
    BY <1>1, <1>3, <1>5, <1>6 DEF Calm, Ends, Fresh
<1>11. Files'
    BY <1>1, <1>6, FilesKept DEF Calm, Pipe
<1>12. Readers'
  <2>1. \A v \in Users : reads[v] # 0 => reads[v] \in Users
      BY PresentTypes
  <2> QED BY <1>1, <1>2, <1>6, <2>1 DEF Calm, Readers
<1>13. Leavers'
    BY <1>1, <1>3, <1>5 DEF Calm, Leavers, Leaving
<1> QED BY <1>7, <1>8, <1>9, <1>10, <1>11, <1>12, <1>13 DEF Calm

\* The reader who waits is the one who is announced, and waits for this writer.
LEMMA ReaderThere ==
    ASSUME TypeOK, Calm, NEW u \in Users, phase[u] = "open"
    PROVE  /\ Name(u, writes[u]) \in fifo
           /\ ReadersAt(Name(u, writes[u])) = {v \in {writes[u]} : handler[v] = u}
<1> DEFINE m == writes[u]
           name == Name(u, m)
<1>1. m \in Users /\ Makes(u, m)
    BY DEF Calm, Writers, Makes, Making
<1>2. name \in fifo
    BY <1>1 DEF Calm, Files, Pipe
<1>3. ASSUME NEW v \in ReadersAt(name) PROVE v = m /\ handler[v] = u
  <2>1. v \in Users /\ handler[v] # 0 /\ Name(handler[v], v) = name
      BY DEF ReadersAt, Waiting, WaitsAt
  <2>2. handler[v] \in Users
      BY <2>1, PresentTypes
  <2>3. Makes(handler[v], v)
      BY <2>1, <2>2 DEF Calm, Announced, Makes, Making
  <2> QED BY <1>1, <2>1, <2>2, <2>3 DEF Calm, Files, Pipe
<1>4. ASSUME handler[m] = u PROVE m \in ReadersAt(name)
  <2>1. handler[m] # 0 /\ m \notin orphan
      BY <1>4, Numbers DEF Calm, Waits
  <2> QED BY <1>1, <1>4, <2>1 DEF ReadersAt, Waiting, WaitsAt
<1> QED BY <1>2, <1>3, <1>4

LEMMA OpenToWriteCalm ==
    ASSUME TypeOK, Calm, NEW u \in Users, OpenToWrite(u)
    PROVE  Calm'
<1> DEFINE m == writes[u]
           t == Entry(u, TRUE) \o entries[m]
           there == ReadersAt(Name(u, m))
<1>1. /\ here[u] /\ u \notin gone /\ handler[u] = 0 /\ pending[u] = 0 /\ phase[u] = "open" /\ m \in Users /\ here[m]
      /\ UNCHANGED <<here, gone, reads, writes, pending, fifo, orphan>>
    BY DEF OpenToWrite, Ready, Alive, Calm, Writers, Making
<1>2. Name(u, m) \in fifo /\ there = {v \in {m} : handler[v] = u}
    BY <1>1, ReaderThere
<1>3. /\ phase' = [phase EXCEPT ![u] = IF there = {} THEN "waits" ELSE "piped"]
      /\ entries' = [v \in Users |-> IF v \in there THEN Entry(handler[v], TRUE) \o entries[v] ELSE entries[v]]
      /\ handler' = [v \in Users |-> IF v \in there THEN 0 ELSE handler[v]]
    BY <1>2 DEF OpenToWrite
<1> HIDE DEF there
<1>4. \A v \in Users : ~Leaving(v) /\ phase[v] # "unlinked"
    BY <1>1, NobodyLeaves DEF Leaving
<1>5. Makes(u, m) /\ ~Listed(u, m) /\ m # u /\ pending[m] # -u
  <2>1. Makes(u, m)
      BY <1>1 DEF Makes, Making
  <2>2. pending[m] = u \/ handler[m] = u
      BY <1>1 DEF Calm, Writers
  <2>3. m # u
      BY <1>1, <2>2, Numbers
  <2>4. pending[m] # -u
      BY <1>1 DEF Calm, Leavers
  <2> QED BY <1>1, <2>1, <2>3, <2>4 DEF Calm, Fresh
<1>6. \A v \in Users \ {u} : phase'[v] = phase[v]
    BY <1>3 DEF TypeOK
<1>7. \A v \in Users : reads[v] # 0 => reads[v] \in Users
    BY PresentTypes
<1>8. CASE handler[m] = u
  <2>1. there = {m}
      BY <1>2, <1>8
  <2>2. /\ phase'[u] = "piped" /\ entries'[m] = t /\ handler'[m] = 0
        /\ \A v \in Users \ {m} : entries'[v] = entries[v] /\ handler'[v] = handler[v]
      BY <1>1, <1>3, <1>8, <2>1 DEF TypeOK
  <2>3. Froms(t) = Froms(entries[m]) \cup {u} /\ Sound(t)
    <3>1. entries[m] \in Seq(Piped)
        BY <1>1, PresentTypes
    <3> QED BY <1>1, <1>5, <3>1, Prepended DEF Calm, Lists, Listed
  <2> HIDE DEF t
  <2>4. \A v \in Users : ~Leaving(v)' /\ phase'[v] # "unlinked"
      BY <1>4, <1>6, <2>2 DEF Leaving
  <2>5. \A v \in Users : Making(v)' <=> Making(v) /\ v # u
      BY <1>1, <1>6, <2>2 DEF Making
  <2>6. \A f, v \in Users : /\ Listed(f, v)' <=> Listed(f, v) \/ (f = u /\ v = m)
                            /\ Makes(f, v)' <=> Makes(f, v) /\ f # u
      BY <1>1, <2>2, <2>3, <2>5 DEF Listed, Makes
  <2>7. \A f, v \in Users : Live(f, v)' <=> Live(f, v) \/ (f = u /\ v = m)
      BY <1>1, <1>4, <1>5, <2>4, <2>6 DEF Live, Stale
  <2>8. \A f, v \in Users : Pipe(f, v)' <=> Pipe(f, v)
      BY <1>1, <1>5, <2>6, <2>7 DEF Pipe, Makes
  <2>9. Present'
    <3>1. \A v \in Users : ~here[v] \/ v \in gone => v # u /\ v # m
        BY <1>1, <1>8, Numbers DEF Calm, Present
    <3> QED BY <1>1, <1>6, <2>2, <3>1 DEF Calm, Present
  <2>10. Waits' /\ Lists'
      BY <1>1, <1>6, <2>2, <2>3 DEF Calm, Waits, Lists
  <2>11. Writers'
    <3>1. ASSUME NEW v \in Users, v # u, writes[v] = m PROVE phase[v] \notin {"open", "waits"} \/ pending[m] = v
        BY <1>8, <3>1 DEF Calm, Writers
    <3>2. \A v \in Users : v # u => phase'[v] = phase[v] /\ (Making(v)' <=> Making(v))
        BY <1>6, <2>5
    <3>3. \A v \in Users : v # 0 /\ (handler'[v] = 0 <=> handler[v] = 0 \/ v = m)
        BY <2>2, Numbers
    <3>4. \A v \in Users : writes[v] \in Users =>
              handler'[writes[v]] = IF writes[v] = m THEN 0 ELSE handler[writes[v]]
        BY <2>2
    <3> QED BY <1>1, <1>8, <2>2, <2>5, <3>1, <3>2, <3>3, <3>4, SMTT(30) DEF Calm, Writers
  <2>12. Announced'
    <3>1. pending[m] # u
        BY <1>1, <1>8 DEF Calm, Writers
    <3> QED BY <1>1, <1>6, <2>2, <3>1, Numbers DEF Calm, Announced
  <2>13. Ends'
      BY <1>1, <2>4, <2>6 DEF Calm, Ends
  <2>14. Fresh'
      BY <2>6 DEF Calm, Fresh
  <2>15. Files'
      BY <1>1, <2>8, FilesKept DEF Calm
  <2>16. Readers'
      BY <1>1, <1>6, <1>7, <2>2, <2>7 DEF Calm, Readers
  <2>17. Leavers'
      BY <1>1, <2>4 DEF Calm, Leavers, Leaving
  <2> QED BY <2>9, <2>10, <2>11, <2>12, <2>13, <2>14, <2>15, <2>16, <2>17 DEF Calm
<1>9. CASE handler[m] # u
  <2>1. there = {}
      BY <1>2, <1>9
  <2>2. phase'[u] = "waits" /\ entries' = entries /\ handler' = handler
      BY <1>3, <2>1 DEF TypeOK
  <2>3. pending[m] = u
      BY <1>1, <1>9 DEF Calm, Writers
  <2>4. \A v \in Users : ~Leaving(v)' /\ phase'[v] # "unlinked" /\ (Making(v)' <=> Making(v))
      BY <1>1, <1>4, <1>6, <2>2 DEF Leaving, Making
  <2>5. \A f, v \in Users : /\ Listed(f, v)' <=> Listed(f, v)
                            /\ Makes(f, v)' <=> Makes(f, v)
                            /\ Live(f, v)' <=> Live(f, v)
      BY <1>1, <1>4, <2>2, <2>4 DEF Listed, Makes, Live, Stale
  <2>6. Present' /\ Waits' /\ Lists'
      BY <1>1, <1>6, <2>2 DEF Calm, Present, Waits, Lists
  <2>7. Writers'
      BY <1>1, <1>6, <1>9, <2>2, <2>3, <2>4 DEF Calm, Writers
  <2>8. Announced'
      BY <1>1, <1>6, <1>9, <2>2 DEF Calm, Announced
  <2>9. Ends' /\ Fresh'
      BY <1>1, <2>4, <2>5 DEF Calm, Ends, Fresh
  <2>10. Files'
      BY <1>1, <2>5, FilesKept DEF Calm, Pipe
  <2>11. Readers'
      BY <1>1, <1>6, <1>7, <2>2, <2>5 DEF Calm, Readers
  <2>12. Leavers'
      BY <1>1, <2>4 DEF Calm, Leavers, Leaving
  <2> QED BY <2>6, <2>7, <2>8, <2>9, <2>10, <2>11, <2>12 DEF Calm
<1> QED BY <1>8, <1>9

LEMMA TellPipedCalm ==
    ASSUME TypeOK, Calm, NEW u \in Users, TellPiped(u), ~disturbed'
    PROVE  Calm'
<1>1. /\ here[u] /\ u \notin gone /\ phase[u] = "piped" /\ Hit = {}
      /\ UNCHANGED <<here, gone, reads, writes, pending, fifo>>
    BY DEF TellPiped, Ready, Alive
<1>2. entries' = entries /\ handler' = handler /\ orphan' = orphan /\ phase' = [phase EXCEPT ![u] = "runs"]
  <2>1. "runs" \in Phases
      BY DEF Phases
  <2> QED BY <1>1, <2>1, Quiet DEF TellPiped, Broadcast
<1>3. phase'[u] = "runs" /\ \A v \in Users \ {u} : phase'[v] = phase[v]
    BY <1>2 DEF TypeOK
<1>4. \A v \in Users : /\ ~Leaving(v) /\ ~Leaving(v)' /\ phase[v] # "unlinked" /\ phase'[v] # "unlinked"
                       /\ Making(v)' <=> Making(v)
    BY <1>1, <1>3, NobodyLeaves DEF Leaving, Making
<1>5. \A f, v \in Users : /\ Listed(f, v)' <=> Listed(f, v)
                          /\ Makes(f, v)' <=> Makes(f, v)
                          /\ Live(f, v)' <=> Live(f, v)
    BY <1>1, <1>2, <1>4 DEF Listed, Makes, Live, Stale
<1>6. Present' /\ Waits' /\ Lists'
    BY <1>1, <1>2, <1>3 DEF Calm, Present, Waits, Lists
<1>7. Writers' /\ Announced'
    BY <1>1, <1>2, <1>3, <1>4 DEF Calm, Writers, Announced
<1>8. Ends' /\ Fresh'
    BY <1>1, <1>4, <1>5 DEF Calm, Ends, Fresh
<1>9. Files'
    BY <1>1, <1>5, FilesKept DEF Calm, Pipe
<1>10. Readers'
  <2>1. \A v \in Users : reads[v] # 0 => reads[v] \in Users
      BY PresentTypes
  <2> QED BY <1>1, <1>3, <1>5, <2>1 DEF Calm, Readers
<1>11. Leavers'
    BY <1>1, <1>4 DEF Calm, Leavers, Leaving
<1> QED BY <1>6, <1>7, <1>8, <1>9, <1>10, <1>11 DEF Calm

LEMMA EndLineCalm ==
    ASSUME TypeOK, Calm, NEW u \in Users, EndLine(u)
    PROVE  Calm'
<1> DEFINE n == reads[u]
           t == RemoveAt(entries[u], First(u, n))
<1>1. /\ here[u] /\ u \notin gone /\ handler[u] = 0 /\ phase[u] = "runs"
      /\ phase' = [phase EXCEPT ![u] = "idle"]
      /\ reads' = [reads EXCEPT ![u] = 0] /\ writes' = [writes EXCEPT ![u] = 0]
      /\ UNCHANGED <<here, gone, handler, pending>>
    BY DEF EndLine, Ready, Alive
<1>2. /\ phase'[u] = "idle" /\ reads'[u] = 0
      /\ \A v \in Users \ {u} : phase'[v] = phase[v] /\ reads'[v] = reads[v] /\ writes'[v] = writes[v]
    BY <1>1 DEF TypeOK
<1>3. \A v \in Users : /\ ~Leaving(v) /\ ~Leaving(v)' /\ phase[v] # "unlinked" /\ phase'[v] # "unlinked"
                       /\ Making(v)' <=> Making(v)
    BY <1>1, <1>2, NobodyLeaves DEF Leaving, Making
<1>4. \A f, v \in Users : Makes(f, v)' <=> Makes(f, v)
  <2>1. ~Making(u)
      BY <1>1 DEF Making
  <2> QED BY <1>2, <1>3, <2>1 DEF Makes
<1>5. \A v \in Users : reads[v] # 0 => reads[v] \in Users
    BY PresentTypes
<1>6. /\ orphan' = orphan
      /\ \A v \in Users : Sound(entries'[v])
      /\ \A f, v \in Users : Listed(f, v)' <=> Listed(f, v) /\ ~(f = n /\ v = u)
      /\ fifo' = IF n = 0 THEN fifo ELSE fifo \ {Name(n, u)}
  <2>1. CASE n = 0
    <3>1. UNCHANGED <<entries, fifo, orphan>>
        BY <2>1 DEF EndLine
    <3> QED BY <2>1, <3>1, Numbers DEF Calm, Lists, Listed
  <2>2. CASE n # 0
    <3>1. n \in Users /\ Live(n, u) /\ Listed(n, u)
        BY <1>5, <2>2 DEF Calm, Readers, Live
    <3>2. HasPipe(u, n)
        BY <3>1 DEF Listed, Froms, HasPipe
    <3>3. Sound(t) /\ Froms(t) = Froms(entries[u]) \ {n}
      <4>1. /\ First(u, n) \in DOMAIN entries[u] /\ entries[u][First(u, n)].from = n
            /\ entries[u] \in Seq(Piped) /\ Sound(entries[u])
          BY <3>2, FirstFacts, PresentTypes DEF Calm, Lists
      <4> QED BY <4>1, Removed
    <3>4. entries' = [entries EXCEPT ![u] = t] /\ Unlink({Name(n, u)})
        BY <2>2, <3>2 DEF EndLine
    <3> HIDE DEF t
    <3>5. entries'[u] = t /\ \A v \in Users \ {u} : entries'[v] = entries[v]
        BY <3>4 DEF TypeOK
    <3>6. ASSUME NEW v \in Waiting PROVE WaitsAt(v) # Name(n, u)
      <4>1. CASE handler[v] # 0
        <5>1. handler[v] \in Users /\ v \in Users
            BY <4>1, PresentTypes DEF Waiting
        <5>2. Makes(handler[v], v) /\ v # u
            BY <1>1, <4>1, <5>1 DEF Calm, Announced, Makes, Making
        <5> QED BY <3>1, <4>1, <5>1, <5>2 DEF Calm, Files, Pipe, WaitsAt
      <4>2. CASE handler[v] = 0
        <5>1. v \in Users /\ phase[v] = "waits"
            BY <4>2 DEF Waiting
        <5>2. writes[v] \in Users /\ Makes(v, writes[v])
            BY <5>1 DEF Calm, Writers, Makes, Making
        <5>3. ~(v = n /\ writes[v] = u)
            BY <3>1, <5>2 DEF Calm, Fresh
        <5> QED BY <3>1, <4>2, <5>1, <5>2, <5>3 DEF Calm, Files, Pipe, WaitsAt
      <4> QED BY <4>1, <4>2
    <3>7. orphan' = orphan /\ fifo' = fifo \ {Name(n, u)}
        BY <3>4, <3>6 DEF Unlink
    <3>8. \A v \in Users : Sound(entries'[v])
        BY <3>3, <3>5 DEF Calm, Lists
    <3> QED BY <2>2, <3>3, <3>5, <3>7, <3>8 DEF Listed
  <2> QED BY <2>1, <2>2
<1> HIDE DEF n
<1>7. \A f, v \in Users : Live(f, v)' <=> Live(f, v) /\ ~(f = n /\ v = u)
    BY <1>1, <1>3, <1>6 DEF Live, Stale
<1>8. Present' /\ Waits' /\ Lists'
  <2>1. ASSUME NEW v \in Users, ~here[v] \/ v \in gone PROVE Froms(entries'[v]) = {}
    <3>1. v # u /\ Froms(entries[v]) = {}
        BY <1>1, <2>1 DEF Calm, Present
    <3>2. entries'[v] = entries[v]
        BY <3>1 DEF EndLine, TypeOK
    <3> QED BY <3>1, <3>2
  <2> QED BY <1>1, <1>2, <1>6, <2>1 DEF Calm, Present, Waits, Lists
<1>9. Writers' /\ Announced'
  <2>1. Writers'
    <3>1. ~Making(u)'
        BY <1>2 DEF Making
    <3>2. ASSUME NEW v \in Users, v # u
          PROVE  writes'[v] = writes[v] /\ phase'[v] = phase[v]
        BY <1>2, <3>2
    <3> QED BY <1>1, <1>2, <1>3, <3>1, <3>2 DEF Calm, Writers
  <2>2. Announced'
      BY <1>1, <1>2 DEF Calm, Announced
  <2> QED BY <2>1, <2>2
<1>10. Ends' /\ Fresh'
    BY <1>1, <1>3, <1>4, <1>6, <1>7 DEF Calm, Ends, Fresh
<1>11. Files'
  <2>1. CASE n = 0
      BY <1>4, <1>6, <1>7, <2>1, FilesKept, Numbers DEF Calm, Pipe
  <2>2. CASE n # 0
    <3>1. n \in Users /\ Live(n, u) /\ ~Makes(n, u)
        BY <1>5, <2>2 DEF n, Calm, Readers, Fresh, Live
    <3>2. \A f, v \in Users : Pipe(f, v)' <=> Pipe(f, v) /\ ~(f = n /\ v = u)
        BY <1>4, <1>7, <3>1 DEF Pipe
    <3>3. fifo' = fifo \ {Name(n, u)} /\ Pipe(n, u)
        BY <1>6, <2>2, <3>1 DEF Pipe
    <3> QED BY <3>1, <3>2, <3>3 DEF Calm, Files
  <2> QED BY <2>1, <2>2
<1>12. Readers'
    BY <1>2, <1>5, <1>7 DEF Calm, Readers
<1>13. Leavers'
    BY <1>1, <1>3 DEF Calm, Leavers, Leaving
<1> QED BY <1>8, <1>9, <1>10, <1>11, <1>12, <1>13 DEF Calm

-----------------------------------------------------------------------------
(* Every step keeps what holds: the handler of SIGUSR2 *)

\* The writer who waits is the one who has announced the pipe.
LEMMA WriterThere ==
    ASSUME TypeOK, Calm, NEW u \in Users, NEW f \in Users, pending[u] = f
    PROVE  /\ Makes(f, u) /\ Name(f, u) \in fifo /\ phase[f] \in {"open", "waits"}
           /\ WritersAt(Name(f, u)) = {v \in {f} : phase[v] = "waits"}
<1>1. Makes(f, u) /\ phase[f] \in {"open", "waits"}
    BY DEF Calm, Announced, Makes, Making
<1>2. Name(f, u) \in fifo
    BY <1>1 DEF Calm, Files, Pipe
<1>3. ASSUME NEW v \in WritersAt(Name(f, u)) PROVE v = f /\ phase[v] = "waits"
  <2>1. v \in Users /\ phase[v] = "waits" /\ Name(v, writes[v]) = Name(f, u)
      BY DEF WritersAt, Waiting, WaitsAt
  <2>2. writes[v] \in Users /\ Makes(v, writes[v])
      BY <2>1 DEF Calm, Writers, Makes, Making
  <2> QED BY <1>1, <2>1, <2>2 DEF Calm, Files, Pipe
<1>4. ASSUME phase[f] = "waits" PROVE f \in WritersAt(Name(f, u))
    BY <1>1, <1>4 DEF WritersAt, Waiting, WaitsAt, Calm, Waits, Makes
<1> QED BY <1>1, <1>2, <1>3, <1>4

LEMMA OpenReadCalm ==
    ASSUME TypeOK, Calm, NEW u \in Users, getUserPipeSig(u), ~disturbed', pending[u] > 0
    PROVE  Calm'
<1> DEFINE f == pending[u]
           t == Entry(f, TRUE) \o entries[u]
           there == WritersAt(Name(f, u)) \ {u}
<1>1. /\ here[u] /\ u \notin gone /\ handler[u] = 0 /\ phase[u] # "waits" /\ f \in Users /\ openReadFIFO(u, f)
      /\ UNCHANGED <<here, gone, reads, writes>>
  <2>1. pending[u] \in Users \cup {0} \cup {-v : v \in Users}
      BY PresentTypes
  <2>2. pending[u] \in Users
      BY <2>1, Numbers
  <2> QED BY <2>2 DEF getUserPipeSig, Alive
<1>2. pending'[u] = 0 /\ \A v \in Users \ {u} : pending'[v] = pending[v]
    BY DEF getUserPipeSig, TypeOK
<1>3. /\ Makes(f, u) /\ Name(f, u) \in fifo /\ phase[f] \in {"open", "waits"}
      /\ WritersAt(Name(f, u)) = {v \in {f} : phase[v] = "waits"}
    BY <1>1, WriterThere
<1>4. there = {v \in {f} : phase[v] = "waits"}
    BY <1>1, <1>3
<1>5. /\ handler' = [handler EXCEPT ![u] = IF there = {} THEN f ELSE 0]
      /\ entries' = [entries EXCEPT ![u] = IF there = {} THEN @ ELSE t]
      /\ phase' = [v \in Users |-> IF v \in there \/ (v = u /\ phase[u] = "waits") THEN "piped" ELSE phase[v]]
      /\ orphan' = orphan \ {u} /\ fifo' = fifo
  <2>1. (Name(f, u) \in fifo) = TRUE
      BY <1>3
  <2> QED BY <1>1, <2>1 DEF openReadFIFO
<1> HIDE DEF there
<1>6. \A v \in Users : ~Leaving(v) /\ phase[v] # "unlinked"
    BY <1>1, <1>3, NobodyLeaves DEF Leaving
<1>7. \A g, v \in Users : pending[v] = -g <=> pending'[v] = -g
    BY <1>1, <1>2, Numbers
<1>8. ~Listed(f, u) /\ writes[f] = u
    BY <1>1, <1>3 DEF Calm, Fresh, Makes
<1>9. \A v \in Users : reads[v] # 0 => reads[v] \in Users
    BY PresentTypes
<1>10. orphan' = {}
    BY <1>5 DEF Calm, Waits
<1>11. CASE phase[f] = "waits"
  <2>1. there = {f} /\ f # u
      BY <1>1, <1>4, <1>11
  <2>2. /\ phase'[f] = "piped" /\ entries'[u] = t /\ handler'[u] = 0
        /\ \A v \in Users \ {f} : phase'[v] = phase[v]
        /\ \A v \in Users \ {u} : entries'[v] = entries[v] /\ handler'[v] = handler[v]
      BY <1>1, <1>5, <2>1 DEF TypeOK
  <2>3. Froms(t) = Froms(entries[u]) \cup {f} /\ Sound(t)
    <3>1. entries[u] \in Seq(Piped)
        BY PresentTypes
    <3> QED BY <1>1, <1>8, <3>1, Prepended DEF Calm, Lists, Listed
  <2> HIDE DEF t
  <2>4. \A v \in Users : ~Leaving(v)' /\ phase'[v] # "unlinked" /\ (Making(v)' <=> Making(v) /\ v # f)
      BY <1>1, <1>6, <2>2 DEF Leaving, Making
  <2>5. \A g, v \in Users : /\ Listed(g, v)' <=> Listed(g, v) \/ (g = f /\ v = u)
                            /\ Makes(g, v)' <=> Makes(g, v) /\ g # f
      BY <1>1, <2>2, <2>3, <2>4 DEF Listed, Makes
  <2>6. pending'[u] # -f
      BY <1>1, <1>2, Numbers
  <2>7. \A g, v \in Users : Live(g, v)' <=> Live(g, v) \/ (g = f /\ v = u)
      BY <1>1, <1>6, <1>7, <2>4, <2>5, <2>6 DEF Live, Stale
  <2>8. \A g, v \in Users : Pipe(g, v)' <=> Pipe(g, v)
      BY <1>1, <1>3, <1>8, <2>5, <2>7 DEF Pipe, Makes
  <2>9. Present'
    <3>1. \A v \in Users : ~here[v] \/ v \in gone => v # u /\ v # f
        BY <1>1, <1>3 DEF Calm, Present
    <3> QED BY <1>1, <1>2, <2>2, <3>1 DEF Calm, Present
  <2>10. Waits' /\ Lists'
      BY <1>1, <1>10, <2>2, <2>3 DEF Calm, Waits, Lists
  <2>11. Writers'
    <3>1. ASSUME NEW v \in Users, v # f, writes[v] = u PROVE phase[v] \notin {"open", "waits"}
        BY <1>1, <3>1, Numbers DEF Calm, Writers
    <3> QED BY <1>1, <1>2, <1>8, <2>2, <2>4, <3>1, Numbers DEF Calm, Writers
  <2>12. Announced'
      BY <1>1, <1>2, <1>8, <1>11, <2>2, Numbers DEF Calm, Announced
  <2>13. Ends'
    <3>1. here[f]
        BY <1>1, <1>3 DEF Calm, Present
    <3> QED BY <1>1, <1>7, <2>4, <2>5, <3>1 DEF Calm, Ends
  <2>14. Fresh'
      BY <2>5 DEF Calm, Fresh
  <2>15. Files'
      BY <1>5, <2>8, FilesKept DEF Calm
  <2>16. Readers'
      BY <1>1, <1>9, <2>2, <2>7 DEF Calm, Readers
  <2>17. Leavers'
      BY <1>1, <1>6, <1>7, <2>4 DEF Calm, Leavers, Leaving
  <2> QED BY <2>9, <2>10, <2>11, <2>12, <2>13, <2>14, <2>15, <2>16, <2>17 DEF Calm
<1>12. CASE phase[f] = "open"
  <2>1. there = {}
      BY <1>4, <1>12
  <2>2. /\ phase' = phase /\ entries' = entries /\ handler'[u] = f
        /\ \A v \in Users \ {u} : handler'[v] = handler[v]
      BY <1>1, <1>5, <2>1 DEF TypeOK
  <2>3. \A v \in Users : ~Leaving(v)' /\ phase'[v] # "unlinked" /\ (Making(v)' <=> Making(v))
      BY <1>6, <2>2 DEF Leaving, Making
  <2>4. \A g, v \in Users : /\ Listed(g, v)' <=> Listed(g, v)
                            /\ Makes(g, v)' <=> Makes(g, v)
                            /\ Live(g, v)' <=> Live(g, v)
      BY <1>1, <1>6, <1>7, <2>2, <2>3 DEF Listed, Makes, Live, Stale
  <2>5. Present' /\ Waits' /\ Lists'
      BY <1>1, <1>2, <1>10, <2>2 DEF Calm, Present, Waits, Lists
  <2>6. Writers'
    <3>1. ASSUME NEW v \in Users, v # f, writes[v] = u PROVE phase[v] \notin {"open", "waits"}
        BY <1>1, <3>1, Numbers DEF Calm, Writers
    <3>2. ASSUME NEW v \in Users, v # f, writes[v] = u
          PROVE  pending'[u] # v /\ handler'[u] # v
        BY <1>1, <1>2, <2>2, <3>2, Numbers
    <3>3. pending'[u] # f
        BY <1>1, <1>2, Numbers
    <3>4. ASSUME NEW v \in Users, writes[v] # u, phase[v] \in {"mkfifo", "signal", "open", "waits"}
          PROVE  pending'[writes[v]] = pending[writes[v]] /\ handler'[writes[v]] = handler[writes[v]]
        BY <1>2, <2>2, <3>4 DEF Calm, Writers
    <3> QED BY <1>1, <1>8, <1>12, <2>2, <2>3, <3>1, <3>2, <3>3, <3>4 DEF Calm, Writers
  <2>7. Announced'
      BY <1>1, <1>2, <1>8, <1>12, <2>2, Numbers DEF Calm, Announced
  <2>8. Ends' /\ Fresh'
      BY <1>1, <1>7, <2>3, <2>4 DEF Calm, Ends, Fresh
  <2>9. Files'
      BY <1>5, <2>4, FilesKept DEF Calm, Pipe
  <2>10. Readers'
      BY <1>1, <1>9, <2>2, <2>4 DEF Calm, Readers
  <2>11. Leavers'
      BY <1>1, <1>6, <1>7, <2>3 DEF Calm, Leavers, Leaving
  <2> QED BY <2>5, <2>6, <2>7, <2>8, <2>9, <2>10, <2>11 DEF Calm
<1> QED BY <1>3, <1>11, <1>12

LEMMA CloseReadCalm ==
    ASSUME TypeOK, Calm, NEW u \in Users, getUserPipeSig(u), ~disturbed', ~(pending[u] > 0)
    PROVE  Calm'
<1> DEFINE f == -pending[u]
           t == RemoveAt(entries[u], First(u, f))
<1>1. f \in Users /\ pending[u] = -f
  <2>1. pending[u] \in Users \cup {0} \cup {-v : v \in Users} /\ pending[u] # 0
      BY PresentTypes DEF getUserPipeSig
  <2>2. PICK v \in Users : pending[u] = -v
      BY <2>1, Numbers
  <2>3. v \in Int /\ -(-v) = v
      BY Numbers
  <2> QED BY <2>2, <2>3
<1>2. /\ here[u] /\ u \notin gone /\ handler[u] = 0 /\ phase[u] # "waits" /\ closeReadFIFO(u, f) /\ fifo' = fifo
      /\ pending' = [pending EXCEPT ![u] = 0]
      /\ UNCHANGED <<here, gone, reads, writes>>
    BY DEF getUserPipeSig, Alive
<1> HIDE DEF f
<1>3. pending'[u] = 0 /\ \A v \in Users \ {u} : pending'[v] = pending[v]
    BY <1>2 DEF TypeOK
<1>4. phase' = phase /\ handler' = handler /\ orphan' = {}
  <2>1. phase' = [phase EXCEPT ![u] = IF @ = "waits" THEN "piped" ELSE @]
      BY <1>2 DEF closeReadFIFO
  <2>2. orphan' = (orphan \ {u}) \cup {v \in Waiting \ {u} : WaitsAt(v) \in fifo \ fifo'}
      BY <1>2 DEF closeReadFIFO
  <2>3. orphan' = {}
      BY <1>2, <2>2 DEF Calm, Waits
  <2> QED BY <1>2, <2>1, <2>3 DEF closeReadFIFO, TypeOK
<1>5. /\ \A v \in Users \ {u} : entries'[v] = entries[v]
      /\ Sound(entries'[u]) /\ Froms(entries'[u]) = Froms(entries[u]) \ {f}
  <2>1. entries' = [entries EXCEPT ![u] = IF HasPipe(u, f) THEN t ELSE entries[u]]
      BY <1>2 DEF closeReadFIFO
  <2>2. HasPipe(u, f) => Sound(t) /\ Froms(t) = Froms(entries[u]) \ {f}
    <3>1. ASSUME HasPipe(u, f)
          PROVE  /\ First(u, f) \in DOMAIN entries[u] /\ entries[u][First(u, f)].from = f
                 /\ entries[u] \in Seq(Piped) /\ Sound(entries[u])
        BY <3>1, FirstFacts, PresentTypes DEF Calm, Lists
    <3> QED BY <3>1, Removed
  <2>3. ~HasPipe(u, f) => f \notin Froms(entries[u])
      BY DEF HasPipe, Froms
  <2>4. Sound(entries[u])
      BY DEF Calm, Lists
  <2> HIDE DEF t
  <2>5. entries'[u] = (IF HasPipe(u, f) THEN t ELSE entries[u]) /\ \A v \in Users \ {u} : entries'[v] = entries[v]
      BY <2>1 DEF TypeOK
  <2> QED BY <2>2, <2>3, <2>4, <2>5
<1>6. \A g, v \in Users : /\ Listed(g, v)' <=> Listed(g, v) /\ ~(g = f /\ v = u)
                          /\ pending'[v] = -g <=> pending[v] = -g /\ ~(g = f /\ v = u)
  <2>1. \A g \in Users : (-f = -g => f = g) /\ -g # 0
      BY <1>1, Numbers
  <2> QED BY <1>1, <1>3, <1>5, <2>1 DEF Listed
<1>7. \A g, v \in Users : /\ Makes(g, v)' <=> Makes(g, v)
                          /\ Live(g, v)' <=> Live(g, v)
  <2>1. ~Live(f, u)
      BY <1>1 DEF Live, Stale
  <2> QED BY <1>2, <1>4, <1>6, <2>1 DEF Makes, Making, Live, Stale, Leaving
<1>8. Present' /\ Waits' /\ Lists'
    BY <1>2, <1>3, <1>4, <1>5 DEF Calm, Present, Waits, Lists
<1>9. Writers'
  <2>1. \A v \in Users : -f # v /\ v # 0
      BY <1>1, Numbers
  <2>2. ASSUME NEW v \in Users, phase[v] \in {"signal", "open", "waits"}
        PROVE  writes[v] \in Users /\ (pending'[writes[v]] = v <=> pending[writes[v]] = v)
      BY <1>1, <1>3, <2>1, <2>2 DEF Calm, Writers
  <2> QED BY <1>2, <1>4, <2>2 DEF Calm, Writers, Making
<1>10. Announced'
    BY <1>2, <1>3, <1>4, Numbers DEF Calm, Announced
<1>11. Ends' /\ Fresh'
    BY <1>2, <1>4, <1>6, <1>7 DEF Calm, Ends, Fresh, Leaving
<1>12. Files'
    BY <1>2, <1>7, FilesKept DEF Calm, Pipe
<1>13. Readers'
  <2>1. \A v \in Users : reads[v] # 0 => reads[v] \in Users
      BY PresentTypes
  <2> QED BY <1>2, <1>4, <1>7, <2>1 DEF Calm, Readers
<1>14. Leavers'
    BY <1>2, <1>3, <1>4, <1>6 DEF Calm, Leavers, Leaving
<1> QED BY <1>8, <1>9, <1>10, <1>11, <1>12, <1>13, <1>14 DEF Calm

-----------------------------------------------------------------------------
(* Every step keeps what holds: logout and login *)

LEMMA ExitPipesCalm ==
    ASSUME TypeOK, Calm, NEW u \in Users, ExitPipes(u), ~disturbed'
    PROVE  Calm'
<1> DEFINE names == {Name(entries[u][i].from, u) : i \in DOMAIN entries[u]} \cup {Name(u, v) : v \in 1 .. 30}
<1>1. /\ Busy = {} /\ ~OfOthers(u, names) /\ Unlink(names) /\ here[u] /\ u \notin gone
      /\ phase' = [phase EXCEPT ![u] = "unlinked"]
      /\ UNCHANGED <<here, gone, reads, writes, handler, pending, entries>>
    BY DEF ExitPipes, MayAct, Ready, Alive
<1>2. \A f \in Users : (Listed(f, u) => Name(f, u) \in names) /\ Name(u, f) \in names
    BY Numbers DEF Listed, Froms
<1>3. \A f, v \in Users : v # u /\ f # u /\ Listed(f, v) => Name(f, v) \notin names
    BY <1>1 DEF OfOthers, Listed, Froms
<1> HIDE DEF names
<1>4. \A v \in Users : phase[v] = "idle" /\ handler[v] = 0 /\ pending[v] = 0
    BY <1>1 DEF Busy
<1>5. phase'[u] = "unlinked" /\ \A v \in Users \ {u} : phase'[v] = "idle"
    BY <1>1, <1>4 DEF TypeOK
<1>6. \A v \in Users : ~Making(v) /\ ~Making(v)' /\ ~Leaving(v) /\ (Leaving(v)' <=> v = u)
    BY <1>4, <1>5 DEF Making, Leaving
<1>7. fifo' = fifo \ names /\ orphan' = {}
  <2>1. Waiting = {}
      BY <1>4 DEF Waiting
  <2> QED BY <1>1, <2>1 DEF Unlink, Calm, Waits
<1>8. \A f, v \in Users : /\ Listed(f, v)' <=> Listed(f, v)
                          /\ pending[v] # -f
                          /\ Pipe(f, v) <=> Listed(f, v)
                          /\ Live(f, v)' <=> Listed(f, v) /\ f # u /\ v # u
                          /\ Pipe(f, v)' <=> Listed(f, v) /\ f # u /\ v # u
  <2>1. \A f, v \in Users : pending[v] # -f /\ (Listed(f, v)' <=> Listed(f, v))
      BY <1>1, <1>4, Numbers DEF Listed
  <2>2. \A f, v \in Users : Pipe(f, v) <=> Listed(f, v)
      BY <1>4, <1>6, <2>1 DEF Pipe, Makes, Live, Stale
  <2>3. \A f, v \in Users : Live(f, v)' <=> Listed(f, v) /\ f # u /\ v # u
      BY <1>1, <1>5, <1>6, <2>1 DEF Live, Stale
  <2> QED BY <1>6, <2>1, <2>2, <2>3 DEF Pipe, Makes
<1>9. Present' /\ Waits' /\ Lists'
    BY <1>1, <1>4, <1>5, <1>7 DEF Calm, Present, Waits, Lists
<1>10. Writers' /\ Announced'
    BY <1>1, <1>4, <1>5, <1>6, Numbers DEF Writers, Announced
<1>11. Ends' /\ Fresh'
    BY <1>1, <1>6, <1>8 DEF Calm, Ends, Fresh, Makes
<1>12. Files'
  <2>1. ASSUME NEW n \in fifo' PROVE \E f, v \in Users : Pipe(f, v)' /\ n = Name(f, v)
    <3>1. n \in fifo /\ n \notin names
        BY <1>7, <2>1
    <3>2. PICK f \in Users, v \in Users : Pipe(f, v) /\ n = Name(f, v)
        BY <3>1 DEF Calm, Files
    <3>3. f # u /\ v # u
        BY <1>2, <1>8, <3>1, <3>2
    <3> QED BY <1>8, <3>2, <3>3
  <2>2. \A f, v \in Users : Pipe(f, v)' => Pipe(f, v) /\ Name(f, v) \in fifo'
      BY <1>3, <1>7, <1>8 DEF Calm, Files
  <2> QED BY <2>1, <2>2 DEF Calm, Files
<1>13. Readers'
    BY <1>1, <1>4 DEF Calm, Readers
<1>14. Leavers'
    BY <1>1, <1>4, <1>5, <1>6, <1>8 DEF Leavers
<1> QED BY <1>9, <1>10, <1>11, <1>12, <1>13, <1>14 DEF Calm

LEMMA ExitSignalsCalm ==
    ASSUME TypeOK, Calm, NEW u \in Users, ExitSignals(u)
    PROVE  Calm'
<1>1. /\ phase[u] = "unlinked" /\ here[u] /\ u \notin gone
      /\ phase' = [phase EXCEPT ![u] = "signalled"]
      /\ pending' = [v \in Users |-> IF Alive(v) /\ pending[v] = 0 THEN -u ELSE pending[v]]
      /\ UNCHANGED <<here, gone, reads, writes, handler, entries, fifo, orphan>>
    BY DEF ExitSignals, Ready, Alive
<1>2. \A v \in Users : pending[v] = 0 /\ (v # u => phase[v] = "idle")
    BY <1>1 DEF Calm, Leavers, Leaving
<1>3. phase'[u] = "signalled" /\ \A v \in Users \ {u} : phase'[v] = "idle"
    BY <1>1, <1>2 DEF TypeOK
<1>4. \A v \in Users : pending'[v] = IF Alive(v) THEN -u ELSE 0
    BY <1>1, <1>2
<1>5. \A v \in Users : ~Making(v) /\ ~Making(v)' /\ (Leaving(v) <=> v = u) /\ (Leaving(v)' <=> v = u)
    BY <1>1, <1>2, <1>3 DEF Making, Leaving
<1>6. \A f, v \in Users : /\ Listed(f, v)' <=> Listed(f, v)
                          /\ pending[v] # -f /\ pending'[v] # f
                          /\ pending'[v] = -f <=> Alive(v) /\ f = u
    BY <1>1, <1>2, <1>4, Numbers DEF Listed
<1>7. \A f, v \in Users : Listed(f, v) => Alive(v)
    BY DEF Calm, Present, Listed, Alive
<1>8. \A f, v \in Users : /\ Live(f, v) <=> Listed(f, v) /\ f # u /\ v # u
                          /\ Live(f, v)' <=> Listed(f, v) /\ f # u /\ v # u
                          /\ ~Makes(f, v) /\ ~Makes(f, v)'
    BY <1>1, <1>2, <1>3, <1>5, <1>6, <1>7 DEF Live, Stale, Makes
<1>9. Present' /\ Waits' /\ Lists'
    BY <1>1, <1>2, <1>3, <1>4 DEF Calm, Present, Waits, Lists, Alive
<1>10. Writers' /\ Announced'
    BY <1>1, <1>2, <1>3, <1>5, <1>6, Numbers DEF Calm, Writers, Announced
<1>11. Ends' /\ Fresh'
    BY <1>1, <1>5, <1>6, <1>8 DEF Calm, Ends, Fresh
<1>12. Files'
    BY <1>1, <1>8, FilesKept DEF Calm, Pipe
<1>13. Readers'
  <2>1. \A v \in Users : reads[v] = 0
      BY <1>2, <1>8, PresentTypes DEF Calm, Readers
  <2> QED BY <1>1, <2>1 DEF Readers
<1>14. Leavers'
    BY <1>1, <1>3, <1>4, <1>5, <1>6 DEF Leavers
<1> QED BY <1>9, <1>10, <1>11, <1>12, <1>13, <1>14 DEF Calm

LEMMA ExitLeavesCalm ==
    ASSUME TypeOK, Calm, NEW u \in Users, ExitLeaves(u), ~disturbed'
    PROVE  Calm'
<1>1. /\ phase[u] = "signalled" /\ here[u] /\ u \notin gone /\ pending[u] = 0 /\ handler[u] = 0 /\ Hit = {}
      /\ here' = [here EXCEPT ![u] = FALSE]
      /\ UNCHANGED <<gone, reads, writes, pending, fifo>>
    BY DEF ExitLeaves, Ready, Alive
<1>2. handler' = handler /\ orphan' = orphan /\ phase' = [phase EXCEPT ![u] = "idle"]
  <2>1. "idle" \in Phases
      BY DEF Phases
  <2> QED BY <1>1, <2>1, Quiet DEF ExitLeaves
<1>3. entries'[u] = <<>> /\ \A v \in Users \ {u} : entries'[v] = entries[v]
    BY <1>1, Quiet DEF ExitLeaves
<1>4. Froms(<<>>) = {} /\ Sound(<<>>)
    BY DEF Froms, Sound, AllOpen, OnceEach
<1>5. ~here'[u] /\ \A v \in Users \ {u} : here'[v] = here[v]
    BY <1>1 DEF TypeOK
<1>6. \A v \in Users : phase'[v] = "idle" /\ (v # u => phase[v] = "idle")
    BY <1>1, <1>2 DEF TypeOK, Calm, Leavers, Leaving
<1>7. \A v \in Users : ~Making(v) /\ ~Making(v)' /\ ~Leaving(v)' /\ (Leaving(v) <=> v = u)
    BY <1>1, <1>6 DEF Making, Leaving
<1>8. \A f, v \in Users : /\ Listed(f, v)' <=> Listed(f, v) /\ v # u
                          /\ ~Makes(f, v) /\ ~Makes(f, v)'
                          /\ Live(u, v) => FALSE
                          /\ Live(f, u) => FALSE
    BY <1>1, <1>3, <1>4, <1>7 DEF Listed, Makes, Calm, Ends, Live, Stale
<1>9. \A v \in Users : Listed(u, v) /\ v # u => pending[v] = -u
    BY <1>1, <1>7, <1>8 DEF Live, Stale
<1>10. \A f, v \in Users : Live(f, v)' <=> Live(f, v)
    BY <1>1, <1>6, <1>7, <1>8 DEF Live, Stale
<1>11. Present' /\ Waits' /\ Lists'
    BY <1>1, <1>2, <1>3, <1>4, <1>5, <1>6 DEF Calm, Present, Waits, Lists
<1>12. Writers' /\ Announced'
    BY <1>1, <1>2, <1>6, <1>7 DEF Calm, Writers, Announced
<1>13. Ends' /\ Fresh'
    BY <1>1, <1>5, <1>7, <1>8, <1>9, <1>10 DEF Calm, Ends, Fresh
<1>14. Files'
    BY <1>1, <1>8, <1>10, FilesKept DEF Calm, Pipe
<1>15. Readers'
  <2>1. \A v \in Users : reads[v] = 0
      BY <1>6, <1>8, PresentTypes DEF Calm, Readers
  <2> QED BY <1>1, <2>1 DEF Readers
<1>16. Leavers'
    BY <1>1, <1>5, <1>6, <1>7 DEF Calm, Leavers, Leaving
<1> QED BY <1>11, <1>12, <1>13, <1>14, <1>15, <1>16 DEF Calm

LEMMA LoginCalm ==
    ASSUME TypeOK, Calm, NEW u \in Users, Login(u), ~disturbed'
    PROVE  Calm'
<1>1. /\ ~here[u] /\ here' = [here EXCEPT ![u] = TRUE] /\ \A v \in Users : pending[v] # -u
      /\ Hit = {} /\ UNCHANGED <<gone, reads, writes, pending, fifo>>
    BY DEF Login
<1>2. entries' = entries /\ handler' = handler /\ orphan' = orphan /\ phase' = phase
  <2>1. "idle" \in Phases
      BY DEF Phases
  <2>2. phase[u] = "idle"
      BY <1>1 DEF Calm, Present
  <2>3. phase' = [phase EXCEPT ![u] = "idle"] /\ entries' = entries /\ handler' = handler /\ orphan' = orphan
      BY <1>1, <2>1, Quiet DEF Login, Broadcast
  <2> QED BY <2>2, <2>3 DEF TypeOK
<1>3. here'[u] /\ \A v \in Users \ {u} : here'[v] = here[v]
    BY <1>1, <1>2 DEF TypeOK
<1>4. \A v \in Users : (Making(v)' <=> Making(v)) /\ (Leaving(v)' <=> Leaving(v))
    BY <1>1, <1>2 DEF Making, Leaving
<1>5. \A f, v \in Users : /\ Listed(f, v)' <=> Listed(f, v)
                          /\ Makes(f, v)' <=> Makes(f, v)
                          /\ Live(f, v)' <=> Live(f, v)
    BY <1>1, <1>2, <1>4 DEF Listed, Makes, Live, Stale
<1>6. Present' /\ Waits' /\ Lists'
    BY <1>1, <1>2, <1>3 DEF Calm, Present, Waits, Lists
<1>7. Writers' /\ Announced'
    BY <1>1, <1>2, <1>3, <1>4 DEF Calm, Writers, Announced
<1>8. Ends' /\ Fresh'
    BY <1>1, <1>2, <1>3, <1>4, <1>5 DEF Calm, Ends, Fresh
<1>9. Files'
    BY <1>1, <1>2, <1>5, FilesKept DEF Calm, Pipe
<1>10. Readers'
  <2>1. \A v \in Users : reads[v] # 0 => reads[v] \in Users
      BY PresentTypes
  <2> QED BY <1>1, <1>2, <1>5, <2>1 DEF Calm, Readers
<1>11. Leavers'
    BY <1>1, <1>2, <1>3, <1>4 DEF Calm, Leavers
<1> QED BY <1>6, <1>7, <1>8, <1>9, <1>10, <1>11 DEF Calm

\* Whoever ends at the prompt while nobody is busy, with no pipe to read, leaves all as it was.
LEMMA VanishCalm ==
    ASSUME TypeOK, Calm, NEW u \in Users, Vanish(u), ~disturbed'
    PROVE  Calm'
<1>1. /\ Busy = {} /\ entries[u] = <<>> /\ gone' = gone \cup {u}
      /\ UNCHANGED <<here, fifo>>
    BY DEF Vanish
<1>2. \A v \in Users : phase[v] = "idle" /\ handler[v] = 0 /\ pending[v] = 0
    BY <1>1 DEF Busy
<1>3. /\ phase' = phase /\ handler' = handler /\ pending' = pending /\ entries' = entries
      /\ orphan' = orphan
  <2>1. phase' = phase /\ handler' = handler /\ pending' = pending
      BY <1>2 DEF Vanish, TypeOK
  <2>2. entries' = entries
      BY <1>1 DEF Vanish, TypeOK
  <2> QED BY <2>1, <2>2 DEF Vanish, Calm, Waits
<1>4. reads' = reads
  <2>1. \A v \in Users : reads[v] = 0
      BY <1>2 DEF Calm, Readers
  <2> QED BY <2>1 DEF Vanish, TypeOK
<1>5. \A v \in Users : ~Making(v) /\ ~Making(v)' /\ (Leaving(v)' <=> Leaving(v))
    BY <1>2, <1>3 DEF Making, Leaving
<1>6. \A f, v \in Users : /\ Listed(f, v)' <=> Listed(f, v)
                          /\ ~Makes(f, v) /\ ~Makes(f, v)'
                          /\ Live(f, v)' <=> Live(f, v)
    BY <1>3, <1>5 DEF Listed, Makes, Live, Stale
<1>7. Present'
  <2>1. Froms(entries[u]) = {}
      BY <1>1 DEF Froms
  <2> QED BY <1>1, <1>2, <1>3, <2>1 DEF Calm, Present
<1>8. Waits' /\ Lists'
    BY <1>2, <1>3 DEF Calm, Waits, Lists
<1>9. Writers' /\ Announced'
    BY <1>2, <1>3, <1>5, Numbers DEF Writers, Announced
<1>10. Ends' /\ Fresh'
    BY <1>1, <1>3, <1>5, <1>6 DEF Calm, Ends, Fresh
<1>11. Files'
    BY <1>1, <1>6, FilesKept DEF Calm, Pipe
<1>12. Readers'
  <2>1. \A v \in Users : reads[v] # 0 => reads[v] \in Users
      BY PresentTypes
  <2> QED BY <1>3, <1>4, <1>6, <2>1 DEF Calm, Readers
<1>13. Leavers'
    BY <1>1, <1>3, <1>5 DEF Calm, Leavers
<1> QED BY <1>7, <1>8, <1>9, <1>10, <1>11, <1>12, <1>13 DEF Calm

-----------------------------------------------------------------------------
(* The directory and the lists agree *)

Agree == TypeOK /\ (disturbed \/ Calm)

LEMMA NextAgree == Agree /\ [Next]_vars => Agree'
<1> SUFFICES ASSUME Agree, [Next]_vars PROVE Agree'
    OBVIOUS
<1>1. TypeOK /\ TypeOK'
    BY NextTypes DEF Agree
<1>2. CASE disturbed
    BY <1>1, <1>2, DisturbedStays DEF Agree
<1>3. ASSUME Calm, ~disturbed' PROVE Calm'
  <2>1. CASE UNCHANGED vars
    <3>1. /\ Present' = Present /\ Waits' = Waits /\ Writers' = Writers /\ Announced' = Announced
          /\ Lists' = Lists /\ Readers' = Readers /\ Leavers' = Leavers
        BY <2>1 DEF vars, Present, Waits, Writers, Announced, Lists, Readers, Leavers,
                    Making, Leaving, Live, Listed, Stale
    <3>2. Ends' = Ends /\ Files' = Files /\ Fresh' = Fresh
        BY <2>1 DEF vars, Ends, Files, Fresh, Pipe, Live, Listed, Stale, Makes, Making, Leaving
    <3> QED BY <1>3, <3>1, <3>2 DEF Calm
  <2>2. CASE Next
    <3>1. PICK u \in Users :
              \/ \E n, m \in Users \cup {0} : Types(u, n, m)
              \/ ExitPipes(u) \/ Login(u) \/ Vanish(u) \/ Step(u)
        BY <2>2 DEF Next
    <3>2. CASE \E n, m \in Users \cup {0} : Types(u, n, m)
        BY <1>1, <1>3, <3>2, TypesCalm
    <3>3. CASE ExitPipes(u) \/ Login(u) \/ Vanish(u)
        BY <1>1, <1>3, <3>3, ExitPipesCalm, LoginCalm, VanishCalm
    <3>4. CASE MakeFifo(u) \/ SignalReader(u) \/ OpenToWrite(u) \/ TellPiped(u) \/ EndLine(u)
        BY <1>1, <1>3, <3>4, MakeFifoCalm, SignalReaderCalm, OpenToWriteCalm, TellPipedCalm, EndLineCalm
    <3>5. CASE getUserPipeSig(u)
        BY <1>1, <1>3, <3>5, OpenReadCalm, CloseReadCalm
    <3>6. CASE ExitSignals(u) \/ ExitLeaves(u)
        BY <1>1, <1>3, <3>6, ExitSignalsCalm, ExitLeavesCalm
    <3> QED BY <3>1, <3>2, <3>3, <3>4, <3>5, <3>6 DEF Step
  <2> QED BY <2>1, <2>2
<1> QED BY <1>1, <1>2, <1>3 DEF Agree

LEMMA AgreeIsPipesAgree == Agree => PipesAgree
<1> SUFFICES ASSUME TypeOK, Calm, Busy = {}
             PROVE  /\ fifo = UNION {{Name(entries[u][i].from, u) : i \in DOMAIN entries[u]} : u \in Users}
                    /\ \A u \in Users : \A i \in DOMAIN entries[u] :
                         /\ here[u] /\ here[entries[u][i].from] /\ entries[u][i].open
                         /\ \A v \in Users : \A j \in DOMAIN entries[v] :
                              Name(entries[u][i].from, u) = Name(entries[v][j].from, v) => u = v /\ i = j
    BY DEF Agree, PipesAgree
<1>1. \A v \in Users : phase[v] = "idle" /\ handler[v] = 0 /\ pending[v] = 0
    BY DEF Busy
<1>2. \A f, u \in Users : Pipe(f, u) <=> Listed(f, u)
    BY <1>1, Numbers DEF Pipe, Makes, Making, Live, Stale, Leaving
<1>3. \A u \in Users : \A i \in DOMAIN entries[u] :
        entries[u][i].from \in Users /\ Listed(entries[u][i].from, u)
    BY PresentTypes, Elements DEF Listed, Froms
<1>4. \A f, u \in Users : Listed(f, u) => \E i \in DOMAIN entries[u] : entries[u][i].from = f
    BY DEF Listed, Froms
<1>5. \A n \in fifo : \E u \in Users : \E i \in DOMAIN entries[u] : n = Name(entries[u][i].from, u)
  <2>1. ASSUME NEW n \in fifo PROVE \E u \in Users : \E i \in DOMAIN entries[u] : n = Name(entries[u][i].from, u)
    <3>1. PICK f \in Users, u \in Users : Listed(f, u) /\ n = Name(f, u)
        BY <1>2 DEF Calm, Files
    <3> QED BY <1>4, <3>1
  <2> QED BY <2>1
<1>6. \A u \in Users : \A i \in DOMAIN entries[u] : Name(entries[u][i].from, u) \in fifo
    BY <1>2, <1>3 DEF Calm, Files
<1>7. fifo = UNION {{Name(entries[u][i].from, u) : i \in DOMAIN entries[u]} : u \in Users}
    BY <1>5, <1>6
<1>8. ASSUME NEW u \in Users, NEW i \in DOMAIN entries[u]
      PROVE  here[u] /\ here[entries[u][i].from] /\ entries[u][i].open
  <2>1. here[u]
      BY <1>3 DEF Calm, Present, Listed
  <2>2. here[entries[u][i].from]
    <3> DEFINE f == entries[u][i].from
    <3>1. f \in Users /\ Listed(f, u)
        BY <1>3
    <3> HIDE DEF f
    <3>2. pending[u] # -f
        BY <1>1, <3>1, Numbers
    <3>3. here[f]
        BY <3>1, <3>2 DEF Calm, Ends
    <3> QED BY <3>3 DEF f
  <2>3. entries[u][i].open
      BY DEF Calm, Lists, Sound, AllOpen
  <2> QED BY <2>1, <2>2, <2>3
<1>9. ASSUME NEW u \in Users, NEW i \in DOMAIN entries[u], NEW v \in Users, NEW j \in DOMAIN entries[v],
             Name(entries[u][i].from, u) = Name(entries[v][j].from, v)
      PROVE  u = v /\ i = j
  <2>1. entries[u][i].from = entries[v][j].from /\ u = v
      BY <1>2, <1>3, <1>9 DEF Calm, Files
  <2> QED BY <2>1 DEF Calm, Lists, Sound, OnceEach
<1> QED BY <1>7, <1>8, <1>9

\* As long as no signal is lost, no open interrupted, nobody ends among the busy or with
\* unread pipes, no logout takes away a file of two others and no uid is used again too
\* soon, the files in user_pipe are what the idle users can read, each from a user who is
\* in the table: a writer is told "already exists" for no other pipe.
THEOREM DirectoryAgrees == Spec => []PipesAgree
<1>1. Init => Agree
    BY InitTypes, InitCalm DEF Agree
<1>2. Spec => []Agree
    BY <1>1, NextAgree, PTL DEF Spec
<1> QED BY <1>2, AgreeIsPipesAgree, PTL

-----------------------------------------------------------------------------
(* Whoever waits can be freed *)

\* The process is free to run what another waits for: its handler, which opens the pipe
\* it is told of, or, after the handlers still to run, its own open().
Frees(u, v) == (pending[u] = v /\ writes[v] = u) \/ (phase[u] = "open" /\ handler[v] = u)
CanFree(u) == Alive(u) /\ handler[u] = 0 /\ \E v \in Waiting : Frees(u, v)
SomeoneGoesOn == Waiting # {} => Deadlocked \/ \E u \in Users : CanFree(u)

LEMMA CalmGoesOn ==
    ASSUME TypeOK, Calm
    PROVE  SomeoneGoesOn
<1> DEFINE H == {v \in Users : handler[v] # 0}
<1>1. ASSUME NEW u \in Waiting PROVE H # {} \/ \E v \in Users : CanFree(v)
  <2>1. CASE handler[u] # 0
      BY <2>1 DEF Waiting
  <2>2. CASE handler[u] = 0
    <3>1. u \in Users /\ phase[u] = "waits"
        BY <2>2 DEF Waiting
    <3>2. writes[u] \in Users /\ pending[writes[u]] = u /\ u # 0
        BY <3>1, Numbers DEF Calm, Writers
    <3>3. Alive(writes[u])
        BY <3>2 DEF Calm, Present, Alive
    <3> QED BY <3>2, <3>3 DEF CanFree, Frees
  <2> QED BY <2>1, <2>2
\* A circle of handlers leaves nobody out, else the writer for whom one waits can open.
<1>2. ASSUME H # {}, ~Deadlocked PROVE \E f \in Users : CanFree(f)
  <2>1. PICK v \in H : handler[v] \notin H
      BY <1>2 DEF Deadlocked
  <2> DEFINE f == handler[v]
  <2>2. v \in Users /\ f \in Users /\ handler[f] = 0
      BY <2>1, PresentTypes
  <2>3. phase[f] = "open"
      BY <2>2 DEF Calm, Announced
  <2>4. Alive(f)
      BY <2>2, <2>3 DEF Calm, Present, Alive
  <2>5. v \in Waiting
      BY DEF Waiting
  <2> QED BY <2>2, <2>3, <2>4, <2>5 DEF CanFree, Frees
<1> QED BY <1>1, <1>2 DEF SomeoneGoesOn

\* As long as nothing has disturbed the pipes and somebody waits in open(), some process
\* waits for one that does not: that has the announcement in hand, or is to open the FIFO
\* it has announced.  Only users who wait in their handlers in a circle are all stuck.
THEOREM NobodyStuck == Spec => [](~disturbed => SomeoneGoesOn)
<1>1. Init => Agree
    BY InitTypes, InitCalm DEF Agree
<1>2. Agree => (~disturbed => SomeoneGoesOn)
    BY CalmGoesOn DEF Agree
<1>3. Spec => []Agree
    BY <1>1, NextAgree, PTL DEF Spec
<1> QED BY <1>2, <1>3, PTL
=============================================================================
