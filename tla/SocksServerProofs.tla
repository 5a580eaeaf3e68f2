-------------------------- MODULE SocksServerProofs --------------------------
(***************************************************************************)
(* What holds of the listening process of the proxy for every number of    *)
(* clients.                                                                *)
(***************************************************************************)
EXTENDS SocksServer, FiniteSetTheorems, TLAPS

\* A copy of a connection that the listener still has is the one it is at.
Inv == TypeOK /\ ClosedWithSession /\ ZombiesAreMissedSignals

LEMMA InFinite == \A state : IsFiniteSet(In(state)) /\ Cardinality(In(state)) \in Nat
<1>1. \A state : In(state) \subseteq Client
    BY DEF In
<1> QED BY <1>1, ClientAssumption, FS_Subset, FS_CardinalityType

LEMMA InitInv == Init => Inv
<1> SUFFICES ASSUME Init PROVE Inv
    OBVIOUS
<1>1. TypeOK
    BY DEF Init, TypeOK, State
<1>2. ClosedWithSession
    BY DEF Init, ClosedWithSession
<1>3. ZombiesAreMissedSignals
  <2>1. In("zombie") = {}
      BY DEF Init, In
  <2> QED BY <2>1, FS_EmptySet DEF Init, ZombiesAreMissedSignals
<1> QED BY <1>1, <1>2, <1>3 DEF Inv

LEMMA ConnectInv ==
    ASSUME Inv, NEW c \in Client, Connect(c)
    PROVE  Inv'
<1>1. TypeOK'
    BY DEF Inv, TypeOK, Connect, State
<1>2. ClosedWithSession'
    BY DEF Inv, TypeOK, ClosedWithSession, Connect
<1>3. In("zombie")' = In("zombie")
    BY DEF Inv, TypeOK, In, Connect
<1>4. ZombiesAreMissedSignals'
    BY <1>3 DEF Inv, ZombiesAreMissedSignals, Connect
<1> QED BY <1>1, <1>2, <1>4 DEF Inv

\* Nobody else has a copy when a child is forked, so it takes none along.
LEMMA ForkInv ==
    ASSUME Inv, NEW c \in Client, Fork(c)
    PROVE  Inv'
<1>1. TypeOK'
    BY DEF Inv, TypeOK, Fork, State, Process
<1>2. \A d \in Client : Listener \notin holders[d]
    BY ClientAssumption DEF Inv, ClosedWithSession, Fork
<1>3. holders' = [holders EXCEPT ![c] = {Listener, c}]
    BY <1>2 DEF Inv, TypeOK, Fork
<1>4. ClosedWithSession'
  <2>1. ASSUME NEW d \in Client
        PROVE  holders'[d] \subseteq (IF client'[d] = "served" THEN {d} ELSE {})
                                \cup (IF d \in accepted' THEN {Listener} ELSE {})
    <3>1. CASE d = c
        BY <3>1, <1>3 DEF Inv, TypeOK, Fork
    <3>2. CASE d # c
        BY <3>2, <1>3 DEF Inv, TypeOK, ClosedWithSession, Fork
    <3> QED BY <3>1, <3>2
  <2> QED BY <2>1 DEF ClosedWithSession
<1>5. In("zombie")' = In("zombie")
    BY DEF Inv, TypeOK, In, Fork
<1>6. ZombiesAreMissedSignals'
    BY <1>5 DEF Inv, ZombiesAreMissedSignals, Fork
<1> QED BY <1>1, <1>4, <1>6 DEF Inv

LEMMA ForkFailsInv ==
    ASSUME Inv, NEW c \in Client, ForkFails(c)
    PROVE  Inv'
<1>1. TypeOK'
    BY DEF Inv, TypeOK, ForkFails, State, Process
<1>2. ClosedWithSession'
  <2>1. ASSUME NEW d \in Client
        PROVE  holders'[d] \subseteq (IF client'[d] = "served" THEN {d} ELSE {})
                                \cup (IF d \in accepted' THEN {Listener} ELSE {})
    <3>1. CASE d = c
        BY <3>1 DEF Inv, TypeOK, ForkFails
    <3>2. CASE d # c
        BY <3>2 DEF Inv, TypeOK, ClosedWithSession, ForkFails
    <3> QED BY <3>1, <3>2
  <2> QED BY <2>1 DEF ClosedWithSession
<1>3. In("zombie")' = In("zombie")
    BY DEF Inv, TypeOK, In, ForkFails
<1>4. ZombiesAreMissedSignals'
    BY <1>3 DEF Inv, ZombiesAreMissedSignals, ForkFails
<1> QED BY <1>1, <1>2, <1>4 DEF Inv

LEMMA AcceptAgainInv ==
    ASSUME Inv, AcceptAgain
    PROVE  Inv'
<1>1. TypeOK'
    BY DEF Inv, TypeOK, AcceptAgain
<1>2. ClosedWithSession'
    BY DEF Inv, TypeOK, ClosedWithSession, AcceptAgain
<1>3. In("zombie")' = In("zombie")
    BY DEF In, AcceptAgain
<1>4. ZombiesAreMissedSignals'
    BY <1>3 DEF Inv, ZombiesAreMissedSignals, AcceptAgain
<1> QED BY <1>1, <1>2, <1>4 DEF Inv

LEMMA AcceptFailsInv ==
    ASSUME Inv, AcceptFails
    PROVE  Inv'
<1>1. \A d \in Client : /\ client'[d] \in State
                        /\ client[d] = "served" => client'[d] = "served"
    BY DEF Inv, TypeOK, AcceptFails, State
<1>2. TypeOK'
    BY <1>1 DEF Inv, TypeOK, AcceptFails
<1>3. ClosedWithSession'
    BY <1>1 DEF Inv, TypeOK, ClosedWithSession, AcceptFails
<1>4. ZombiesAreMissedSignals'
    BY DEF ZombiesAreMissedSignals, AcceptFails
<1> QED BY <1>2, <1>3, <1>4 DEF Inv

LEMMA SessionEndsInv ==
    ASSUME Inv, NEW c \in Client, SessionEnds(c)
    PROVE  Inv'
<1>1. TypeOK'
    BY DEF Inv, TypeOK, SessionEnds, State
<1>2. ClosedWithSession'
    BY DEF Inv, TypeOK, ClosedWithSession, SessionEnds
<1>3. ZombiesAreMissedSignals'
  <2>1. CASE ~listening
      BY <2>1 DEF ZombiesAreMissedSignals, SessionEnds
  <2>2. CASE listening
    <3>1. In("zombie")' = In("zombie") \cup {c} /\ c \notin In("zombie")
        BY <2>2 DEF Inv, TypeOK, In, SessionEnds
    <3>2. Cardinality(In("zombie") \cup {c}) = Cardinality(In("zombie")) + 1
        BY <3>1, InFinite, FS_AddElement
    <3>3. Cardinality(In("zombie")) = missed + (IF pending THEN 1 ELSE 0)
        BY <2>2 DEF Inv, ZombiesAreMissedSignals
    <3>4. pending' = TRUE /\ missed' = IF pending THEN missed + 1 ELSE missed
        BY <2>2 DEF SessionEnds, Inv, TypeOK
    <3>5. missed \in Nat /\ pending \in BOOLEAN
        BY DEF Inv, TypeOK
    <3>6. Cardinality(In("zombie")') = missed' + 1
      <4>1. CASE pending
          BY <4>1, <3>1, <3>2, <3>3, <3>4, <3>5
      <4>2. CASE ~pending
          BY <4>2, <3>1, <3>2, <3>3, <3>4, <3>5
      <4> QED BY <4>1, <4>2
    <3> QED BY <3>4, <3>6 DEF ZombiesAreMissedSignals
  <2> QED BY <2>1, <2>2
<1> QED BY <1>1, <1>2, <1>3 DEF Inv

LEMMA killChildInv ==
    ASSUME Inv, killChild
    PROVE  Inv'
<1>1. PICK c \in In("zombie") : client' = [client EXCEPT ![c] = "reaped"]
    BY DEF killChild
<1>2. c \in Client /\ client[c] = "zombie"
    BY <1>1 DEF In
<1>3. TypeOK'
    BY <1>1, <1>2 DEF Inv, TypeOK, killChild, State
<1>4. ClosedWithSession'
    BY <1>1, <1>2 DEF Inv, TypeOK, ClosedWithSession, killChild
<1>5. ZombiesAreMissedSignals'
  <2>1. In("zombie")' = In("zombie") \ {c}
      BY <1>1, <1>2 DEF Inv, TypeOK, In
  <2>2. Cardinality(In("zombie") \ {c}) = Cardinality(In("zombie")) - 1
      BY <1>1, InFinite, FS_RemoveElement
  <2>3. Cardinality(In("zombie")) = missed + 1
      BY DEF Inv, ZombiesAreMissedSignals, killChild
  <2>4. missed \in Nat /\ missed' = missed /\ pending' = FALSE
      BY DEF Inv, TypeOK, killChild
  <2> QED BY <2>1, <2>2, <2>3, <2>4 DEF ZombiesAreMissedSignals
<1> QED BY <1>3, <1>4, <1>5 DEF Inv

LEMMA StepInv == Inv /\ [Next]_vars => Inv'
<1> SUFFICES ASSUME Inv, [Next]_vars PROVE Inv'
    OBVIOUS
<1>1. CASE UNCHANGED vars
  <2>1. TypeOK' /\ ClosedWithSession'
      BY <1>1 DEF Inv, TypeOK, ClosedWithSession, vars
  <2>2. In("zombie")' = In("zombie")
      BY <1>1 DEF In, vars
  <2> QED BY <1>1, <2>1, <2>2 DEF Inv, ZombiesAreMissedSignals, vars
<1>2. CASE Accepting
    BY <1>2, AcceptFailsInv, ForkInv, ForkFailsInv DEF Accepting
<1>3. CASE AcceptAgain
    BY <1>3, AcceptAgainInv
<1>4. CASE killChild
    BY <1>4, killChildInv
<1>5. ASSUME NEW c \in Client, Connect(c) \/ SessionEnds(c) PROVE Inv'
    BY <1>5, ConnectInv, SessionEndsInv
<1> QED BY <1>1, <1>2, <1>3, <1>4, <1>5 DEF Next, Done, Gone

LEMMA Invariance == Spec => []Inv
BY InitInv, StepInv, PTL DEF Spec

\* The listener keeps its types, whatever fails.
THEOREM TypeCorrect == Spec => []TypeOK
BY Invariance, PTL DEF Inv

\* No process but the child of a client keeps its connection open, in
\* whatever order clients come, forks fail and sessions end.
THEOREM ConnectionsClosed == Spec => []ClosedWithSession
BY Invariance, PTL DEF Inv

\* Children are left unreaped exactly for the signals that found one pending.
THEOREM ZombiesCounted == Spec => []ZombiesAreMissedSignals
BY Invariance, PTL DEF Inv
=============================================================================
