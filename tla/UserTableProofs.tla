--------------------------- MODULE UserTableProofs ---------------------------
(***************************************************************************)
(* Facts about the operators of UserTable, and about the sequence          *)
(* operators the models of the servers change their tables with.           *)
(***************************************************************************)
EXTENDS UserTable, WellFoundedInduction, SequenceTheorems, TLAPS

\* A nonempty set of naturals has a least element: the first match of every
\* scan of a vector exists.
LEMMA LeastExists ==
    ASSUME NEW S \in SUBSET Nat, S # {}
    PROVE  \E k \in S : \A j \in S : k <= j
<1>1. \E k \in S : \A j \in S : ~(<<j, k>> \in OpToRel(<, Nat))
    BY NatLessThanWellFounded, WFMin
<1>2. PICK k \in S : \A j \in S : ~(<<j, k>> \in OpToRel(<, Nat))
    BY <1>1
<1>3. \A j \in S : ~(j < k)
    BY <1>2 DEF OpToRel
<1> QED BY <1>3

\* Where the elements of a concatenation come from.
LEMMA ConcatElements ==
    ASSUME NEW T, NEW a \in Seq(T), NEW b \in Seq(T), NEW n \in Nat, Len(a) = n
    PROVE  /\ a \o b \in Seq(T)
           /\ Len(a \o b) = n + Len(b)
           /\ \A i \in 1..n : (a \o b)[i] = a[i]
           /\ \A i \in (n + 1)..(n + Len(b)) : (a \o b)[i] = b[i - n]
<1>1. Len(b) \in Nat
    BY LenProperties
<1>2. a \o b \in Seq(T) /\ Len(a \o b) = n + Len(b)
    BY ConcatProperties
<1>3. ASSUME NEW i \in 1..n PROVE (a \o b)[i] = a[i]
  <2>1. i \in 1..(Len(a) + Len(b)) /\ i <= Len(a)
      BY <1>1
  <2> QED BY <2>1, ConcatProperties
<1>4. ASSUME NEW i \in (n + 1)..(n + Len(b)) PROVE (a \o b)[i] = b[i - n]
  <2>1. i \in 1..(Len(a) + Len(b)) /\ ~(i <= Len(a))
      BY <1>1
  <2> QED BY <2>1, ConcatProperties
<1> QED BY <1>2, <1>3, <1>4

\* RemoveAt drops position k and moves the rest up.
LEMMA RemoveAtFacts ==
    ASSUME NEW T, NEW s \in Seq(T), NEW k \in 1..Len(s)
    PROVE  /\ RemoveAt(s, k) \in Seq(T)
           /\ Len(RemoveAt(s, k)) = Len(s) - 1
           /\ \A i \in 1..(k - 1) : RemoveAt(s, k)[i] = s[i]
           /\ \A i \in k..(Len(s) - 1) : RemoveAt(s, k)[i] = s[i + 1]
<1> DEFINE a == SubSeq(s, 1, k - 1)
           b == SubSeq(s, k + 1, Len(s))
           n == k - 1
<1>1. Len(s) \in Nat /\ k \in Nat /\ k >= 1 /\ k <= Len(s) /\ n \in Nat
    BY LenProperties
<1>2. a \in Seq(T) /\ Len(a) = n /\ \A i \in 1..(k - 1) : a[i] = s[i]
    BY <1>1, SubSeqProperties
<1>3. b \in Seq(T) /\ Len(b) = Len(s) - k /\ \A i \in 1..(Len(s) - k) : b[i] = s[k + i]
    BY <1>1, SubSeqProperties
<1>4. RemoveAt(s, k) = a \o b
    BY DEF RemoveAt
<1>5. n = k - 1
    OBVIOUS
<1> HIDE DEF a, b, n
<1>6. /\ a \o b \in Seq(T)
      /\ Len(a \o b) = n + Len(b)
      /\ \A i \in 1..n : (a \o b)[i] = a[i]
      /\ \A i \in (n + 1)..(n + Len(b)) : (a \o b)[i] = b[i - n]
  <2>1. a \in Seq(T) /\ b \in Seq(T) /\ n \in Nat /\ Len(a) = n
      BY <1>1, <1>2, <1>3
  <2> QED BY <2>1, ConcatElements
<1>7. Len(a \o b) = Len(s) - 1
    BY <1>1, <1>3, <1>5, <1>6
<1>8. ASSUME NEW i \in 1..(k - 1) PROVE (a \o b)[i] = s[i]
    BY <1>2, <1>5, <1>6
<1>9. ASSUME NEW i \in k..(Len(s) - 1) PROVE (a \o b)[i] = s[i + 1]
  <2>1. i \in (n + 1)..(n + Len(b)) /\ i - n \in 1..(Len(s) - k) /\ k + (i - n) = i + 1
      BY <1>1, <1>3, <1>5
  <2> QED BY <2>1, <1>3, <1>6
<1> QED BY <1>4, <1>6, <1>7, <1>8, <1>9

\* InsertAt puts e at position k and moves the rest down.
LEMMA InsertAtFacts ==
    ASSUME NEW T, NEW s \in Seq(T), NEW e \in T, NEW k \in 1..(Len(s) + 1)
    PROVE  /\ InsertAt(s, k, e) \in Seq(T)
           /\ Len(InsertAt(s, k, e)) = Len(s) + 1
           /\ \A i \in 1..(k - 1) : InsertAt(s, k, e)[i] = s[i]
           /\ InsertAt(s, k, e)[k] = e
           /\ \A i \in (k + 1)..(Len(s) + 1) : InsertAt(s, k, e)[i] = s[i - 1]
<1> DEFINE a == SubSeq(s, 1, k - 1)
           b == SubSeq(s, k, Len(s))
           c == a \o <<e>>
           d == c \o b
           n == k - 1
<1>1. Len(s) \in Nat /\ k \in Nat /\ k >= 1 /\ k <= Len(s) + 1 /\ n \in Nat
    BY LenProperties
<1>2. a \in Seq(T) /\ Len(a) = n /\ \A i \in 1..(k - 1) : a[i] = s[i]
    BY <1>1, SubSeqProperties
<1>3. b \in Seq(T) /\ Len(b) = Len(s) - k + 1 /\ \A i \in 1..(Len(s) - k + 1) : b[i] = s[k + i - 1]
    BY <1>1, SubSeqProperties
<1>4. <<e>> \in Seq(T) /\ Len(<<e>>) = 1 /\ <<e>>[1] = e
    OBVIOUS
<1>5. InsertAt(s, k, e) = d
    BY DEF InsertAt
<1>6. n = k - 1
    OBVIOUS
<1> HIDE DEF a, b, n
<1>7. /\ c \in Seq(T)
      /\ Len(c) = n + Len(<<e>>)
      /\ \A i \in 1..n : c[i] = a[i]
      /\ \A i \in (n + 1)..(n + Len(<<e>>)) : c[i] = <<e>>[i - n]
    BY <1>1, <1>2, <1>4, ConcatElements
<1>8. Len(c) = k /\ c[k] = e
  <2>1. k \in (n + 1)..(n + Len(<<e>>)) /\ k - n = 1
      BY <1>1, <1>4, <1>6
  <2> QED BY <2>1, <1>1, <1>4, <1>6, <1>7
<1> HIDE DEF c
<1>9. /\ d \in Seq(T)
      /\ Len(d) = k + Len(b)
      /\ \A i \in 1..k : d[i] = c[i]
      /\ \A i \in (k + 1)..(k + Len(b)) : d[i] = b[i - k]
    BY <1>1, <1>3, <1>7, <1>8, ConcatElements, SMTT(30)
<1> HIDE DEF d
<1>10. Len(d) = Len(s) + 1 /\ d[k] = e
    BY <1>1, <1>3, <1>8, <1>9
<1>11. ASSUME NEW i \in 1..(k - 1) PROVE d[i] = s[i]
  <2>1. i \in 1..n /\ i \in 1..k
      BY <1>1, <1>6
  <2> QED BY <2>1, <1>2, <1>6, <1>7, <1>9
<1>12. ASSUME NEW i \in (k + 1)..(Len(s) + 1) PROVE d[i] = s[i - 1]
  <2>1. i \in (k + 1)..(k + Len(b)) /\ i - k \in 1..(Len(s) - k + 1) /\ k + (i - k) - 1 = i - 1
      BY <1>1, <1>3
  <2> QED BY <2>1, <1>3, <1>9
<1> QED BY <1>5, <1>9, <1>10, <1>11, <1>12

-----------------------------------------------------------------------------
\* The scan for a socket, or for a uid, that is in the table finds it.
LEMMA IndexBySockFacts ==
    ASSUME NEW T, NEW t \in Seq(T), NEW s \in SocksOf(t)
    PROVE  IndexBySock(t, s) \in DOMAIN t /\ t[IndexBySock(t, s)].sockid = s
<1> DEFINE S == {i \in DOMAIN t : t[i].sockid = s}
<1>1. S \in SUBSET Nat /\ S # {}
    BY LenProperties DEF SocksOf
<1>2. PICK k \in S : \A j \in S : k <= j
    BY <1>1, LeastExists
<1>3. \A j \in 1..(k - 1) : t[j].sockid # s
    BY <1>2, LenProperties
<1>4. k \in DOMAIN t /\ t[k].sockid = s
    BY <1>2
<1> QED BY <1>3, <1>4 DEF IndexBySock

LEMMA IndexByIdFacts ==
    ASSUME NEW T, NEW t \in Seq(T), NEW u \in UidsOf(t)
    PROVE  IndexById(t, u) \in DOMAIN t /\ t[IndexById(t, u)].uid = u
<1> DEFINE S == {i \in DOMAIN t : t[i].uid = u}
<1>1. S \in SUBSET Nat /\ S # {}
    BY LenProperties DEF UidsOf
<1>2. PICK k \in S : \A j \in S : k <= j
    BY <1>1, LeastExists
<1>3. \A j \in 1..(k - 1) : t[j].uid # u
    BY <1>2, LenProperties
<1>4. k \in DOMAIN t /\ t[k].uid = u
    BY <1>2
<1> QED BY <1>3, <1>4 DEF IndexById

\* The scan for a gap ends at the first position that is not its user's uid.
LEMMA FirstGapFacts ==
    ASSUME NEW T, NEW t \in Seq(T)
    PROVE  /\ FirstGap(t) \in 1..(Len(t) + 1)
           /\ \A i \in 1..(FirstGap(t) - 1) : t[i].uid = i
           /\ FirstGap(t) <= Len(t) => t[FirstGap(t)].uid # FirstGap(t)
<1> DEFINE S == {i \in 1..(Len(t) + 1) : i <= Len(t) => t[i].uid # i}
<1>1. Len(t) \in Nat
    BY LenProperties
<1>2. S \in SUBSET Nat /\ S # {}
  <2>1. Len(t) + 1 \in S
      BY <1>1
  <2> QED BY <1>1, <2>1
<1>3. PICK k \in S : \A j \in S : k <= j
    BY <1>2, LeastExists
<1>4. \A i \in 1..(k - 1) : t[i].uid = i
    BY <1>1, <1>3
<1>5. k \in 1..(Len(t) + 1) /\ (k <= Len(t) => t[k].uid # k)
    BY <1>3
<1> QED BY <1>4, <1>5 DEF FirstGap

\* A user enters an ordered table at the place that keeps it ordered, with a
\* uid in range that nobody has: the search of newConnection() is right for
\* every table the server can have.
THEOREM EnterCorrect ==
    ASSUME NEW T, NEW t \in Seq(T), NEW u \in T,
           \A i \in DOMAIN t : t[i].uid \in Uid,
           \A k \in Uid : [u EXCEPT !.uid = k] \in T /\ [u EXCEPT !.uid = k].uid = k,
           Increasing(t), Len(t) <= MaxUsers
    PROVE  /\ Enter(t, u) \in Seq(T)
           /\ Increasing(Enter(t, u)) /\ Len(Enter(t, u)) <= MaxUsers
           /\ \/ Enter(t, u) = t /\ Len(t) = MaxUsers
              \/ \E k \in Uid \ UidsOf(t) :
                    /\ k \in 1..(Len(t) + 1)
                    /\ Enter(t, u) = InsertAt(t, k, [u EXCEPT !.uid = k])
                    /\ 1..(k - 1) \subseteq UidsOf(t)
<1> DEFINE k == FirstGap(t)
           e == [u EXCEPT !.uid = k]
<1>1. Len(t) \in Nat /\ DOMAIN t = 1..Len(t) /\ MaxUsers \in Nat
    BY LenProperties, MaxUsersAssumption
<1>2. /\ k \in 1..(Len(t) + 1)
      /\ \A i \in 1..(k - 1) : t[i].uid = i
      /\ k <= Len(t) => t[k].uid # k
    BY FirstGapFacts
<1> HIDE DEF k
<1>3. CASE ~(k <= Len(t) \/ k <= MaxUsers)
  <2>1. Enter(t, u) = t
      BY <1>3 DEF Enter, k
  <2>2. Len(t) = MaxUsers
      BY <1>1, <1>2, <1>3
  <2> QED BY <2>1, <2>2
<1>4. CASE k <= Len(t) \/ k <= MaxUsers
  <2>1. k \in Uid
      BY <1>1, <1>2, <1>4 DEF Uid
  <2>2. \A i \in DOMAIN t : i >= k => t[i].uid > k
    <3> SUFFICES ASSUME NEW i \in DOMAIN t, i >= k PROVE t[i].uid > k
        OBVIOUS
    <3>1. t[k].uid \in Nat /\ t[k].uid # k /\ k \in DOMAIN t
        BY <1>1, <1>2 DEF Uid
    <3>2. t[k].uid > k
      <4>1. CASE k = 1
          BY <1>1, <3>1, <4>1 DEF Uid
      <4>2. CASE k > 1
        <5>1. k - 1 \in DOMAIN t /\ t[k - 1].uid = k - 1
            BY <1>1, <1>2, <4>2, <3>1
        <5>2. t[k - 1].uid < t[k].uid
            BY <5>1, <3>1, <1>1, <1>2 DEF Increasing
        <5> QED BY <5>1, <5>2, <3>1, <1>2
      <4> QED BY <4>1, <4>2, <1>2
    <3>3. CASE i = k
        BY <3>2, <3>3
    <3>4. CASE i > k
      <4>1. t[k].uid < t[i].uid
          BY <3>1, <3>4, <1>2 DEF Increasing
      <4>2. t[i].uid \in Nat
          BY DEF Uid
      <4> QED BY <3>1, <3>2, <4>1, <4>2, <1>2
    <3> QED BY <3>3, <3>4, <1>1, <1>2
  <2>3. e \in T /\ e.uid = k
      BY <2>1
  <2>4. Enter(t, u) = InsertAt(t, k, e)
      BY <1>4 DEF Enter, k
  <2> HIDE DEF e
  <2>5. /\ Enter(t, u) \in Seq(T)
        /\ Len(Enter(t, u)) = Len(t) + 1
        /\ \A i \in 1..(k - 1) : Enter(t, u)[i] = t[i]
        /\ Enter(t, u)[k] = e
        /\ \A i \in (k + 1)..(Len(t) + 1) : Enter(t, u)[i] = t[i - 1]
      BY <2>3, <2>4, <1>2, InsertAtFacts, SMTT(30)
  <2>6. Increasing(Enter(t, u))
    <3> SUFFICES ASSUME NEW i \in 1..(Len(t) + 1), NEW j \in 1..(Len(t) + 1), i < j
                 PROVE  Enter(t, u)[i].uid < Enter(t, u)[j].uid
        BY <2>5, LenProperties DEF Increasing
    <3>1. CASE j < k
        BY <3>1, <2>5, <1>1, <1>2
    <3>2. CASE j = k
        BY <3>2, <2>5, <2>3, <1>1, <1>2
    <3>3. CASE j > k /\ i = k
      <4>1. Enter(t, u)[i] = e /\ Enter(t, u)[j] = t[j - 1]
          BY <3>3, <2>5, <1>2
      <4>2. t[j - 1].uid > k
          BY <3>3, <2>2, <1>1, <1>2
      <4> QED BY <4>1, <4>2, <2>3
    <3>4. CASE j > k /\ i < k
      <4>1. Enter(t, u)[i] = t[i] /\ Enter(t, u)[j] = t[j - 1]
          BY <3>4, <2>5, <1>2
      <4>2. t[j - 1].uid > k /\ t[j - 1].uid \in Nat /\ t[i].uid = i
          BY <3>4, <2>2, <1>1, <1>2 DEF Uid
      <4> QED BY <4>1, <4>2, <3>4, <1>2
    <3>5. CASE j > k /\ i > k
      <4> i \in (k + 1)..(Len(t) + 1) /\ j \in (k + 1)..(Len(t) + 1)
          BY <3>5, <1>1, <1>2
      <4>1. Enter(t, u)[i] = t[i - 1] /\ Enter(t, u)[j] = t[j - 1]
          BY <2>5
      <4>2. t[i - 1].uid < t[j - 1].uid
          BY <3>5, <1>1, <1>2 DEF Increasing
      <4> QED BY <4>1, <4>2
    <3> QED BY <3>1, <3>2, <3>3, <3>4, <3>5, <1>2
  <2>7. Len(t) + 1 <= MaxUsers
    <3>1. CASE k = Len(t) + 1
        BY <3>1, <1>1, <1>4
    <3>2. CASE k <= Len(t)
      <4> SUFFICES ASSUME Len(t) = MaxUsers PROVE FALSE
          BY <1>1
      <4>1. \A i \in DOMAIN t : t[i].uid \in 1..MaxUsers
          BY DEF Uid
      <4>2. \A i \in DOMAIN t : i >= k => t[i].uid > i
        <5> DEFINE S == {i \in DOMAIN t : i >= k /\ ~(t[i].uid > i)}
        <5> SUFFICES S = {}
            OBVIOUS
        <5>1. SUFFICES ASSUME S # {} PROVE FALSE
            OBVIOUS
        <5>2. PICK m \in S : \A j \in S : m <= j
          <6>1. S \in SUBSET Nat
              BY <1>1
          <6> HIDE DEF S
          <6> QED BY <5>1, <6>1, LeastExists
        <5>3. m # k
            BY <5>2, <2>2, <1>1, <1>2
        <5>4. m - 1 \in DOMAIN t /\ m - 1 >= k /\ m - 1 \notin S
            BY <5>2, <5>3, <1>1, <1>2
        <5>5. t[m - 1].uid > m - 1
            BY <5>4
        <5>6. t[m - 1].uid < t[m].uid
            BY <5>2, <5>4, <1>1 DEF Increasing
        <5>7. t[m].uid \in Nat /\ t[m - 1].uid \in Nat /\ m \in Nat
            BY <5>2, <5>4, <1>1 DEF Uid
        <5> QED BY <5>2, <5>5, <5>6, <5>7
      <4>3. t[MaxUsers].uid > MaxUsers
          BY <4>2, <3>2, <1>1, <1>2
      <4> QED BY <4>1, <4>3, <3>2, <1>1, <1>2
    <3> QED BY <3>1, <3>2, <1>1, <1>2
  <2>8. k \notin UidsOf(t)
    <3> SUFFICES ASSUME NEW i \in DOMAIN t, t[i].uid = k PROVE FALSE
        BY DEF UidsOf
    <3> QED BY <2>2, <1>1, <1>2
  <2>9. 1..(k - 1) \subseteq UidsOf(t)
      BY <1>1, <1>2 DEF UidsOf
  <2>10. Len(Enter(t, u)) <= MaxUsers
      BY <2>5, <2>7
  <2>11. k \in Uid \ UidsOf(t)
      BY <2>1, <2>8
  <2>12. Enter(t, u) = InsertAt(t, k, [u EXCEPT !.uid = k])
      BY <2>4 DEF e
  <2> QED BY <2>5, <2>6, <2>9, <2>10, <2>11, <2>12, <1>2
<1> QED BY <1>3, <1>4

-----------------------------------------------------------------------------
(* What the users of a table, or the pipes of a list, are after a change *)

\* Every old position is found again, and the new one holds the new user.
LEMMA InsertElements ==
    ASSUME NEW T, NEW s \in Seq(T), NEW e \in T, NEW k \in 1..(Len(s) + 1)
    PROVE  /\ Len(s) \in Nat /\ DOMAIN s = 1..Len(s)
           /\ DOMAIN InsertAt(s, k, e) = 1..(Len(s) + 1)
           /\ InsertAt(s, k, e)[k] = e
           /\ \A i \in 1..(k - 1) : InsertAt(s, k, e)[i] = s[i]
           /\ \A i \in (k + 1)..(Len(s) + 1) : InsertAt(s, k, e)[i] = s[i - 1]
<1> DEFINE t == InsertAt(s, k, e)
<1>0. s \in Seq(T) /\ e \in T /\ k \in 1..(Len(s) + 1)
    OBVIOUS
<1>1. /\ t \in Seq(T) /\ Len(t) = Len(s) + 1 /\ t[k] = e
      /\ \A i \in 1..(k - 1) : t[i] = s[i]
      /\ \A i \in (k + 1)..(Len(s) + 1) : t[i] = s[i - 1]
    BY ONLY <1>0, InsertAtFacts, SMTT(30)
<1> HIDE DEF t
<1>2. DOMAIN t = 1..(Len(s) + 1)
    BY <1>1, LenProperties
<1> QED BY <1>1, <1>2, LenProperties DEF t

\* Nobody but the new element is added, and nobody is lost.
LEMMA InsertKeepsAll ==
    ASSUME NEW T, NEW s \in Seq(T), NEW e \in T, NEW k \in 1..(Len(s) + 1)
    PROVE  /\ k \in DOMAIN InsertAt(s, k, e) /\ InsertAt(s, k, e)[k] = e
           /\ \A i \in DOMAIN s : \E j \in DOMAIN InsertAt(s, k, e) : InsertAt(s, k, e)[j] = s[i]
           /\ \A j \in DOMAIN InsertAt(s, k, e) : j = k \/ \E i \in DOMAIN s : InsertAt(s, k, e)[j] = s[i]
<1> DEFINE t == InsertAt(s, k, e)
<1>0. s \in Seq(T) /\ e \in T /\ k \in 1..(Len(s) + 1)
    OBVIOUS
<1>1. /\ Len(s) \in Nat /\ DOMAIN s = 1..Len(s)
      /\ DOMAIN t = 1..(Len(s) + 1) /\ t[k] = e
      /\ \A i \in 1..(k - 1) : t[i] = s[i]
      /\ \A i \in (k + 1)..(Len(s) + 1) : t[i] = s[i - 1]
    BY ONLY <1>0, InsertElements
<1> HIDE DEF t
<1>2. ASSUME NEW i \in DOMAIN s PROVE \E j \in DOMAIN t : t[j] = s[i]
  <2>1. CASE i < k
    <3>1. i \in 1..(k - 1) /\ i \in DOMAIN t
        BY <1>0, <1>1, <2>1
    <3> QED BY <1>1, <3>1
  <2>2. CASE ~(i < k)
    <3>1. i + 1 \in (k + 1)..(Len(s) + 1) /\ i + 1 \in DOMAIN t /\ (i + 1) - 1 = i
        BY <1>0, <1>1, <2>2
    <3> QED BY <1>1, <3>1
  <2> QED BY <2>1, <2>2
<1>3. ASSUME NEW j \in DOMAIN t, j # k PROVE \E i \in DOMAIN s : t[j] = s[i]
  <2>1. CASE j < k
    <3>1. j \in 1..(k - 1) /\ j \in DOMAIN s
        BY <1>0, <1>1, <2>1
    <3> QED BY <1>1, <3>1
  <2>2. CASE ~(j < k)
    <3>1. j \in (k + 1)..(Len(s) + 1) /\ j - 1 \in DOMAIN s
        BY <1>0, <1>1, <1>3, <2>2
    <3> QED BY <1>1, <3>1
  <2> QED BY <2>1, <2>2
<1>4. k \in DOMAIN t
    BY <1>0, <1>1
<1> QED BY <1>1, <1>2, <1>3, <1>4 DEF t

LEMMA AppendElements ==
    ASSUME NEW T, NEW s \in Seq(T), NEW e \in T
    PROVE  /\ DOMAIN Append(s, e) = DOMAIN s \cup {Len(s) + 1}
           /\ \A i \in DOMAIN s : Append(s, e)[i] = s[i]
           /\ Append(s, e)[Len(s) + 1] = e
<1>1. /\ Append(s, e) \in Seq(T) /\ Len(Append(s, e)) = Len(s) + 1
      /\ \A i \in 1..Len(s) : Append(s, e)[i] = s[i]
      /\ Append(s, e)[Len(s) + 1] = e
    BY AppendProperties
<1>2. DOMAIN s = 1..Len(s) /\ Len(s) \in Nat /\ DOMAIN Append(s, e) = 1..(Len(s) + 1)
    BY <1>1, LenProperties
<1> QED BY <1>1, <1>2

LEMMA RemoveElements ==
    ASSUME NEW T, NEW s \in Seq(T), NEW k \in 1..Len(s)
    PROVE  /\ \A i \in DOMAIN RemoveAt(s, k) : \E j \in DOMAIN s \ {k} : RemoveAt(s, k)[i] = s[j]
           /\ \A j \in DOMAIN s \ {k} : \E i \in DOMAIN RemoveAt(s, k) : RemoveAt(s, k)[i] = s[j]
<1> DEFINE t == RemoveAt(s, k)
<1>1. /\ t \in Seq(T) /\ Len(t) = Len(s) - 1
      /\ \A i \in 1..(k - 1) : t[i] = s[i]
      /\ \A i \in k..(Len(s) - 1) : t[i] = s[i + 1]
    BY RemoveAtFacts
<1> HIDE DEF t
<1>2. Len(s) \in Nat /\ DOMAIN s = 1..Len(s) /\ DOMAIN t = 1..(Len(s) - 1) /\ k \in 1..Len(s)
    BY <1>1, LenProperties
<1>3. ASSUME NEW i \in DOMAIN t PROVE \E j \in DOMAIN s \ {k} : t[i] = s[j]
  <2>1. CASE i < k
    <3>1. i \in 1..(k - 1) /\ i \in DOMAIN s \ {k}
        BY <1>2, <2>1
    <3> QED BY <1>1, <3>1
  <2>2. CASE ~(i < k)
    <3>1. i \in k..(Len(s) - 1) /\ i + 1 \in DOMAIN s \ {k}
        BY <1>2, <2>2
    <3> QED BY <1>1, <3>1
  <2> QED BY <2>1, <2>2
<1>4. ASSUME NEW j \in DOMAIN s \ {k} PROVE \E i \in DOMAIN t : t[i] = s[j]
  <2>1. CASE j < k
    <3>1. j \in 1..(k - 1) /\ j \in DOMAIN t
        BY <1>2, <2>1
    <3> QED BY <1>1, <3>1
  <2>2. CASE ~(j < k)
    <3>1. j - 1 \in k..(Len(s) - 1) /\ j - 1 \in DOMAIN t /\ (j - 1) + 1 = j
        BY <1>2, <2>2
    <3> QED BY <1>1, <3>1
  <2> QED BY <2>1, <2>2
<1> QED BY <1>3, <1>4 DEF t

\* A uid leads to the one user who has it.
LEMMA IndexOfUser ==
    ASSUME NEW T, NEW t \in Seq(T), \A j \in DOMAIN t : t[j].uid \in Uid, Increasing(t), NEW i \in DOMAIN t
    PROVE  IndexById(t, t[i].uid) = i
<1> DEFINE k == IndexById(t, t[i].uid)
<1>1. t[i].uid \in UidsOf(t)
    BY DEF UidsOf
<1>2. k \in DOMAIN t /\ t[k].uid = t[i].uid
    BY <1>1, IndexByIdFacts
<1>3. i \in Nat /\ k \in Nat /\ t[i].uid \in Nat
    BY <1>2, LenProperties DEF Uid
<1> HIDE DEF k
<1>4. ~(i < k) /\ ~(k < i)
    BY <1>2, <1>3 DEF Increasing
<1>5. k = i
    BY <1>3, <1>4
<1> QED BY <1>5 DEF k

\* What is left after a removal, with the positions it had.
LEMMA RemoveAtKeeps ==
    ASSUME NEW T, NEW s \in Seq(T), NEW k \in 1..Len(s)
    PROVE  \E f \in [DOMAIN RemoveAt(s, k) -> DOMAIN s \ {k}] :
               /\ \A i \in DOMAIN RemoveAt(s, k) : RemoveAt(s, k)[i] = s[f[i]]
               /\ \A i, j \in DOMAIN RemoveAt(s, k) : f[i] = f[j] => i = j
<1> DEFINE t == RemoveAt(s, k)
<1>1. /\ t \in Seq(T) /\ Len(t) = Len(s) - 1
      /\ \A i \in 1..(k - 1) : t[i] = s[i]
      /\ \A i \in k..(Len(s) - 1) : t[i] = s[i + 1]
    BY RemoveAtFacts
<1> HIDE DEF t
<1>2. Len(s) \in Nat /\ DOMAIN s = 1..Len(s) /\ DOMAIN t = 1..(Len(s) - 1) /\ k \in 1..Len(s)
    BY <1>1, LenProperties
<1> DEFINE f == [i \in DOMAIN t |-> IF i < k THEN i ELSE i + 1]
<1>3. f \in [DOMAIN t -> DOMAIN s \ {k}]
    BY <1>2
<1>4. \A i \in DOMAIN t : t[i] = s[f[i]]
  <2>1. \A i \in DOMAIN t : i < k => i \in 1..(k - 1)
      BY <1>2
  <2>2. \A i \in DOMAIN t : ~(i < k) => i \in k..(Len(s) - 1)
      BY <1>2
  <2> QED BY <1>1, <2>1, <2>2
<1>5. \A i, j \in DOMAIN t : f[i] = f[j] => i = j
    BY <1>2
<1> HIDE DEF f
<1> QED BY <1>3, <1>4, <1>5 DEF t
=============================================================================
