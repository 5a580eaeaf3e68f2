------------------------- MODULE SocksSessionProofs -------------------------
(***************************************************************************)
(* What holds of a session of the proxy for every set of requests, rules   *)
(* and addresses, every size of the buffer and every length of what the    *)
(* sides say.                                                              *)
(*                                                                         *)
(* Inv is inductive: the state has its types, nothing is relayed before    *)
(* the replies, a buffer is empty unless it is being written out, bytes    *)
(* are conserved, and the request was granted before anybody is connected. *)
(***************************************************************************)
EXTENDS SocksSession, SequenceTheorems, TLAPS

Types ==
    /\ phase \in Phases
    /\ asked \in Situation
    /\ replies \in Seq({90, 91})
    /\ link \in [Side -> Link]
    /\ said \in [Side -> Chunks] /\ wire \in [Side -> Chunks]
    /\ buffer \in [Side -> Chunks] /\ heard \in [Side -> Chunks]
    /\ direction \in [Side -> Direction]
    /\ eof \subseteq Side

\* Nothing is relayed before the session relays.
Unbegun ==
    phase \notin {"relaying", "ended", "aborted"} =>
        \A s \in Side : direction[s] = "off" /\ heard[s] = << >>

\* A buffer holds something exactly while it is written out, or was when its
\* direction stopped.
Buffers ==
    \A s \in Side : /\ direction[s] \in {"off", "reading"} => buffer[s] = << >>
                    /\ direction[s] = "writing" => buffer[s] # << >>

\* End of file ends the session, after the data.
EofKept == \A s \in eof : ~Alive /\ link[s] \in Ended

AskedGranted ==
    /\ Granted(asked.request, asked.from, asked.clientConf, asked.destConf)
    /\ asked.clientConf \in Confs /\ asked.destConf \in Confs
\* The client is there, and a session that relays has a remote side.
Joined ==
    /\ link["client"] # "absent"
    /\ phase \in {"granting", "relaying"} => link["remote"] # "absent"

\* Nobody is connected before the request that is known was granted.
Decided ==
    /\ phase \in {"request", "connecting", "binding", "accepting"} => link["remote"] = "absent"
    /\ phase \in {"connecting", "granting", "binding", "accepting"} \/ link["remote"] # "absent"
          => AskedGranted

Inv == Types /\ Unbegun /\ Buffers /\ Conserved /\ EofKept /\ EofAfterData /\ Joined /\ Decided

-----------------------------------------------------------------------------
(* Sequences of bytes *)

LEMMA Split ==
    ASSUME NEW T, NEW h \in Seq(T), NEW w \in Seq(T), NEW n \in 1..Len(w)
    PROVE  /\ SubSeq(w, 1, n) \in Seq(T) /\ SubSeq(w, n + 1, Len(w)) \in Seq(T)
           /\ SubSeq(w, 1, n) # << >>
           /\ (h \o SubSeq(w, 1, n)) \o SubSeq(w, n + 1, Len(w)) = (h \o << >>) \o w
<1> DEFINE a == SubSeq(w, 1, n)
           b == SubSeq(w, n + 1, Len(w))
<1>1. Len(w) \in Nat /\ n \in 1..Len(w) /\ \A i \in 1..Len(w) : w[i] \in T
    BY LenProperties, ElementOfSeq
<1>2. a \in Seq(T) /\ Len(a) = n
  <2>1. \A i \in 1..n : w[i] \in T
      BY <1>1
  <2>2. a \in Seq(T) /\ Len(a) = IF 1 <= n THEN n - 1 + 1 ELSE 0
      BY <1>1, <2>1, SubSeqProperties
  <2> QED BY <1>1, <2>2
<1>3. b \in Seq(T)
  <2>1. \A i \in (n + 1)..Len(w) : w[i] \in T
      BY <1>1
  <2> QED BY <1>1, <2>1, SubSeqProperties
<1>4. a \o b = w
  <2>1. SubSeq(w, 1, n) \o SubSeq(w, n + 1, Len(w)) = SubSeq(w, 1, Len(w))
      BY <1>1, ConcatAdjacentSubSeq
  <2> QED BY <2>1, SubSeqFull
<1>5. a # << >>
    BY <1>1, <1>2, EmptySeq
<1> HIDE DEF a, b
<1>6. (h \o a) \o b = h \o w
  <2>1. (h \o a) \o b = h \o (a \o b)
      BY <1>2, <1>3, ConcatAssociative, SMTT(30)
  <2> QED BY <1>4, <2>1
<1>7. h \o << >> = h
    BY ConcatEmptySeq
<1> QED BY <1>2, <1>3, <1>5, <1>6, <1>7 DEF a, b

LEMMA Shift ==
    ASSUME NEW h \in Chunks, NEW b \in Chunks, NEW w \in Chunks, b # << >>
    PROVE  /\ Tail(b) \in Chunks /\ Append(h, Head(b)) \in Chunks
           /\ Tail(b) = << >> <=> Len(b) = 1
           /\ (Append(h, Head(b)) \o Tail(b)) \o w = (h \o b) \o w
<1> USE DEF Chunks
<1>1. Head(b) \in Unit /\ Tail(b) \in Seq(Unit) /\ Len(Tail(b)) = Len(b) - 1 /\ Len(b) \in Nat
    BY HeadTailProperties, LenProperties
<1>2. Append(h, Head(b)) = h \o <<Head(b)>> /\ Append(h, Head(b)) \in Seq(Unit)
    BY <1>1, AppendIsConcat, AppendProperties
<1>3. <<Head(b)>> \o Tail(b) = b
  <2>1. Len(b) \in 1..Len(b) /\ 1 \in 1..Len(b)
      BY <1>1, EmptySeq
  <2>2. SubSeq(b, 1, Len(b)) = <<b[1]>> \o SubSeq(b, 1 + 1, Len(b))
      BY <2>1, SubSeqRecursiveFirst
  <2>3. SubSeq(b, 1, Len(b)) = b
      BY SubSeqFull
  <2>4. Tail(b) = SubSeq(b, 2, Len(b))
      BY TailIsSubSeq
  <2>5. Head(b) = b[1]
      BY <2>1
  <2> QED BY <2>2, <2>3, <2>4, <2>5
<1>4. <<Head(b)>> \in Seq(Unit)
    BY <1>1
<1>5. (h \o <<Head(b)>>) \o Tail(b) = h \o (<<Head(b)>> \o Tail(b))
    BY <1>1, <1>4, ConcatAssociative
<1>6. (Append(h, Head(b)) \o Tail(b)) = h \o b
    BY <1>2, <1>3, <1>5
<1>7. Tail(b) = << >> <=> Len(b) = 1
  <2> DEFINE t == Tail(b)
  <2>1. t \in Seq(Unit) /\ Len(t) = Len(b) - 1 /\ Len(b) \in Nat
      BY <1>1
  <2> HIDE DEF t
  <2>2. t = << >> <=> Len(t) = 0
      BY <2>1, EmptySeq
  <2> QED BY <2>1, <2>2 DEF t
<1> QED BY <1>1, <1>2, <1>6, <1>7

LEMMA Extend ==
    ASSUME NEW h \in Chunks, NEW b \in Chunks, NEW w \in Chunks, NEW e \in Unit
    PROVE  /\ Append(w, e) \in Chunks
           /\ Append((h \o b) \o w, e) = (h \o b) \o Append(w, e)
<1> USE DEF Chunks
<1> DEFINE x == h \o b
<1>1. x \in Seq(Unit) /\ x \o w \in Seq(Unit) /\ <<e>> \in Seq(Unit)
    BY ConcatProperties
<1> HIDE DEF x
<1>2. Append(x \o w, e) = (x \o w) \o <<e>>
    BY <1>1, AppendIsConcat
<1>3. Append(w, e) = w \o <<e>> /\ Append(w, e) \in Seq(Unit)
    BY AppendIsConcat, AppendProperties
<1>4. (x \o w) \o <<e>> = x \o (w \o <<e>>)
    BY <1>1, ConcatAssociative
<1> QED BY <1>2, <1>3, <1>4 DEF x
-----------------------------------------------------------------------------
(* Steps *)

LEMMA Sides ==
    /\ \A s \in Side : Other(s) \in Side /\ Other(s) # s /\ Other(Other(s)) = s
    /\ "client" \in Side /\ "remote" \in Side /\ Other("client") = "remote"
BY DEF Side, Other

\* While the session lasts nobody's end of file has ended it.
LEMMA NoEofYet ==
    ASSUME Inv, Alive
    PROVE  eof = {}
BY DEF Inv, EofKept

LEMMA EofLater ==
    ASSUME Inv, Alive, UNCHANGED eof
    PROVE  EofKept' /\ EofAfterData'
BY NoEofYet DEF EofKept, EofAfterData

LEMMA InitInv == Init => Inv
<1> SUFFICES ASSUME Init PROVE Inv
    OBVIOUS
<1>1. << >> \in Chunks /\ << >> \in Seq({90, 91}) /\ << >> \o << >> = << >>
    BY EmptySeq, ConcatEmptySeq DEF Chunks
<1>2. Types
  <2>1. Nobody \in Situation
      BY DEF Nobody, Situation
  <2>2. \A x \in Chunks : Each(x) \in [Side -> Chunks]
      BY DEF Each
  <2>3. Each("off") \in [Side -> Direction]
      BY DEF Each, Direction
  <2>4. link \in [Side -> Link]
      BY DEF Init, Link
  <2> QED BY <1>1, <2>1, <2>2, <2>3, <2>4 DEF Init, Types, Phases
<1>3. Unbegun /\ Buffers
    BY DEF Init, Unbegun, Buffers, Each
<1>4. Conserved
    BY <1>1, Sides DEF Init, Conserved, Each
<1>5. EofKept /\ EofAfterData
    BY DEF Init, EofKept, EofAfterData
<1>6. Decided
    BY Sides DEF Init, Decided
<1>7. Joined
    BY Sides DEF Init, Joined
<1> QED BY <1>2, <1>3, <1>4, <1>5, <1>6, <1>7 DEF Inv

\* The session ends, if for the end of file of some sides then with their
\* buffers written out.
LEMMA FinishInv ==
    ASSUME Inv, Alive, NEW p \in {"ended", "aborted"}, Finish(p),
           replies' \in Seq({90, 91}),
           NEW E \in SUBSET Side, eof' = E, \A s \in E : AtEnd(s) /\ link[s] \in Ended
    PROVE  Inv'
<1>1. phase' = p /\ UNCHANGED <<asked, link, said, wire, buffer, direction>>
    BY DEF Finish
<1>2. /\ heard' \in [Side -> Chunks]
      /\ \A s \in Side : wire[s] = << >> => heard'[s] = heard[s]
  <2>1. PICK i \in 0..Len(heard["client"]), j \in 0..Len(heard["remote"]) :
            heard' = [s \in Side |-> SubSeq(heard[s], 1, IF s = "client" THEN i ELSE j)]
      BY DEF Finish
  <2>2. ASSUME NEW s \in Side PROVE heard'[s] \in Chunks
    <3> DEFINE k == IF s = "client" THEN i ELSE j
    <3>1. heard[s] \in Seq(Unit) /\ Len(heard[s]) \in Nat
        BY LenProperties DEF Inv, Types, Chunks
    <3>2. k \in 0..Len(heard[s])
        BY <2>1 DEF Side
    <3>3. heard'[s] = SubSeq(heard[s], 1, k)
        BY <2>1
    <3> HIDE DEF k
    <3>4. \A m \in 1..k : heard[s][m] \in Unit
        BY <3>1, <3>2, ElementOfSeq
    <3>5. SubSeq(heard[s], 1, k) \in Seq(Unit)
        BY <3>1, <3>2, <3>4, SubSeqProperties
    <3> QED BY <3>3, <3>5 DEF Chunks
  <2>3. \A s \in Side : wire[s] = << >> => heard'[s] = heard[s]
      BY DEF Finish
  <2> QED BY <2>1, <2>2, <2>3
<1>3. ~Alive'
    BY <1>1 DEF Alive
<1>4. Types'
    BY <1>1, <1>2 DEF Inv, Types, Phases
<1>5. Unbegun' /\ Buffers' /\ Conserved' /\ EofKept'
    BY <1>1, <1>3 DEF Inv, Unbegun, Buffers, Conserved, EofKept
<1>6. EofAfterData'
  <2>1. ASSUME NEW s \in E, link[Other(s)] \in {"open", "half"}, wire[Other(s)] = << >>
        PROVE  heard'[Other(s)] = said[s]
    <3>1. s \in Side /\ Other(s) \in Side
        BY Sides
    <3>2. wire[s] = << >> /\ buffer[s] = << >>
        BY <3>1 DEF AtEnd, Inv, Buffers
    <3>3. said[s] = (heard[Other(s)] \o << >>) \o << >>
        BY <2>1, <3>1, <3>2 DEF Inv, Conserved
    <3>4. heard[Other(s)] \in Seq(Unit)
        BY <3>1 DEF Inv, Types, Chunks
    <3>5. said[s] = heard[Other(s)]
        BY <3>3, <3>4, ConcatEmptySeq
    <3> QED BY <1>2, <2>1, <3>1, <3>5
  <2> QED BY <1>1, <2>1 DEF EofAfterData
<1>7. Decided'
    BY <1>1 DEF Inv, Decided, AskedGranted
<1>8. Joined'
    BY <1>1 DEF Inv, Joined
<1> QED BY <1>4, <1>5, <1>6, <1>7, <1>8 DEF Inv

LEMMA FinishedInv ==
    ASSUME Inv,
           \/ RequestThrows \/ NoRequest \/ Reject \/ ReplyFails \/ ArrivesTooLate \/ NothingLeft
           \/ \E s \in Side : ReadEof(s)
    PROVE  Inv'
<1>1. CASE RequestThrows \/ NoRequest \/ ReplyFails \/ ArrivesTooLate \/ NothingLeft
  <2>1. Alive
      BY <1>1 DEF RequestThrows, NoRequest, ReplyFails, ArrivesTooLate, NothingLeft, Alive
  <2>2. PICK p \in {"ended", "aborted"} : Finish(p)
      BY <1>1 DEF RequestThrows, NoRequest, ReplyFails, ArrivesTooLate, NothingLeft
  <2>3. UNCHANGED <<replies, eof>>
      BY <1>1 DEF RequestThrows, NoRequest, ReplyFails, ArrivesTooLate, NothingLeft
  <2>4. replies' \in Seq({90, 91}) /\ eof' = {}
      BY <2>1, <2>3, NoEofYet DEF Inv, Types
  <2>5. {} \in SUBSET Side /\ \A s \in {} : AtEnd(s) /\ link[s] \in Ended
      OBVIOUS
  <2> QED BY <2>1, <2>2, <2>4, <2>5, FinishInv
<1>2. CASE Reject
  <2>1. Alive /\ Finish("ended") /\ UNCHANGED eof
      BY <1>2 DEF Reject, Alive
  <2>2. replies' \in Seq({90, 91}) /\ eof' = {}
      BY <1>2, <2>1, NoEofYet, AppendProperties DEF Inv, Types, Reject
  <2>3. {} \in SUBSET Side /\ \A s \in {} : AtEnd(s) /\ link[s] \in Ended
      OBVIOUS
  <2> QED BY <2>1, <2>2, <2>3, FinishInv
<1>3. ASSUME NEW s \in Side, ReadEof(s) PROVE Inv'
  <2>1. Alive /\ Finish("ended") /\ eof' = {s} /\ AtEnd(s) /\ link[s] \in Ended /\ UNCHANGED replies
      BY <1>3 DEF ReadEof
  <2>2. replies' \in Seq({90, 91}) /\ {s} \in SUBSET Side
      BY <2>1 DEF Inv, Types
  <2> QED BY <2>1, <2>2, FinishInv
<1> QED BY <1>1, <1>2, <1>3

\* A reply leaves every connection that takes data as it was.
LEMMA ReplyFacts ==
    ASSUME Inv, NEW code \in {90, 91}, Reply(code)
    PROVE  /\ replies' \in Seq({90, 91}) /\ link' \in [Side -> Link]
           /\ link'["remote"] = link["remote"]
           /\ link["client"] # "absent" => link'["client"] # "absent"
           /\ \A s \in Side : link'[s] \in {"absent", "open", "half"} => link'[s] = link[s]
<1>1. replies' \in Seq({90, 91})
    BY AppendProperties DEF Inv, Types, Reply
<1>2. link' = AfterWrite("client") /\ link \in [Side -> Link]
    BY DEF Inv, Types, Reply
<1> QED BY <1>1, <1>2 DEF AfterWrite, Link, Side

\* Steps before the relay that touch neither streams nor directions.
LEMMA OpeningInv ==
    ASSUME Inv, ReadRequest \/ Connected \/ ConnectFails \/ BindReply
    PROVE  Inv'
<1>1. UNCHANGED <<streams, direction, eof>>
    BY DEF ReadRequest, Connected, ConnectFails, BindReply
<1>2. /\ phase \in {"request", "connecting", "binding"}
      /\ phase' \in {"rejecting", "binding", "connecting", "granting", "accepting"}
    BY DEF ReadRequest, Connected, ConnectFails, BindReply, Decision
<1>3. Alive
    BY <1>2 DEF Alive
<1>4. /\ replies' \in Seq({90, 91}) /\ link' \in [Side -> Link]
      /\ \A s \in Side : link'[s] \in {"absent", "open", "half"} =>
                             link[s] \in {"absent", "open", "half"}
      /\ link'["remote"] = link["remote"] \/ Connected
  <2>1. CASE ReadRequest \/ ConnectFails
      BY <2>1 DEF ReadRequest, ConnectFails, Inv, Types
  <2>2. CASE Connected
    <3>1. link \in [Side -> Link] /\ link' = [link EXCEPT !["remote"] = "open"] /\ replies' = replies
        BY <2>2 DEF Connected, Inv, Types
    <3>2. link["remote"] \in {"absent", "open", "half"}
        BY <2>2 DEF Inv, Decided, Connected
    <3> QED BY <2>2, <3>1, <3>2 DEF Inv, Types, Link, Side
  <2>3. CASE BindReply
      BY <2>3, ReplyFacts DEF BindReply
  <2> QED BY <2>1, <2>2, <2>3
<1>5. asked' \in Situation
    BY DEF ReadRequest, Connected, ConnectFails, BindReply, Inv, Types, Situation
<1>6. Types'
    BY <1>1, <1>2, <1>4, <1>5 DEF Inv, Types, streams, Phases
<1>7. Unbegun' /\ Buffers'
    BY <1>1, <1>2 DEF Inv, Unbegun, Buffers, streams
<1>8. Conserved'
    BY <1>1, <1>3, <1>4, Sides DEF Inv, Conserved, streams
<1>9. EofKept' /\ EofAfterData'
    BY <1>1, <1>3, EofLater
<1>10. Decided'
  <2>1. CASE ReadRequest
    <3>1. PICK r \in Requests, ip \in ClientIps, c \in Confs, d \in Confs :
              /\ asked' = [request |-> r, from |-> ip, clientConf |-> c, destConf |-> d]
              /\ phase' = Decision(r, ip, c, d)
        BY <2>1 DEF ReadRequest
    <3>2. link["remote"] = "absent" /\ link' = link
        BY <2>1 DEF ReadRequest, Inv, Decided
    <3>3. phase' # "rejecting" => Granted(r, ip, c, d)
        BY <3>1 DEF Decision
    <3>4. phase' # "rejecting" => AskedGranted'
        BY <3>1, <3>3 DEF AskedGranted
    <3> QED BY <1>2, <3>2, <3>4 DEF Decided
  <2>2. CASE Connected \/ ConnectFails \/ BindReply
    <3>1. AskedGranted' /\ asked' = asked
        BY <2>2 DEF Connected, ConnectFails, BindReply, Inv, Decided, AskedGranted
    <3>2. phase' \in {"request", "connecting", "binding", "accepting"} => BindReply
        BY <2>2 DEF Connected, ConnectFails, BindReply
    <3>3. BindReply => link'["remote"] = "absent"
        BY <1>4 DEF BindReply, Connected, Inv, Decided
    <3> QED BY <3>1, <3>2, <3>3 DEF Decided
  <2> QED BY <2>1, <2>2
<1>11. Joined'
  <2>1. CASE ReadRequest \/ ConnectFails
      BY <1>2, <2>1 DEF ReadRequest, ConnectFails, Inv, Joined, Decision
  <2>2. CASE Connected
      BY <2>2, Sides DEF Connected, Inv, Types, Joined
  <2>3. CASE BindReply
      BY <2>3, ReplyFacts DEF BindReply, Inv, Joined
  <2> QED BY <2>1, <2>2, <2>3
<1> QED BY <1>6, <1>7, <1>8, <1>9, <1>10, <1>11 DEF Inv

\* The session starts to relay: nothing has been read yet.
LEMMA BeginInv ==
    ASSUME Inv, Grant \/ Arrives
    PROVE  Inv'
<1>1. /\ phase \in {"granting", "accepting"} /\ phase' = "relaying" /\ Alive
      /\ direction' = Each("reading") /\ UNCHANGED <<asked, streams, eof>>
    BY DEF Grant, Arrives, Alive
<1>2. /\ replies' \in Seq({90, 91}) /\ link' \in [Side -> Link]
      /\ \A s \in Side : link'[s] \in {"absent", "open", "half"} =>
                             link[s] \in {"absent", "open", "half"}
  <2>1. CASE Grant
      BY <2>1, ReplyFacts DEF Grant
  <2>2. CASE Arrives
    <3>1. link \in [Side -> Link] /\ link' = [AfterWrite("client") EXCEPT !["remote"] = "open"]
        BY <2>2 DEF Arrives, Inv, Types
    <3>2. link["remote"] = "absent"
        BY <2>2 DEF Arrives, Inv, Decided
    <3>3. replies' \in Seq({90, 91})
        BY <2>2, AppendProperties DEF Arrives, Inv, Types
    <3> QED BY <3>1, <3>2, <3>3 DEF AfterWrite, Link, Side
  <2> QED BY <2>1, <2>2
<1>3. \A s \in Side : direction[s] = "off" /\ heard[s] = << >> /\ direction'[s] = "reading"
    BY <1>1 DEF Inv, Unbegun, Each
<1>4. Types'
  <2>1. direction' \in [Side -> Direction]
      BY <1>1 DEF Each, Direction
  <2> QED BY <1>1, <1>2, <2>1 DEF Inv, Types, streams, Phases
<1>5. Unbegun' /\ Buffers'
    BY <1>1, <1>3 DEF Inv, Unbegun, Buffers, streams
<1>6. Conserved'
    BY <1>1, <1>2, Sides DEF Inv, Conserved, streams
<1>7. EofKept' /\ EofAfterData'
    BY <1>1, EofLater
<1>8. Decided'
    BY <1>1 DEF Inv, Decided, AskedGranted
<1>9. Joined'
  <2>1. CASE Grant
      BY <2>1, ReplyFacts DEF Grant, Inv, Joined
  <2>2. CASE Arrives
    <3>1. link \in [Side -> Link] /\ link' = [AfterWrite("client") EXCEPT !["remote"] = "open"]
        BY <2>2 DEF Arrives, Inv, Types
    <3>2. link["client"] # "absent"
        BY DEF Inv, Joined
    <3> QED BY <3>1, <3>2 DEF AfterWrite, Side, Joined
  <2> QED BY <2>1, <2>2
<1> QED BY <1>4, <1>5, <1>6, <1>7, <1>8, <1>9 DEF Inv

\* A side says something: the proxy has one more byte to read, or is gone.
LEMMA SayInv ==
    ASSUME Inv, NEW s \in Side, Say(s)
    PROVE  Inv'
<1> DEFINE e == Len(said[s]) + 1
<1>1. /\ link[s] = "open" /\ Len(said[s]) < MaxUnits
      /\ said' = [said EXCEPT ![s] = Append(said[s], e)]
      /\ wire' = IF Alive THEN [wire EXCEPT ![s] = Append(wire[s], e)] ELSE wire
      /\ UNCHANGED <<phase, asked, replies, link, buffer, direction, heard, eof>>
    BY DEF Say
<1>2. /\ said \in [Side -> Chunks] /\ wire \in [Side -> Chunks]
      /\ buffer \in [Side -> Chunks] /\ heard \in [Side -> Chunks]
    BY DEF Inv, Types
<1>3. e \in Unit
    BY <1>1, <1>2, LenProperties, MaxUnitsAssumption DEF Chunks, Unit
<1> HIDE DEF e
<1>4. Append(said[s], e) \in Chunks /\ Append(wire[s], e) \in Chunks
    BY <1>2, <1>3, AppendProperties DEF Chunks
<1>5. Types'
    BY <1>1, <1>2, <1>4 DEF Inv, Types
<1>6. Unbegun' /\ Buffers'
    BY <1>1 DEF Inv, Unbegun, Buffers
<1>7. Conserved'
  <2>1. ASSUME NEW t \in Side, Alive, link[Other(t)] \in {"absent", "open", "half"}
        PROVE  said'[t] = heard[Other(t)] \o buffer[t] \o wire'[t]
    <3>1. said[t] = heard[Other(t)] \o buffer[t] \o wire[t]
        BY <2>1 DEF Inv, Conserved
    <3>2. CASE t = s
      <4>1. Append((heard[Other(s)] \o buffer[s]) \o wire[s], e) =
                (heard[Other(s)] \o buffer[s]) \o Append(wire[s], e)
        <5> DEFINE h == heard[Other(s)]
                   b == buffer[s]
                   w == wire[s]
        <5>1. h \in Chunks /\ b \in Chunks /\ w \in Chunks
            BY <1>2, Sides
        <5> HIDE DEF h, b, w
        <5>2. Append((h \o b) \o w, e) = (h \o b) \o Append(w, e)
            BY ONLY <1>3, <5>1, Extend, ZenonT(30)
        <5> QED BY <5>2 DEF h, b, w
      <4> QED BY <1>1, <1>2, <2>1, <3>1, <3>2, <4>1
    <3>3. CASE t # s
        BY <1>1, <1>2, <2>1, <3>1, <3>3
    <3> QED BY <3>2, <3>3
  <2> QED BY <1>1, <2>1 DEF Conserved, Alive
<1>8. EofKept' /\ EofAfterData'
  <2>1. \A t \in eof : t \in Side /\ t # s
      BY <1>1 DEF Inv, Types, EofKept, Ended
  <2>2. \A t \in eof : said'[t] = said[t]
      BY <1>1, <1>2, <2>1
  <2>3. eof # {} => ~Alive
      BY DEF Inv, EofKept
  <2>4. eof # {} => wire' = wire
      BY <1>1, <2>3
  <2> QED BY <1>1, <2>2, <2>4 DEF Inv, EofKept, EofAfterData, Alive
<1>9. Decided'
    BY <1>1 DEF Inv, Decided, AskedGranted
<1>10. Joined'
    BY <1>1 DEF Inv, Joined
<1> QED BY <1>5, <1>6, <1>7, <1>8, <1>9, <1>10 DEF Inv

\* A side hangs up.
LEMMA HangUpInv ==
    ASSUME Inv, NEW s \in Side, HangUp(s)
    PROVE  Inv'
<1>1. /\ Alive /\ link[s] \in {"open", "half"}
      /\ UNCHANGED <<phase, asked, replies, said, wire, buffer, heard, direction, eof>>
    BY DEF HangUp, streams
<1>2. PICK l \in {"half", "closed", "reset"} : link' = [link EXCEPT ![s] = l]
    BY DEF HangUp
<1>3. link \in [Side -> Link]
    BY DEF Inv, Types
<1>4. \A t \in Side : link'[t] \in {"absent", "open", "half"} => link[t] \in {"absent", "open", "half"}
    BY <1>1, <1>2, <1>3
<1>5. link'["remote"] = "absent" <=> link["remote"] = "absent"
    BY <1>1, <1>2, <1>3
<1>6. Types'
    BY <1>1, <1>2, <1>3 DEF Inv, Types, Link
<1>7. Unbegun' /\ Buffers'
    BY <1>1 DEF Inv, Unbegun, Buffers
<1>8. Conserved'
    BY <1>1, <1>4, Sides DEF Inv, Conserved
<1>9. EofKept' /\ EofAfterData'
    BY <1>1, EofLater
<1>10. Decided'
    BY <1>1, <1>5 DEF Inv, Decided, AskedGranted
<1>11. Joined'
    BY <1>1, <1>2, <1>3 DEF Inv, Joined
<1> QED BY <1>6, <1>7, <1>8, <1>9, <1>10, <1>11 DEF Inv

\* A side that is being relayed has been answered.
LEMMA Begun ==
    ASSUME Inv, Alive, NEW s \in Side, direction[s] # "off"
    PROVE  phase = "relaying"
BY DEF Inv, Unbegun, Alive

LEMMA ReadInv ==
    ASSUME Inv, NEW s \in Side, Read(s)
    PROVE  Inv'
<1>1. PICK n \in Chunk(s) :
          /\ buffer' = [buffer EXCEPT ![s] = SubSeq(wire[s], 1, n)]
          /\ wire' = [wire EXCEPT ![s] = SubSeq(wire[s], n + 1, Len(wire[s]))]
    BY DEF Read
<1>2. /\ Alive /\ direction[s] = "reading" /\ direction' = [direction EXCEPT ![s] = "writing"]
      /\ UNCHANGED <<phase, asked, replies, link, said, heard, eof>>
    BY DEF Read
<1>3. phase = "relaying"
    BY <1>2, Begun
<1>4. /\ wire \in [Side -> Chunks] /\ buffer \in [Side -> Chunks]
      /\ heard \in [Side -> Chunks] /\ direction \in [Side -> Direction]
    BY DEF Inv, Types
<1>5. n \in 1..Len(wire[s])
    BY <1>4, LenProperties DEF Chunk, Chunks
<1>6. /\ SubSeq(wire[s], 1, n) \in Chunks /\ SubSeq(wire[s], n + 1, Len(wire[s])) \in Chunks
      /\ SubSeq(wire[s], 1, n) # << >>
      /\ (heard[Other(s)] \o SubSeq(wire[s], 1, n)) \o SubSeq(wire[s], n + 1, Len(wire[s]))
            = (heard[Other(s)] \o << >>) \o wire[s]
  <2> DEFINE h == heard[Other(s)]
             w == wire[s]
  <2>1. h \in Seq(Unit) /\ w \in Seq(Unit) /\ n \in 1..Len(w)
      BY <1>4, <1>5, Sides DEF Chunks
  <2> HIDE DEF h, w
  <2>2. /\ SubSeq(w, 1, n) \in Seq(Unit) /\ SubSeq(w, n + 1, Len(w)) \in Seq(Unit)
        /\ SubSeq(w, 1, n) # << >>
        /\ (h \o SubSeq(w, 1, n)) \o SubSeq(w, n + 1, Len(w)) = (h \o << >>) \o w
      BY ONLY <2>1, Split
  <2> QED BY <2>2 DEF Chunks, h, w
<1>7. Types'
    BY <1>1, <1>2, <1>4, <1>6 DEF Inv, Types, Direction
<1>8. Unbegun'
    BY <1>2, <1>3 DEF Unbegun
<1>9. Buffers'
    BY <1>1, <1>2, <1>4, <1>6 DEF Inv, Buffers
<1>10. Conserved'
  <2>1. ASSUME NEW t \in Side, link[Other(t)] \in {"absent", "open", "half"}
        PROVE  said[t] = heard[Other(t)] \o buffer'[t] \o wire'[t]
    <3>1. said[t] = heard[Other(t)] \o buffer[t] \o wire[t]
        BY <1>2, <2>1 DEF Inv, Conserved
    <3>2. CASE t = s
      <4>1. buffer[s] = << >>
          BY <1>2 DEF Inv, Buffers
      <4>2. buffer'[s] = SubSeq(wire[s], 1, n) /\ wire'[s] = SubSeq(wire[s], n + 1, Len(wire[s]))
          BY <1>1, <1>4
      <4> QED BY <1>6, <3>1, <3>2, <4>1, <4>2
    <3>3. CASE t # s
        BY <1>1, <1>4, <3>1, <3>3
    <3> QED BY <3>2, <3>3
  <2> QED BY <1>2, <2>1 DEF Conserved
<1>11. EofKept' /\ EofAfterData'
    BY <1>2, EofLater
<1>12. Decided'
    BY <1>2 DEF Inv, Decided, AskedGranted
<1>13. Joined'
    BY <1>2 DEF Inv, Joined
<1> QED BY <1>7, <1>8, <1>9, <1>10, <1>11, <1>12, <1>13 DEF Inv

LEMMA WriteInv ==
    ASSUME Inv, NEW s \in Side, Write(s)
    PROVE  Inv'
<1> DEFINE o == Other(s)
<1>1. /\ Alive /\ direction[s] = "writing" /\ link[o] \notin Broken
      /\ buffer' = [buffer EXCEPT ![s] = Tail(buffer[s])]
      /\ heard' = IF Accepts(o) THEN [heard EXCEPT ![o] = Append(heard[o], Head(buffer[s]))] ELSE heard
      /\ link' = AfterWrite(o)
      /\ direction' = [direction EXCEPT ![s] = IF Len(buffer[s]) = 1 THEN "reading" ELSE "writing"]
      /\ UNCHANGED <<phase, asked, replies, said, wire, eof>>
    BY DEF Write
<1>2. /\ wire \in [Side -> Chunks] /\ buffer \in [Side -> Chunks] /\ link \in [Side -> Link]
      /\ heard \in [Side -> Chunks] /\ direction \in [Side -> Direction]
    BY DEF Inv, Types
<1>3. o \in Side /\ o # s /\ Other(o) = s
    BY Sides
<1> HIDE DEF o
<1>4. phase = "relaying"
    BY <1>1, Begun
<1>5. /\ Tail(buffer[s]) \in Chunks /\ Append(heard[o], Head(buffer[s])) \in Chunks
      /\ Tail(buffer[s]) = << >> <=> Len(buffer[s]) = 1
      /\ (Append(heard[o], Head(buffer[s])) \o Tail(buffer[s])) \o wire[s]
            = (heard[o] \o buffer[s]) \o wire[s]
  <2>1. buffer[s] # << >>
      BY <1>1 DEF Inv, Buffers
  <2>2. heard[o] \in Chunks /\ buffer[s] \in Chunks /\ wire[s] \in Chunks
      BY <1>2, <1>3
  <2> DEFINE h == heard[o]
             b == buffer[s]
             w == wire[s]
  <2>3. h \in Chunks /\ b \in Chunks /\ w \in Chunks /\ b # << >>
      BY <2>1, <2>2
  <2> HIDE DEF h, b, w
  <2>4. /\ Tail(b) \in Chunks /\ Append(h, Head(b)) \in Chunks
        /\ Tail(b) = << >> <=> Len(b) = 1
        /\ (Append(h, Head(b)) \o Tail(b)) \o w = (h \o b) \o w
      BY ONLY <2>3, Shift, ZenonT(30)
  <2> QED BY <2>4 DEF h, b, w
<1>6. /\ link' \in [Side -> Link]
      /\ \A t \in Side : link'[t] \in {"absent", "open", "half"} => link'[t] = link[t]
      /\ link'["remote"] # "absent" => link["remote"] # "absent"
      /\ link["remote"] # "absent" => link'["remote"] # "absent"
    BY <1>1, <1>2, <1>3 DEF AfterWrite, Link, Side
<1>7. Types'
    BY <1>1, <1>2, <1>5, <1>6 DEF Inv, Types, Direction
<1>8. Unbegun'
    BY <1>1, <1>4 DEF Unbegun
<1>9. Buffers'
    BY <1>1, <1>2, <1>5 DEF Inv, Buffers
<1>10. Conserved'
  <2>1. ASSUME NEW t \in Side, link'[Other(t)] \in {"absent", "open", "half"}
        PROVE  said[t] = heard'[Other(t)] \o buffer'[t] \o wire[t]
    <3>1. link[Other(t)] = link'[Other(t)]
        BY <1>6, <2>1, Sides
    <3>2. said[t] = heard[Other(t)] \o buffer[t] \o wire[t]
        BY <1>1, <2>1, <3>1 DEF Inv, Conserved
    <3>3. CASE t = s
      <4>1. Other(t) = o
          BY <3>3 DEF o
      <4>2. CASE link[o] = "absent"
          \* A side that is absent is not written to: the session relays.
        <5>1. FALSE
            BY <1>3, <1>4, <4>2 DEF Inv, Joined, Side
        <5> QED BY <5>1
      <4>3. CASE link[o] # "absent"
        <5>1. Accepts(o)
            BY <2>1, <3>1, <4>1, <4>3 DEF Accepts
        <5>2. /\ heard'[o] = Append(heard[o], Head(buffer[s])) /\ buffer'[s] = Tail(buffer[s])
            BY <1>1, <1>2, <1>3, <5>1
        <5> QED BY <1>5, <3>2, <3>3, <4>1, <5>2
      <4> QED BY <4>2, <4>3
    <3>4. CASE t # s
      <4>1. Other(t) = s /\ s # o
          BY <1>3, <3>4 DEF Side, Other
      <4>2. heard'[s] = heard[s] /\ buffer'[t] = buffer[t]
          BY <1>1, <1>2, <1>3, <3>4
      <4> QED BY <3>2, <4>1, <4>2
    <3> QED BY <3>3, <3>4
  <2> QED BY <1>1, <2>1 DEF Conserved
<1>11. EofKept' /\ EofAfterData'
    BY <1>1, EofLater
<1>12. Decided'
    BY <1>1, <1>4, <1>6 DEF Inv, Decided, AskedGranted
<1>13. Joined'
    BY <1>1, <1>2, <1>3 DEF Inv, Joined, AfterWrite, Side
<1> QED BY <1>7, <1>8, <1>9, <1>10, <1>11, <1>12, <1>13 DEF Inv

LEMMA StepInv ==
    ASSUME Inv, [Next]_vars
    PROVE  Inv'
<1>1. CASE ReadRequest \/ Connected \/ ConnectFails \/ BindReply
    BY <1>1, OpeningInv
<1>2. CASE RequestThrows \/ NoRequest \/ Reject \/ ReplyFails \/ ArrivesTooLate \/ NothingLeft
    BY <1>2, FinishedInv
<1>3. CASE \E s \in Side : ReadEof(s)
    BY <1>3, FinishedInv
<1>4. CASE Grant \/ Arrives
    BY <1>4, BeginInv
<1>5. ASSUME NEW s \in Side, Say(s) \/ HangUp(s) \/ Read(s) \/ Write(s) PROVE Inv'
    BY <1>5, SayInv, HangUpInv, ReadInv, WriteInv
<1>6. ASSUME NEW s \in Side, Breaks(s) PROVE Inv'
  <2>1. /\ Alive /\ direction' = [direction EXCEPT ![s] = "stopped"]
        /\ direction[s] # "off"
        /\ UNCHANGED <<phase, asked, replies, link, said, wire, buffer, heard, eof>>
      BY <1>6 DEF Breaks, AtEnd, streams
  <2>2. phase = "relaying"
      BY <2>1, Begun
  <2>3. Types'
      BY <2>1 DEF Inv, Types, Direction
  <2>4. Unbegun' /\ Conserved' /\ Joined' /\ Decided'
      BY <2>1, <2>2 DEF Inv, Unbegun, Conserved, Joined, Decided, AskedGranted, Alive
  <2>5. Buffers'
      BY <2>1 DEF Inv, Types, Buffers
  <2>6. EofKept' /\ EofAfterData'
      BY <2>1, EofLater
  <2> QED BY <2>3, <2>4, <2>5, <2>6 DEF Inv
<1>7. CASE UNCHANGED vars
    BY <1>7 DEF vars, Inv, Types, Unbegun, Buffers, Conserved, EofKept, EofAfterData, Joined,
                Decided, AskedGranted, Alive
<1> QED BY <1>1, <1>2, <1>3, <1>4, <1>5, <1>6, <1>7 DEF Next, Handler, Relay, Over

LEMMA Inductive == Spec => []Inv
BY InitInv, StepInv, PTL DEF Spec

-----------------------------------------------------------------------------
(* What holds of every session *)

\* The state of a session has its types.
THEOREM TypeCorrect == Spec => []TypeOK
<1>1. Inv => TypeOK
    BY DEF Inv, Types, TypeOK
<1> QED BY <1>1, Inductive, PTL

\* Whatever chunks the relay reads, however they are written out and whoever
\* hangs up, no byte for a side that takes what it is sent is lost, repeated
\* or overtaken.
THEOREM BytesConserved == Spec => []Conserved
<1>1. Inv => Conserved
    BY DEF Inv
<1> QED BY <1>1, Inductive, PTL

\* An end of file ends the session after everything that was said before it.
THEOREM EofIsLast == Spec => []EofAfterData
<1>1. Inv => EofAfterData
    BY DEF Inv
<1> QED BY <1>1, Inductive, PTL

\* Two files that grant a request have each a rule that allows it.
LEMMA GrantedAllows ==
    ASSUME AskedGranted
    PROVE  LET kind == IF asked.request.cd = 2 THEN "b" ELSE "c"
           IN  /\ Allows(asked.clientConf, kind, asked.from)
               /\ Allows(asked.destConf, kind, Destination(asked.request))
<1> DEFINE cd == asked.request.cd
           kind == IF cd = 2 THEN "b" ELSE "c"
<1>1. ASSUME NEW conf \in Confs, NEW ip, Passes(conf, Command(asked.request), ip)
      PROVE  Allows(conf, kind, ip)
  <2>1. SUFFICES ASSUME conf.present
                 PROVE  \E i \in DOMAIN conf.rules :
                            /\ conf.rules[i].type = kind
                            /\ \A o \in DOMAIN conf.rules[i].pattern :
                                  conf.rules[i].pattern[o] \in {Star, ip[o]}
      BY DEF Allows
  <2>2. PICK i \in DOMAIN conf.rules :
            Concerns(conf.rules[i], Command(asked.request)) /\ Matches(conf.rules[i].pattern, ip)
      BY <1>1, <2>1 DEF Passes
  <2>3. conf.rules[i].type = kind
      BY <2>2 DEF Concerns, Command
  <2>4. ASSUME NEW o \in DOMAIN conf.rules[i].pattern
        PROVE  conf.rules[i].pattern[o] \in {Star, ip[o]}
    <3> DEFINE pattern == conf.rules[i].pattern
    <3>1. pattern \in Seq(0..Star) /\ Len(pattern) <= 4
        BY PatternsAssumption
    <3>2. DOMAIN pattern = 1..Len(pattern) /\ Len(pattern) \in Nat
        BY <3>1, LenProperties
    <3>3. o \in 1..4 /\ o <= Len(pattern)
        BY <3>1, <3>2
    <3>4. At(pattern, o) \in {Star, ip[o]}
        BY <2>2, <3>3 DEF Matches
    <3> QED BY <3>3, <3>4 DEF At
  <2> QED BY <2>2, <2>3, <2>4
<1>2. /\ Passes(asked.clientConf, Command(asked.request), asked.from)
      /\ Passes(asked.destConf, Command(asked.request), Destination(asked.request))
      /\ asked.clientConf \in Confs /\ asked.destConf \in Confs
    BY DEF AskedGranted, Granted
<1> QED BY <1>1, <1>2

\* The remote side is contacted, and accepted, only as the rules allow.
THEOREM Permitted == Spec => []OnlyPermitted
<1>1. Inv => OnlyPermitted
    BY GrantedAllows DEF Inv, Decided, OnlyPermitted
<1> QED BY <1>1, Inductive, PTL

\* The replies come before everything that is relayed.
THEOREM RepliesComeFirst == Spec => RepliesFirst
<1>1. ASSUME Inv, [Next]_vars, replies' # replies
      PROVE  \A s \in Side : heard[s] = << >>
  <2>1. \/ Grant \/ Reject \/ BindReply \/ Arrives
      BY <1>1 DEF vars, Next, Handler, Relay, Over, ReadRequest, RequestThrows, NoRequest, Connected,
                  ConnectFails, ReplyFails, NothingLeft, ReadEof, ArrivesTooLate, Say, HangUp,
                  Read, Write, Breaks
  <2>2. phase \notin {"relaying", "ended", "aborted"}
      BY <2>1 DEF Grant, Reject, BindReply, Arrives
  <2> QED BY <1>1, <2>2 DEF Inv, Unbegun
<1>2. Inv /\ [Next]_vars => [replies' # replies => \A s \in Side : heard[s] = << >>]_vars
    BY <1>1
<1> QED BY <1>2, Inductive, PTL DEF Spec, RepliesFirst

-----------------------------------------------------------------------------
(* A session is a relay *)

LEMMA PrefixCut ==
    ASSUME NEW h \in Chunks, NEW k \in 0..Len(h)
    PROVE  IsPrefix(SubSeq(h, 1, k), h)
<1>1. h \in Seq(Unit) /\ Len(h) \in Nat /\ \A m \in 1..k : h[m] \in Unit
    BY LenProperties, ElementOfSeq DEF Chunks
<1>2. Len(SubSeq(h, 1, k)) = k
    BY <1>1, SubSeqProperties
<1>3. SubSeq(h, 1, k) \in Seq(Unit)
    BY <1>1, SubSeqProperties
<1>4. SubSeq(SubSeq(h, 1, k), 1, k) = SubSeq(h, 1, k)
    BY <1>2, <1>3, SubSeqFull
<1> QED BY <1>1, <1>2, <1>4 DEF IsPrefix

LEMMA PrefixNext ==
    ASSUME NEW h \in Chunks, NEW b \in Chunks, NEW w \in Chunks, b # << >>
    PROVE  IsPrefix(Append(h, Head(b)), (h \o b) \o w) /\ Head(b) \in Unit
<1> DEFINE a == Append(h, Head(b))
           t == Tail(b)
<1>1. a \in Chunks /\ t \in Chunks /\ (a \o t) \o w = (h \o b) \o w
    BY Shift, SMTT(30)
<1>2. Head(b) \in Unit
    BY HeadTailProperties DEF Chunks
<1> HIDE DEF a, t
<1>3. a \in Seq(Unit) /\ t \in Seq(Unit) /\ w \in Seq(Unit)
    BY <1>1 DEF Chunks
<1>4. (a \o t) \o w = a \o (t \o w) /\ t \o w \in Seq(Unit)
    BY <1>3, ConcatAssociative, ConcatProperties, SMTT(30)
<1> DEFINE r == t \o w
<1>5. r \in Seq(Unit) /\ (h \o b) \o w = a \o r
    BY <1>1, <1>4
<1> HIDE DEF r
<1>6. Len(a) \in Nat /\ Len(r) \in Nat /\ Len(a \o r) = Len(a) + Len(r)
    BY <1>3, <1>5, LenProperties, ConcatProperties
<1>7. SubSeq(a \o r, 1, Len(a)) = a /\ SubSeq(a, 1, Len(a)) = a
    BY <1>3, <1>5, <1>6, SubSeqOfConcat1, SubSeqFull
<1>8. IsPrefix(a, a \o r)
    BY <1>6, <1>7 DEF IsPrefix
<1> QED BY <1>2, <1>5, <1>8 DEF a

\* A step that ends the session cuts the relay.
LEMMA FinishCuts ==
    ASSUME Inv, Alive, NEW p \in {"ended", "aborted"}, Finish(p)
    PROVE  Relaying!Cut
<1>1. Alive' = FALSE /\ UNCHANGED said
    BY DEF Finish, Alive
<1>2. PICK i \in 0..Len(heard["client"]), j \in 0..Len(heard["remote"]) :
          heard' = [s \in Side |-> SubSeq(heard[s], 1, IF s = "client" THEN i ELSE j)]
    BY DEF Finish
<1>3. ASSUME NEW s \in Side PROVE IsPrefix(heard'[s], heard[s])
  <2> DEFINE k == IF s = "client" THEN i ELSE j
  <2>1. heard[s] \in Chunks
      BY DEF Inv, Types
  <2>2. k \in 0..Len(heard[s])
      BY <1>2 DEF Side
  <2>3. heard'[s] = SubSeq(heard[s], 1, k)
      BY <1>2
  <2> HIDE DEF k
  <2> QED BY <2>1, <2>2, <2>3, PrefixCut
<1>4. DOMAIN heard' = Side
    BY <1>2
<1> QED BY <1>1, <1>3, <1>4 DEF Relaying!Cut, Relaying!IsPrefix, IsPrefix

\* What a side takes is the next byte the other one said.
LEMMA WriteHears ==
    ASSUME Inv, NEW s \in Side, Write(s)
    PROVE  Relaying!Hear(Other(s)) \/ UNCHANGED <<said, heard, phase>>
<1> DEFINE o == Other(s)
<1>1. /\ Alive /\ UNCHANGED <<phase, said>> /\ direction[s] = "writing"
      /\ heard' = IF Accepts(o) THEN [heard EXCEPT ![o] = Append(heard[o], Head(buffer[s]))] ELSE heard
    BY DEF Write
<1>2. /\ o \in Side /\ s \in Side \ {o}
      /\ heard[o] \in Chunks /\ buffer[s] \in Chunks /\ wire[s] \in Chunks
    BY Sides DEF Inv, Types
<1>3. CASE Accepts(o)
  <2>1. said[s] = (heard[o] \o buffer[s]) \o wire[s]
      BY <1>1, <1>3 DEF Inv, Conserved, Accepts
  <2>2. buffer[s] # << >>
      BY <1>1 DEF Inv, Buffers
  <2> DEFINE u == Head(buffer[s])
  <2>3. IsPrefix(Append(heard[o], u), said[s]) /\ u \in Unit
      BY <1>2, <2>1, <2>2, PrefixNext
  <2>4. heard' = [heard EXCEPT ![o] = Append(heard[o], u)]
      BY <1>1, <1>3
  <2> HIDE DEF u
  <2>5. Relaying!IsPrefix(Append(heard[o], u), said[s])
      BY <2>3 DEF IsPrefix, Relaying!IsPrefix
  <2>6. Alive' = Alive
      BY <1>1 DEF Alive
  <2>7. Relaying!Hear(o)
      BY <1>1, <1>2, <2>3, <2>4, <2>5, <2>6 DEF Relaying!Hear
  <2> QED BY <2>7
<1>4. CASE ~Accepts(o)
    BY <1>1, <1>4
<1> QED BY <1>3, <1>4

LEMMA Simulates ==
    ASSUME Inv, [Next]_vars
    PROVE  [Relaying!Next]_<<said, heard, ~Alive>>
<1> USE DEF Alive
<1>1. CASE ReadRequest \/ Connected \/ ConnectFails \/ BindReply \/ Grant \/ Arrives
    BY <1>1 DEF ReadRequest, Connected, ConnectFails, BindReply, Grant, Arrives, streams, Decision
<1>2. CASE RequestThrows \/ NoRequest \/ Reject \/ ReplyFails \/ ArrivesTooLate \/ NothingLeft
           \/ \E s \in Side : ReadEof(s)
  <2>1. Alive
      BY <1>2 DEF RequestThrows, NoRequest, Reject, ReplyFails, ArrivesTooLate, NothingLeft, ReadEof
  <2>2. \E p \in {"ended", "aborted"} : Finish(p)
      BY <1>2 DEF RequestThrows, NoRequest, Reject, ReplyFails, ArrivesTooLate, NothingLeft, ReadEof
  <2>3. Relaying!Cut
      BY <2>1, <2>2, FinishCuts
  <2> QED BY <2>3 DEF Relaying!Next
<1>3. ASSUME NEW s \in Side, HangUp(s) \/ Read(s) \/ Breaks(s)
      PROVE  [Relaying!Next]_<<said, heard, ~Alive>>
    BY <1>3 DEF HangUp, Read, Breaks, streams
<1>4. ASSUME NEW s \in Side, Write(s)
      PROVE  [Relaying!Next]_<<said, heard, ~Alive>>
  <2>1. Other(s) \in Side
      BY Sides
  <2> QED BY <1>4, <2>1, WriteHears DEF Relaying!Next
<1>5. ASSUME NEW s \in Side, Say(s)
      PROVE  [Relaying!Next]_<<said, heard, ~Alive>>
  <2> DEFINE u == Len(said[s]) + 1
  <2>1. /\ said' = [said EXCEPT ![s] = Append(said[s], u)]
        /\ UNCHANGED <<phase, heard>> /\ Len(said[s]) < MaxUnits
      BY <1>5 DEF Say
  <2>2. said[s] \in Seq(Unit)
      BY DEF Inv, Types, Chunks
  <2>3. u \in Unit
      BY <2>1, <2>2, LenProperties, MaxUnitsAssumption DEF Unit
  <2> HIDE DEF u
  <2>4. Relaying!Say(s)
      BY <2>1, <2>3 DEF Relaying!Say
  <2> QED BY <2>4 DEF Relaying!Next
<1>6. CASE Over \/ UNCHANGED vars
    BY <1>6 DEF Over, vars
<1> QED BY <1>1, <1>2, <1>3, <1>4, <1>5, <1>6 DEF Next, Handler, Relay

\* A session implements the abstract relay: each side hears what the other
\* one said, in order, until the session ends.
THEOREM RelaysBytes == Spec => ImplementsByteRelay
<1>1. Init => Relaying!Init
    BY DEF Init, Relaying!Init, Each, Alive
<1>2. Inv /\ [Next]_vars => [Relaying!Next]_<<said, heard, ~Alive>>
    BY Simulates
<1> QED BY <1>1, <1>2, Inductive, PTL DEF Spec, ImplementsByteRelay, Relaying!Spec
=============================================================================
