---------------------------- MODULE SocksSession ----------------------------
(***************************************************************************)
(* project4/socks_server: the process that serves one client of the proxy. *)
(* It reads one request, decides it, connects to the destination or waits  *)
(* for it to connect (BIND), answers, and then relays in both directions,  *)
(* each direction reading a chunk and writing it out before the next read. *)
(* One thread runs the handlers of the session one after the other; the    *)
(* two sides and the network act at any time.                              *)
(***************************************************************************)
EXTENDS SocksRequest

CONSTANTS
    Requests,      \* the requests clients send
    ClientIps,     \* the addresses clients have
    Confs,         \* what client_socks.conf and socks.conf may hold
    MaxLength,     \* max_length: the most a read takes
    MaxUnits       \* bound: what each side says, at most

ASSUME MaxLengthAssumption == MaxLength \in Nat \ {0}
ASSUME MaxUnitsAssumption == MaxUnits \in Nat
ASSUME PatternsAssumption ==
    \A conf \in Confs : \A i \in DOMAIN conf.rules :
        conf.rules[i].pattern \in Seq(0..Star) /\ Len(conf.rules[i].pattern) <= 4

Side == {"client", "remote"}
Other(s) == IF s = "client" THEN "remote" ELSE "client"
Unit == 1..MaxUnits

\* A connection as the proxy finds it: the peer has ended what it sends but
\* still listens ("half"), has closed, has closed and met a write with a
\* reset ("gone"), or has broken the connection with one ("reset").
Link == {"absent", "open", "half", "closed", "gone", "reset"}
Ended == {"half", "closed", "gone"}
Broken == {"gone", "reset"}

Phases == {"request", "connecting", "granting", "rejecting", "binding", "accepting",
           "relaying", "ended", "aborted"}
Direction == {"off", "reading", "writing", "stopped"}

VARIABLES
    phase,     \* where the session is
    asked,     \* the request, the client's address and the rules it met
    replies,   \* the codes of the replies the client got
    link,      \* the connection to each side
    said,      \* what each side has sent after the request
    wire,      \* the part of it the proxy has not read
    buffer,    \* data1 and data2: the chunk of each side in the proxy
    direction, \* what the proxy does for what each side sends
    heard,     \* what has arrived at each side
    eof        \* history: the side whose end of file ended the session

vars == <<phase, asked, replies, link, said, wire, buffer, direction, heard, eof>>
streams == <<said, wire, buffer, heard>>

Nobody == [request |-> [vn |-> 4, cd |-> 1, ip |-> NoAddress, tail |-> << >>],
           from |-> NoAddress, clientConf |-> NoConf, destConf |-> NoConf]
Each(x) == [s \in Side |-> x]

Init ==
    /\ phase = "request"
    /\ asked = Nobody
    /\ replies = << >>
    /\ link = [s \in Side |-> IF s = "client" THEN "open" ELSE "absent"]
    /\ said = Each(<< >>) /\ wire = Each(<< >>) /\ buffer = Each(<< >>) /\ heard = Each(<< >>)
    /\ direction = Each("off")
    /\ eof = {}

Alive == phase \notin {"ended", "aborted"}

\* exit(), or the last handler has returned: the sockets are closed.  A
\* socket closed with unread input resets its peer, which may then lose the
\* end of what it had not consumed.
Finish(p) ==
    /\ phase' = p
    /\ \E h \in {[s \in Side |-> SubSeq(heard[s], 1, IF s = "client" THEN i ELSE j)] :
                    i \in 0..Len(heard["client"]), j \in 0..Len(heard["remote"])} :
        /\ \A s \in Side : wire[s] = << >> => h[s] = heard[s]
        /\ heard' = h
    /\ UNCHANGED <<asked, link, said, wire, buffer, direction>>

-----------------------------------------------------------------------------
(* The two sides *)

\* A side sends, also after the proxy is gone.  The clients of the repository
\* send nothing before the first reply.
Say(s) ==
    /\ link[s] = "open"
    /\ s = "client" => replies # << >>
    /\ Len(said[s]) < MaxUnits
    /\ said' = [said EXCEPT ![s] = Append(@, Len(@) + 1)]
    /\ wire' = IF Alive THEN [wire EXCEPT ![s] = Append(@, Len(said[s]) + 1)] ELSE wire
    /\ UNCHANGED <<phase, asked, replies, link, buffer, direction, heard, eof>>

\* A side shuts down its sending half, closes, or breaks the connection.
HangUp(s) ==
    /\ Alive
    /\ \/ link[s] = "open" /\ \E l \in {"half", "closed", "reset"} : link' = [link EXCEPT ![s] = l]
       \/ link[s] = "half" /\ link' = [link EXCEPT ![s] = "closed"]
    /\ UNCHANGED <<phase, asked, replies, streams, direction, eof>>

-----------------------------------------------------------------------------
(* The request *)

\* What the session does with a request it has read.
Decision(r, ip, clientConf, destConf) ==
    IF ~Granted(r, ip, clientConf, destConf) THEN "rejecting"
    ELSE IF Command(r) = "BIND" THEN "binding" ELSE "connecting"

ReadRequest ==
    /\ phase = "request"
    /\ link["client"] # "reset"
    /\ \E r \in Requests, ip \in ClientIps, c, d \in Confs :
        /\ ~Unresolvable(r)
        /\ asked' = [request |-> r, from |-> ip, clientConf |-> c, destConf |-> d]
        /\ phase' = Decision(r, ip, c, d)
    /\ UNCHANGED <<replies, link, streams, direction, eof>>

\* The resolver, or the question for the address of a client that has gone,
\* throws; the exception ends the process.
RequestThrows ==
    /\ phase = "request"
    /\ link["client"] = "reset" \/ \E r \in Requests : Unresolvable(r)
    /\ Finish("aborted")
    /\ UNCHANGED <<replies, eof>>

\* The client goes away without a request: no handler is left.
NoRequest ==
    /\ phase = "request"
    /\ link["client"] # "open"
    /\ Finish("ended")
    /\ UNCHANGED <<replies, eof>>

\* The bug of a session that starts to relay before it has replied.
ConnectedEarly ==
    /\ phase = "connecting"
    /\ phase' = "granting"
    /\ link' = [link EXCEPT !["remote"] = "open"]
    /\ direction' = Each("reading")
    /\ UNCHANGED <<asked, replies, streams, eof>>

Connected ==
    /\ phase = "connecting"
    /\ phase' = "granting"
    /\ link' = [link EXCEPT !["remote"] = "open"]
    /\ UNCHANGED <<asked, replies, streams, direction, eof>>

\* The bug of a session that just ends.
ConnectFailsSilently ==
    /\ phase = "connecting"
    /\ Finish("ended")
    /\ UNCHANGED <<replies, eof>>

ConnectFails ==
    /\ phase = "connecting"
    /\ phase' = "rejecting"
    /\ UNCHANGED <<asked, replies, link, streams, direction, eof>>

\* A write succeeds unless the connection is broken; a peer that has closed
\* does not get it and answers with a reset.
Accepts(s) == link[s] \in {"open", "half"}
AfterWrite(s) == IF link[s] = "closed" THEN [link EXCEPT ![s] = "gone"] ELSE link

Reply(code) ==
    /\ link["client"] \notin Broken
    /\ link' = AfterWrite("client")
    /\ replies' = IF Accepts("client") THEN Append(replies, code) ELSE replies

Grant ==
    /\ phase = "granting"
    /\ Reply(90)
    /\ phase' = "relaying"
    /\ direction' = Each("reading")
    /\ UNCHANGED <<asked, streams, eof>>

Reject ==
    /\ phase = "rejecting"
    /\ link["client"] \notin Broken
    /\ replies' = IF Accepts("client") THEN Append(replies, 91) ELSE replies
    /\ Finish("ended")
    /\ UNCHANGED eof

\* The first reply to BIND names the port; accept() then blocks the process.
BindReply ==
    /\ phase = "binding"
    /\ Reply(90)
    /\ phase' = "accepting"
    /\ UNCHANGED <<asked, streams, direction, eof>>

\* A reply cannot be written: no handler is left.
ReplyFails ==
    /\ phase \in {"granting", "rejecting", "binding"}
    /\ link["client"] \in Broken
    /\ Finish("ended")
    /\ UNCHANGED <<replies, eof>>

\* Somebody, from any address, connects to the port: the second reply.
Arrives ==
    /\ phase = "accepting"
    /\ link["client"] \notin Broken
    /\ replies' = IF Accepts("client") THEN Append(replies, 90) ELSE replies
    /\ link' = [AfterWrite("client") EXCEPT !["remote"] = "open"]
    /\ phase' = "relaying"
    /\ direction' = Each("reading")
    /\ UNCHANGED <<asked, streams, eof>>

\* The blocking write of the second reply throws.
ArrivesTooLate ==
    /\ phase = "accepting"
    /\ link["client"] \in Broken
    /\ Finish("aborted")
    /\ UNCHANGED <<replies, eof>>

-----------------------------------------------------------------------------
(* The relay *)

\* do_read: a chunk of what has come, at most a buffer full.
Chunk(s) == {n \in 1..MaxLength : n <= Len(wire[s])}

\* The bug of a read that does not wait for the write of the chunk before.
ReadAhead(s) ==
    /\ Alive
    /\ direction[s] \in {"reading", "writing"}
    /\ \E n \in Chunk(s) :
        /\ buffer' = [buffer EXCEPT ![s] = SubSeq(wire[s], 1, n)]
        /\ wire' = [wire EXCEPT ![s] = SubSeq(@, n + 1, Len(@))]
    /\ direction' = [direction EXCEPT ![s] = "writing"]
    /\ UNCHANGED <<phase, asked, replies, link, said, heard, eof>>

Read(s) ==
    /\ Alive
    /\ direction[s] = "reading"
    /\ \E n \in Chunk(s) :
        /\ buffer' = [buffer EXCEPT ![s] = SubSeq(wire[s], 1, n)]
        /\ wire' = [wire EXCEPT ![s] = SubSeq(@, n + 1, Len(@))]
    /\ direction' = [direction EXCEPT ![s] = "writing"]
    /\ UNCHANGED <<phase, asked, replies, link, said, heard, eof>>

\* The bug of a write that goes on from the start of the chunk.
WriteAgain(s) ==
    /\ Alive
    /\ direction[s] = "writing"
    /\ link[Other(s)] \notin Broken
    /\ buffer' = [buffer EXCEPT ![s] = Front(@)]
    /\ heard' = IF Accepts(Other(s)) THEN [heard EXCEPT ![Other(s)] = Append(@, Head(buffer[s]))] ELSE heard
    /\ link' = AfterWrite(Other(s))
    /\ direction' = [direction EXCEPT ![s] = IF Len(buffer[s]) = 1 THEN "reading" ELSE "writing"]
    /\ UNCHANGED <<phase, asked, replies, said, wire, eof>>

\* do_write: the socket takes the chunk bit by bit; when all of it is taken
\* the direction reads again.
Write(s) ==
    /\ Alive
    /\ direction[s] = "writing"
    /\ link[Other(s)] \notin Broken
    /\ buffer' = [buffer EXCEPT ![s] = Tail(@)]
    /\ heard' = IF Accepts(Other(s)) THEN [heard EXCEPT ![Other(s)] = Append(@, Head(buffer[s]))] ELSE heard
    /\ link' = AfterWrite(Other(s))
    /\ direction' = [direction EXCEPT ![s] = IF Len(buffer[s]) = 1 THEN "reading" ELSE "writing"]
    /\ UNCHANGED <<phase, asked, replies, said, wire, eof>>

AtEnd(s) == direction[s] = "reading" /\ wire[s] = << >>

\* The bugs of a direction that only stops at the end of file, and of one
\* that ends the session while there is input.
ReadEofStops(s) ==
    /\ Alive
    /\ AtEnd(s) /\ link[s] \in Ended
    /\ direction' = [direction EXCEPT ![s] = "off"]
    /\ UNCHANGED <<phase, asked, replies, link, streams, eof>>

ReadEofEarly(s) ==
    /\ Alive
    /\ direction[s] # "off" /\ link[s] \in Ended
    /\ Finish("ended")
    /\ eof' = {s}
    /\ UNCHANGED replies

\* End of file on one side ends the session, the other direction included.
ReadEof(s) ==
    /\ Alive
    /\ AtEnd(s) /\ link[s] \in Ended
    /\ Finish("ended")
    /\ eof' = {s}
    /\ UNCHANGED replies

\* Any other error stops the direction alone.
Breaks(s) ==
    /\ Alive
    /\ \/ AtEnd(s) /\ link[s] = "reset"
       \/ direction[s] = "writing" /\ link[Other(s)] \in Broken
    /\ direction' = [direction EXCEPT ![s] = "stopped"]
    /\ UNCHANGED <<phase, asked, replies, link, streams, eof>>

\* Both have stopped: no handler is left.
NothingLeft ==
    /\ phase = "relaying"
    /\ \A s \in Side : direction[s] = "stopped"
    /\ Finish("ended")
    /\ UNCHANGED <<replies, eof>>

-----------------------------------------------------------------------------
Over == ~Alive /\ UNCHANGED vars

\* What the process does by itself, the network permitting.
Handler ==
    \/ NoRequest \/ Connected \/ ConnectFails
    \/ Grant \/ Reject \/ BindReply \/ ReplyFails \/ NothingLeft
    \/ \E s \in Side : ReadEof(s)

Relay(s) == Read(s) \/ Write(s) \/ Breaks(s)

Next ==
    \/ ReadRequest \/ RequestThrows \/ Handler \/ Arrives \/ ArrivesTooLate \/ Over
    \/ \E s \in Side : Say(s) \/ HangUp(s) \/ Relay(s)

Spec == Init /\ [][Next]_vars

\* The process is scheduled and runs the handlers that are ready, connect()
\* ends one way or the other, and a side takes what is written to it.  No
\* client has to send a request, nobody has to connect to the port of a BIND
\* and nobody has to hang up.
Fairness == WF_vars(Handler) /\ \A s \in Side : WF_vars(Relay(s))
FairSpec == Spec /\ Fairness

-----------------------------------------------------------------------------
(* Correctness *)

Chunks == Seq(Unit)
Situation == [request : Requests \cup {Nobody.request}, from : ClientIps \cup {NoAddress},
              clientConf : Confs \cup {NoConf}, destConf : Confs \cup {NoConf}]

\* The values the state of a session ranges over.
TypeOK ==
    /\ phase \in Phases
    /\ asked \in Situation
    /\ replies \in Seq({90, 91})
    /\ link \in [Side -> Link]
    /\ {said, wire, buffer, heard} \subseteq [Side -> Chunks]
    /\ direction \in [Side -> Direction]
    /\ eof \subseteq Side

\* While a side takes what it is sent, every byte for it is in exactly one
\* place, in order: it has arrived, is in the buffer of do_read and do_write,
\* or is still to be read.  The buffer is reused for every chunk.
Conserved ==
    \A s \in Side :
        Alive /\ link[Other(s)] \in {"absent", "open", "half"} =>
            said[s] = heard[Other(s)] \o buffer[s] \o wire[s]

\* When the end of file of one side ends the session, the other side has got
\* everything the first one said, unless it has gone or is cut off with input
\* of its own unread.
EofAfterData ==
    \A s \in eof :
        link[Other(s)] \in {"open", "half"} /\ wire[Other(s)] = << >> => heard[Other(s)] = said[s]

\* The proxy gets in touch with the remote side only as the two files allow:
\* each has a rule of the kind of the request that names the address, octet
\* for octet, or there is no such file.
Allows(conf, kind, ip) ==
    conf.present => \E i \in DOMAIN conf.rules :
        /\ conf.rules[i].type = kind
        /\ \A o \in DOMAIN conf.rules[i].pattern : conf.rules[i].pattern[o] \in {Star, ip[o]}

OnlyPermitted ==
    link["remote"] # "absent" =>
        LET kind == IF asked.request.cd = 2 THEN "b" ELSE "c"
        IN  /\ Allows(asked.clientConf, kind, asked.from)
            /\ Allows(asked.destConf, kind, Destination(asked.request))

\* The client gets every reply before either side gets anything that is
\* relayed: it would take the reply for data, or data for the reply.
RepliesFirst == [][replies' # replies => \A s \in Side : heard[s] = << >>]_vars

\* The session relays as a relay should.
Relaying == INSTANCE ByteRelay WITH cut <- ~Alive
ImplementsByteRelay == Relaying!Spec

\* A client that waits for its answer, to CONNECT as to a request that is
\* refused, gets one.
RequestAnswered ==
    phase \in {"connecting", "granting", "rejecting", "binding"}
        ~> (replies # << >> \/ link["client"] \notin {"open", "half"})

\* A session whose two sides have hung up ends: no process is left behind.
HungUp(s) == link[s] \in Ended \cup {"reset"}
BothGoneEnds == (phase = "relaying" /\ \A s \in Side : HungUp(s)) ~> ~Alive

-----------------------------------------------------------------------------
(* What the source says of itself and does not do *)

\* socks_server.cpp:108, over the loop of parser(): "USERID, domain name".
HostIsParsed == Names(asked.request.tail).host = HostSent(asked.request.tail)
=============================================================================
