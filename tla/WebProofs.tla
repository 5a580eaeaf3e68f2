----------------------------- MODULE WebProofs -----------------------------
(***************************************************************************)
(* Theorems about WebServer: its types, that console and shell take turns, *)
(* that answers are shown below their commands, that "exit" comes before   *)
(* the end of the list, and whose environment a CGI program has.           *)
(***************************************************************************)
EXTENDS WebServer, TLAPS, SequenceTheorems, FiniteSetTheorems

Chunk == [says : Says, after : Nat]

Sending(i) == IF writing[i] THEN 1 ELSE 0

IsPrompt(w, k) == k \in DOMAIN w /\ w[k].says = "prompt"

\* The handlers of a session: it reads or writes, and what it shows leaves the list.
Handlers(i) ==
    /\ link[i] # "open" => ~reading[i] /\ ~writing[i]
    /\ reading[i] => ~writing[i]
    /\ writing[i] => left[i] > 0
    /\ left[i] + shown[i] = file[i].commands
    /\ file[i].exit <= file[i].commands

\* What has been executed, and what the shell has said of it, is no more than was sent.
Sent(i) ==
    /\ shell[i] = "off" => inbox[i] = 0 /\ done[i] = 0 /\ shown[i] = 0 /\ ~writing[i] /\ wire[i] = <<>>
    /\ shell[i] = "up" => done[i] + inbox[i] = shown[i] + Sending(i)
    /\ done[i] + inbox[i] <= shown[i] + Sending(i)
    /\ \A k \in DOMAIN wire[i] : wire[i][k].after <= done[i]

\* The turn is the console's, with one prompt that tells how many commands were sent,
\* or the shell's, with one command.
TurnOf(w, commands, sent) ==
    /\ commands <= 1
    /\ \A k \in DOMAIN w : w[k].says # "percent"
    /\ \A k : IsPrompt(w, k) => commands = 0 /\ w[k].after = sent
    /\ \A k, l : IsPrompt(w, k) /\ IsPrompt(w, l) => k = l

Turn(i) == TurnOf(wire[i], inbox[i], shown[i] + Sending(i))

\* "exit" is the last command that is executed, and no prompt follows it.
PromptsBefore(w, exit) == \A k : IsPrompt(w, k) => w[k].after < exit

Exits(i) ==
    /\ shell[i] = "up" => done[i] < file[i].exit
    /\ PromptsBefore(wire[i], file[i].exit)

Session(i) ==
    /\ Handlers(i) /\ Sent(i)
    /\ honest => Turn(i) /\ (file[i].exit > 0 => Exits(i))

ConsoleRight == (\A i \in Sessions : Session(i)) /\ ExitInTime

\* Requests are parsed once, and the environment is that of the last.
Parsings ==
    /\ \A k, l \in DOMAIN order : order[k] = order[l] => k = l
    /\ \A k \in DOMAIN order : conn[order[k]] \in {"parsed", "closed"}
    /\ \A c \in Conns : conn[c] = "parsed" => \E k \in DOMAIN order : order[k] = c
    /\ program = "http_server" /\ order # <<>> => env = order[Len(order)]

\* The environment of a program was that of its request or of a later one.
Environments == \A c \in Conns : child[c] # "none" =>
    \E k, l \in DOMAIN order : order[k] = c /\ order[l] = childEnv[c] /\ k <= l

ServerRight == Parsings /\ Environments

Inv == TypeOK /\ ConsoleRight /\ ServerRight

-----------------------------------------------------------------------------
(* What is on the wire.                                                    *)

\* The position of an element that occurs once.
LEMMA OnePosition ==
    ASSUME NEW k \in DOMAIN order, \A j, l \in DOMAIN order : order[j] = order[l] => j = l
    PROVE  Position(order[k]) = k
<1> DEFINE p == CHOOSE l \in DOMAIN order : order[l] = order[k]
<1>1. p \in DOMAIN order /\ order[p] = order[k]
  OBVIOUS
<1> QED BY <1>1 DEF Position

\* The rest of what is on the wire.
LEMMA Suffix ==
    ASSUME NEW w \in Seq(Chunk), NEW n \in 1 .. Len(w)
    PROVE  /\ SubSeq(w, n + 1, Len(w)) \in Seq(Chunk)
           /\ \A k \in DOMAIN SubSeq(w, n + 1, Len(w)) :
                 /\ n + k \in DOMAIN w /\ k \in Nat /\ k >= 1
                 /\ SubSeq(w, n + 1, Len(w))[k] = w[n + k]
           /\ DOMAIN SubSeq(w, 1, n) = 1 .. n
           /\ \A k \in 1 .. n : SubSeq(w, 1, n)[k] = w[k] /\ k \in DOMAIN w
<1>1. Len(w) \in Nat /\ DOMAIN w = 1 .. Len(w) /\ n \in Nat
  BY LenProperties
<1>2. /\ SubSeq(w, n + 1, Len(w)) \in Seq(Chunk)
      /\ DOMAIN SubSeq(w, n + 1, Len(w)) = 1 .. (Len(w) - n)
      /\ \A k \in 1 .. (Len(w) - n) : SubSeq(w, n + 1, Len(w))[k] = w[n + k]
  BY <1>1
<1>3. /\ DOMAIN SubSeq(w, 1, n) = 1 .. n
      /\ \A k \in 1 .. n : SubSeq(w, 1, n)[k] = w[k]
  BY <1>1
<1> QED BY <1>1, <1>2, <1>3

LEMMA TailOf ==
    ASSUME NEW w \in Seq(Chunk), w # <<>>
    PROVE  /\ Tail(w) \in Seq(Chunk)
           /\ \A k \in DOMAIN Tail(w) : k \in Nat /\ k + 1 \in DOMAIN w /\ Tail(w)[k] = w[k + 1]
<1>1. Len(w) \in Nat /\ DOMAIN w = 1 .. Len(w) /\ Len(w) # 0
  BY LenProperties
<1>2. /\ Tail(w) \in Seq(Chunk) /\ DOMAIN Tail(w) = 1 .. (Len(w) - 1)
      /\ \A k \in 1 .. (Len(w) - 1) : Tail(w)[k] = w[k + 1]
  BY <1>1
<1> QED BY <1>1, <1>2

\* A shell says something, and then gives its prompt.
LEMMA TwoMore ==
    ASSUME NEW w \in Seq(Chunk), NEW a \in Chunk, NEW b \in Chunk
    PROVE  /\ w \o <<a, b>> \in Seq(Chunk)
           /\ \A k \in DOMAIN w : (w \o <<a, b>>)[k] = w[k]
           /\ (w \o <<a, b>>)[Len(w) + 1] = a /\ (w \o <<a, b>>)[Len(w) + 2] = b
           /\ DOMAIN (w \o <<a, b>>) = DOMAIN w \cup {Len(w) + 1, Len(w) + 2}
<1>1. Len(w) \in Nat /\ DOMAIN w = 1 .. Len(w)
  BY LenProperties
<1>2. <<a, b>> \in Seq(Chunk) /\ Len(<<a, b>>) = 2 /\ <<a, b>>[1] = a /\ <<a, b>>[2] = b
  OBVIOUS
<1>3. /\ w \o <<a, b>> \in Seq(Chunk) /\ Len(w \o <<a, b>>) = Len(w) + 2
      /\ \A k \in 1 .. Len(w) : (w \o <<a, b>>)[k] = w[k]
      /\ (w \o <<a, b>>)[Len(w) + 1] = a /\ (w \o <<a, b>>)[Len(w) + 2] = b
  BY <1>1, <1>2
<1>4. DOMAIN (w \o <<a, b>>) = 1 .. (Len(w) + 2)
  BY <1>3, LenProperties
<1> QED BY <1>1, <1>3, <1>4

\* Reading changes whose turn it is by the prompt only.
LEMMA RestOfTurn ==
    ASSUME NEW w \in Seq(Chunk), w # <<>>, NEW c, NEW n, TurnOf(w, c, n)
    PROVE  TurnOf(Tail(w), c, n)
<1>1. \A k : IsPrompt(Tail(w), k) => k \in Nat /\ IsPrompt(w, k + 1) /\ Tail(w)[k] = w[k + 1]
  BY TailOf DEF IsPrompt
<1>2. \A k \in DOMAIN Tail(w) : Tail(w)[k].says # "percent"
  BY TailOf DEF TurnOf
<1>3. ASSUME NEW k, NEW l, IsPrompt(Tail(w), k), IsPrompt(Tail(w), l)
      PROVE  k = l
  <2>1. k + 1 = l + 1 /\ k \in Nat /\ l \in Nat
    BY <1>1, <1>3 DEF TurnOf
  <2> QED BY <2>1
<1> QED BY <1>1, <1>2, <1>3 DEF TurnOf

\* After a chunk with the prompt in it, there is no other.
LEMMA RestOfChunk ==
    ASSUME NEW w \in Seq(Chunk), NEW n \in 1 .. Len(w), NEW c, NEW m, TurnOf(w, c, m)
    PROVE  /\ TurnOf(SubSeq(w, n + 1, Len(w)), c, m)
           /\ (\E k \in 1 .. n : IsPrompt(w, k)) =>
                 /\ c = 0
                 /\ \A k : ~IsPrompt(SubSeq(w, n + 1, Len(w)), k)
<1> DEFINE v == SubSeq(w, n + 1, Len(w))
<1>1. /\ \A k \in DOMAIN v : n + k \in DOMAIN w /\ k \in Nat /\ k >= 1 /\ v[k] = w[n + k]
      /\ n \in Nat
  BY Suffix
<1> HIDE DEF v
<1>2. \A k : IsPrompt(v, k) => k \in Nat /\ k >= 1 /\ IsPrompt(w, n + k) /\ v[k] = w[n + k]
  BY <1>1 DEF IsPrompt
<1>3. \A k \in DOMAIN v : v[k].says # "percent"
  BY <1>1 DEF TurnOf
<1>4. ASSUME NEW k, NEW l, IsPrompt(v, k), IsPrompt(v, l)
      PROVE  k = l
  <2>1. n + k = n + l /\ k \in Nat /\ l \in Nat
    BY <1>2, <1>4 DEF TurnOf
  <2> QED BY <1>1, <2>1
<1>5. TurnOf(v, c, m)
  BY <1>2, <1>3, <1>4 DEF TurnOf
<1>6. ASSUME NEW k \in 1 .. n, IsPrompt(w, k)
      PROVE  c = 0 /\ \A l : ~IsPrompt(v, l)
  <2>1. c = 0
    BY <1>6 DEF TurnOf
  <2>2. ASSUME NEW l, IsPrompt(v, l)
        PROVE  FALSE
    <3>1. n + l = k /\ l \in Nat /\ l >= 1
      BY <1>2, <1>6, <2>2 DEF TurnOf
    <3> QED BY <1>1, <3>1
  <2> QED BY <2>1, <2>2
<1> QED BY <1>5, <1>6 DEF v

-----------------------------------------------------------------------------
(* The steps of a session.                                                 *)

Same(i) == /\ link'[i] = link[i] /\ reading'[i] = reading[i] /\ writing'[i] = writing[i]
           /\ left'[i] = left[i] /\ shown'[i] = shown[i] /\ shell'[i] = shell[i]
           /\ inbox'[i] = inbox[i] /\ done'[i] = done[i] /\ wire'[i] = wire[i]

LEMMA Elsewhere ==
    ASSUME NEW i \in Sessions, Session(i), Same(i), UNCHANGED <<honest, file>>
    PROVE  Session(i)'
<1>1. Handlers(i)'
  BY DEF Session, Same, Handlers
<1>2. Sent(i)'
  BY DEF Session, Same, Sent, Sending
<1>3. honest' => Turn(i)'
  BY DEF Session, Same, Turn, Sending
<1>4. honest' /\ file'[i].exit > 0 => Exits(i)'
  BY DEF Session, Same, Exits
<1> QED BY <1>1, <1>2, <1>3, <1>4 DEF Session

\* The types of what belongs to one session.
LEMMA OfSession ==
    ASSUME ConsoleTypeOK, NEW i \in Sessions
    PROVE  /\ link[i] \in {"none", "asks", "awaits", "open", "stops"}
           /\ reading[i] \in BOOLEAN /\ writing[i] \in BOOLEAN
           /\ left[i] \in Nat /\ shown[i] \in Nat
           /\ file[i].commands \in Nat /\ file[i].exit \in Nat
           /\ shell[i] \in {"off", "up", "gone", "rejected"}
           /\ inbox[i] \in Nat /\ done[i] \in Nat
           /\ wire[i] \in Seq(Chunk)
           /\ \A k \in DOMAIN wire[i] : /\ wire[i][k].after \in Nat /\ wire[i][k] \in Chunk
                                        /\ k \in Nat
<1>1. wire[i] \in Seq(Chunk) /\ file[i] \in [commands : Nat, exit : Nat]
  BY DEF ConsoleTypeOK, Chunk
<1>2. \A k \in DOMAIN wire[i] : wire[i][k] \in Chunk /\ k \in Nat
  BY <1>1, ElementOfSeq, LenProperties
<1> QED BY <1>1, <1>2 DEF ConsoleTypeOK, Chunk

LEMMA AskedKeeps ==
    ASSUME ConsoleTypeOK, \A i \in Sessions : Session(i), NEW j \in Sessions, Asked(j)
    PROVE  ConsoleTypeOK' /\ \A i \in Sessions : Session(i)'
<1>1. /\ link[j] = "asks" /\ link' \in [Sessions -> {"none", "asks", "awaits", "open", "stops"}]
      /\ link'[j] \in {"awaits", "stops"} /\ \A i \in Sessions : i # j => link'[i] = link[i]
      /\ UNCHANGED <<program, process, reading, writing, left, shown, fresh, file, honest, shell,
                     inbox, done, wire>>
  BY DEF Asked, ConsoleTypeOK, remote
<1>2. ConsoleTypeOK'
  BY <1>1 DEF ConsoleTypeOK
<1>3. Session(j)'
  <2>1. Handlers(j)'
    BY <1>1 DEF Session, Handlers
  <2>2. Sent(j)' /\ (honest' => Turn(j)') /\ (honest' /\ file'[j].exit > 0 => Exits(j)')
    BY <1>1 DEF Session, Sent, Sending, Turn, Exits
  <2> QED BY <2>1, <2>2 DEF Session
<1>4. \A i \in Sessions : i # j => Session(i)'
  BY <1>1, Elsewhere DEF Same
<1> QED BY <1>2, <1>3, <1>4

LEMMA GetsReplyKeeps ==
    ASSUME ConsoleTypeOK, \A i \in Sessions : Session(i), NEW j \in Sessions, GetsReply(j)
    PROVE  ConsoleTypeOK' /\ \A i \in Sessions : Session(i)'
<1> DEFINE w == wire[j]
<1>1. CASE link'[j] = "stops"
  <2>1. /\ link[j] = "awaits" /\ link' = [link EXCEPT ![j] = "stops"]
        /\ UNCHANGED <<program, process, reading, writing, left, shown, fresh, file, honest, shell,
                       inbox, done, wire>>
    BY <1>1 DEF GetsReply, ConsoleTypeOK
  <2>2. ConsoleTypeOK'
    BY <2>1 DEF ConsoleTypeOK
  <2>3. link'[j] = "stops" /\ \A i \in Sessions : i # j => link'[i] = link[i]
    BY <2>1 DEF ConsoleTypeOK
  <2>4. Session(j)'
    BY <2>1, <2>3 DEF Session, Handlers, Sent, Sending, Turn, Exits
  <2>5. \A i \in Sessions : i # j => Session(i)'
    BY <2>1, <2>3, Elsewhere DEF Same
  <2> QED BY <2>2, <2>4, <2>5
<1>2. CASE link'[j] # "stops"
  <2>1. /\ link[j] = "awaits" /\ w # <<>>
        /\ wire' = [wire EXCEPT ![j] = Tail(w)]
        /\ link' = [link EXCEPT ![j] = "open"] /\ reading' = [reading EXCEPT ![j] = TRUE]
        /\ UNCHANGED <<program, process, writing, left, shown, fresh, file, honest, shell, inbox, done>>
    BY <1>2 DEF GetsReply, ConsoleTypeOK
  <2>2. /\ w \in Seq(Chunk) /\ Tail(w) \in Seq(Chunk)
        /\ \A k \in DOMAIN Tail(w) : k \in Nat /\ k + 1 \in DOMAIN w /\ Tail(w)[k] = w[k + 1]
    BY <2>1, OfSession, TailOf
  <2> HIDE DEF w
  <2>3. ConsoleTypeOK'
    BY <2>1, <2>2 DEF ConsoleTypeOK, Chunk
  <2>4. /\ link'[j] = "open" /\ reading'[j] = TRUE /\ wire'[j] = Tail(w)
        /\ \A i \in Sessions : i # j => /\ link'[i] = link[i] /\ reading'[i] = reading[i]
                                        /\ wire'[i] = wire[i]
    BY <2>1 DEF ConsoleTypeOK
  <2>5. Session(j)'
    <3>1. Handlers(j)'
      BY <2>1, <2>4 DEF Session, Handlers
    <3>2. shell[j] # "off" /\ Sent(j)'
      BY <2>1, <2>2, <2>4 DEF Session, Sent, Sending, w
    <3>3. honest' => Turn(j)'
      <4>1. Sending(j)' = Sending(j)
        BY <2>1 DEF Sending
      <4>2. ASSUME NEW n, TurnOf(w, inbox[j], n)
            PROVE  TurnOf(Tail(w), inbox[j], n)
        BY <2>1, <2>2, <4>2, RestOfTurn
      <4> QED BY <2>1, <2>4, <4>1, <4>2 DEF Session, Turn, w
    <3>4. honest' /\ file'[j].exit > 0 => Exits(j)'
      <4>1. ASSUME PromptsBefore(w, file[j].exit)
            PROVE  PromptsBefore(Tail(w), file[j].exit)
        BY <2>2, <4>1 DEF PromptsBefore, IsPrompt
      <4> QED BY <2>1, <2>4, <4>1 DEF Session, Exits, w
    <3> QED BY <3>1, <3>2, <3>3, <3>4 DEF Session
  <2>6. \A i \in Sessions : i # j => Session(i)'
    BY <2>1, <2>4, Elsewhere DEF Same
  <2> QED BY <2>3, <2>5, <2>6
<1> QED BY <1>1, <1>2

LEMMA WrittenKeeps ==
    ASSUME ConsoleTypeOK, \A i \in Sessions : Session(i), NEW j \in Sessions, Written(j)
    PROVE  ConsoleTypeOK' /\ \A i \in Sessions : Session(i)'
<1>1. /\ writing[j] /\ writing' = [writing EXCEPT ![j] = FALSE]
      /\ reading' = [reading EXCEPT ![j] = TRUE]
      /\ shown' = [shown EXCEPT ![j] = shown[j] + 1]
      /\ left' = [left EXCEPT ![j] = left[j] - 1]
      /\ UNCHANGED <<program, process, link, fresh, file, honest, shell, inbox, done, wire>>
  BY DEF Written, remote
<1>2. left[j] \in Nat /\ shown[j] \in Nat /\ left[j] > 0 /\ file[j].commands \in Nat
  BY <1>1, OfSession DEF Session, Handlers
<1>3. ConsoleTypeOK'
  <2>1. left[j] - 1 \in Nat /\ shown[j] + 1 \in Nat
    BY <1>2
  <2> QED BY <1>1, <2>1 DEF ConsoleTypeOK
<1>4. /\ ~writing'[j] /\ reading'[j] /\ shown'[j] = shown[j] + 1 /\ left'[j] = left[j] - 1
      /\ \A i \in Sessions : i # j => /\ writing'[i] = writing[i] /\ reading'[i] = reading[i]
                                      /\ shown'[i] = shown[i] /\ left'[i] = left[i]
  BY <1>1 DEF ConsoleTypeOK
<1>5. Session(j)'
  <2>1. shown'[j] + Sending(j)' = shown[j] + Sending(j)
    BY <1>1, <1>2, <1>4 DEF Sending
  <2>2. Handlers(j)'
    BY <1>1, <1>2, <1>4 DEF Session, Handlers
  <2>3. Sent(j)'
    BY <1>1, <1>4, <2>1 DEF Session, Sent
  <2>4. honest' => Turn(j)'
    BY <1>1, <1>4, <2>1 DEF Session, Turn
  <2>5. honest' /\ file'[j].exit > 0 => Exits(j)'
    BY <1>1 DEF Session, Exits
  <2> QED BY <2>2, <2>3, <2>4, <2>5 DEF Session
<1>6. \A i \in Sessions : i # j => Session(i)'
  BY <1>1, <1>4, Elsewhere DEF Same
<1> QED BY <1>3, <1>5, <1>6

\* What a console takes for a prompt is one, when "%" is in nothing else.
LEMMA PromptTaken ==
    ASSUME NEW j, NEW w \in Seq(Chunk), NEW n \in 1 .. Len(w), NEW g \in BOOLEAN, NEW c, NEW m,
           ~g, Prompted(j, SubSeq(w, 1, n), g), TurnOf(w, c, m)
    PROVE  \E k \in 1 .. n : IsPrompt(w, k)
<1>1. PICK k \in DOMAIN SubSeq(w, 1, n) : SubSeq(w, 1, n)[k].says \in {"prompt", "percent"}
  BY DEF Prompted
<1>2. k \in 1 .. n /\ w[k].says \in {"prompt", "percent"} /\ k \in DOMAIN w
  BY <1>1, Suffix
<1> QED BY <1>2 DEF TurnOf, IsPrompt

LEMMA ReadKeeps ==
    ASSUME ConsoleTypeOK, ConsoleRight, NEW j \in Sessions, Read(j)
    PROVE  ConsoleTypeOK' /\ ConsoleRight'
<1> DEFINE w == wire[j]
<1>1. PICK n \in 1 .. Len(w), g \in BOOLEAN :
         /\ g => ~honest
         /\ wire' = [wire EXCEPT ![j] = SubSeq(w, n + 1, Len(w))]
         /\ fresh' = [fresh EXCEPT ![j] = FALSE]
         /\ IF Prompted(j, SubSeq(w, 1, n), g)
              THEN SendCommand(j) \/ Overruns(j)
              ELSE UNCHANGED <<writing, inbox, reading, process>>
  BY DEF Read
<1>2. /\ process = "runs" /\ reading[j] /\ ~writing[j] /\ link[j] = "open"
      /\ UNCHANGED <<program, link, left, shown, file, honest, shell, done>>
  BY DEF Read, ConsoleRight, Session, Handlers
<1>3. /\ w \in Seq(Chunk) /\ inbox[j] \in Nat /\ done[j] \in Nat /\ shown[j] \in Nat /\ left[j] \in Nat
      /\ file[j].commands \in Nat /\ file[j].exit \in Nat
  BY OfSession DEF ConsoleRight
<1> DEFINE v == SubSeq(w, n + 1, Len(w))
<1>4. /\ v \in Seq(Chunk)
      /\ \A k \in DOMAIN v : n + k \in DOMAIN w /\ v[k] = w[n + k]
  BY <1>3, Suffix
<1>5. shell[j] # "off" /\ Sending(j) = 0
  BY <1>2, <1>3 DEF ConsoleRight, Session, Sent, Sending
<1>6. ASSUME NEW x, PromptsBefore(w, x)
      PROVE  PromptsBefore(v, x)
  BY <1>4, <1>6 DEF PromptsBefore, IsPrompt
<1>7. ASSUME NEW c, NEW m, TurnOf(w, c, m)
      PROVE  /\ TurnOf(v, c, m)
             /\ (\E k \in 1 .. n : IsPrompt(w, k)) => c = 0 /\ \A k : ~IsPrompt(v, k)
  BY <1>3, <1>7, RestOfChunk
<1>8. honest /\ Prompted(j, SubSeq(w, 1, n), g) => \E k \in 1 .. n : IsPrompt(w, k)
  BY <1>1, <1>3, PromptTaken DEF ConsoleRight, Session, Turn
<1> HIDE DEF w, v
<1>9. wire'[j] = v /\ \A i \in Sessions : i # j => wire'[i] = wire[i]
  BY <1>1 DEF ConsoleTypeOK, v, w
<1>10. /\ wire' \in [Sessions -> Seq(Chunk)] /\ fresh' \in [Sessions -> BOOLEAN]
  BY <1>1, <1>4 DEF ConsoleTypeOK, Chunk, v
<1>11. CASE Prompted(j, SubSeq(w, 1, n), g) /\ SendCommand(j)
  <2> DEFINE c == IF shell[j] = "up" THEN inbox[j] + 1 ELSE inbox[j]
  <2>1. /\ left[j] > 0 /\ writing' = [writing EXCEPT ![j] = TRUE]
        /\ inbox' = [inbox EXCEPT ![j] = c] /\ reading' = [reading EXCEPT ![j] = FALSE]
        /\ UNCHANGED process
    BY <1>11 DEF SendCommand
  <2>2. c \in Nat
    BY <1>3
  <2>3. c = inbox[j] \/ (shell[j] = "up" /\ c = inbox[j] + 1)
    OBVIOUS
  <2>4. shell[j] = "up" => c = inbox[j] + 1
    OBVIOUS
  <2> HIDE DEF c
  <2>5. ConsoleTypeOK'
    BY <1>2, <1>10, <2>1, <2>2 DEF ConsoleTypeOK, Chunk
  <2>6. /\ writing'[j] = TRUE /\ inbox'[j] = c /\ reading'[j] = FALSE
        /\ \A i \in Sessions : i # j => /\ writing'[i] = writing[i] /\ inbox'[i] = inbox[i]
                                        /\ reading'[i] = reading[i]
    BY <2>1 DEF ConsoleTypeOK
  <2>7. Sending(j)' = 1
    BY <2>6 DEF Sending
  <2>8. Handlers(j)'
    BY <1>2, <2>1, <2>6 DEF ConsoleRight, Session, Handlers
  <2>9. Sent(j)'
    <3>1. /\ shell[j] = "up" => done[j] + inbox[j] = shown[j]
          /\ done[j] + inbox[j] <= shown[j]
          /\ \A k \in DOMAIN w : w[k].after <= done[j]
      BY <1>3, <1>5 DEF ConsoleRight, Session, Sent, w
    <3>2. shell[j] = "up" => done[j] + c = shown[j] + 1
      BY <1>3, <2>4, <3>1
    <3>3. done[j] + c <= shown[j] + 1
      BY <1>3, <2>2, <2>3, <3>1
    <3>4. \A k \in DOMAIN v : v[k].after <= done[j]
      BY <1>4, <3>1 DEF v
    <3> QED BY <1>2, <1>5, <1>9, <2>6, <2>7, <3>2, <3>3, <3>4 DEF Sent
  <2>10. honest' => Turn(j)'
    <3> SUFFICES ASSUME honest PROVE TurnOf(v, c, shown[j] + 1)
      BY <1>2, <1>9, <2>6, <2>7 DEF Turn
    <3>1. TurnOf(w, inbox[j], shown[j] + Sending(j))
      BY DEF ConsoleRight, Session, Turn, w
    <3>2. inbox[j] = 0 /\ \A k : ~IsPrompt(v, k)
      BY <1>7, <1>8, <1>11, <3>1
    <3>3. \A k \in DOMAIN v : v[k].says # "percent"
      BY <1>7, <3>1 DEF TurnOf
    <3> QED BY <2>3, <3>2, <3>3 DEF TurnOf
  <2>11. honest' /\ file'[j].exit > 0 => Exits(j)'
    BY <1>2, <1>6, <1>9 DEF ConsoleRight, Session, Exits, w
  <2>12. \A i \in Sessions : Session(i)'
    <3>1. Session(j)'
      BY <2>8, <2>9, <2>10, <2>11 DEF Session
    <3>2. \A i \in Sessions : i # j => Session(i)'
      BY <1>2, <1>9, <2>6, Elsewhere DEF Same, ConsoleRight
    <3> QED BY <3>1, <3>2
  <2>13. ExitInTime'
    BY <1>2, <2>1 DEF ExitInTime
  <2> QED BY <2>5, <2>12, <2>13 DEF ConsoleRight
<1>12. CASE UNCHANGED <<writing, inbox, reading>> /\ (UNCHANGED process \/ (Prompted(j, SubSeq(w, 1, n), g) /\ Overruns(j)))
  <2>1. process' \in {"runs", "overrun"}
    BY <1>2, <1>12 DEF Overruns
  <2>2. ConsoleTypeOK'
    BY <1>2, <1>10, <1>12, <2>1 DEF ConsoleTypeOK, Chunk
  <2>3. Sending(j)' = Sending(j)
    BY <1>12 DEF Sending
  <2>4. Handlers(j)'
    BY <1>2, <1>12 DEF ConsoleRight, Session, Handlers
  <2>5. Sent(j)'
    <3>1. \A k \in DOMAIN v : v[k].after <= done[j]
      BY <1>4 DEF ConsoleRight, Session, Sent, w, v
    <3> QED BY <1>2, <1>5, <1>9, <1>12, <2>3, <3>1 DEF ConsoleRight, Session, Sent
  <2>6. honest' => Turn(j)'
    BY <1>2, <1>7, <1>9, <1>12, <2>3 DEF ConsoleRight, Session, Turn, w
  <2>7. honest' /\ file'[j].exit > 0 => Exits(j)'
    BY <1>2, <1>6, <1>9 DEF ConsoleRight, Session, Exits, w
  <2>8. \A i \in Sessions : Session(i)'
    <3>1. Session(j)'
      BY <2>4, <2>5, <2>6, <2>7 DEF Session
    <3>2. \A i \in Sessions : i # j => Session(i)'
      BY <1>2, <1>9, <1>12, Elsewhere DEF Same, ConsoleRight
    <3> QED BY <3>1, <3>2
  <2>9. ExitInTime'
    <3> SUFFICES ASSUME honest, file[j].exit > 0, Prompted(j, SubSeq(w, 1, n), g), Overruns(j)
                 PROVE  FALSE
      BY <1>2, <1>12 DEF ExitInTime
    <3>1. PICK k \in 1 .. n : IsPrompt(w, k)
      BY <1>8
    <3>2. w[k].after = shown[j] /\ w[k].after < file[j].exit
      BY <1>3, <1>5, <3>1 DEF ConsoleRight, Session, Turn, TurnOf, Exits, PromptsBefore, w
    <3>3. left[j] = 0 /\ shown[j] = file[j].commands /\ file[j].exit <= file[j].commands
      BY <1>3 DEF Overruns, ConsoleRight, Session, Handlers
    <3> QED BY <1>3, <3>2, <3>3
  <2> QED BY <2>2, <2>8, <2>9 DEF ConsoleRight
<1> QED BY <1>1, <1>11, <1>12 DEF Overruns

-----------------------------------------------------------------------------
(* The steps of the shells and the proxy.                                  *)

\* The pieces of a reply.
LEMMA RepliesAre ==
    ASSUME NEW r \in Replies \cup {<<>>}
    PROVE  /\ r \in Seq(Chunk)
           /\ \A k \in DOMAIN r : r[k].after = 0 /\ r[k].says \notin {"prompt", "percent"}
<1>1. /\ Item("reply", 0) \in Chunk /\ Item("part", 0) \in Chunk /\ Item("rest", 0) \in Chunk
      /\ \A s \in {"reply", "part", "rest"} : Item(s, 0).after = 0 /\ Item(s, 0).says = s
  BY DEF Item, Chunk, Says
<1>2. CASE r = <<Item("reply", 0)>>
  <2> DEFINE a == Item("reply", 0)
  <2>1. a \in Chunk /\ a.after = 0 /\ a.says = "reply"
    BY <1>1
  <2> HIDE DEF a
  <2>2. r = <<a>> /\ DOMAIN r = {1} /\ r \in Seq(Chunk) /\ r[1] = a
    BY <1>2, <2>1 DEF a
  <2> QED BY <2>1, <2>2
<1>3. CASE r = <<Item("part", 0), Item("rest", 0)>>
  <2> DEFINE a == Item("part", 0)
             b == Item("rest", 0)
  <2>1. /\ a \in Chunk /\ a.after = 0 /\ a.says = "part"
        /\ b \in Chunk /\ b.after = 0 /\ b.says = "rest"
    BY <1>1
  <2> HIDE DEF a, b
  <2>2. r = <<a, b>> /\ DOMAIN r = {1, 2} /\ r \in Seq(Chunk) /\ r[1] = a /\ r[2] = b
    BY <1>3, <2>1 DEF a, b
  <2> QED BY <2>1, <2>2
<1>4. CASE r = <<>>
  BY <1>4
<1> QED BY <1>2, <1>3, <1>4 DEF Replies

\* A shell that comes greets with one prompt.
LEMMA Greets ==
    ASSUME NEW r \in Replies \cup {<<>>}
    PROVE  /\ r \o Greeting \in Seq(Chunk)
           /\ \A k \in DOMAIN (r \o Greeting) : (r \o Greeting)[k].after = 0
           /\ TurnOf(r \o Greeting, 0, 0)
           /\ \A x \in Nat : x > 0 => PromptsBefore(r \o Greeting, x)
<1> DEFINE a == Item("text", 0)
           b == Item("prompt", 0)
           v == r \o <<a, b>>
<1>1. /\ r \in Seq(Chunk)
      /\ \A k \in DOMAIN r : r[k].after = 0 /\ r[k].says \notin {"prompt", "percent"}
  BY RepliesAre
<1>2. /\ a \in Chunk /\ a.says = "text" /\ a.after = 0
      /\ b \in Chunk /\ b.says = "prompt" /\ b.after = 0
  BY DEF Item, Chunk, Says
<1> HIDE DEF a, b
<1>3. /\ v \in Seq(Chunk)
      /\ \A k \in DOMAIN v : (k \in DOMAIN r /\ v[k] = r[k]) \/ v[k] = a \/ v[k] = b
      /\ \A k : IsPrompt(v, k) => (IsPrompt(r, k) /\ v[k] = r[k]) \/ (k = Len(r) + 2 /\ v[k] = b)
  <2>1. /\ v \in Seq(Chunk)
        /\ \A k \in DOMAIN r : v[k] = r[k]
        /\ v[Len(r) + 1] = a /\ v[Len(r) + 2] = b
        /\ DOMAIN v = DOMAIN r \cup {Len(r) + 1, Len(r) + 2}
    BY <1>1, <1>2, TwoMore
  <2> HIDE DEF v
  <2>2. \A k \in DOMAIN v : (k \in DOMAIN r /\ v[k] = r[k]) \/ v[k] = a \/ v[k] = b
    BY <2>1
  <2>3. \A k : IsPrompt(v, k) => (IsPrompt(r, k) /\ v[k] = r[k]) \/ (k = Len(r) + 2 /\ v[k] = b)
    BY <1>2, <2>1 DEF IsPrompt
  <2> QED BY <2>1, <2>2, <2>3
<1> HIDE DEF v
<1>4. \A k \in DOMAIN v : v[k].after = 0 /\ v[k].says # "percent"
  BY <1>1, <1>2, <1>3
<1>5. \A k : IsPrompt(v, k) => k = Len(r) + 2 /\ v[k].after = 0
  BY <1>1, <1>2, <1>3 DEF IsPrompt
<1>6. TurnOf(v, 0, 0)
  BY <1>4, <1>5 DEF TurnOf
<1>7. \A x \in Nat : x > 0 => PromptsBefore(v, x)
  BY <1>5 DEF PromptsBefore
<1>8. r \o Greeting = v
  BY DEF Greeting, v, a, b
<1> QED BY <1>3, <1>4, <1>6, <1>7, <1>8

\* Steps that change what the shell of one session is, and what is on its wire.
LEMMA RemoteKeeps ==
    ASSUME ConsoleTypeOK, ConsoleRight, NEW j \in Sessions,
           NEW s \in {"up", "gone", "rejected"}, NEW v \in Seq(Chunk),
           NEW m \in Nat, NEW d \in Nat,
           shell' = [shell EXCEPT ![j] = s], wire' = [wire EXCEPT ![j] = v],
           inbox' = [inbox EXCEPT ![j] = m], done' = [done EXCEPT ![j] = d],
           UNCHANGED <<console, file, honest>>,
           s = "up" => d + m = shown[j] + Sending(j),
           d + m <= shown[j] + Sending(j),
           \A k \in DOMAIN v : v[k].after <= d,
           honest => TurnOf(v, m, shown[j] + Sending(j)),
           honest /\ file[j].exit > 0 => (s = "up" => d < file[j].exit) /\ PromptsBefore(v, file[j].exit)
    PROVE  ConsoleTypeOK' /\ ConsoleRight'
<1>1. UNCHANGED <<program, process, link, reading, writing, left, shown, fresh, file, honest>>
  BY DEF console
<1>2. /\ shell'[j] = s /\ wire'[j] = v /\ inbox'[j] = m /\ done'[j] = d
      /\ \A i \in Sessions : i # j => /\ shell'[i] = shell[i] /\ wire'[i] = wire[i]
                                      /\ inbox'[i] = inbox[i] /\ done'[i] = done[i]
  BY DEF ConsoleTypeOK
<1>3. ConsoleTypeOK'
  BY <1>1 DEF ConsoleTypeOK, Chunk
<1>4. Sending(j)' = Sending(j)
  BY <1>1 DEF Sending
<1>5. Session(j)'
  <2>1. Handlers(j)'
    BY <1>1 DEF ConsoleRight, Session, Handlers
  <2>2. Sent(j)'
    BY <1>1, <1>2, <1>4 DEF Sent
  <2>3. (honest' => Turn(j)') /\ (honest' /\ file'[j].exit > 0 => Exits(j)')
    BY <1>1, <1>2, <1>4 DEF Turn, Exits
  <2> QED BY <2>1, <2>2, <2>3 DEF Session
<1>6. \A i \in Sessions : i # j => Session(i)'
  BY <1>1, <1>2, Elsewhere DEF Same, ConsoleRight
<1>7. ExitInTime'
  BY <1>1 DEF ConsoleRight, ExitInTime
<1> QED BY <1>3, <1>5, <1>6, <1>7 DEF ConsoleRight

LEMMA CameKeeps ==
    ASSUME ConsoleTypeOK, ConsoleRight, NEW j \in Sessions, Accepts(j) \/ ProxyAnswers(j)
    PROVE  ConsoleTypeOK' /\ ConsoleRight'
<1>1. /\ shell[j] = "off" /\ UNCHANGED <<console, file, honest, inbox, done>>
      /\ \/ \E r \in Replies \cup {<<>>} : Comes(j, r)
         \/ \E r \in Replies : shell' = [shell EXCEPT ![j] = "rejected"] /\ wire' = [wire EXCEPT ![j] = r]
         \/ shell' = [shell EXCEPT ![j] = "gone"] /\ UNCHANGED wire
  BY DEF Accepts, ProxyAnswers
<1>2. /\ inbox[j] = 0 /\ done[j] = 0 /\ shown[j] = 0 /\ Sending(j) = 0 /\ wire[j] = <<>>
      /\ file[j].exit \in Nat
  BY <1>1, OfSession DEF ConsoleRight, Session, Sent, Sending
<1>3. /\ inbox' = [inbox EXCEPT ![j] = 0] /\ done' = [done EXCEPT ![j] = 0]
  BY <1>1, <1>2 DEF ConsoleTypeOK
<1>4. ASSUME NEW r \in Replies \cup {<<>>}, Comes(j, r)
      PROVE  ConsoleTypeOK' /\ ConsoleRight'
  <2> DEFINE v == r \o Greeting
  <2>1. /\ v \in Seq(Chunk) /\ \A k \in DOMAIN v : v[k].after = 0
        /\ TurnOf(v, 0, 0) /\ (\A x \in Nat : x > 0 => PromptsBefore(v, x))
    BY Greets
  <2>2. shell' = [shell EXCEPT ![j] = "up"] /\ wire' = [wire EXCEPT ![j] = v]
    BY <1>4 DEF Comes
  <2> HIDE DEF v
  <2>3. /\ \A k \in DOMAIN v : v[k].after <= 0
        /\ 0 + 0 = shown[j] + Sending(j) /\ 0 + 0 <= shown[j] + Sending(j)
        /\ TurnOf(v, 0, shown[j] + Sending(j))
        /\ file[j].exit > 0 => 0 < file[j].exit /\ PromptsBefore(v, file[j].exit)
    BY <1>2, <2>1
  <2> QED BY <1>1, <1>3, <2>1, <2>2, <2>3, RemoteKeeps
<1>5. ASSUME NEW r \in Replies \cup {<<>>}, NEW s \in {"gone", "rejected"},
             shell' = [shell EXCEPT ![j] = s], wire' = [wire EXCEPT ![j] = r]
      PROVE  ConsoleTypeOK' /\ ConsoleRight'
  <2>1. /\ r \in Seq(Chunk)
        /\ \A k \in DOMAIN r : r[k].after = 0 /\ r[k].says \notin {"prompt", "percent"}
    BY RepliesAre
  <2>2. \A k : ~IsPrompt(r, k)
    BY <2>1 DEF IsPrompt
  <2>3. /\ \A k \in DOMAIN r : r[k].after <= 0
        /\ s \in {"up", "gone", "rejected"} /\ 0 + 0 <= shown[j] + Sending(j)
        /\ s = "up" => 0 + 0 = shown[j] + Sending(j)
        /\ TurnOf(r, 0, shown[j] + Sending(j))
        /\ (s = "up" => 0 < file[j].exit) /\ PromptsBefore(r, file[j].exit)
    BY <1>2, <2>1, <2>2 DEF TurnOf, PromptsBefore
  <2>4. /\ shell' = [shell EXCEPT ![j] = s] /\ wire' = [wire EXCEPT ![j] = r]
        /\ UNCHANGED <<console, file, honest>> /\ r \in Seq(Chunk)
    BY <1>1, <1>5, <2>1
  <2> QED BY ONLY ConsoleTypeOK, ConsoleRight, j \in Sessions, <1>3, <2>3, <2>4, RemoteKeeps
<1>6. CASE shell' = [shell EXCEPT ![j] = "gone"] /\ UNCHANGED wire
  <2>1. wire' = [wire EXCEPT ![j] = <<>>]
    BY <1>2, <1>6 DEF ConsoleTypeOK
  <2> QED BY <1>5, <1>6, <2>1
<1> QED BY <1>1, <1>4, <1>5, <1>6

LEMMA GoneKeeps ==
    ASSUME ConsoleTypeOK, ConsoleRight, NEW j \in Sessions, ProxyDies(j) \/ ShellDies(j)
    PROVE  ConsoleTypeOK' /\ ConsoleRight'
<1>1. shell' = [shell EXCEPT ![j] = "gone"] /\ UNCHANGED <<console, file, honest, inbox, done, wire>>
  BY DEF ProxyDies, ShellDies
<1>2. /\ inbox' = [inbox EXCEPT ![j] = inbox[j]] /\ done' = [done EXCEPT ![j] = done[j]]
      /\ wire' = [wire EXCEPT ![j] = wire[j]]
  BY <1>1 DEF ConsoleTypeOK
<1>3. inbox[j] \in Nat /\ done[j] \in Nat /\ wire[j] \in Seq(Chunk)
  BY OfSession
<1>4. /\ Sent(j) /\ (honest => Turn(j)) /\ (honest /\ file[j].exit > 0 => Exits(j))
  BY DEF ConsoleRight, Session
<1> QED BY <1>1, <1>2, <1>3, <1>4, RemoteKeeps DEF Sent, Turn, Exits

LEMMA ExecutesKeeps ==
    ASSUME ConsoleTypeOK, ConsoleRight, NEW j \in Sessions, Executes(j)
    PROVE  ConsoleTypeOK' /\ ConsoleRight'
<1> DEFINE w == wire[j]
           d == done[j] + 1
           m == inbox[j] - 1
<1>1. /\ shell[j] = "up" /\ inbox[j] > 0 /\ UNCHANGED <<console, file, honest>>
      /\ inbox' = [inbox EXCEPT ![j] = m] /\ done' = [done EXCEPT ![j] = d]
  BY DEF Executes
<1>2. /\ inbox[j] \in Nat /\ done[j] \in Nat /\ w \in Seq(Chunk) /\ shown[j] \in Nat
      /\ file[j].exit \in Nat /\ Sending(j) \in Nat
      /\ \A k \in DOMAIN w : w[k].after \in Nat
  BY OfSession DEF Sending
<1>3. m \in Nat /\ d \in Nat
  BY <1>1, <1>2
<1>4. /\ d + m = shown[j] + Sending(j) /\ d + m <= shown[j] + Sending(j)
      /\ \A k \in DOMAIN w : w[k].after <= d
  <2>1. done[j] + inbox[j] = shown[j] + Sending(j) /\ \A k \in DOMAIN w : w[k].after <= done[j]
    BY <1>1 DEF ConsoleRight, Session, Sent
  <2> QED BY <1>2, <2>1
<1>5. honest => /\ TurnOf(w, inbox[j], shown[j] + Sending(j))
                /\ m = 0 /\ (\A k : ~IsPrompt(w, k)) /\ d = shown[j] + Sending(j)
  <2> SUFFICES ASSUME honest
               PROVE  /\ TurnOf(w, inbox[j], shown[j] + Sending(j))
                      /\ m = 0 /\ (\A k : ~IsPrompt(w, k)) /\ d = shown[j] + Sending(j)
    OBVIOUS
  <2>1. TurnOf(w, inbox[j], shown[j] + Sending(j))
    BY DEF ConsoleRight, Session, Turn
  <2>2. inbox[j] = 1 /\ \A k : ~IsPrompt(w, k)
    BY <1>1, <1>2, <2>1 DEF TurnOf
  <2> QED BY <1>2, <1>4, <2>1, <2>2
<1>6. honest /\ file[j].exit > 0 => done[j] < file[j].exit /\ PromptsBefore(w, file[j].exit)
  BY <1>1 DEF ConsoleRight, Session, Exits
<1> HIDE DEF w, m
<1>7. CASE d = file[j].exit
  <2>1. shell' = [shell EXCEPT ![j] = "gone"] /\ UNCHANGED wire
    BY <1>7 DEF Executes
  <2>2. wire' = [wire EXCEPT ![j] = w]
    BY <2>1 DEF ConsoleTypeOK, w
  <2>3. honest => TurnOf(w, m, shown[j] + Sending(j))
    BY <1>5 DEF TurnOf
  <2> HIDE DEF d
  <2> QED BY <1>1, <1>2, <1>3, <1>4, <1>6, <2>1, <2>2, <2>3, RemoteKeeps
<1>8. CASE d # file[j].exit
  <2>1. PICK s \in {"text"} \cup IF honest THEN {} ELSE {"percent"} :
           /\ wire' = [wire EXCEPT ![j] = w \o <<Item(s, d), Item("prompt", d)>>]
           /\ UNCHANGED shell
    BY <1>8 DEF Executes, Answers, w
  <2> DEFINE a == Item(s, d)
             b == Item("prompt", d)
             v == w \o <<a, b>>
  <2>2. /\ a \in Chunk /\ a.says = s /\ a.after = d
        /\ b \in Chunk /\ b.says = "prompt" /\ b.after = d
        /\ s # "prompt" /\ (honest => s # "percent")
    BY <1>3, <2>1 DEF Item, Chunk, Says
  <2> HIDE DEF a, b
  <2>3. /\ v \in Seq(Chunk)
        /\ \A k \in DOMAIN v : (k \in DOMAIN w /\ v[k] = w[k]) \/ v[k] = a \/ v[k] = b
        /\ \A k : IsPrompt(v, k) => (IsPrompt(w, k) /\ v[k] = w[k]) \/ (k = Len(w) + 2 /\ v[k] = b)
    <3>1. /\ v \in Seq(Chunk)
          /\ \A k \in DOMAIN w : v[k] = w[k]
          /\ v[Len(w) + 1] = a /\ v[Len(w) + 2] = b
          /\ DOMAIN v = DOMAIN w \cup {Len(w) + 1, Len(w) + 2}
      BY <1>2, <2>2, TwoMore
    <3> HIDE DEF v
    <3>2. \A k \in DOMAIN v : (k \in DOMAIN w /\ v[k] = w[k]) \/ v[k] = a \/ v[k] = b
      BY <3>1
    <3>3. \A k : IsPrompt(v, k) => (IsPrompt(w, k) /\ v[k] = w[k]) \/ (k = Len(w) + 2 /\ v[k] = b)
      BY <2>2, <3>1 DEF IsPrompt
    <3> QED BY <3>1, <3>2, <3>3
  <2>4. shell' = [shell EXCEPT ![j] = "up"] /\ wire' = [wire EXCEPT ![j] = v]
    BY <1>1, <2>1 DEF ConsoleTypeOK, v, a, b
  <2> HIDE DEF v
  <2>5. \A k \in DOMAIN v : v[k].after <= d
    BY <1>3, <1>4, <2>2, <2>3
  <2>6. honest => TurnOf(v, m, shown[j] + Sending(j))
    <3> SUFFICES ASSUME honest PROVE TurnOf(v, 0, d)
      BY <1>5
    <3>1. \A k \in DOMAIN v : v[k].says # "percent"
      BY <1>5, <2>2, <2>3 DEF TurnOf
    <3>2. \A k : IsPrompt(v, k) => k = Len(w) + 2 /\ v[k].after = d
      BY <1>5, <2>2, <2>3
    <3> QED BY <3>1, <3>2 DEF TurnOf
  <2>7. honest /\ file[j].exit > 0 => d < file[j].exit /\ PromptsBefore(v, file[j].exit)
    <3> SUFFICES ASSUME honest, file[j].exit > 0
                 PROVE  d < file[j].exit /\ PromptsBefore(v, file[j].exit)
      OBVIOUS
    <3>1. d < file[j].exit
      BY <1>2, <1>6, <1>8
    <3> QED BY <1>6, <2>2, <2>3, <3>1 DEF PromptsBefore
  <2> HIDE DEF d
  <2> QED BY <1>1, <1>3, <1>4, <2>3, <2>4, <2>5, <2>6, <2>7, RemoteKeeps
<1> QED BY <1>7, <1>8

\* Sessions begin to connect.
LEMMA StartKeeps ==
    ASSUME ConsoleTypeOK, ConsoleRight, NEW S \in SUBSET Sessions, Start(S)
    PROVE  ConsoleTypeOK' /\ ConsoleRight'
<1>1. /\ process = "runs" /\ process' # "overrun" /\ process' \in {"runs", "throws", "overrun"}
      /\ UNCHANGED <<program, writing, left, shown, fresh, file, honest, shell, inbox, done, wire>>
      /\ \A i \in S : link[i] = "none"
  BY DEF Start, remote
<1>2. /\ link' \in [Sessions -> {"none", "asks", "awaits", "open", "stops"}]
      /\ reading' \in [Sessions -> BOOLEAN]
      /\ \A i \in Sessions : \/ link'[i] = link[i] /\ reading'[i] = reading[i]
                             \/ link[i] = "none" /\ link'[i] = "open"
                             \/ link[i] = "none" /\ link'[i] = "asks" /\ reading'[i] = reading[i]
  <2>1. CASE UNCHANGED <<link, reading>>
    BY <2>1 DEF ConsoleTypeOK
  <2>2. CASE /\ link' = [i \in Sessions |-> IF i \notin S THEN link[i]
                                            ELSE IF program = "hw4.cgi" THEN "asks" ELSE "open"]
             /\ reading' = [i \in Sessions |-> reading[i] \/ (i \in S /\ program # "hw4.cgi")]
    <3>1. ASSUME NEW i \in Sessions
          PROVE  /\ link'[i] \in {"none", "asks", "awaits", "open", "stops"}
                 /\ reading'[i] \in BOOLEAN
                 /\ \/ link'[i] = link[i] /\ reading'[i] = reading[i]
                    \/ link[i] = "none" /\ link'[i] = "open"
                    \/ link[i] = "none" /\ link'[i] = "asks" /\ reading'[i] = reading[i]
      <4>1. reading[i] \in BOOLEAN /\ link[i] \in {"none", "asks", "awaits", "open", "stops"}
        BY OfSession
      <4>2. reading'[i] = (reading[i] \/ (i \in S /\ program # "hw4.cgi"))
        BY <2>2
      <4>3. link'[i] = IF i \notin S THEN link[i] ELSE IF program = "hw4.cgi" THEN "asks" ELSE "open"
        BY <2>2
      <4>4. CASE i \notin S \/ program = "hw4.cgi"
        <5>1. reading'[i] = reading[i]
          BY <4>1, <4>2, <4>4
        <5> QED BY <1>1, <4>1, <4>3, <4>4, <5>1
      <4>5. CASE i \in S /\ program # "hw4.cgi"
        BY <1>1, <4>2, <4>3, <4>5
      <4> QED BY <4>4, <4>5
    <3>2. link' = [i \in Sessions |-> link'[i]] /\ reading' = [i \in Sessions |-> reading'[i]]
      BY <2>2
    <3> QED BY <3>1, <3>2
  <2> QED BY <2>1, <2>2 DEF Start
<1>3. ConsoleTypeOK'
  BY <1>1, <1>2 DEF ConsoleTypeOK
<1>4. ASSUME NEW i \in Sessions
      PROVE  Session(i)'
  <2>1. Handlers(i) /\ Sent(i) /\ (honest => Turn(i)) /\ (honest /\ file[i].exit > 0 => Exits(i))
    BY DEF ConsoleRight, Session
  <2>2. Handlers(i)'
    BY <1>1, <1>2, <2>1 DEF Handlers
  <2>3. Sending(i)' = Sending(i)
    BY <1>1 DEF Sending
  <2>4. Sent(i)' /\ (honest' => Turn(i)') /\ (honest' /\ file'[i].exit > 0 => Exits(i)')
    BY <1>1, <2>1, <2>3 DEF Sent, Turn, Exits
  <2> QED BY <2>2, <2>4 DEF Session
<1>5. ExitInTime'
  BY <1>1 DEF ExitInTime
<1> QED BY <1>3, <1>4, <1>5 DEF ConsoleRight

\* A console whose process ends, or goes on elsewhere.
LEMMA ConsoleKept ==
    ASSUME ConsoleTypeOK, ConsoleRight, process' \in {process, "throws"},
           UNCHANGED <<program, link, reading, writing, left, shown, fresh, remote>>
    PROVE  ConsoleTypeOK' /\ ConsoleRight'
<1>1. UNCHANGED <<file, honest, shell, inbox, done, wire>>
  BY DEF remote
<1>2. ConsoleTypeOK'
  BY <1>1 DEF ConsoleTypeOK
<1>3. \A i \in Sessions : Session(i)'
  BY <1>1, Elsewhere DEF Same, ConsoleRight
<1>4. ExitInTime'
  BY <1>1 DEF ConsoleRight, ExitInTime
<1> QED BY <1>2, <1>3, <1>4 DEF ConsoleRight

LEMMA HandlerKeeps ==
    ASSUME ConsoleTypeOK, ConsoleRight, NEW j \in Sessions, Handler(j) \/ Remote(j)
    PROVE  ConsoleTypeOK' /\ ConsoleRight'
<1>1. CASE Asked(j) \/ GetsReply(j) \/ Written(j)
  <2>1. ConsoleTypeOK' /\ \A i \in Sessions : Session(i)'
    BY <1>1, AskedKeeps, GetsReplyKeeps, WrittenKeeps DEF ConsoleRight
  <2>2. ExitInTime'
    <3>1. UNCHANGED <<honest, file, process>>
      BY <1>1 DEF Asked, GetsReply, Written, remote
    <3> QED BY <3>1 DEF ConsoleRight, ExitInTime
  <2> QED BY <2>1, <2>2 DEF ConsoleRight
<1>2. CASE Read(j)
  BY <1>2, ReadKeeps
<1>3. CASE Remote(j)
  BY <1>3, CameKeeps, GoneKeeps, ExecutesKeeps DEF Remote
<1> QED BY <1>1, <1>2, <1>3 DEF Handler

-----------------------------------------------------------------------------
(* The steps of the servers.                                               *)

ServerTypeOK ==
    /\ conn \in [Conns -> {"none", "reads", "parsed", "closed"}]
    /\ page \in [Conns -> {"panel", "other"}]
    /\ order \in Seq(Conns)
    /\ env \in Conns \cup {Nobody}
    /\ child \in [Conns -> {"none", "runs", "zombie", "reaped"}]
    /\ inherits \in [Conns -> SUBSET Conns]
    /\ childEnv \in [Conns -> Conns \cup {Nobody}]
    /\ sigchld \in BOOLEAN

\* The server alone: what a step must do to it to keep its invariant.
ServerKept == ServerTypeOK' /\ ServerRight'

LEMMA RequestServer ==
    ASSUME ServerTypeOK, ServerRight, NEW c \in Conns, Request(c)
    PROVE  ServerKept
<1>1. /\ conn[c] = "reads" /\ UNCHANGED <<program, page, child, inherits, childEnv, sigchld>>
      /\ order \in Seq(Conns) /\ Len(order) \in Nat /\ DOMAIN order = 1 .. Len(order)
  BY LenProperties DEF Request, ServerTypeOK
<1>2. CASE conn' = [conn EXCEPT ![c] = "closed"] /\ UNCHANGED <<order, env>>
  <2>1. ServerTypeOK'
    BY <1>1, <1>2 DEF ServerTypeOK
  <2>2. conn'[c] = "closed" /\ \A d \in Conns : d # c => conn'[d] = conn[d]
    BY <1>2 DEF ServerTypeOK
  <2>3. Parsings'
    <3>1. \A k \in DOMAIN order : order[k] \in Conns
      BY <1>1, ElementOfSeq
    <3> QED BY <1>1, <1>2, <2>2, <3>1 DEF ServerRight, Parsings
  <2>4. Environments'
    BY <1>1, <1>2 DEF ServerRight, Environments
  <2> QED BY <2>1, <2>3, <2>4 DEF ServerKept, ServerRight
<1>3. CASE UNCHANGED <<conn, order, env>>
  <2>1. ServerTypeOK' /\ ServerRight'
    BY <1>1, <1>3 DEF ServerTypeOK, ServerRight, Parsings, Environments
  <2> QED BY <2>1 DEF ServerKept
<1>4. CASE /\ conn' = [conn EXCEPT ![c] = "parsed"] /\ order' = Append(order, c) /\ SetEnv(c)
  <2>1. /\ order' \in Seq(Conns) /\ Len(order') = Len(order) + 1
        /\ DOMAIN order' = DOMAIN order \cup {Len(order) + 1}
        /\ \A k \in DOMAIN order : order'[k] = order[k] /\ order[k] \in Conns
        /\ order'[Len(order) + 1] = c
    <3>1. /\ order' \in Seq(Conns) /\ Len(order') = Len(order) + 1
          /\ \A k \in 1 .. Len(order) : order'[k] = order[k]
          /\ order'[Len(order) + 1] = c
      BY <1>1, <1>4
    <3>2. DOMAIN order' = 1 .. (Len(order) + 1)
      BY <3>1, LenProperties
    <3>3. \A k \in 1 .. Len(order) : order[k] \in Conns
      BY <1>1, ElementOfSeq
    <3> QED BY <1>1, <3>1, <3>2, <3>3
  <2>2. conn'[c] = "parsed" /\ \A d \in Conns : d # c => conn'[d] = conn[d]
    BY <1>4 DEF ServerTypeOK
  <2>3. env' = IF program = "http_server" THEN c ELSE env
    BY <1>4 DEF SetEnv
  <2>4. ServerTypeOK'
    BY <1>1, <1>4, <2>1, <2>3 DEF ServerTypeOK
  <2>5. \A k \in DOMAIN order : order[k] # c
    BY <1>1 DEF ServerRight, Parsings
  <2>6. Parsings'
    <3>1. \A k, l \in DOMAIN order' : order'[k] = order'[l] => k = l
      BY <2>1, <2>5 DEF ServerRight, Parsings
    <3>2. \A k \in DOMAIN order' : conn'[order'[k]] \in {"parsed", "closed"}
      BY <2>1, <2>2, <2>5 DEF ServerRight, Parsings
    <3>3. \A d \in Conns : conn'[d] = "parsed" => \E k \in DOMAIN order' : order'[k] = d
      BY <2>1, <2>2 DEF ServerRight, Parsings
    <3>4. program' = "http_server" => env' = order'[Len(order')]
      BY <1>1, <2>1, <2>3
    <3> QED BY <3>1, <3>2, <3>3, <3>4 DEF Parsings
  <2>7. Environments'
    BY <1>1, <2>1 DEF ServerRight, Environments
  <2> QED BY <2>4, <2>6, <2>7 DEF ServerKept, ServerRight
<1> QED BY <1>2, <1>3, <1>4 DEF Request

LEMMA RespondsServer ==
    ASSUME ServerTypeOK, ServerRight, NEW c \in Conns, Responds(c) \/ MakesPage(c)
    PROVE  ServerKept
<1>1. /\ conn[c] = "parsed" /\ conn' = [conn EXCEPT ![c] = "closed"]
      /\ UNCHANGED <<page, order, env, sigchld>>
  BY DEF Responds, MakesPage
<1>2. /\ order \in Seq(Conns) /\ Len(order) \in Nat /\ DOMAIN order = 1 .. Len(order)
      /\ \A k \in DOMAIN order : order[k] \in Conns
  BY LenProperties, ElementOfSeq DEF ServerTypeOK
<1>3. conn'[c] = "closed" /\ \A d \in Conns : d # c => conn'[d] = conn[d]
  BY <1>1 DEF ServerTypeOK
<1>4. PICK k \in DOMAIN order : order[k] = c
  BY <1>1 DEF ServerRight, Parsings
<1>5. program' = program
  BY DEF Responds, MakesPage, Start, consoleVars, console
<1>6. Parsings'
  <2>1. \A m, l \in DOMAIN order' : order'[m] = order'[l] => m = l
    BY <1>1 DEF ServerRight, Parsings
  <2>2. \A m \in DOMAIN order' : conn'[order'[m]] \in {"parsed", "closed"}
    BY <1>1, <1>2, <1>3 DEF ServerRight, Parsings
  <2>3. \A d \in Conns : conn'[d] = "parsed" => \E m \in DOMAIN order' : order'[m] = d
    BY <1>1, <1>3 DEF ServerRight, Parsings
  <2>4. program' = "http_server" /\ order' # <<>> => env' = order'[Len(order')]
    BY <1>1, <1>5 DEF ServerRight, Parsings
  <2> QED BY <2>1, <2>2, <2>3, <2>4 DEF Parsings
<1>7. CASE Responds(c) /\ Fork(c)
  <2>1. /\ child' = [child EXCEPT ![c] = "runs"]
        /\ inherits' = [inherits EXCEPT ![c] = OpenConns]
        /\ childEnv' = [childEnv EXCEPT ![c] = env]
        /\ program = "http_server"
    BY <1>7 DEF Fork, Responds
  <2>2. ServerTypeOK'
    BY <1>1, <2>1 DEF ServerTypeOK, OpenConns
  <2>3. /\ childEnv'[c] = env
        /\ \A d \in Conns : d # c => child'[d] = child[d] /\ childEnv'[d] = childEnv[d]
    BY <2>1 DEF ServerTypeOK
  <2>4. order[k] = c /\ order[Len(order)] = env /\ k <= Len(order) /\ Len(order) \in DOMAIN order
    BY <1>2, <1>4, <2>1 DEF ServerRight, Parsings
  <2>5. Environments'
    BY <1>1, <2>3, <2>4 DEF ServerRight, Environments
  <2> QED BY <1>6, <2>2, <2>5 DEF ServerKept, ServerRight
<1>8. CASE UNCHANGED <<child, inherits, childEnv>>
  <2>1. ServerTypeOK'
    BY <1>1, <1>8 DEF ServerTypeOK
  <2>2. Environments'
    BY <1>1, <1>8 DEF ServerRight, Environments
  <2> QED BY <1>6, <2>1, <2>2 DEF ServerKept, ServerRight
<1> QED BY <1>7, <1>8 DEF Responds, MakesPage, ForkFails

LEMMA ChildrenServer ==
    ASSUME ServerTypeOK, ServerRight, (\E c \in Conns : Accept(c) \/ CgiEnds(c)) \/ KillChild
    PROVE  ServerKept
<1>1. UNCHANGED <<program, page, order, env, childEnv>>
  BY DEF Accept, CgiEnds, KillChild, consoleVars, console
<1>2. \A k \in DOMAIN order : order[k] \in Conns
  BY LenProperties, ElementOfSeq DEF ServerTypeOK
<1>3. ASSUME NEW c \in Conns, Accept(c)
      PROVE  ServerKept
  <2>1. /\ conn[c] = "none" /\ conn' = [conn EXCEPT ![c] = "reads"]
        /\ UNCHANGED <<child, inherits, sigchld>>
    BY <1>3 DEF Accept
  <2>2. conn'[c] = "reads" /\ \A d \in Conns : d # c => conn'[d] = conn[d]
    BY <2>1 DEF ServerTypeOK
  <2>3. ServerTypeOK'
    BY <1>1, <2>1 DEF ServerTypeOK
  <2>4. Parsings'
    BY <1>1, <1>2, <2>1, <2>2 DEF ServerRight, Parsings
  <2>5. Environments'
    BY <1>1, <2>1 DEF ServerRight, Environments
  <2> QED BY <2>3, <2>4, <2>5 DEF ServerKept, ServerRight
<1>4. CASE (\E c \in Conns : CgiEnds(c)) \/ KillChild
  <2>1. /\ UNCHANGED conn
        /\ inherits' \in [Conns -> SUBSET Conns] /\ sigchld' \in BOOLEAN
        /\ child' \in [Conns -> {"none", "runs", "zombie", "reaped"}]
        /\ \A d \in Conns : child'[d] # "none" => child[d] # "none"
    BY <1>4, ZenonT(30) DEF CgiEnds, KillChild, ServerTypeOK
  <2>2. ServerTypeOK'
    BY <1>1, <2>1 DEF ServerTypeOK
  <2>3. Parsings'
    BY <1>1, <2>1 DEF ServerRight, Parsings
  <2>4. Environments'
    BY <1>1, <2>1 DEF ServerRight, Environments
  <2> QED BY <2>2, <2>3, <2>4 DEF ServerKept, ServerRight
<1> QED BY <1>3, <1>4

LEMMA ServerStill ==
    ASSUME ServerTypeOK, ServerRight, UNCHANGED server, UNCHANGED program
    PROVE  ServerKept
<1>1. UNCHANGED <<conn, page, order, env, child, inherits, childEnv, sigchld>>
  BY DEF server
<1>2. ServerTypeOK' /\ Parsings' /\ Environments'
  BY <1>1 DEF ServerTypeOK, ServerRight, Parsings, Environments
<1> QED BY <1>2 DEF ServerKept, ServerRight

-----------------------------------------------------------------------------
(* The invariant, and the theorems.                                        *)

LEMMA Types == TypeOK <=> ConsoleTypeOK /\ ServerTypeOK
<1> QED BY DEF TypeOK, ServerTypeOK

LEMMA InitInv == Init => Inv
<1> SUFFICES ASSUME Init PROVE Inv
  OBVIOUS
<1>1. PICK n \in Commands : \E x \in 0 .. n : file = [i \in Sessions |-> [commands |-> n, exit |-> x]]
  BY DEF Init, ConsoleInit
<1>2. PICK x \in 0 .. n : file = [i \in Sessions |-> [commands |-> n, exit |-> x]]
  BY <1>1
<1>3. /\ n \in Nat /\ x \in Nat /\ x <= n
      /\ [commands |-> n, exit |-> x] \in [commands : Nat, exit : Nat]
  BY ConsoleAssumption
<1>4. \A i \in Sessions : file[i].commands = n /\ file[i].exit = x
  BY <1>2
<1>5. /\ program \in Programs /\ process = "runs" /\ honest \in BOOLEAN
      /\ link = [i \in Sessions |-> "none"] /\ reading = [i \in Sessions |-> FALSE]
      /\ writing = [i \in Sessions |-> FALSE]
      /\ left = [i \in Sessions |-> file[i].commands] /\ shown = [i \in Sessions |-> 0]
      /\ fresh = [i \in Sessions |-> TRUE] /\ shell = [i \in Sessions |-> "off"]
      /\ inbox = [i \in Sessions |-> 0] /\ done = [i \in Sessions |-> 0]
      /\ wire = [i \in Sessions |-> <<>>]
  BY DEF Init, ConsoleInit
<1>6. ConsoleTypeOK
  <2>1. left \in [Sessions -> Nat]
    BY <1>3, <1>4, <1>5
  <2>2. wire \in [Sessions -> Seq([says : Says, after : Nat])]
    BY <1>5
  <2>3. file \in [Sessions -> [commands : Nat, exit : Nat]]
    BY <1>2, <1>3
  <2> QED BY <1>5, <2>1, <2>2, <2>3 DEF ConsoleTypeOK, Programs
<1>7. \A i \in Sessions : Session(i)
  <2> SUFFICES ASSUME NEW i \in Sessions PROVE Session(i)
    OBVIOUS
  <2>1. /\ link[i] = "none" /\ ~reading[i] /\ ~writing[i] /\ left[i] = n /\ shown[i] = 0
        /\ shell[i] = "off" /\ inbox[i] = 0 /\ done[i] = 0 /\ wire[i] = <<>>
        /\ file[i].commands = n /\ file[i].exit = x
    BY <1>4, <1>5
  <2>2. DOMAIN wire[i] = {} /\ Sending(i) = 0
    BY <2>1 DEF Sending
  <2>3. Handlers(i)
    BY <1>3, <2>1 DEF Handlers
  <2>4. Sent(i)
    BY <2>1, <2>2 DEF Sent
  <2>5. Turn(i) /\ Exits(i)
    BY <2>1, <2>2 DEF Turn, TurnOf, IsPrompt, Exits, PromptsBefore
  <2> QED BY <2>3, <2>4, <2>5 DEF Session
<1>8. ConsoleRight
  BY <1>5, <1>7 DEF ConsoleRight, ExitInTime
<1>9. /\ conn = [c \in Conns |-> "none"] /\ page \in [Conns -> {"panel", "other"}] /\ order = <<>>
      /\ env = Nobody /\ child = [c \in Conns |-> "none"] /\ inherits = [c \in Conns |-> {}]
      /\ childEnv = [c \in Conns |-> Nobody] /\ sigchld = FALSE
  BY DEF Init, ServerInit
<1>10. ServerTypeOK
  <2>1. order \in Seq(Conns) /\ childEnv \in [Conns -> Conns \cup {Nobody}]
    BY <1>9
  <2> QED BY <1>9, <2>1 DEF ServerTypeOK
<1>11. ServerRight
  <2>1. DOMAIN order = {}
    BY <1>9
  <2>2. Parsings
    BY <1>9, <2>1 DEF Parsings
  <2>3. Environments
    BY <1>9 DEF Environments
  <2> QED BY <2>2, <2>3 DEF ServerRight
<1> QED BY <1>6, <1>8, <1>10, <1>11, Types DEF Inv

LEMMA StepInv == Inv /\ [Next]_vars => Inv'
<1> SUFFICES ASSUME Inv, [Next]_vars
             PROVE  Inv'
  OBVIOUS
<1>1. ConsoleTypeOK /\ ConsoleRight /\ ServerTypeOK /\ ServerRight
  BY Types DEF Inv
<1>2. ASSUME ConsoleTypeOK', ConsoleRight', ServerKept
      PROVE  Inv'
  BY <1>2, Types DEF Inv, ServerKept, TypeOK, ServerTypeOK
<1>3. ASSUME UNCHANGED consoleVars
      PROVE  ConsoleTypeOK' /\ ConsoleRight'
  BY <1>1, <1>3, ConsoleKept DEF consoleVars, console
<1>4. CASE (\E c \in Conns : Accept(c) \/ CgiEnds(c)) \/ KillChild
  <2>1. UNCHANGED consoleVars
    BY <1>4 DEF Accept, CgiEnds, KillChild
  <2> QED BY <1>1, <1>2, <1>3, <1>4, <2>1, ChildrenServer
<1>5. ASSUME NEW c \in Conns, Request(c)
      PROVE  Inv'
  <2>1. ConsoleTypeOK' /\ ConsoleRight'
    BY <1>1, <1>5, ConsoleKept DEF Request
  <2> QED BY <1>1, <1>2, <1>5, <2>1, RequestServer
<1>6. ASSUME NEW c \in Conns, Responds(c) \/ MakesPage(c)
      PROVE  Inv'
  <2>1. UNCHANGED consoleVars \/ \E i \in Sessions : Start({i})
    BY <1>6 DEF Responds, MakesPage
  <2>2. ConsoleTypeOK' /\ ConsoleRight'
    BY <1>1, <1>3, <2>1, StartKeeps
  <2> QED BY <1>1, <1>2, <1>6, <2>2, RespondsServer
<1>7. CASE ConsoleStarts
  <2>1. PICK asked \in SUBSET Sessions : Start(Parsed(asked))
    BY <1>7 DEF ConsoleStarts
  <2>2. Parsed(asked) \in SUBSET Sessions
    BY DEF Parsed
  <2>3. ConsoleTypeOK' /\ ConsoleRight'
    BY <1>1, <2>1, <2>2, StartKeeps
  <2>4. UNCHANGED server /\ UNCHANGED program
    BY <1>7, <2>1 DEF ConsoleStarts, Start
  <2> QED BY <1>1, <1>2, <2>3, <2>4, ServerStill
<1>8. ASSUME NEW i \in Sessions, Handler(i) \/ Remote(i), UNCHANGED server
      PROVE  Inv'
  <2>1. ConsoleTypeOK' /\ ConsoleRight'
    BY <1>1, <1>8, HandlerKeeps
  <2>2. UNCHANGED program
    BY <1>8 DEF Handler, Asked, GetsReply, Read, Written, Remote, Accepts, ProxyAnswers, ProxyDies,
                Executes, ShellDies, console
  <2> QED BY <1>1, <1>2, <1>8, <2>1, <2>2, ServerStill
<1>9. CASE UNCHANGED vars
  <2>1. UNCHANGED consoleVars /\ UNCHANGED server /\ UNCHANGED program
    BY <1>9 DEF vars, consoleVars, console
  <2> QED BY <1>1, <1>2, <1>3, <2>1, ServerStill
<1> QED BY <1>4, <1>5, <1>6, <1>7, <1>8, <1>9 DEF Next, Serving

LEMMA InvAlways == Spec => []Inv
<1> QED BY InitInv, StepInv, PTL DEF Spec

\* The types of the servers, the consoles and the shells they talk to.
THEOREM TypeCorrect == Spec => []TypeOK
<1>1. Inv => TypeOK
  BY DEF Inv
<1> QED BY <1>1, InvAlways, PTL

\* For any number of sessions and any file: at most one prompt that is not answered
\* or one command that is not executed is between a console and a shell.
THEOREM TurnsTaken == Spec => []OneTurn
<1>1. Inv => OneTurn
  <2> SUFFICES ASSUME Inv, honest, NEW i \in Sessions
               PROVE  inbox[i] + Prompts(i) <= 1
    BY DEF OneTurn
  <2> DEFINE P == {k \in DOMAIN wire[i] : wire[i][k].says = "prompt"}
  <2>1. wire[i] \in Seq(Chunk) /\ inbox[i] \in Nat /\ Len(wire[i]) \in Nat /\ DOMAIN wire[i] = 1 .. Len(wire[i])
    BY OfSession, LenProperties, Types DEF Inv
  <2>2. /\ inbox[i] <= 1
        /\ \A k \in P : inbox[i] = 0
        /\ \A k, l \in P : k = l
    BY DEF Inv, ConsoleRight, Session, Turn, TurnOf, IsPrompt
  <2>3. CASE P = {}
    <3>1. Prompts(i) = 0
      BY <2>3, FS_EmptySet DEF Prompts
    <3> QED BY <2>1, <2>2, <3>1
  <2>4. CASE P # {}
    <3>1. PICK k \in P : TRUE
      BY <2>4
    <3>2. P = {k}
      BY <2>2, <3>1
    <3>3. Prompts(i) = 1
      BY <3>2, FS_Singleton DEF Prompts
    <3> QED BY <2>2, <3>1, <3>3
  <2> QED BY <2>3, <2>4
<1> QED BY <1>1, InvAlways, PTL

\* What a shell says to a command is read after the command has been shown, however
\* late the handler of the write runs.
THEOREM AnswersFollow == Spec => []AnswersBelowCommands
<1>1. Inv => AnswersBelowCommands
  <2> SUFFICES ASSUME Inv, NEW i \in Sessions, reading[i], NEW k \in DOMAIN wire[i]
               PROVE  wire[i][k].after <= shown[i]
    BY DEF AnswersBelowCommands
  <2>1. /\ done[i] \in Nat /\ inbox[i] \in Nat /\ shown[i] \in Nat /\ wire[i][k].after \in Nat
    BY OfSession, Types DEF Inv
  <2>2. /\ wire[i][k].after <= done[i]
        /\ done[i] + inbox[i] <= shown[i] + Sending(i) /\ Sending(i) = 0
    BY DEF Inv, ConsoleRight, Session, Handlers, Sent, Sending
  <2> QED BY <2>1, <2>2
<1> QED BY <1>1, InvAlways, PTL

\* A console whose files all say "exit" never takes a command from an empty list.
THEOREM ExitComesFirst == Spec => []ExitInTime
<1>1. Inv => ExitInTime
  BY DEF Inv, ConsoleRight
<1> QED BY <1>1, InvAlways, PTL

\* However requests interleave, no CGI program runs with what an earlier request
\* than its own has left in the environment.
THEOREM EnvironmentFresh == Spec => []EnvironmentNotOlder
<1>1. Inv => EnvironmentNotOlder
  <2> SUFFICES ASSUME Inv, NEW c \in Conns, child[c] # "none"
               PROVE  childEnv[c] # Nobody /\ Position(childEnv[c]) >= Position(c)
    BY DEF EnvironmentNotOlder
  <2>1. PICK k \in DOMAIN order, l \in DOMAIN order : order[k] = c /\ order[l] = childEnv[c] /\ k <= l
    BY DEF Inv, ServerRight, Environments
  <2>2. k \in Nat /\ l \in Nat /\ order[l] \in Conns
    BY LenProperties, ElementOfSeq DEF Inv, TypeOK
  <2>3. Position(c) = k /\ Position(childEnv[c]) = l
    BY <2>1, OnePosition DEF Inv, ServerRight, Parsings
  <2> QED BY <2>1, <2>2, <2>3, WebServerAssumption
<1> QED BY <1>1, InvAlways, PTL
=============================================================================
