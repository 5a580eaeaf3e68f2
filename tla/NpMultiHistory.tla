--------------------------- MODULE NpMultiHistory ---------------------------
(***************************************************************************)
(* The multi-process chat server with a record of what it has met on the   *)
(* way that the code has no protection for: updates of the table that      *)
(* overlap, processes that die, signals and messages that are lost.  The   *)
(* processes are those of NpMulti, whatever they have met; what the server *)
(* promises is said up to the mishap that ends the promise.                *)
(***************************************************************************)
EXTENDS NpMulti

CONSTANT Fatal   \* bound: after one of these nobody begins anything any more

Mishaps == {
    "overlap",     \* somebody read the table for a change while another's was not stored
    "overwrite",   \* a message was written before the last one was announced and shown
    "drop",        \* a SIGUSR1 found another one pending, or nobody to handle it
    "interrupt",   \* sem_wait() returned without the semaphore
    "death",       \* a process ended other than by "exit"
    "comma",       \* somebody chose a name with the separator of the table
    "full"}        \* somebody logged in when no uid was free

ASSUME FatalAssumption == Fatal \subseteq Mishaps

VARIABLE mishaps   \* history: those there have been

histories == <<vars, mishaps>>

\* Who has read the table and not stored it; who has written the message and
\* not announced it, and whom it is for.
Updating(p) == pc[p] \in {"lock", "wipe", "fill"}
Writing(p) == pc[p] \in {"send", "tellSend"}
Addressees(p) == IF pc[p] = "send" THEN Pids(copy[p]) ELSE {target[p]}

Overlaps == \E p, q \in Proc : p # q /\ Updating(p)' /\ Updating(q)'
Overwrites ==
    \E p \in Proc : /\ ~Writing(p) /\ Writing(p)'
                    /\ \E q \in Proc : Writing(q) \/ usr1[q] # "none"
Drops ==
    \E p \in Proc : /\ Writing(p) /\ ~Writing(p)'
                    /\ \E q \in Addressees(p) : q = Nobody \/ ~Alive(q) \/ usr1[q] # "none"
Deaths == \E p \in Proc : Alive(p) /\ ~Alive(p)' /\ pc[p] # "leaving"
Commas == \E p \in Proc : \E i \in DOMAIN copy'[p] : copy'[p][i].name \in CommaNames
Fills == \E p \in Proc : pc[p] = "enter" /\ pc'[p] = "wipe" /\ FirstGap(Read) > MaxUsers

\* What the step taken has met.
Record ==
    mishaps' = mishaps \cup {m \in Mishaps :
        \/ m = "overlap"   /\ Overlaps
        \/ m = "overwrite" /\ Overwrites
        \/ m = "drop"      /\ Drops
        \/ m = "interrupt" /\ interrupted' # interrupted
        \/ m = "death"     /\ Deaths
        \/ m = "comma"     /\ Commas
        \/ m = "full"      /\ Fills}

\* Processes are alike before they are connected: which is next does not matter.
Begins(p) ==
    /\ mishaps \cap Fatal = {}
    /\ \/ pc[p] = "none" /\ p = (CHOOSE q \in Proc : pc[q] = "none") /\ Connect(p)
       \/ Line(p) \/ Vanish(p)

HInit == Init /\ mishaps = {}
HNext == (\E p \in Proc : Step(p) \/ Begins(p)) /\ Record
HSpec == HInit /\ [][HNext]_histories

\* A process handles its signals, and goes on between them; nothing is assumed
\* of who gets semR when several wait for it, or semW for "exit".
Handles(p) == getBroadcast(p) \/ getUserPipeSig(p) \/ KilledInLogin(p)
GoesOn(p) ==
    \/ ReadToEnter(p) \/ Wipe(p) \/ Fill(p) \/ Look(p) \/ TakeW(p) \/ Put(p) \/ Send(p)
    \/ Leave(p) \/ TellPut(p) \/ TellSend(p)
FairHSpec == HSpec /\ \A p \in Proc : WF_vars(Handles(p)) /\ SF_vars(GoesOn(p))

-----------------------------------------------------------------------------
(* Correctness *)

Without(S) == mishaps \cap S = {}

\* However logins, names and exits, broadcasts, tells, signals and deaths
\* interleave: until two updates of the table overlap, or a name has a comma
\* in it, every change of the table is a move of the chat room, the lowest
\* free uid at a login, a name nobody has, the user itself at an exit, and an
\* update under way is never cut short.
RoomMembers == [u \in UidsOf(Stored) |-> Stored[IndexById(Stored, u)].name]
FollowsRoom == [][mishaps' \cap {"overlap", "comma"} = {} => [Room!Next]_RoomMembers]_histories

\* When nothing is under way, whoever is logged in is in the table under its
\* uid, nobody else is, and both semaphores are back, unless one of these has
\* happened.  That messages were overwritten does no harm.
Complete ==
    Busy = {} /\ Without({"overlap", "death", "drop", "comma", "full", "interrupt"}) =>
        /\ semR = 1 /\ semW = 1
        /\ Pids(table) = {p \in Proc : pc[p] = "idle"}
        /\ \A i \in DOMAIN table : uid[table[i].pid] = table[i].uid

\* Unless a message was written over another that was on its way, who has no
\* signal pending has shown every message that was sent to it, also when
\* broadcasts queue for the semaphores, are interrupted there, or meet deaths.
ShownUnlessOverwritten == Without({"overwrite"}) => EveryBroadcastShown

\* Who waits for semR or semW does so for somebody who gives it back, unless a
\* process has died with it or a signal that was to give it back is lost.
SemaphoresReturn ==
    /\ semR = 0 ~> semR > 0 \/ ~Without({"death", "drop"})
    /\ semW = 0 ~> semW > 0 \/ ~Without({"death"})
=============================================================================
