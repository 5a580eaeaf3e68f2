------------------------------ MODULE UserTable ------------------------------
(***************************************************************************)
(* The user table that both chat servers of project2 keep: a sequence of   *)
(* user records ordered by uid, in which a new user gets the lowest uid    *)
(* nobody has (np_single_proc.cpp keeps it in vector<USERINFO> userinfo).  *)
(* Records have at least the fields uid and sockid.                        *)
(***************************************************************************)
EXTENDS Integers, Sequences, SequencesExt

CONSTANT
    MaxUsers   \* 30 in the source: the arrays indexed by uid are [31], slot 0 unused

ASSUME MaxUsersAssumption == MaxUsers \in Nat \ {0}

Uid == 1..MaxUsers

UidsOf(t)  == {t[i].uid : i \in DOMAIN t}
SocksOf(t) == {t[i].sockid : i \in DOMAIN t}

\* Increasing uids: what the search for a gap relies on.
Increasing(t) == \A i, j \in DOMAIN t : i < j => t[i].uid < t[j].uid

\* The bug of numbering users by how many there are.
NextNumber(t) == Len(t) + 1

\* Where the scan for a free uid stops: the first position that does not
\* hold the user of the same number, or one past the end of a dense table.
FirstGap(t) ==
    CHOOSE k \in 1..(Len(t) + 1) :
        /\ \A i \in 1..(k - 1) : t[i].uid = i
        /\ k <= Len(t) => t[k].uid # k

\* The bug of a scan that appends the new user instead of inserting it.
EnterAtEnd(t, u) ==
    LET k == FirstGap(t)
    IN  IF k <= MaxUsers THEN Append(t, [u EXCEPT !.uid = k]) ELSE t

\* The table after user u entered it.  A dense table of MaxUsers users is
\* left as it is.
Enter(t, u) ==
    LET k == FirstGap(t)
    IN  IF k <= Len(t) \/ k <= MaxUsers
        THEN InsertAt(t, k, [u EXCEPT !.uid = k])
        ELSE t

\* The position of a user in the table; callers make sure there is one.
IndexBySock(t, s) == CHOOSE i \in DOMAIN t : t[i].sockid = s /\ \A j \in 1..(i - 1) : t[j].sockid # s
IndexById(t, u)   == CHOOSE i \in DOMAIN t : t[i].uid = u /\ \A j \in 1..(i - 1) : t[j].uid # u
=============================================================================
