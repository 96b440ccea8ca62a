----------------------------- MODULE Implementation -----------------------------
(***************************************************************************)
(* The reconcile loop implements Promise.  Three history variables record  *)
(* what the mapping needs; they change nothing of what Reconciler does.    *)
(***************************************************************************)
EXTENDS Reconciler

VARIABLES
    past,   \* past[x]: every version x has had
    from,   \* from[c]: the version of the parent that c's worker has read
    last    \* last[c][o]: the version of o that c last wrote o's child from

history == <<past, from, last>>

RInit ==
    /\ Init
    /\ past = [x \in Objects |-> {live[x]}]
    /\ from = [c \in Controllers |-> 0]
    /\ last = [c \in Controllers |-> [o \in For(c) |-> 0]]

\* A worker that moves while the store changes is the one that changed it.
Wrote(c) == work'[c] # work[c] /\ live' # live

Recorded ==
    /\ past' = [x \in Objects |-> past[x] \cup {live'[x]}]
    /\ from' = [c \in Controllers |->
                  CASE work'[c] = Idle -> 0
                    [] work[c] = Idle /\ work'[c] # Idle -> cache[work'[c].key].rv
                    [] OTHER -> from[c]]
    /\ last' = [c \in Controllers |->
                  IF Wrote(c) THEN [last[c] EXCEPT ![work[c].key] = from[c]] ELSE last[c]]

RSpec == RInit /\ [][Next /\ Recorded]_<<vars, history>> /\ Fairness

P == INSTANCE Promise WITH store <- live

(***************************************************************************)
(* Reconcile reads a parent and a child from a cache that lags, compares,  *)
(* and writes some time later, while events, other parents, users and      *)
(* restarts come between.  Seen from the API server this is one atomic     *)
(* step on the child as it is, from a version of the parent that never     *)
(* goes back.                                                              *)
(***************************************************************************)
KeepsPromise == P!Spec

----------------------------------------------------------------------------
(***************************************************************************)
(* The invariant behind the refinement.                                    *)
(***************************************************************************)

HistoryTypeOK ==
    /\ past = [x \in Objects |-> past[x]]
    /\ from \in [Controllers -> Nat]
    /\ last = [c \in Controllers |-> last[c]]
    /\ \A c \in Controllers : last[c] \in [For(c) -> Nat]

\* The past holds every version that anybody may still come to see.
PastInv ==
    \A x \in Objects : live[x] \in past[x] /\ cache[x] \in past[x] /\ pend[x] \subseteq past[x]

\* A worker holds a version of its parent, between the one its controller last
\* wrote from and the one in the cache.
FromInv ==
    \A c \in Controllers : work[c] # Idle =>
        /\ [rv |-> from[c], body |-> work[c].parent] \in past[work[c].key]
        /\ last[c][work[c].key] <= from[c]
        /\ from[c] <= cache[work[c].key].rv

LastInv == \A c \in Controllers : \A o \in For(c) : last[c][o] <= cache[o].rv

HistoryInv == HistoryTypeOK /\ PastInv /\ FromInv /\ LastInv
=============================================================================
