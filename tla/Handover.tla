------------------------------- MODULE Handover -------------------------------
(***************************************************************************)
(* Leader election (cmd/main.go, ctrl.Options.LeaderElection): one manager *)
(* works at a time, but a manager that loses its lease stops without       *)
(* waiting for the requests it has sent.  They reach the API server, or    *)
(* not, at any time after its successor has begun, and nobody reads the    *)
(* answer.                                                                 *)
(***************************************************************************)
EXTENDS Reconciler

VARIABLE late   \* late[c]: a request of c's former worker, Idle if none is on the way

\* The former leader's requests, as the API server sees them.
Former == INSTANCE Reconciler WITH work <- late

hvars == <<vars, late>>

HInit == Init /\ late = [c \in Controllers |-> Idle]

\* At most one request of each controller is on the way: a second leader's
\* takes the place of the first one's, which is lost.
Takeover ==
    /\ Restart
    /\ late' = [c \in Controllers |->
                    IF work[c].step \in {"create", "update", "delete"} THEN work[c] ELSE late[c]]

Forget(c) == late' = [late EXCEPT ![c] = Idle]

Arrives(c) == Former!Apply(c) /\ Forget(c) /\ UNCHANGED <<cache, queue, work, budget>>

\* It is lost, or refused.
Vanishes(c) == late[c] # Idle /\ Forget(c) /\ UNCHANGED vars

HNext ==
    \/ Next /\ UNCHANGED late
    \/ Takeover
    \/ \E c \in Controllers : Arrives(c) \/ Vanishes(c)

\* The new leader is as fair as the old one; late requests owe us nothing.
HSpec == HInit /\ [][HNext]_hvars /\ Fairness

----------------------------------------------------------------------------
\* The inductive invariant of the reconcile loop, to which the former leader's
\* requests add what is true of any worker's: well formed, and fit to be written
\* if the version they were made from still is the present one.
HandoverInv == IInv /\ Former!TypeOK /\ Former!CopyInv
=============================================================================
