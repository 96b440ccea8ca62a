-------------------------------- MODULE Promise --------------------------------
(***************************************************************************)
(* What the reconcile loop promises whoever watches the API server, with   *)
(* no cache, queue or worker in sight: a controller's write is one atomic  *)
(* step that takes a version its parent has had, never an older one than   *)
(* the step before it took, and turns the child as it is now into what     *)
(* that version asks for - or removes it, if that version wants none.      *)
(* A child that another parent controls is not written.                    *)
(***************************************************************************)
EXTENDS Naturals

CONSTANTS Objects, None, Controllers, For(_), Skip(_, _), Wanted(_, _),
          Child(_, _, _), Render(_, _, _, _), Admit(_, _)

VARIABLES
    store,   \* store[x]: the version of x in the API server
    past,    \* past[x]: every version x has had
    last     \* last[c][o]: the version of o that c last wrote o's child from

vars == <<store, past, last>>

SpecOf(b) == IF b = None THEN None ELSE b.spec

Init ==
    /\ \A x \in Objects : store[x].body # None => store[x].body.owner = None
    /\ past = [x \in Objects |-> {store[x]}]
    /\ last = [c \in Controllers |-> [o \in For(c) |-> 0]]

Becomes(x, b) ==
    /\ store' = [store EXCEPT ![x] = [rv |-> @.rv + 1, body |-> b]]
    /\ past' = [past EXCEPT ![x] = @ \cup {store'[x]}]

\* The child b as parent version p of o wants it, under uid u.
Desired(c, o, p, b, u) ==
    [spec |-> Admit(Child(c, o, p.spec), Render(c, o, p.spec, SpecOf(b))),
     owner |-> [obj |-> o, uid |-> p.uid], uid |-> u]

Reconciled(c, o) ==
    \E v \in past[o] :
        /\ v.body # None
        /\ v.rv >= last[c][o]
        /\ ~Skip(c, v.body.spec)
        /\ LET x == Child(c, o, v.body.spec)
               b == store[x].body
           IN  \/ /\ Wanted(c, v.body.spec)
                  /\ b # None => b.owner = None \/ b.owner.obj = o
                  /\ Becomes(x, Desired(c, o, v.body, b,
                                        IF b = None THEN store[x].rv + 1 ELSE b.uid))
               \/ /\ ~Wanted(c, v.body.spec)
                  /\ b # None
                  /\ Becomes(x, None)
        /\ last' = [last EXCEPT ![c][o] = v.rv]

\* Users and the garbage collector: what they write has the controller it had,
\* or none; only a deletion makes room for a new uid.
Foreign(x) ==
    /\ LET b == store[x].body
           n == store'[x].body
       IN  /\ b # n
           /\ b # None /\ n # None => n.uid = b.uid /\ n.owner \in {None, b.owner}
           /\ b = None => n.owner = None /\ n.uid = store[x].rv + 1
           /\ Becomes(x, n)
    /\ UNCHANGED last

Next ==
    \/ \E c \in Controllers : \E o \in For(c) : Reconciled(c, o)
    \/ \E x \in Objects : Foreign(x)

Spec == Init /\ [][Next]_vars
=============================================================================
