---------------------------- MODULE ContentStore -----------------------------
(***************************************************************************)
(* What the catalogue promises about content: rows link to objects, an     *)
(* object is kept as long as a row links to it, and an object that has     *)
(* been discarded never comes back.  How the implementation knows that no  *)
(* row links to an object -- reference counts, statuses, foreign keys -- is *)
(* not part of the promise.                                                *)
(***************************************************************************)
CONSTANTS Rows, Objects, None

VARIABLES
    link,    \* the object each row links to, or None
    kept,    \* objects whose content can be read
    gone     \* objects discarded for good

Init == link = [i \in Rows |-> None] /\ kept = {} /\ gone = {}

Put(b) ==
    /\ b \notin kept \cup gone
    /\ kept' = kept \cup {b}
    /\ UNCHANGED <<link, gone>>

\* A row is created for an object, or linked to another one.
Link(i, b) ==
    /\ b \in kept
    /\ link' = [link EXCEPT ![i] = b]
    /\ UNCHANGED <<kept, gone>>

Unlink(S) ==
    /\ link' = [i \in Rows |-> IF i \in S THEN None ELSE link[i]]
    /\ UNCHANGED <<kept, gone>>

Discard(b) ==
    /\ b \in kept
    /\ \A i \in Rows : link[i] # b
    /\ kept' = kept \ {b}
    /\ gone' = gone \cup {b}
    /\ UNCHANGED link

Next ==
    \/ \E b \in Objects : Put(b) \/ Discard(b)
    \/ \E i \in Rows, b \in Objects : Link(i, b)
    \/ \E S \in SUBSET Rows : Unlink(S)

Spec == Init /\ [][Next]_<<link, kept, gone>>
==============================================================================
