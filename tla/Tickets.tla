------------------------------ MODULE Tickets ------------------------------
(***************************************************************************)
(* What the download limit of a share promises, whatever the transport of   *)
(* its files: a download takes one of the places that are left, and leaves  *)
(* it once, by being counted or by lapsing.                                 *)
(***************************************************************************)
EXTENDS Integers, FiniteSets

CONSTANTS Jobs,     \* downloads
          Limits    \* what the owner may set the limit to

VARIABLES limit,    \* the limit in force
          held,     \* places taken and not yet counted
          used      \* downloads counted, once each

vars == <<limit, held, used>>

Init == limit \in Limits /\ held = {} /\ used = {}

\* A place is taken only if counting every holder would stay within the limit.
Take(j) ==
    /\ j \notin held \cup used
    /\ Cardinality(used) + Cardinality(held) + 1 <= limit
    /\ held' = held \cup {j}
    /\ UNCHANGED <<limit, used>>

\* The download is counted.  Its place may have lapsed a moment ago.
Use(j) ==
    /\ j \notin used
    /\ held' = held \ {j} /\ used' = used \cup {j}
    /\ UNCHANGED limit

\* Places that were not used in time return.
Lapse ==
    /\ held' \in SUBSET held
    /\ UNCHANGED <<limit, used>>

SetLimit == limit' \in Limits /\ UNCHANGED <<held, used>>

Next == Lapse \/ SetLimit \/ \E j \in Jobs : Take(j) \/ Use(j)

Spec == Init /\ [][Next]_vars
=============================================================================
