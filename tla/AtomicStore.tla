---------------------------- MODULE AtomicStore ----------------------------
(***************************************************************************)
(* What AgentStateStore promises its caller: each state file holds one     *)
(* value.  A write replaces it at once.  A load gives it back, or what is  *)
(* derived when there is none; until a load has succeeded nothing is       *)
(* written.                                                                *)
(***************************************************************************)
EXTENDS Integers

CONSTANT Files

VARIABLES
    stored,     \* per file, what a load would find, or None
    held        \* per file, what the process was given and will write

None == -1
NotLoaded == [f \in Files |-> None]     \* no process, or its load has failed

Init ==
    /\ stored \in [Files -> Nat \cup {None}]
    /\ held = NotLoaded

\* Version 0 is what is derived for a file that is not there.
Load ==
    /\ held = NotLoaded
    /\ held' = [f \in Files |-> IF stored[f] = None THEN 0 ELSE stored[f]]
    /\ UNCHANGED stored

Change ==
    /\ held # NotLoaded
    /\ held' \in [Files -> Nat]
    /\ UNCHANGED stored

Write ==
    /\ held # NotLoaded
    /\ \E f \in Files : stored' = [stored EXCEPT ![f] = held[f]]
    /\ UNCHANGED held

\* The process ends, or its load fails after all.
Lose ==
    /\ held' = NotLoaded
    /\ UNCHANGED stored

Next == Load \/ Change \/ Write \/ Lose

Spec == Init /\ [][Next]_<<stored, held>>
=============================================================================
