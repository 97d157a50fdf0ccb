----------------------------- MODULE RemoteCalls -----------------------------
(***************************************************************************)
(* What the panel's listener promises the threads of the web server: an    *)
(* address book of the PCs that are there, and requests each of which is   *)
(* asked of one PC, the one that had the address, carried out once at     *)
(* most, and answered for once.                                            *)
(***************************************************************************)
EXTENDS Integers, AddressBook

CONSTANT Calls

VARIABLES
    asked,      \* per request, the host that is asked, or Nobody
    executed,   \* per request, how often a host has carried it out
    outcome     \* per request, what its caller was told

vars == <<where, asked, executed, outcome>>

Init ==
    /\ BookInit
    /\ asked = [k \in Calls |-> Nobody]
    /\ executed = [k \in Calls |-> 0]
    /\ outcome = [k \in Calls |-> "none"]

-----------------------------------------------------------------------------
(* A request *)

Tell(k, o) ==
    /\ outcome[k] = "none"
    /\ outcome' = [outcome EXCEPT ![k] = o]

\* The host at an address is asked, or nobody is there.
Ask(k) ==
    /\ asked[k] = Nobody /\ outcome[k] = "none"
    /\ \E h \in Hosts : where[h] # Nobody /\ asked' = [asked EXCEPT ![k] = h]
    /\ UNCHANGED <<where, executed, outcome>>

NotFound(k) ==
    /\ asked[k] = Nobody
    /\ \E i \in IPs : \A h \in Hosts : where[h] # i
    /\ Tell(k, "not_found")
    /\ UNCHANGED <<where, asked, executed>>

\* The host has just left: it is not going to carry the request out.
TurnedAway(k) ==
    /\ asked[k] # Nobody /\ executed[k] = 0
    /\ Tell(k, "closed")
    /\ UNCHANGED <<where, asked, executed>>

\* Perhaps after the caller has given up.
CarryOut(k) ==
    /\ asked[k] # Nobody /\ executed[k] = 0 /\ outcome[k] # "closed"
    /\ executed' = [executed EXCEPT ![k] = 1]
    /\ UNCHANGED <<where, asked, outcome>>

Answer(k) ==
    /\ executed[k] = 1
    /\ Tell(k, k)
    /\ UNCHANGED <<where, asked, executed>>

\* Whether it was or will be carried out remains open.
GiveUp(k) ==
    /\ asked[k] # Nobody
    /\ Tell(k, "error") \/ Tell(k, "timed_out")
    /\ UNCHANGED <<where, asked, executed>>

Next ==
    \/ UNCHANGED <<asked, executed, outcome>> /\ BookNext
    \/ \E k \in Calls : \/ Ask(k) \/ NotFound(k) \/ TurnedAway(k)
                        \/ CarryOut(k) \/ Answer(k) \/ GiveUp(k)

Spec == Init /\ [][Next]_vars
=============================================================================
