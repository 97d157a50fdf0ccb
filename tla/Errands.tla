------------------------------- MODULE Errands -------------------------------
(***************************************************************************)
(* What parents may rely on when they ask a PC for something: requests are *)
(* carried out once at most, in the order in which they were sent; who is  *)
(* told ok knows that it was done, and is told so once.  Of a request that *)
(* failed nothing is known: it may still be carried out.                   *)
(***************************************************************************)
EXTENDS Naturals, Sequences

CONSTANT Requests

VARIABLES
    told,   \* what is known of each request
    sent,   \* the requests in the order in which they were sent
    done    \* those that were carried out, in that order

vars == <<told, sent, done>>

Init ==
    /\ told = [r \in Requests |-> "unasked"]
    /\ sent = <<>>
    /\ done = <<>>

Send(r) ==
    /\ told[r] = "unasked"
    /\ told' = [told EXCEPT ![r] = "waiting"]
    /\ sent' = Append(sent, r)
    /\ UNCHANGED done

\* All that was carried out before was sent before.
CarryOut(r) ==
    /\ \E q \in DOMAIN sent :
          /\ sent[q] = r
          /\ \A k \in DOMAIN done : \E p \in DOMAIN sent : p < q /\ sent[p] = done[k]
    /\ done' = Append(done, r)
    /\ UNCHANGED <<told, sent>>

Confirm(r) ==
    /\ told[r] = "waiting"
    /\ \E k \in DOMAIN done : done[k] = r
    /\ told' = [told EXCEPT ![r] = "ok"]
    /\ UNCHANGED <<sent, done>>

\* Some requests are given up.
GiveUp(rs) ==
    /\ \A r \in rs : told[r] = "waiting"
    /\ told' = [r \in Requests |-> IF r \in rs THEN "failed" ELSE told[r]]
    /\ UNCHANGED <<sent, done>>

Next ==
    \/ \E r \in Requests : Send(r) \/ CarryOut(r) \/ Confirm(r)
    \/ \E rs \in SUBSET Requests : GiveUp(rs)

Spec == Init /\ [][Next]_vars
=============================================================================
