----------------------------- MODULE AddressBook -----------------------------
(***************************************************************************)
(* Under which address each PC is found: what the registry of sessions is  *)
(* to the rest of the panel.                                               *)
(***************************************************************************)
CONSTANTS Hosts, IPs, Nobody

VARIABLE where      \* per host, the address under which it is found, or Nobody

\* A host is found at an address, and no other one is any more.
Arrive(h, i) ==
    where' = [g \in Hosts |-> IF g = h THEN i ELSE IF where[g] = i THEN Nobody ELSE where[g]]

Depart(h) == where' = [where EXCEPT ![h] = Nobody]

AllDepart == where' = [h \in Hosts |-> Nobody]

BookInit == where = [h \in Hosts |-> Nobody]

BookNext ==
    \/ \E h \in Hosts : Depart(h)
    \/ \E h \in Hosts, i \in IPs : Arrive(h, i)
    \/ AllDepart

BookSpec == BookInit /\ [][BookNext]_where
=============================================================================
