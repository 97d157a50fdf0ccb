----------------------------- MODULE MCPanelStore -----------------------------
(* PanelStore for TLC: who connects and what agents report. *)
EXTENDS PanelStore

CONSTANTS Kid, h1, h2

\* A PC that moves, and another that may take over its first address.
ThreeLeases == {<<h1, 1>>, <<h1, 2>>, <<h2, 1>>}

\* One PC that moves.
TwoLeases == {<<h1, 1>>, <<h1, 2>>}

\* Signed in with the screen locked, and signed out.
TwoStatuses ==
    {[user |-> Kid, locked |-> TRUE], [user |-> NoUser, locked |-> FALSE]}

\* One status: only connections and addresses change.
OneStatus == {[user |-> Kid, locked |-> FALSE]}
=============================================================================
