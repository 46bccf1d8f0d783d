----------------------------- MODULE Succession -----------------------------
(***************************************************************************)
(* Who serves production, as an automatic failover promises it: one node   *)
(* at a time; the second node takes over only while nobody serves; and the *)
(* first one, once it has stopped, does not resume by itself.              *)
(***************************************************************************)
CONSTANTS
  First,   \* the node that serves after installation
  Second   \* the node that may take over

VARIABLE servers  \* the nodes that serve

Init == servers = {First}

Stop == servers # {} /\ servers' = {}

TakeOver == servers = {} /\ servers' = {Second}

Next == Stop \/ TakeOver

Spec == Init /\ [][Next]_servers
=============================================================================
