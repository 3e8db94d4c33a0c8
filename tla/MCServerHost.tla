---------------------------- MODULE MCServerHost ----------------------------
(***************************************************************************)
(* Hosts and bind lists for ServerHost: the same-port pair in both orders,  *)
(* an explicit address, IPv4-mapped addresses, and a list that cannot be    *)
(* bound; on hosts with and without IPv6, dual-stack sockets, destination   *)
(* reporting and Linux's reading of a mapped bind.                          *)
(***************************************************************************)
EXTENDS ServerHost

MCLocals == {"a", "b"}

MCRequests ==
    {<<Address("v6", "any", 2112), Address("v4", "any", 2112)>>,
     <<Address("v4", "any", 2112), Address("v6", "any", 2112)>>,
     <<Address("v6", "any", 2112)>>,
     <<Address("v4", "a", 2112), Address("v6", "a", 2112)>>,
     <<Address("v4", "a", 0), Address("v4", "any", 0)>>,
     <<Address("mapped", "any", 2112)>>,
     <<Address("mapped", "a", 2112), Address("v6", "any", 2112)>>,
     <<Address("v4", "any", 2112), Address("v4", "b", 2112)>>}

MCHosts ==
    {[families |-> {4, 6}, dual |-> TRUE, supported |-> TRUE, linux |-> TRUE],
     [families |-> {4, 6}, dual |-> TRUE, supported |-> TRUE, linux |-> FALSE],
     [families |-> {4}, dual |-> TRUE, supported |-> TRUE, linux |-> TRUE],
     [families |-> {4, 6}, dual |-> FALSE, supported |-> FALSE, linux |-> FALSE]}

=============================================================================
