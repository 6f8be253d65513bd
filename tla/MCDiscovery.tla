---------------------------- MODULE MCDiscovery ----------------------------
(***************************************************************************)
(* Discovery for TLC: a directory that SRV records point to, a resolver    *)
(* that both agents are configured with, a gateway of one of them (their  *)
(* tables also name a stub resolver, an unspecified gateway and a second   *)
(* one), and a host that one agent may hear.                               *)
(***************************************************************************)
EXTENDS Discovery, TLC

CONSTANTS ad, ns, host, gw, gw2, stub, onlink, a1, a2

MCVia == [s \in Services |-> CASE s = ad -> "dns_srv" [] s = ns -> "resolv_conf"
                               [] s \in {gw, gw2} -> "routing_table"
                               [] OTHER -> "arp_scan"]

MCNameservers == [a \in Agents |-> IF a = a1 THEN {stub, ns} ELSE {ns}]
MCRoutes == [a \in Agents |-> IF a = a1 THEN <<onlink, gw, gw2>> ELSE <<onlink>>]

\* No call with the host there; with two calls, one agent and no loss, and
\* neither is about the gateway. Whether a gateway answers is never asked.
Bounded ==
    /\ host \in network' => calls' = 0
    /\ calls' = 2 => /\ report'[a1] = NoReport /\ losses' = 0
                     /\ \A u \in Admins : gw \notin call'[u].on
    /\ network' \cap {gw, gw2} = {}

MCSpec == (Init /\ network \cap {gw, gw2} = {}) /\ [][Next /\ Bounded]_vars /\ Fairness

=============================================================================
