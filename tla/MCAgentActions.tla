---------------------------- MODULE MCAgentActions ----------------------------
(***************************************************************************)
(* AgentActions for TLC: one rule that denies and one that asks for a      *)
(* review, each of one agent or of all; or agents that hold a capability,  *)
(* while no policy stands and verdicts are asked for alone.                *)
(***************************************************************************)
EXTENDS AgentActions, TLC

MCRules == {[deny |-> Tools, only |-> AnyTool, gate |-> {}],
            [deny |-> {}, only |-> AnyTool, gate |-> Tools]}

Symmetry == Permutations(Agents) \cup Permutations(Tools) \cup Permutations(Callers)
            \cup Permutations(Capabilities)

\* At most two calls are in flight, of either module.  Agents start with the
\* highest depth limit and every tool.
InFlight == {u \in Callers : call[u].pc # "idle"} \cup {s \in Sessions : api[s].pc # "idle"}

Registered(held) == \A a \in Agents : registered[a] = held

MCInit == /\ ActionsInit
          /\ \A a \in Agents : agent[a].limit = MaxLimit /\ allowed[a] = Tools
          /\ Registered({}) \/ Registered(Capabilities)

Bounded == /\ Cardinality(InFlight') <= 2
           /\ registered' = registered
           /\ Registered(Capabilities) =>
                  policies' = {} /\ updates' = 0 /\ action' = action

MCSpec == MCInit /\ [][ActionsNext /\ Bounded]_allVars

===============================================================================
