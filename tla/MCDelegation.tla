----------------------------- MODULE MCDelegation -----------------------------
(***************************************************************************)
(* Delegation for TLC.  Agents, chains, capabilities and sessions are      *)
(* interchangeable: no action or property tells one from another.          *)
(***************************************************************************)
EXTENDS Delegation, TLC

Symmetry == Permutations(Agents) \cup Permutations(Chains)
            \cup Permutations(Capabilities) \cup Permutations(Sessions)

Limited(l) == \A a \in Agents : agent[a].limit = l

\* One agent has every capability registered and the others none.
MCInit ==
    /\ Init
    /\ Limited(MaxLimit) \/ Limited(MaxLimit - 1)
    /\ \E a \in Agents :
           agent = [b \in Agents |-> [agent[b] EXCEPT !.capabilities =
                                         IF b = a THEN Capabilities ELSE {}]]

\* With lower limits either calls overlap, or agents are updated, or grants
\* expire; with the highest one, chains are longer and grants expire.
Unbounded ==
    /\ \A i \in DOMAIN hops : hops[i].expires = Never
    /\ \A s \in Sessions : api[s].expires = Never

Bounded ==
    /\ overlapped' => updates' = 0 /\ Limited(MaxLimit - 1)' /\ Unbounded'
    /\ updates' # updates => Limited(MaxLimit - 1)
    /\ updates' > 0 => Unbounded'

MCSpec == MCInit /\ [][Next /\ Bounded]_vars

=============================================================================
