------------------------------ MODULE Delegation ------------------------------
(***************************************************************************)
(* Delegation chains between AI agents: DelegationService.delegate, with   *)
(* AgentRegistry.update_agent and kill_agent, which change what it reads.  *)
(*                                                                         *)
(* Every call has a database transaction of its own at READ COMMITTED: the *)
(* calls' queries are separate steps, and commits of other calls fall      *)
(* between them.  At commit the ORM writes the columns whose values differ *)
(* from the loaded ones, without looking at the row again.                 *)
(***************************************************************************)
EXTENDS Naturals, Sequences

CONSTANTS
    Agents,        \* rows of agents
    Chains,        \* ids of delegation_chains
    Capabilities,
    Sessions,      \* concurrent API calls
    NoAgent, NoChain,
    MaxLimit,      \* bound on max_delegation_depth
    MaxTime,       \* bound on expiry times
    MaxHops,       \* bound on the hops ever accepted
    MaxUpdates     \* bound on update_agent calls

ASSUME NullsAreNotIds == NoAgent \notin Agents /\ NoChain \notin Chains

ASSUME BoundsAreNats == /\ MaxLimit \in Nat
                        /\ MaxTime \in Nat
                        /\ MaxHops \in Nat
                        /\ MaxUpdates \in Nat

VARIABLES
    agent,       \* agents: registered capabilities, depth limit, status
    chain,       \* delegation_chains
    hops,        \* delegation_hops, in the order of their commits
    incidents,   \* agent_incidents raised by delegations
    api,         \* the calls
    updates,
    registered,  \* history: every capability ever registered for an agent
    highest,     \* history: the highest depth limit an agent ever had
    overlapped   \* history: did two calls ever overlap

vars == <<agent, chain, hops, incidents, api, updates, registered, highest,
          overlapped>>

history == <<registered, highest>>

-----------------------------------------------------------------------------
(* Types                                                                   *)

\* A delegation without a time bound never expires.
Never == MaxTime + 1
Times == 1 .. Never

AgentRow == [capabilities : SUBSET Capabilities, limit : 0 .. MaxLimit,
             status : {"active", "suspended"}]

ChainRow == [status : {"absent", "active", "violated", "terminated"},
             root : Agents \cup {NoAgent},
             total : Nat,
             deepest : Nat]

Hop == [chain : Chains, from : Agents, to : Agents, depth : Nat,
        capabilities : SUBSET Capabilities, expires : Times]

Reasons == {"depth_exceeded", "capability_escalation", "ttl_escalation"}

Incident == [chain : Chains, agent : Agents, type : Reasons]

\* A call in flight.  `own` and `limit` were loaded with the delegating agent,
\* `total` and `next` with the chain; `grants` and `expires` passed the checks,
\* `refusal` is the check that failed.  A kill loaded the agent's status as
\* `seen` and found the chains `dooms` active.  A field is reset once the call
\* has no more use for it.
Call == [pc : {"idle", "agent", "chain", "held", "bound", "refused", "killing"},
         agent : Agents \cup {NoAgent},
         chain : Chains \cup {NoChain},
         own : SUBSET Capabilities,
         limit : Nat,
         total : Nat,
         next : Nat,
         grants : SUBSET Capabilities,
         expires : Times,
         refusal : Reasons \cup {"none"},
         seen : {"active", "suspended"},
         dooms : SUBSET Chains]

TypeOK ==
    /\ agent \in [Agents -> AgentRow]
    /\ chain \in [Chains -> ChainRow]
    /\ hops \in Seq(Hop)
    /\ incidents \subseteq Incident
    /\ api \in [Sessions -> Call]
    /\ updates \in Nat
    /\ registered \in [Agents -> SUBSET Capabilities]
    /\ highest \in [Agents -> Nat]
    /\ overlapped \in BOOLEAN

Idle == [pc |-> "idle", agent |-> NoAgent, chain |-> NoChain, own |-> {},
         limit |-> 0, total |-> 0, next |-> 0, grants |-> {}, expires |-> Never,
         refusal |-> "none", seen |-> "active", dooms |-> {}]

NoRow == [status |-> "absent", root |-> NoAgent, total |-> 0, deepest |-> 0]

\* Any agents may have been registered.
Init ==
    /\ agent \in [Agents -> [capabilities : SUBSET Capabilities,
                             limit : 0 .. MaxLimit, status : {"active"}]]
    /\ chain = [c \in Chains |-> NoRow]
    /\ hops = <<>>
    /\ incidents = {}
    /\ api = [s \in Sessions |-> Idle]
    /\ updates = 0
    /\ registered = [a \in Agents |-> agent[a].capabilities]
    /\ highest = [a \in Agents |-> agent[a].limit]
    /\ overlapped = FALSE

\* A call starts; the others in flight are noted.
Starts(s, call) ==
    /\ api[s].pc = "idle"
    /\ api' = [api EXCEPT ![s] = call]
    /\ overlapped' = (overlapped \/ \E t \in Sessions \ {s} : api[t].pc # "idle")

Ends(s) ==
    /\ api' = [api EXCEPT ![s] = Idle]
    /\ UNCHANGED overlapped

-----------------------------------------------------------------------------
(* The hops of a chain                                                     *)

HopsTo(c, a) == {i \in DOMAIN hops : hops[i].chain = c /\ hops[i].to = a}

\* `order_by(depth.desc())` and `first()`: one of the deepest hops to an agent.
DeepestTo(c, a) ==
    {i \in HopsTo(c, a) : \A j \in HopsTo(c, a) : hops[j].depth <= hops[i].depth}

-----------------------------------------------------------------------------
(* DelegationService.delegate.  What a request asks for is chosen where the *)
(* code first looks at it.                                                  *)

\* The delegating agent is loaded.
OpenDelegation(s, a) ==
    /\ Starts(s, [Idle EXCEPT !.pc = "agent", !.agent = a,
                              !.own = agent[a].capabilities,
                              !.limit = agent[a].limit])
    /\ UNCHANGED <<agent, chain, hops, incidents, updates, history>>

\* The depth of the next hop of a chain that reached `reached`.
SameDepth(reached) == reached
NextDepth(reached) == reached + 1

\* Any stored status, or as the code has it only "active".
AnyChain(c) == chain[c].status # "absent"
Delegable(c) == chain[c].status = "active"

LoadChain(s, c) ==
    /\ api[s].pc = "agent"
    /\ Delegable(c)
    /\ api' = [api EXCEPT ![s] =
                  [@ EXCEPT !.pc = "chain", !.chain = c, !.total = chain[c].total,
                            !.next = NextDepth(chain[c].deepest)]]
    /\ UNCHANGED <<agent, chain, hops, incidents, updates, history, overlapped>>

\* The depth check, then the escalation check, against what the delegating
\* agent holds.
NeverEscalates(grants, held) == FALSE
Escalates(grants, held) == ~(grants \subseteq held)

CheckGrant(s, next, held) ==
    \E grants \in SUBSET Capabilities :
        api' = [api EXCEPT ![s] =
            IF next > api[s].limit
            THEN [Idle EXCEPT !.pc = "refused", !.refusal = "depth_exceeded",
                              !.agent = api[s].agent, !.chain = api[s].chain]
            ELSE IF Escalates(grants, held)
            THEN [Idle EXCEPT !.pc = "refused", !.refusal = "capability_escalation",
                              !.agent = api[s].agent, !.chain = api[s].chain]
            ELSE [Idle EXCEPT !.pc = "held", !.next = next, !.grants = grants,
                              !.agent = api[s].agent, !.chain = api[s].chain,
                              !.total = api[s].total]]

\* Without a chain id the call starts a chain, which nobody else sees before
\* it is committed.
StartChain(s) ==
    /\ api[s].pc = "agent"
    /\ CheckGrant(s, NextDepth(0), api[s].own)
    /\ UNCHANGED <<agent, chain, hops, incidents, updates, history, overlapped>>

\* _capabilities_of_agent_in_chain
LoadHeld(s) ==
    LET granting == DeepestTo(api[s].chain, api[s].agent) IN
    /\ api[s].pc = "chain"
    /\ \/ granting = {} /\ CheckGrant(s, api[s].next, api[s].own)
       \/ \E i \in granting : CheckGrant(s, api[s].next, hops[i].capabilities)
    /\ UNCHANGED <<agent, chain, hops, incidents, updates, history, overlapped>>

\* A delegation may not outlive the one that authorized it.
NeverOutlives(asked, bound) == FALSE
Outlives(asked, bound) == asked # Never /\ asked > bound

\* A delegation that asks for no bound inherits the one of its parent.
Inherited(asked, bound) == IF asked = Never THEN bound ELSE asked

CheckBound(s, bound) ==
    \E asked \in Times :
        api' = [api EXCEPT ![s] =
            IF Outlives(asked, bound)
            THEN [Idle EXCEPT !.pc = "refused", !.refusal = "ttl_escalation",
                              !.agent = api[s].agent, !.chain = api[s].chain]
            ELSE [@ EXCEPT !.pc = "bound", !.expires = Inherited(asked, bound)]]

\* _expiry_of_agent_in_chain, a query of its own
LoadBound(s) ==
    LET granting == DeepestTo(api[s].chain, api[s].agent) IN
    /\ api[s].pc = "held"
    /\ \/ granting = {} /\ CheckBound(s, Never)
       \/ \E i \in granting : CheckBound(s, hops[i].expires)
    /\ UNCHANGED <<agent, chain, hops, incidents, updates, history, overlapped>>

\* The row the call commits: its new chain, or the chain it loaded.
Target(s, c) == IF api[s].chain = NoChain THEN chain[c].status = "absent"
                                          ELSE c = api[s].chain

ChainAfter(s, c) == IF api[s].chain = NoChain
                    THEN [NoRow EXCEPT !.status = "active", !.root = api[s].agent]
                    ELSE chain[c]

KeepsActive == "active"
SuspendsChain == "suspended"   \* an agent's status, no chain's
AfterRefusal == "violated"

CommitRefusal(s, c) ==
    /\ api[s].pc = "refused"
    /\ Target(s, c)
    /\ incidents' = incidents \cup {[chain |-> c, agent |-> api[s].agent,
                                     type |-> api[s].refusal]}
    /\ chain' = [chain EXCEPT ![c] = [ChainAfter(s, c) EXCEPT !.status = AfterRefusal]]
    /\ Ends(s)
    /\ UNCHANGED <<agent, hops, updates, history>>

\* The chain's counters are written from the values loaded with it.
CommitHop(s, c, b) ==
    /\ api[s].pc = "bound"
    /\ Target(s, c)
    /\ Len(hops) < MaxHops
    /\ hops' = Append(hops, [chain |-> c, from |-> api[s].agent, to |-> b,
                             depth |-> api[s].next, capabilities |-> api[s].grants,
                             expires |-> api[s].expires])
    /\ chain' = [chain EXCEPT ![c] =
                    [ChainAfter(s, c) EXCEPT !.total = api[s].total + 1,
                                             !.deepest = api[s].next]]
    /\ Ends(s)
    /\ UNCHANGED <<agent, incidents, updates, history>>

-----------------------------------------------------------------------------
(* AgentRegistry.kill_agent and update_agent                               *)

\* The agent is loaded, and with `cascade` the active chains it roots.
OpenKill(s, a, cascade) ==
    /\ Starts(s, [Idle EXCEPT !.pc = "killing", !.agent = a, !.seen = agent[a].status,
                     !.dooms = {c \in Chains : /\ cascade
                                               /\ chain[c].status = "active"
                                               /\ chain[c].root = a}])
    /\ UNCHANGED <<agent, chain, hops, incidents, updates, history>>

CommitKill(s) ==
    /\ api[s].pc = "killing"
    /\ agent' = [agent EXCEPT ![api[s].agent].status =
                    IF api[s].seen = "suspended" THEN @ ELSE "suspended"]
    /\ chain' = [c \in Chains |->
                    IF c \in api[s].dooms
                    THEN [chain[c] EXCEPT !.status = "terminated"] ELSE chain[c]]
    /\ Ends(s)
    /\ UNCHANGED <<hops, incidents, updates, history>>

\* An administrator sets any of the fields; one UPDATE, one step.
UpdateAgent(a, row) ==
    /\ updates < MaxUpdates
    /\ updates' = updates + 1
    /\ agent' = [agent EXCEPT ![a] = row]
    /\ registered' = [registered EXCEPT ![a] = @ \cup row.capabilities]
    /\ highest' = [highest EXCEPT ![a] = IF row.limit > @ THEN row.limit ELSE @]
    /\ UNCHANGED <<chain, hops, incidents, api, overlapped>>

\* A call ends without effect: it is answered 409, or its process dies and
\* the transaction is rolled back.
AbandonCall(s) ==
    /\ api[s].pc # "idle"
    /\ Ends(s)
    /\ UNCHANGED <<agent, chain, hops, incidents, updates, history>>

-----------------------------------------------------------------------------

Step(s) ==
    \/ \E a \in Agents : OpenDelegation(s, a)
    \/ StartChain(s)
    \/ \E c \in Chains : LoadChain(s, c)
    \/ LoadHeld(s)
    \/ LoadBound(s)
    \/ \E c \in Chains : CommitRefusal(s, c)
    \/ \E c \in Chains, b \in Agents : CommitHop(s, c, b)
    \/ \E a \in Agents, cascade \in BOOLEAN : OpenKill(s, a, cascade)
    \/ CommitKill(s)
    \/ AbandonCall(s)

Next == \/ \E s \in Sessions : Step(s)
        \/ \E a \in Agents, row \in AgentRow : UpdateAgent(a, row)

Spec == Init /\ [][Next]_vars

-----------------------------------------------------------------------------
(* What holds however calls overlap                                        *)

\* `a` may grant `grants` in chain `c`: one of its first `n` hops granted them
\* to `a`, or `a` had them registered.
Granted(a, c, grants, n) ==
    \/ grants \subseteq registered[a]
    \/ \E j \in 1 .. n : /\ hops[j].chain = c
                        /\ hops[j].to = a
                        /\ grants \subseteq hops[j].capabilities

\* "An agent can never delegate more than it holds": what a hop grants was
\* granted to its delegating agent by one earlier hop of the chain, or that
\* agent had it registered.
GrantedBefore(i) == Granted(hops[i].from, hops[i].chain, hops[i].capabilities, i - 1)

HopsAreGranted == \A i \in DOMAIN hops : GrantedBefore(i)

\* A capability does not come into a chain from nowhere: wherever it turns up,
\* some agent that delegated in this chain before had it registered.
CapabilitiesHaveAnOrigin ==
    \A i \in DOMAIN hops : \A p \in hops[i].capabilities :
        \E j \in 1 .. i : /\ hops[j].chain = hops[i].chain
                          /\ p \in hops[j].capabilities
                          /\ p \in registered[hops[j].from]

\* No agent delegates deeper than a limit it was given, whatever races for the
\* chain's max_depth_reached.
DepthWithinLimit ==
    \A i \in DOMAIN hops : hops[i].depth >= 1 /\ hops[i].depth <= highest[hops[i].from]

\* A refused delegation stops its chain and is on record: a violated chain has
\* an incident, and a chain with an incident takes no part in delegation again.
RefusalsAreRecorded ==
    /\ \A c \in Chains : chain[c].status = "violated" =>
           \E x \in incidents : x.chain = c
    /\ \A x \in incidents : chain[x.chain].status \in {"violated", "terminated"}

\* The inductive invariant: what the rows of agents and the calls in flight
\* carry of the checks that were made for them.
AgentsInv ==
    \A a \in Agents : /\ agent[a].capabilities \subseteq registered[a]
                      /\ agent[a].limit <= highest[a]

CallInv(s) ==
    /\ api[s].pc # "idle" => api[s].agent \in Agents
    /\ api[s].pc \in {"agent", "chain"} =>
           /\ api[s].own \subseteq registered[api[s].agent]
           /\ api[s].limit <= highest[api[s].agent]
    /\ api[s].pc = "chain" => api[s].next >= 1
    /\ api[s].pc \in {"held", "bound"} =>
           /\ api[s].next >= 1 /\ api[s].next <= highest[api[s].agent]
           /\ Granted(api[s].agent, api[s].chain, api[s].grants, Len(hops))
    /\ api[s].pc = "refused" => api[s].refusal \in Reasons

CallsInv == \A s \in Sessions : CallInv(s)

DelegationInv ==
    /\ TypeOK
    /\ AgentsInv
    /\ CallsInv
    /\ HopsAreGranted
    /\ CapabilitiesHaveAnOrigin
    /\ DepthWithinLimit
    /\ RefusalsAreRecorded

-----------------------------------------------------------------------------
(* What holds as long as calls do not overlap                              *)

\* The chain's counters, from which the next depth and the depth check are
\* computed, are those of its hops, and the hops of a chain are numbered
\* without gaps.
OfChain(c) == {i \in DOMAIN hops : hops[i].chain = c}

CountersAreTrue ==
    ~overlapped =>
        \A c \in Chains :
            /\ chain[c].total = chain[c].deepest
            /\ \A i \in OfChain(c) : hops[i].depth <= chain[c].deepest
            /\ \A d \in 1 .. chain[c].deepest : \E i \in OfChain(c) : hops[i].depth = d
            /\ \A i, j \in OfChain(c) : i < j => hops[i].depth < hops[j].depth

\* "A delegation can never outlive the one that authorized it": the hop that
\* brought the delegating agent into the chain last covers both what a hop
\* grants and how long.
LastBefore(i) ==
    {j \in 1 .. i - 1 : /\ hops[j].chain = hops[i].chain
                        /\ hops[j].to = hops[i].from
                        /\ \A k \in j + 1 .. i - 1 : \/ hops[k].chain # hops[i].chain
                                                     \/ hops[k].to # hops[i].from}

OneGrantCovers ==
    ~overlapped =>
        \A i \in DOMAIN hops : \A j \in LastBefore(i) :
            /\ hops[i].capabilities \subseteq hops[j].capabilities
            /\ hops[i].expires <= hops[j].expires

\* A chain that was terminated or violated accepts no hop.
StoppedChainsTakeNoHops ==
    [][~overlapped' => \A c \in Chains :
           chain[c].status \in {"violated", "terminated"} =>
               OfChain(c)' = OfChain(c)]_<<hops, overlapped>>

-----------------------------------------------------------------------------
(* What the documentation says and the code does not keep                   *)

\* "terminating chains records the blast radius and stops new hops being
\* accepted on them" (kill_agent): also of a delegation under way.
TerminatedTakesNoHops ==
    [][\A c \in Chains : chain[c].status = "terminated" => OfChain(c)' = OfChain(c)]_hops

\* "whatever it was granted on the hop that brought it in (or its own caps if
\* it is the root acting again)": nobody else delegates in a chain.
OnlyMembersDelegate ==
    \A i \in DOMAIN hops :
        \/ hops[i].from = chain[hops[i].chain].root
        \/ \E j \in 1 .. i - 1 : hops[j].chain = hops[i].chain /\ hops[j].to = hops[i].from

=============================================================================
