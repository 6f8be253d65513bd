-------------------------- MODULE AgentActionsProofs --------------------------
(***************************************************************************)
(* Proofs about Delegation, for every set of agents, chains, capabilities  *)
(* and calls, every bound, and however the calls overlap; then about       *)
(* AgentActions, for every set of tools, rules, actions and calls:         *)
(* delegation keeps its invariant in that composition, and the actions     *)
(* have theirs.                                                            *)
(***************************************************************************)
EXTENDS AgentActions, TLAPS


LEMMA IdleIsCall == Idle \in Call /\ NoRow \in ChainRow
BY BoundsAreNats DEF Idle, Call, NoRow, ChainRow, Times, Never

\* The record a failed check leaves behind.
LEMMA RefusedIsCall ==
    ASSUME NEW a \in Agents, NEW c \in Chains \cup {NoChain}, NEW x \in Reasons,
           NEW req,
           req = [Idle EXCEPT !.pc = "refused", !.refusal = x,
                               !.agent = a, !.chain = c]
    PROVE  req \in Call
BY IdleIsCall DEF Call

LEMMA InvInit == Init => DelegationInv
<1> SUFFICES ASSUME Init PROVE DelegationInv
  OBVIOUS
<1>0. /\ agent \in [Agents -> [capabilities : SUBSET Capabilities,
                              limit : 0 .. MaxLimit, status : {"active"}]]
      /\ chain = [c \in Chains |-> NoRow]
      /\ hops = <<>> /\ incidents = {} /\ updates = 0 /\ overlapped = FALSE
      /\ api = [s \in Sessions |-> Idle]
  BY DEF Init
<1>1. ASSUME NEW a \in Agents
      PROVE  /\ agent[a] \in AgentRow
             /\ agent[a].capabilities \in SUBSET Capabilities
             /\ agent[a].limit \in Nat
             /\ registered[a] = agent[a].capabilities
             /\ highest[a] = agent[a].limit
  <2>1. agent[a] \in [capabilities : SUBSET Capabilities, limit : 0 .. MaxLimit,
                      status : {"active"}]
    BY <1>0
  <2>2. registered[a] = agent[a].capabilities /\ highest[a] = agent[a].limit
    BY DEF Init
  <2>3. QED BY <2>1, <2>2, BoundsAreNats DEF AgentRow
<1>2. agent \in [Agents -> AgentRow]
  <2>1. agent = [a \in Agents |-> agent[a]]
    BY <1>0, Zenon
  <2>2. QED BY <1>1, <2>1
<1>3. registered \in [Agents -> SUBSET Capabilities]
  <2>1. registered = [a \in Agents |-> agent[a].capabilities]
    BY DEF Init
  <2>2. QED BY <1>1, <2>1
<1>4. highest \in [Agents -> Nat]
  <2>1. highest = [a \in Agents |-> agent[a].limit]
    BY DEF Init
  <2>2. QED BY <1>1, <2>1
<1>5. TypeOK
  <2>1. chain \in [Chains -> ChainRow]
    BY <1>0, IdleIsCall
  <2>2. api \in [Sessions -> Call]
    BY <1>0, IdleIsCall
  <2>3. hops \in Seq(Hop) /\ incidents \subseteq Incident /\ updates \in Nat
    BY <1>0
  <2>4. overlapped \in BOOLEAN
    BY <1>0
  <2>5. QED BY <1>2, <1>3, <1>4, <2>1, <2>2, <2>3, <2>4 DEF TypeOK
<1>6. AgentsInv
  <2>1. ASSUME NEW a \in Agents
        PROVE  /\ agent[a].capabilities \subseteq registered[a]
               /\ agent[a].limit <= highest[a]
    <3>1. PICK l \in Nat : agent[a].limit = l /\ highest[a] = l
      BY <1>1
    <3>2. registered[a] = agent[a].capabilities
      BY <1>1
    <3>3. QED BY <3>1, <3>2
  <2>2. QED BY <2>1 DEF AgentsInv
<1>7. CallsInv
  BY <1>0 DEF CallsInv, CallInv, Idle
<1>8. /\ HopsAreGranted /\ CapabilitiesHaveAnOrigin /\ DepthWithinLimit
      /\ RefusalsAreRecorded
  BY <1>0 DEF HopsAreGranted, CapabilitiesHaveAnOrigin, DepthWithinLimit,
              RefusalsAreRecorded, NoRow
<1>9. QED BY <1>5, <1>6, <1>7, <1>8 DEF DelegationInv

-----------------------------------------------------------------------------
(* What no step undoes                                                     *)

\* What was registered and allowed once stays in the history, and a committed
\* hop stays as it is.
Growth ==
    /\ \A a \in Agents : /\ registered[a] \subseteq registered'[a]
                         /\ highest[a] <= highest'[a]
                         /\ highest'[a] \in Nat
    /\ Len(hops) <= Len(hops') /\ Len(hops') \in Nat
    /\ \A i \in 1 .. Len(hops) : hops'[i] = hops[i]

\* Everything but the calls.
Stored == <<agent, chain, hops, incidents, updates, registered, highest>>

LEMMA StoredGrowth == ASSUME TypeOK, UNCHANGED Stored PROVE Growth
BY DEF TypeOK, Growth, Stored

LEMMA GrantedKept ==
    ASSUME TypeOK, Growth, NEW a \in Agents, NEW c, NEW grants,
           NEW n \in 0 .. Len(hops), Granted(a, c, grants, n)
    PROVE  \A k \in n .. Len(hops') : Granted(a, c, grants, k)'
<1> SUFFICES ASSUME NEW k \in n .. Len(hops') PROVE Granted(a, c, grants, k)'
  OBVIOUS
<1>0. Len(hops) \in Nat /\ Len(hops') \in Nat
  BY DEF TypeOK, Growth
<1>1. CASE grants \subseteq registered[a]
  BY <1>1 DEF Growth, Granted
<1>2. ASSUME NEW j \in 1 .. n, hops[j].chain = c, hops[j].to = a,
             grants \subseteq hops[j].capabilities
      PROVE  Granted(a, c, grants, k)'
  <2>1. j \in 1 .. Len(hops) /\ j \in 1 .. k
    BY <1>0
  <2>2. hops'[j] = hops[j]
    BY <2>1 DEF Growth
  <2>3. QED BY <1>2, <2>1, <2>2 DEF Granted
<1>3. QED BY <1>1, <1>2 DEF Granted

\* A call that does not move keeps what it carries.
LEMMA CallKept ==
    ASSUME TypeOK, Growth, NEW t \in Sessions, CallInv(t), api'[t] = api[t]
    PROVE  CallInv(t)'
<1>1. api[t] \in Call
  BY DEF TypeOK
<1>2. CASE api[t].pc \in {"held", "bound"}
  <2>0. api[t].agent \in Agents /\ Len(hops) \in Nat
    BY <1>2 DEF CallInv, TypeOK
  <2> PICK a \in Agents : a = api[t].agent
    BY <2>0
  <2>1. PICK c, g : a = api[t].agent /\ c = api[t].chain /\ g = api[t].grants
    OBVIOUS
  <2>2. Granted(a, c, g, Len(hops))
    BY <1>2, <2>1 DEF CallInv
  <2>3. PICK n \in 0 .. Len(hops) : n = Len(hops)
    BY <2>0
  <2>4. Granted(a, c, g, n)
    BY <2>2, <2>3
  <2>5. \A k \in n .. Len(hops') : Granted(a, c, g, k)'
    BY <2>4, GrantedKept
  <2>6. Granted(api[t].agent, api[t].chain, api[t].grants, Len(hops))'
    BY <2>1, <2>3, <2>5 DEF Growth, Granted
  <2>7. api[t].next >= 1 /\ api[t].next <= highest'[api[t].agent]
    BY <1>1, <1>2, <2>0 DEF CallInv, Growth, Call, TypeOK
  <2>8. QED BY <1>2, <2>0, <2>6, <2>7 DEF CallInv
<1>3. CASE api[t].pc \notin {"held", "bound"}
  BY <1>1, <1>3 DEF CallInv, Growth, Call, TypeOK
<1>4. QED BY <1>2, <1>3

LEMMA CallsKept ==
    ASSUME TypeOK, Growth, CallsInv, NEW s \in Sessions,
           \A t \in Sessions \ {s} : api'[t] = api[t],
           CallInv(s)'
    PROVE  CallsInv'
<1>1. ASSUME NEW t \in Sessions PROVE CallInv(t)'
  <2>1. CASE t = s
    BY <2>1
  <2>2. CASE t # s
    BY <2>2, CallKept DEF CallsInv
  <2>3. QED BY <2>1, <2>2
<1>2. QED BY <1>1 DEF CallsInv

-----------------------------------------------------------------------------
(* The steps that only move a call                                         *)

\* What such a step of call s has to keep.
Moves(s) ==
    /\ UNCHANGED Stored
    /\ overlapped' \in BOOLEAN
    /\ api'[s] \in Call
    /\ api' = [api EXCEPT ![s] = api'[s]]
    /\ CallInv(s)'

LEMMA MoveKeepsInv ==
    ASSUME DelegationInv, NEW s \in Sessions, Moves(s) PROVE DelegationInv'
<1> USE DEF DelegationInv
<1>1. TypeOK'
  BY DEF Moves, TypeOK, Stored
<1>2. Growth
  BY StoredGrowth DEF Moves
<1>3. CallsInv'
  <2>1. \A t \in Sessions \ {s} : api'[t] = api[t]
    BY DEF Moves, TypeOK
  <2>2. QED BY <1>2, <2>1, CallsKept DEF Moves
<1>4. AgentsInv'
  BY DEF Moves, Stored, AgentsInv
<1>5. /\ HopsAreGranted' /\ CapabilitiesHaveAnOrigin' /\ DepthWithinLimit'
      /\ RefusalsAreRecorded'
  BY DEF Moves, Stored, HopsAreGranted, GrantedBefore, Granted,
         CapabilitiesHaveAnOrigin, DepthWithinLimit, RefusalsAreRecorded
<1>6. QED BY <1>1, <1>3, <1>4, <1>5

\* What passed the checks is granted, at a depth the agent is allowed.
LEMMA CheckGrantMoves ==
    ASSUME DelegationInv, UNCHANGED <<Stored, overlapped>>,
           NEW s \in Sessions, api[s].pc \in {"agent", "chain"},
           NEW next \in Nat, next >= 1, NEW held,
           \A g \in SUBSET Capabilities :
               g \subseteq held => Granted(api[s].agent, api[s].chain, g, Len(hops)),
           CheckGrant(s, next, held)
    PROVE  Moves(s)
<1>0. /\ api[s] \in Call /\ api[s].agent \in Agents
      /\ api[s].limit <= highest[api[s].agent]
      /\ highest[api[s].agent] \in Nat /\ api[s].limit \in Nat
      /\ api[s].chain \in Chains \cup {NoChain} /\ api[s].total \in Nat
      /\ overlapped \in BOOLEAN
  BY DEF DelegationInv, TypeOK, CallsInv, CallInv, Call
<1>1. PICK grants \in SUBSET Capabilities :
          api' = [api EXCEPT ![s] =
            IF next > api[s].limit
            THEN [Idle EXCEPT !.pc = "refused", !.refusal = "depth_exceeded",
                              !.agent = api[s].agent, !.chain = api[s].chain]
            ELSE IF Escalates(grants, held)
            THEN [Idle EXCEPT !.pc = "refused", !.refusal = "capability_escalation",
                              !.agent = api[s].agent, !.chain = api[s].chain]
            ELSE [Idle EXCEPT !.pc = "held", !.next = next, !.grants = grants,
                              !.agent = api[s].agent, !.chain = api[s].chain,
                              !.total = api[s].total]]
  BY DEF CheckGrant
<1>2. s \in DOMAIN api
  BY DEF DelegationInv, TypeOK
<1>3. CASE next > api[s].limit \/ Escalates(grants, held)
  <2>1. PICK r \in {"depth_exceeded", "capability_escalation"} :
            api' = [api EXCEPT ![s] =
                      [Idle EXCEPT !.pc = "refused", !.refusal = r,
                                   !.agent = api[s].agent, !.chain = api[s].chain]]
    BY <1>1, <1>3
  <2>2. api'[s] = [Idle EXCEPT !.pc = "refused", !.refusal = r,
                               !.agent = api[s].agent, !.chain = api[s].chain]
    BY <1>2, <2>1
  <2>3. api'[s] \in Call
    BY <1>0, <2>2, RefusedIsCall DEF Reasons
  <2>4. CallInv(s)'
    BY <1>0, <2>2 DEF CallInv, Idle, Reasons
  <2>5. QED BY <1>0, <2>1, <2>2, <2>3, <2>4 DEF Moves
<1>4. CASE next <= api[s].limit /\ ~Escalates(grants, held)
  <2>1. api' = [api EXCEPT ![s] =
                  [Idle EXCEPT !.pc = "held", !.next = next, !.grants = grants,
                               !.agent = api[s].agent, !.chain = api[s].chain,
                               !.total = api[s].total]]
    <3>1. ~(next > api[s].limit)
      BY <1>0, <1>4
    <3>2. QED BY <3>1, <1>1, <1>4, Zenon
  <2>2. api'[s] = [Idle EXCEPT !.pc = "held", !.next = next, !.grants = grants,
                               !.agent = api[s].agent, !.chain = api[s].chain,
                               !.total = api[s].total]
    BY <1>2, <2>1
  <2>3. api'[s] \in Call
    <3>1. /\ api[s].agent \in Agents /\ api[s].chain \in Chains \cup {NoChain}
          /\ api[s].total \in Nat
      BY <1>0
    <3>2. PICK a, c, k : a = api[s].agent /\ c = api[s].chain /\ k = api[s].total
      OBVIOUS
    <3>3. QED BY <2>2, <3>1, <3>2, IdleIsCall DEF Call
  <2>4. Granted(api[s].agent, api[s].chain, grants, Len(hops))
    BY <1>4 DEF Escalates
  <2>5. Granted(api[s].agent, api[s].chain, api[s].grants, Len(hops))'
    BY <2>2, <2>4 DEF Granted, Stored, Idle
  <2>6. CallInv(s)'
    BY <1>0, <1>4, <2>2, <2>5 DEF CallInv, Idle, Stored
  <2>7. QED BY <1>0, <2>1, <2>2, <2>3, <2>6 DEF Moves
<1>5. QED BY <1>0, <1>3, <1>4

LEMMA CheckBoundMoves ==
    ASSUME DelegationInv, UNCHANGED <<Stored, overlapped>>,
           NEW s \in Sessions, api[s].pc = "held",
           NEW bound \in Times, CheckBound(s, bound)
    PROVE  Moves(s)
<1>0. /\ api[s] \in Call /\ api[s].agent \in Agents
      /\ api[s].chain \in Chains \cup {NoChain}
      /\ s \in DOMAIN api
      /\ overlapped \in BOOLEAN
  BY DEF DelegationInv, TypeOK, CallsInv, CallInv, Call
<1>1. PICK asked \in Times :
          api' = [api EXCEPT ![s] =
            IF Outlives(asked, bound)
            THEN [Idle EXCEPT !.pc = "refused", !.refusal = "ttl_escalation",
                              !.agent = api[s].agent, !.chain = api[s].chain]
            ELSE [@ EXCEPT !.pc = "bound", !.expires = Inherited(asked, bound)]]
  BY DEF CheckBound
<1>2. CASE Outlives(asked, bound)
  <2>1. api' = [api EXCEPT ![s] =
                  [Idle EXCEPT !.pc = "refused", !.refusal = "ttl_escalation",
                               !.agent = api[s].agent, !.chain = api[s].chain]]
    BY <1>1, <1>2, Zenon
  <2>2. api'[s] = [Idle EXCEPT !.pc = "refused", !.refusal = "ttl_escalation",
                               !.agent = api[s].agent, !.chain = api[s].chain]
    BY <1>0, <2>1
  <2>3. api'[s] \in Call
    BY <1>0, <2>2, RefusedIsCall DEF Reasons
  <2>4. CallInv(s)'
    BY <1>0, <2>2 DEF CallInv, Idle, Reasons
  <2>5. QED BY <1>0, <2>1, <2>2, <2>3, <2>4 DEF Moves
<1>3. CASE ~(Outlives(asked, bound))
  <2>0. PICK e \in Times : e = Inherited(asked, bound)
    BY DEF Inherited
  <2>1. api' = [api EXCEPT ![s] = [@ EXCEPT !.pc = "bound", !.expires = e]]
    BY <1>1, <1>3, <2>0, Zenon
  <2>2. api'[s] = [api[s] EXCEPT !.pc = "bound", !.expires = e]
    BY <1>0, <2>1
  <2>3. api'[s] \in Call
    BY <1>0, <2>2 DEF Call
  <2>4. CallInv(s)
    BY DEF DelegationInv, CallsInv
  <2>5. Granted(api[s].agent, api[s].chain, api[s].grants, Len(hops))'
    BY <1>0, <2>2, <2>4 DEF CallInv, Granted, Stored, Call
  <2>6. CallInv(s)'
    BY <1>0, <2>2, <2>4, <2>5 DEF CallInv, Stored, Call
  <2>7. QED BY <1>0, <2>1, <2>2, <2>3, <2>6 DEF Moves
<1>4. QED BY <1>2, <1>3

\* A call that starts carries only what it loaded from the agent's row.
LEMMA StartMoves ==
    ASSUME DelegationInv, UNCHANGED Stored, NEW s \in Sessions,
           NEW req \in Call, Starts(s, req),
           req.agent \in Agents,
           \/ req.pc = "killing"
           \/ /\ req.pc = "agent"
              /\ req.own = agent[req.agent].capabilities
              /\ req.limit = agent[req.agent].limit
    PROVE  Moves(s)
<1>1. /\ overlapped' \in BOOLEAN
      /\ api' = [api EXCEPT ![s] = req]
      /\ api'[s] = req
  BY DEF Starts, DelegationInv, TypeOK
<1>2. CallInv(s)'
  BY <1>1 DEF CallInv, Stored, DelegationInv, AgentsInv
<1>3. QED BY <1>1, <1>2 DEF Moves

LEMMA EndMoves ==
    ASSUME DelegationInv, NEW s \in Sessions, Ends(s)
    PROVE  /\ overlapped' \in BOOLEAN
           /\ api'[s] \in Call
           /\ api' = [api EXCEPT ![s] = api'[s]]
           /\ CallInv(s)'
<1>1. overlapped' \in BOOLEAN /\ api'[s] = Idle
  BY DEF Ends, DelegationInv, TypeOK
<1>2. api' = [api EXCEPT ![s] = api'[s]]
  BY <1>1, Zenon DEF Ends
<1>3. CallInv(s)'
  BY <1>1 DEF CallInv, Idle
<1>4. QED BY <1>1, <1>2, <1>3, IdleIsCall

\* No step of a call up to its commit disturbs the invariant.
LEMMA LoadingStep ==
    ASSUME DelegationInv, NEW s \in Sessions,
           \/ \E a \in Agents : OpenDelegation(s, a)
           \/ StartChain(s)
           \/ \E c \in Chains : LoadChain(s, c)
           \/ LoadHeld(s)
           \/ LoadBound(s)
           \/ \E a \in Agents, cascade \in BOOLEAN : OpenKill(s, a, cascade)
           \/ AbandonCall(s)
    PROVE  Moves(s)
<1>0. /\ api[s] \in Call /\ CallInv(s) /\ s \in DOMAIN api
      /\ hops \in Seq(Hop) /\ overlapped \in BOOLEAN
      /\ chain \in [Chains -> ChainRow]
  BY DEF DelegationInv, TypeOK, CallsInv
<1>1. ASSUME NEW a \in Agents, OpenDelegation(s, a) PROVE Moves(s)
  <2>1. PICK req : req = [Idle EXCEPT !.pc = "agent", !.agent = a,
                                        !.own = agent[a].capabilities,
                                        !.limit = agent[a].limit]
    OBVIOUS
  <2>2. agent[a].capabilities \in SUBSET Capabilities /\ agent[a].limit \in Nat
    BY BoundsAreNats DEF DelegationInv, TypeOK, AgentRow
  <2>3. req \in Call
    BY <2>1, <2>2, IdleIsCall DEF Idle, Call
  <2>4. Starts(s, req) /\ UNCHANGED Stored
    BY <1>1, <2>1 DEF OpenDelegation, Stored, history
  <2>5. /\ req.pc = "agent" /\ req.agent = a
        /\ req.own = agent[a].capabilities /\ req.limit = agent[a].limit
    BY <2>1 DEF Idle
  <2>6. QED BY <2>3, <2>4, <2>5, StartMoves
<1>2. ASSUME StartChain(s) PROVE Moves(s)
  <2>1. UNCHANGED <<Stored, overlapped>> /\ api[s].pc \in {"agent", "chain"}
    BY <1>2 DEF StartChain, Stored, history
  <2>2. PICK mine, next : mine = api[s].own /\ next = 1
    OBVIOUS
  <2>3. CheckGrant(s, next, mine)
    BY <1>2, <2>2 DEF StartChain, NextDepth
  <2>4. \A g \in SUBSET Capabilities :
            g \subseteq mine => Granted(api[s].agent, api[s].chain, g, Len(hops))
    BY <1>0, <1>2, <2>2 DEF StartChain, CallInv, Granted
  <2>5. QED BY <2>1, <2>2, <2>3, <2>4, CheckGrantMoves
<1>3. ASSUME NEW c \in Chains, LoadChain(s, c) PROVE Moves(s)
  <2>1. chain[c].total \in Nat /\ chain[c].deepest \in Nat
    BY <1>0 DEF ChainRow
  <2>2. PICK total \in Nat, next \in Nat :
            total = chain[c].total /\ next = NextDepth(chain[c].deepest) /\ next >= 1
    BY <2>1 DEF NextDepth
  <2>3. api' = [api EXCEPT ![s] =
                  [@ EXCEPT !.pc = "chain", !.chain = c, !.total = total,
                            !.next = next]]
    BY <1>3, <2>2 DEF LoadChain
  <2>4. api'[s] = [api[s] EXCEPT !.pc = "chain", !.chain = c, !.total = total,
                                 !.next = next]
    BY <1>0, <2>3
  <2>5. api'[s] \in Call
    BY <1>0, <2>4 DEF Call
  <2>6. api[s].pc = "agent" /\ UNCHANGED <<Stored, overlapped>>
    BY <1>3 DEF LoadChain, Stored, history
  <2>7. CallInv(s)'
    BY <1>0, <2>2, <2>4, <2>6 DEF CallInv, Stored, Call
  <2>8. QED BY <1>0, <2>3, <2>4, <2>5, <2>6, <2>7 DEF Moves
<1>4. ASSUME LoadHeld(s) PROVE Moves(s)
  <2>1. UNCHANGED <<Stored, overlapped>> /\ api[s].pc = "chain"
    BY <1>4 DEF LoadHeld, Stored, history
  <2>2. PICK next \in Nat : next = api[s].next /\ next >= 1
    BY <1>0, <2>1 DEF CallInv, Call
  <2>3. PICK held : /\ CheckGrant(s, next, held)
                    /\ \A g \in SUBSET Capabilities :
                          g \subseteq held =>
                              Granted(api[s].agent, api[s].chain, g, Len(hops))
    <3>1. CASE CheckGrant(s, api[s].next, api[s].own)
      <4>1. PICK mine : mine = api[s].own
        OBVIOUS
      <4>2. \A g : g \subseteq mine => Granted(api[s].agent, api[s].chain, g, Len(hops))
        BY <1>0, <2>1, <4>1 DEF CallInv, Granted
      <4>3. QED BY <3>1, <2>2, <4>1, <4>2
    <3>2. ASSUME NEW i \in DeepestTo(api[s].chain, api[s].agent),
                 CheckGrant(s, api[s].next, hops[i].capabilities)
          PROVE  \E held : /\ CheckGrant(s, next, held)
                           /\ \A g \in SUBSET Capabilities :
                                g \subseteq held =>
                                   Granted(api[s].agent, api[s].chain, g, Len(hops))
      <4>1. PICK held : held = hops[i].capabilities
        OBVIOUS
      <4>2. /\ i \in 1 .. Len(hops)
            /\ hops[i].chain = api[s].chain /\ hops[i].to = api[s].agent
        BY <1>0 DEF DeepestTo, HopsTo
      <4>3. \A g : g \subseteq held => Granted(api[s].agent, api[s].chain, g, Len(hops))
        BY <4>1, <4>2 DEF Granted
      <4>4. QED BY <3>2, <2>2, <4>1, <4>3
    <3>3. QED BY <1>4, <3>1, <3>2 DEF LoadHeld
  <2>4. QED BY <2>1, <2>2, <2>3, CheckGrantMoves
<1>5. ASSUME LoadBound(s) PROVE Moves(s)
  <2>1. UNCHANGED <<Stored, overlapped>> /\ api[s].pc = "held"
    BY <1>5 DEF LoadBound, Stored, history
  <2>2. PICK bound \in Times : CheckBound(s, bound)
    <3>1. CASE CheckBound(s, Never)
      BY <3>1, BoundsAreNats DEF Times, Never
    <3>2. ASSUME NEW i \in DeepestTo(api[s].chain, api[s].agent),
                 CheckBound(s, hops[i].expires)
          PROVE  \E bound \in Times : CheckBound(s, bound)
      <4>1. i \in 1 .. Len(hops)
        BY <1>0 DEF DeepestTo, HopsTo
      <4>2. hops[i].expires \in Times
        <5>1. hops[i] \in Hop
          BY <1>0, <4>1
        <5>2. QED BY <5>1 DEF Hop
      <4>3. PICK bound : bound = hops[i].expires
        OBVIOUS
      <4>4. QED BY <3>2, <4>2, <4>3
    <3>3. QED BY <1>5, <3>1, <3>2 DEF LoadBound
  <2>3. QED BY <2>1, <2>2, CheckBoundMoves
<1>6. ASSUME NEW a \in Agents, NEW cascade \in BOOLEAN, OpenKill(s, a, cascade)
      PROVE  Moves(s)
  <2>1. PICK dooms \in SUBSET Chains :
            dooms = {c \in Chains : /\ cascade
                                    /\ chain[c].status = "active"
                                    /\ chain[c].root = a}
    OBVIOUS
  <2>2. PICK req : req = [Idle EXCEPT !.pc = "killing", !.agent = a,
                                        !.seen = agent[a].status, !.dooms = dooms]
    OBVIOUS
  <2>3. agent[a].status \in {"active", "suspended"}
    BY DEF DelegationInv, TypeOK, AgentRow
  <2>4. req \in Call /\ req.agent = a /\ req.pc = "killing"
    BY <2>2, <2>3, IdleIsCall DEF Idle, Call
  <2>5. Starts(s, req) /\ UNCHANGED Stored
    BY <1>6, <2>1, <2>2 DEF OpenKill, Stored, history
  <2>6. QED BY <2>4, <2>5, StartMoves
<1>7. ASSUME AbandonCall(s) PROVE Moves(s)
  <2>1. Ends(s) /\ UNCHANGED Stored
    BY <1>7 DEF AbandonCall, Stored, history
  <2>2. QED BY <2>1, EndMoves DEF Moves
<1>8. QED BY <1>1, <1>2, <1>3, <1>4, <1>5, <1>6, <1>7

-----------------------------------------------------------------------------
(* The commits                                                             *)

LEMMA ChainAfterRow ==
    ASSUME TypeOK, NEW s \in Sessions, api[s].agent \in Agents,
           NEW c \in Chains, Target(s, c)
    PROVE  /\ ChainAfter(s, c) \in ChainRow
           /\ \/ ChainAfter(s, c).status = chain[c].status
              \/ /\ chain[c].status = "absent"
                 /\ ChainAfter(s, c).status = "active"
<1>1. CASE api[s].chain = NoChain
  BY <1>1, IdleIsCall DEF ChainAfter, Target, NoRow, ChainRow, TypeOK
<1>2. CASE api[s].chain # NoChain
  BY <1>2 DEF ChainAfter, TypeOK
<1>3. QED BY <1>1, <1>2

\* Steps that leave the hops alone keep what is said of them.
LEMMA HopsKept ==
    ASSUME DelegationInv, Growth, UNCHANGED hops
    PROVE  HopsAreGranted' /\ CapabilitiesHaveAnOrigin' /\ DepthWithinLimit'
<1>0. /\ hops \in Seq(Hop) /\ highest \in [Agents -> Nat]
      /\ \A i \in DOMAIN hops : /\ i \in 1 .. Len(hops)
                               /\ hops[i].from \in Agents /\ hops[i].depth \in Nat
  <2>1. hops \in Seq(Hop) /\ highest \in [Agents -> Nat]
    BY DEF DelegationInv, TypeOK
  <2>2. ASSUME NEW i \in DOMAIN hops
        PROVE  i \in 1 .. Len(hops) /\ hops[i].from \in Agents /\ hops[i].depth \in Nat
    <3>1. hops[i] \in Hop /\ i \in 1 .. Len(hops)
      BY <2>1
    <3>2. QED BY <3>1 DEF Hop
  <2>3. QED BY <2>1, <2>2
<1>1. HopsAreGranted'
  BY <1>0 DEF DelegationInv, HopsAreGranted, GrantedBefore, Granted, Growth
<1>2. CapabilitiesHaveAnOrigin'
  <2>1. ASSUME NEW i \in DOMAIN hops, NEW p \in hops[i].capabilities
        PROVE  \E j \in 1 .. i : /\ hops[j].chain = hops[i].chain
                                /\ p \in hops[j].capabilities
                                /\ p \in registered'[hops[j].from]
    <3>1. PICK j \in 1 .. i : /\ hops[j].chain = hops[i].chain
                             /\ p \in hops[j].capabilities
                             /\ p \in registered[hops[j].from]
      BY DEF DelegationInv, CapabilitiesHaveAnOrigin
    <3>2. j \in DOMAIN hops
      BY <1>0
    <3>3. QED BY <1>0, <3>1, <3>2 DEF Growth
  <2>2. QED BY <2>1 DEF CapabilitiesHaveAnOrigin
<1>3. DepthWithinLimit'
  <2>1. ASSUME NEW i \in DOMAIN hops
        PROVE  hops[i].depth >= 1 /\ hops[i].depth <= highest'[hops[i].from]
    <3>1. hops[i].depth >= 1 /\ hops[i].depth <= highest[hops[i].from]
      BY DEF DelegationInv, DepthWithinLimit
    <3>2. /\ highest[hops[i].from] \in Nat /\ highest'[hops[i].from] \in Nat
          /\ highest[hops[i].from] <= highest'[hops[i].from]
      BY <1>0 DEF Growth
    <3>3. QED BY <1>0, <3>1, <3>2
  <2>2. QED BY <2>1 DEF DepthWithinLimit
<1>4. QED BY <1>1, <1>2, <1>3

LEMMA RefusalStep ==
    ASSUME DelegationInv, NEW s \in Sessions, NEW c \in Chains, CommitRefusal(s, c)
    PROVE  DelegationInv'
<1> USE DEF DelegationInv
<1>0. /\ api[s].pc = "refused" /\ api[s] \in Call /\ CallInv(s) /\ Ends(s)
      /\ UNCHANGED <<agent, hops, updates, registered, highest>>
  BY DEF CommitRefusal, TypeOK, CallsInv, history
<1>1. api[s].agent \in Agents /\ api[s].refusal \in Reasons
  BY <1>0 DEF CallInv
<1>2. PICK x \in Incident : /\ x.chain = c
                           /\ incidents' = incidents \cup {x}
  BY <1>1 DEF CommitRefusal, Incident
<1>3. PICK row \in ChainRow : /\ row.status = "violated"
                             /\ chain' = [chain EXCEPT ![c] = row]
  <2>1. ChainAfter(s, c) \in ChainRow
    BY <1>1, ChainAfterRow DEF CommitRefusal
  <2>2. PICK row : row = [ChainAfter(s, c) EXCEPT !.status = "violated"]
    OBVIOUS
  <2>3. row \in ChainRow /\ row.status = "violated"
    BY <2>1, <2>2 DEF ChainRow
  <2>4. QED BY <2>2, <2>3 DEF CommitRefusal, AfterRefusal
<1>4. /\ overlapped' \in BOOLEAN /\ api'[s] \in Call
      /\ api' = [api EXCEPT ![s] = api'[s]] /\ CallInv(s)'
  BY <1>0, EndMoves
<1>5. TypeOK'
  BY <1>0, <1>2, <1>3, <1>4 DEF TypeOK
<1>6. Growth
  BY <1>0 DEF Growth, TypeOK
<1>7. CallsInv'
  <2>1. \A t \in Sessions \ {s} : api'[t] = api[t]
    BY <1>4 DEF TypeOK
  <2>2. QED BY <1>4, <1>6, <2>1, CallsKept
<1>8. HopsAreGranted' /\ CapabilitiesHaveAnOrigin' /\ DepthWithinLimit'
  BY <1>0, <1>6, HopsKept
<1>9. AgentsInv'
  BY <1>0 DEF AgentsInv
<1>10. RefusalsAreRecorded'
  BY <1>2, <1>3 DEF RefusalsAreRecorded, TypeOK, Incident
<1>11. QED BY <1>5, <1>7, <1>8, <1>9, <1>10

LEMMA KillStep ==
    ASSUME DelegationInv, NEW s \in Sessions, CommitKill(s) PROVE DelegationInv'
<1> USE DEF DelegationInv
<1>0. /\ api[s].pc = "killing" /\ api[s] \in Call /\ CallInv(s) /\ Ends(s)
      /\ UNCHANGED <<hops, incidents, updates, registered, highest>>
  BY DEF CommitKill, TypeOK, CallsInv, history
<1>1. agent' \in [Agents -> AgentRow]
  <2>1. \A a \in Agents : \A x \in {"active", "suspended"} :
            [agent[a] EXCEPT !.status = x] \in AgentRow
    BY DEF TypeOK, AgentRow
  <2>2. \A a \in Agents : agent[a].status \in {"active", "suspended"}
    BY DEF TypeOK, AgentRow
  <2>3. CASE api[s].seen = "suspended"
    BY <2>1, <2>2, <2>3 DEF CommitKill, TypeOK
  <2>4. CASE api[s].seen # "suspended"
    BY <2>1, <2>4 DEF CommitKill, TypeOK
  <2>5. QED BY <2>3, <2>4
<1>2. \A a \in Agents : /\ agent'[a].capabilities = agent[a].capabilities
                        /\ agent'[a].limit = agent[a].limit
  BY DEF CommitKill, TypeOK, AgentRow
<1>3. \A c \in Chains : /\ chain'[c] \in ChainRow
                        /\ chain'[c].status \in {chain[c].status, "terminated"}
  BY DEF CommitKill, TypeOK, ChainRow
<1>4. /\ overlapped' \in BOOLEAN /\ api'[s] \in Call
      /\ api' = [api EXCEPT ![s] = api'[s]] /\ CallInv(s)'
  BY <1>0, EndMoves
<1>5. chain' \in [Chains -> ChainRow]
  BY <1>3, Zenon DEF CommitKill
<1>6. TypeOK'
  BY <1>0, <1>1, <1>4, <1>5 DEF TypeOK
<1>7. Growth
  BY <1>0 DEF Growth, TypeOK
<1>8. CallsInv'
  <2>1. \A t \in Sessions \ {s} : api'[t] = api[t]
    BY <1>4 DEF TypeOK
  <2>2. QED BY <1>4, <1>7, <2>1, CallsKept
<1>9. HopsAreGranted' /\ CapabilitiesHaveAnOrigin' /\ DepthWithinLimit'
  BY <1>0, <1>7, HopsKept
<1>10. AgentsInv'
  BY <1>0, <1>2 DEF AgentsInv
<1>11. RefusalsAreRecorded'
  BY <1>0, <1>3 DEF RefusalsAreRecorded, TypeOK, Incident
<1>12. QED BY <1>6, <1>8, <1>9, <1>10, <1>11

LEMMA UpdateStep ==
    ASSUME DelegationInv, NEW a \in Agents, NEW row \in AgentRow, UpdateAgent(a, row)
    PROVE  DelegationInv'
<1> USE DEF DelegationInv
<1>0. /\ UNCHANGED <<chain, hops, incidents, api, overlapped>>
      /\ row.capabilities \in SUBSET Capabilities /\ row.limit \in Nat
  BY BoundsAreNats DEF UpdateAgent, AgentRow
<1>1. TypeOK'
  BY <1>0 DEF UpdateAgent, TypeOK
<1>2. Growth
  BY <1>0 DEF UpdateAgent, TypeOK, Growth
<1>3. CallsInv'
  BY <1>0, <1>2, CallKept DEF CallsInv
<1>4. HopsAreGranted' /\ CapabilitiesHaveAnOrigin' /\ DepthWithinLimit'
  BY <1>0, <1>2, HopsKept
<1>5. AgentsInv'
  <2>1. ASSUME NEW b \in Agents
        PROVE  /\ agent'[b].capabilities \subseteq registered'[b]
               /\ agent'[b].limit <= highest'[b]
    BY <1>0 DEF UpdateAgent, TypeOK, AgentsInv
  <2>2. QED BY <2>1 DEF AgentsInv
<1>6. RefusalsAreRecorded'
  BY <1>0 DEF RefusalsAreRecorded
<1>7. QED BY <1>1, <1>3, <1>4, <1>5, <1>6

LEMMA HopStep ==
    ASSUME DelegationInv, NEW s \in Sessions, NEW c \in Chains, NEW b \in Agents,
           CommitHop(s, c, b)
    PROVE  DelegationInv'
<1> USE DEF DelegationInv
<1>0. /\ api[s].pc = "bound" /\ api[s] \in Call /\ CallInv(s) /\ Ends(s)
      /\ Target(s, c) /\ hops \in Seq(Hop) /\ Len(hops) \in Nat
      /\ UNCHANGED <<agent, incidents, updates, registered, highest>>
  BY DEF CommitHop, TypeOK, CallsInv, history
<1>1. /\ api[s].agent \in Agents /\ api[s].next \in Nat /\ api[s].next >= 1
      /\ api[s].next <= highest[api[s].agent]
      /\ api[s].grants \in SUBSET Capabilities
      /\ Granted(api[s].agent, api[s].chain, api[s].grants, Len(hops))
  BY <1>0 DEF CallInv, Call
<1>2. PICK hop \in Hop :
          /\ hop.chain = c /\ hop.from = api[s].agent /\ hop.depth = api[s].next
          /\ hop.capabilities = api[s].grants
          /\ hops' = Append(hops, hop)
  <2>1. PICK hop : hop = [chain |-> c, from |-> api[s].agent, to |-> b,
                          depth |-> api[s].next, capabilities |-> api[s].grants,
                          expires |-> api[s].expires]
    OBVIOUS
  <2>2. hop \in Hop
    BY <1>0, <1>1, <2>1 DEF Hop, Call
  <2>3. QED BY <2>1, <2>2 DEF CommitHop
<1>3. PICK row \in ChainRow :
          /\ chain' = [chain EXCEPT ![c] = row]
          /\ \/ row.status = chain[c].status
             \/ chain[c].status = "absent" /\ row.status = "active"
  <2>1. /\ ChainAfter(s, c) \in ChainRow
        /\ \/ ChainAfter(s, c).status = chain[c].status
           \/ chain[c].status = "absent" /\ ChainAfter(s, c).status = "active"
    BY <1>0, <1>1, ChainAfterRow
  <2>2. api[s].total + 1 \in Nat
    BY <1>0 DEF Call
  <2>3. PICK row : row = [ChainAfter(s, c) EXCEPT !.total = api[s].total + 1,
                                                  !.deepest = api[s].next]
    OBVIOUS
  <2>4. row \in ChainRow /\ row.status = ChainAfter(s, c).status
    BY <1>1, <2>1, <2>2, <2>3 DEF ChainRow
  <2>5. QED BY <2>1, <2>3, <2>4 DEF CommitHop
<1>4. /\ overlapped' \in BOOLEAN /\ api'[s] \in Call
      /\ api' = [api EXCEPT ![s] = api'[s]] /\ CallInv(s)'
  BY <1>0, EndMoves
<1>5. /\ hops' \in Seq(Hop) /\ Len(hops') = Len(hops) + 1
      /\ \A i \in 1 .. Len(hops) : hops'[i] = hops[i]
      /\ hops'[Len(hops) + 1] = hop
      /\ DOMAIN hops' = 1 .. Len(hops) + 1 /\ DOMAIN hops = 1 .. Len(hops)
  BY <1>0, <1>2
<1>6. TypeOK'
  BY <1>0, <1>3, <1>4, <1>5 DEF TypeOK
<1>7. Growth
  <2>1. \A a \in Agents : /\ registered[a] \subseteq registered'[a]
                          /\ highest[a] <= highest'[a] /\ highest'[a] \in Nat
    BY <1>0 DEF TypeOK
  <2>2. QED BY <1>0, <1>5, <2>1 DEF Growth
<1>8. CallsInv'
  <2>1. \A t \in Sessions \ {s} : api'[t] = api[t]
    BY <1>4 DEF TypeOK
  <2>2. QED BY <1>4, <1>7, <2>1, CallsKept
<1>9. AgentsInv'
  BY <1>0 DEF AgentsInv
\* A new hop's grant goes back to a hop of its own chain, or to what its agent
\* had registered; a new chain has no hops.
<1>10. \/ hop.capabilities \subseteq registered[hop.from]
       \/ \E j \in 1 .. Len(hops) : /\ hops[j].chain = c
                                   /\ hops[j].to = hop.from
                                   /\ hop.capabilities \subseteq hops[j].capabilities
  <2>1. CASE api[s].grants \subseteq registered[api[s].agent]
    BY <1>2, <2>1
  <2>2. ASSUME NEW j \in 1 .. Len(hops), hops[j].chain = api[s].chain,
               hops[j].to = api[s].agent, api[s].grants \subseteq hops[j].capabilities
        PROVE  hops[j].chain = c
    <3>1. hops[j] \in Hop
      BY <1>0
    <3>2. hops[j].chain \in Chains
      BY <3>1 DEF Hop
    <3>3. QED BY <1>0, <2>2, <3>2, NullsAreNotIds DEF Target
  <2>3. QED BY <1>1, <1>2, <2>1, <2>2 DEF Granted
<1>11. HopsAreGranted'
  <2>1. ASSUME NEW i \in 1 .. Len(hops) + 1 PROVE GrantedBefore(i)'
    <3>1. CASE i = Len(hops) + 1
      <4>1. hops'[i] = hop /\ i - 1 = Len(hops)
        BY <1>0, <1>5, <3>1
      <4>2. QED BY <1>0, <1>2, <1>5, <1>10, <4>1 DEF GrantedBefore, Granted
    <3>2. CASE i # Len(hops) + 1
      <4>1. i \in 1 .. Len(hops) /\ i - 1 \in 0 .. Len(hops)
        BY <1>0, <3>2
      <4>2. GrantedBefore(i)
        BY <1>5, <4>1 DEF HopsAreGranted
      <4>3. \A j \in 1 .. i - 1 : hops'[j] = hops[j]
        BY <1>0, <1>5, <4>1
      <4>4. hops'[i] = hops[i]
        BY <1>5, <4>1
      <4>5. QED BY <1>0, <4>2, <4>3, <4>4 DEF GrantedBefore, Granted
    <3>3. QED BY <3>1, <3>2
  <2>2. QED BY <1>5, <2>1 DEF HopsAreGranted
<1>12. CapabilitiesHaveAnOrigin'
  <2>0. \A i \in 1 .. Len(hops) : \A p \in hops[i].capabilities :
            \E j \in 1 .. i : /\ j \in 1 .. Len(hops)
                              /\ hops[j].chain = hops[i].chain
                              /\ p \in hops[j].capabilities
                              /\ p \in registered[hops[j].from]
    BY <1>0, <1>5 DEF CapabilitiesHaveAnOrigin
  <2>1. ASSUME NEW i \in 1 .. Len(hops) + 1, NEW p \in hops'[i].capabilities
        PROVE  \E j \in 1 .. i : /\ hops'[j].chain = hops'[i].chain
                                /\ p \in hops'[j].capabilities
                                /\ p \in registered'[hops'[j].from]
    <3>1. CASE i = Len(hops) + 1
      <4>1. hops'[i] = hop
        BY <1>5, <3>1
      <4>2. CASE p \in registered[hop.from]
        BY <1>0, <4>1, <4>2, <2>1
      <4>3. CASE p \notin registered[hop.from]
        <5>1. PICK j \in 1 .. Len(hops) : /\ hops[j].chain = c
                                         /\ p \in hops[j].capabilities
          BY <1>10, <4>1, <4>3, <2>1
        <5>2. PICK k \in 1 .. Len(hops) : /\ k <= j
                                         /\ hops[k].chain = c
                                         /\ p \in hops[k].capabilities
                                         /\ p \in registered[hops[k].from]
          BY <1>0, <2>0, <5>1
        <5>3. hops'[k] = hops[k] /\ k \in 1 .. i
          BY <1>0, <1>5, <3>1
        <5>4. QED BY <1>0, <1>2, <4>1, <5>2, <5>3
      <4>4. QED BY <4>2, <4>3
    <3>2. CASE i # Len(hops) + 1
      <4>1. i \in 1 .. Len(hops) /\ hops'[i] = hops[i]
        BY <1>0, <1>5, <3>2
      <4>2. PICK j \in 1 .. i : /\ j \in 1 .. Len(hops)
                               /\ hops[j].chain = hops[i].chain
                               /\ p \in hops[j].capabilities
                               /\ p \in registered[hops[j].from]
        BY <2>0, <4>1
      <4>3. hops'[j] = hops[j]
        BY <1>5, <4>2
      <4>4. QED BY <1>0, <4>1, <4>2, <4>3
    <3>3. QED BY <3>1, <3>2
  <2>2. QED BY <1>5, <2>1 DEF CapabilitiesHaveAnOrigin
<1>13. DepthWithinLimit'
  <2>1. ASSUME NEW i \in 1 .. Len(hops) + 1
        PROVE  hops'[i].depth >= 1 /\ hops'[i].depth <= highest'[hops'[i].from]
    <3>1. CASE i = Len(hops) + 1
      BY <1>0, <1>1, <1>2, <1>5, <3>1
    <3>2. CASE i # Len(hops) + 1
      <4>1. i \in 1 .. Len(hops)
        BY <1>0, <3>2
      <4>2. QED BY <1>0, <1>5, <4>1 DEF DepthWithinLimit
    <3>3. QED BY <3>1, <3>2
  <2>2. QED BY <1>5, <2>1 DEF DepthWithinLimit
<1>14. RefusalsAreRecorded'
  BY <1>0, <1>3 DEF RefusalsAreRecorded, TypeOK, Incident
<1>15. QED BY <1>6, <1>8, <1>9, <1>11, <1>12, <1>13, <1>14

-----------------------------------------------------------------------------
(* The theorems                                                            *)

LEMMA InvStep == DelegationInv /\ [Next]_vars => DelegationInv'
<1> SUFFICES ASSUME DelegationInv, [Next]_vars PROVE DelegationInv'
  OBVIOUS
<1>1. ASSUME NEW s \in Sessions, Step(s) PROVE DelegationInv'
  <2>1. CASE \E c \in Chains : CommitRefusal(s, c)
    BY <2>1, RefusalStep
  <2>2. CASE \E c \in Chains, b \in Agents : CommitHop(s, c, b)
    BY <2>2, HopStep
  <2>3. CASE CommitKill(s)
    BY <2>3, KillStep
  <2>4. CASE \/ \E a \in Agents : OpenDelegation(s, a)
             \/ StartChain(s)
             \/ \E c \in Chains : LoadChain(s, c)
             \/ LoadHeld(s)
             \/ LoadBound(s)
             \/ \E a \in Agents, cascade \in BOOLEAN : OpenKill(s, a, cascade)
             \/ AbandonCall(s)
    <3>1. Moves(s)
      BY <2>4, LoadingStep
    <3>2. QED BY <3>1, MoveKeepsInv
  <2>5. QED BY <1>1, <2>1, <2>2, <2>3, <2>4 DEF Step
<1>2. CASE UNCHANGED vars
  BY <1>2 DEF vars, DelegationInv, TypeOK, AgentsInv, CallsInv, CallInv,
              HopsAreGranted, GrantedBefore, Granted, CapabilitiesHaveAnOrigin,
              DepthWithinLimit, RefusalsAreRecorded
<1>3. QED BY <1>1, <1>2, UpdateStep DEF Next

\* The inductive invariant holds in every reachable state.
THEOREM DelegationInvHolds == Spec => []DelegationInv
<1>1. QED BY InvInit, InvStep, PTL DEF Spec

\* Every row and every call keeps its type.
THEOREM DelegationTypeCorrect == Spec => []TypeOK
<1>1. DelegationInv => TypeOK
  BY DEF DelegationInv
<1>2. QED BY <1>1, DelegationInvHolds, PTL

\* However delegations, kills and updates overlap, no hop grants more than its
\* delegating agent was granted by one hop of the chain or had registered.
THEOREM HopsGranted == Spec => []HopsAreGranted
<1>1. DelegationInv => HopsAreGranted
  BY DEF DelegationInv
<1>2. QED BY <1>1, DelegationInvHolds, PTL

\* Whatever turns up in a chain was registered for an agent that delegated it
\* in that chain before.
THEOREM CapabilitiesOriginate == Spec => []CapabilitiesHaveAnOrigin
<1>1. DelegationInv => CapabilitiesHaveAnOrigin
  BY DEF DelegationInv
<1>2. QED BY <1>1, DelegationInvHolds, PTL

\* The race for max_depth_reached never lets an agent delegate deeper than the
\* limit it was given.
THEOREM DepthLimited == Spec => []DepthWithinLimit
<1>1. DelegationInv => DepthWithinLimit
  BY DEF DelegationInv
<1>2. QED BY <1>1, DelegationInvHolds, PTL

\* A refusal stays on record, whatever else is written to its chain.
THEOREM RefusalsRecorded == Spec => []RefusalsAreRecorded
<1>1. DelegationInv => RefusalsAreRecorded
  BY DEF DelegationInv
<1>2. QED BY <1>1, DelegationInvHolds, PTL

-----------------------------------------------------------------------------
(* Calls that do not overlap                                               *)

\* The counters of chain c's row are those of its hops h, and a row that is not
\* there has none.
Counted(row, h, c) ==
    /\ row.total = row.deepest
    /\ \A i \in DOMAIN h : h[i].chain = c => h[i].depth <= row.deepest
    /\ \A d \in 1 .. row.deepest : \E i \in DOMAIN h : h[i].chain = c /\ h[i].depth = d
    /\ \A i, j \in DOMAIN h : h[i].chain = c /\ h[j].chain = c /\ i < j =>
           h[i].depth < h[j].depth
    /\ row.status = "absent" => \A i \in DOMAIN h : h[i].chain # c

\* Hop i brought agent a into chain c last.
Newest(h, c, a, i) ==
    /\ h[i].chain = c /\ h[i].to = a
    /\ \A k \in DOMAIN h : k > i => h[k].chain # c \/ h[k].to # a

Covers(h, c, a, grants) ==
    \A i \in DOMAIN h : Newest(h, c, a, i) => grants \subseteq h[i].capabilities

Outlasts(h, c, a, expires) ==
    \A i \in DOMAIN h : Newest(h, c, a, i) => expires <= h[i].expires

\* What a call carries is still so: nothing was committed since it loaded it.
Current(req, rows, h) ==
    /\ req.pc = "agent" => req.chain = NoChain /\ req.total = 0
    /\ req.pc = "chain" => req.chain \in Chains
    /\ req.pc \in {"held", "bound"} /\ req.chain = NoChain =>
           req.total = 0 /\ req.next = 1
    /\ req.pc \in {"chain", "held", "bound"} /\ req.chain \in Chains =>
           /\ rows[req.chain].status = "active"
           /\ req.total = rows[req.chain].total
           /\ req.next = rows[req.chain].deepest + 1
    /\ req.pc \in {"held", "bound"} => Covers(h, req.chain, req.agent, req.grants)
    /\ req.pc = "bound" => Outlasts(h, req.chain, req.agent, req.expires)

Alone == \A s, t \in Sessions : api[s].pc # "idle" /\ api[t].pc # "idle" => s = t

CoveredByOne ==
    \A i \in DOMAIN hops : \A j \in LastBefore(i) :
        /\ hops[i].capabilities \subseteq hops[j].capabilities
        /\ hops[i].expires <= hops[j].expires

SerialInv ==
    ~overlapped =>
        /\ Alone
        /\ \A c \in Chains : Counted(chain[c], hops, c)
        /\ \A s \in Sessions : Current(api[s], chain, hops)
        /\ CoveredByOne

LEMMA SerialInit == Init => SerialInv
<1> SUFFICES ASSUME Init PROVE SerialInv
  OBVIOUS
<1>1. hops = <<>> /\ \A s \in Sessions : api[s].pc = "idle"
  BY DEF Init, Idle
<1>2. \A c \in Chains : chain[c].total = 0 /\ chain[c].deepest = 0
  BY DEF Init, NoRow
<1>3. \A c \in Chains : Counted(chain[c], hops, c)
  BY <1>1, <1>2 DEF Counted
<1>4. \A s \in Sessions : Current(api[s], chain, hops)
  BY <1>1 DEF Current
<1>5. QED BY <1>1, <1>3, <1>4 DEF SerialInv, Alone, CoveredByOne

LEMMA HopTypes ==
    ASSUME TypeOK, NEW i \in DOMAIN hops
    PROVE  /\ i \in Nat /\ hops[i].chain \in Chains /\ hops[i].depth \in Nat
           /\ hops[i].expires \in Times
<1>1. i \in Nat /\ hops[i] \in Hop
  BY DEF TypeOK
<1>2. QED BY <1>1 DEF Hop

\* The deepest hop to an agent is the one that brought it in last.
LEMMA DeepestIsNewest ==
    ASSUME TypeOK, NEW c \in Chains, Counted(chain[c], hops, c), NEW a,
           NEW j \in DOMAIN hops, Newest(hops, c, a, j)
    PROVE  DeepestTo(c, a) = {j}
<1>1. /\ DOMAIN hops \subseteq Nat
      /\ \A i \in DOMAIN hops : hops[i].depth \in Nat
  BY HopTypes
<1>2. \A i \in HopsTo(c, a) : i # j => i < j
  BY <1>1 DEF HopsTo, Newest
<1>3. \A i \in HopsTo(c, a) : i # j => hops[i].depth < hops[j].depth
  BY <1>2 DEF HopsTo, Newest, Counted
<1>4. j \in HopsTo(c, a)
  BY DEF HopsTo, Newest
<1>5. HopsTo(c, a) \subseteq DOMAIN hops
  BY DEF HopsTo
<1>6. \A i \in HopsTo(c, a) : i # j => ~(hops[j].depth <= hops[i].depth)
  BY <1>1, <1>3, <1>4, <1>5
<1>7. \A i \in HopsTo(c, a) : hops[i].depth <= hops[j].depth
  BY <1>1, <1>3, <1>4, <1>5
<1>8. QED BY <1>4, <1>6, <1>7 DEF DeepestTo

\* A call that commits nothing.
LEMMA SerialMove ==
    ASSUME TypeOK, SerialInv, NEW s \in Sessions, NEW req,
           UNCHANGED <<chain, hops>>, api' = [api EXCEPT ![s] = req],
           ~overlapped' =>
              /\ ~overlapped
              /\ req.pc = "idle" \/ \A t \in Sessions \ {s} : api[t].pc = "idle"
              /\ Current(req, chain, hops)
    PROVE  SerialInv'
<1> SUFFICES ASSUME ~overlapped'
             PROVE  /\ Alone'
                    /\ \A c \in Chains : Counted(chain[c], hops, c)'
                    /\ \A t \in Sessions : Current(api[t], chain, hops)'
                    /\ CoveredByOne'
  BY DEF SerialInv
<1>1. api'[s] = req /\ \A t \in Sessions \ {s} : api'[t] = api[t]
  BY DEF TypeOK
<1>2. Alone'
  BY <1>1 DEF SerialInv, Alone
<1>3. \A t \in Sessions : Current(api'[t], chain', hops')
  BY <1>1 DEF SerialInv
<1>4. CoveredByOne'
  BY DEF SerialInv, CoveredByOne, LastBefore
<1>5. QED BY <1>2, <1>3, <1>4 DEF SerialInv

\* A call under way is the only one.
LEMMA SerialOthers ==
    ASSUME SerialInv, ~overlapped, NEW s \in Sessions, api[s].pc # "idle"
    PROVE  \A t \in Sessions \ {s} : api[t].pc = "idle"
BY DEF SerialInv, Alone

\* The checks of a grant: the call goes on with what was asked, or is refused.
LEMMA SerialGrant ==
    ASSUME TypeOK, SerialInv, NEW s \in Sessions, NEW next, NEW held,
           api[s].pc \in {"agent", "chain"}, CheckGrant(s, next, held),
           UNCHANGED <<chain, hops, overlapped>>,
           ~overlapped =>
              /\ api[s].chain = NoChain => api[s].total = 0 /\ next = 1
              /\ api[s].chain \in Chains =>
                    /\ chain[api[s].chain].status = "active"
                    /\ api[s].total = chain[api[s].chain].total
                    /\ next = chain[api[s].chain].deepest + 1
              /\ Covers(hops, api[s].chain, api[s].agent, held)
    PROVE  SerialInv'
<1>1. PICK grants, req :
         /\ grants \in SUBSET Capabilities
         /\ api' = [api EXCEPT ![s] = req]
         /\ req = IF next > api[s].limit
                   THEN [Idle EXCEPT !.pc = "refused", !.refusal = "depth_exceeded",
                              !.agent = api[s].agent, !.chain = api[s].chain]
                   ELSE IF Escalates(grants, held)
                   THEN [Idle EXCEPT !.pc = "refused", !.refusal = "capability_escalation",
                              !.agent = api[s].agent, !.chain = api[s].chain]
                   ELSE [Idle EXCEPT !.pc = "held", !.next = next, !.grants = grants,
                              !.agent = api[s].agent, !.chain = api[s].chain,
                              !.total = api[s].total]
  BY DEF CheckGrant
<1>2. \/ req.pc = "refused"
      \/ /\ req.pc = "held" /\ req.next = next /\ req.total = api[s].total
         /\ req.chain = api[s].chain /\ req.agent = api[s].agent
         /\ req.grants \subseteq held
  BY <1>1 DEF Idle, Escalates
<1>3. ASSUME ~overlapped PROVE Current(req, chain, hops)
  <2>1. CASE req.pc = "refused"
    BY <2>1 DEF Current
  <2>2. CASE req.pc = "held"
    <3>1. Covers(hops, req.chain, req.agent, req.grants)
      BY <1>2, <1>3, <2>2 DEF Covers
    <3>2. QED BY <1>2, <1>3, <2>2, <3>1 DEF Current
  <2>3. QED BY <1>2, <2>1, <2>2
<1>4. api[s].pc # "idle"
  OBVIOUS
<1>5. QED BY <1>1, <1>3, <1>4, SerialMove, SerialOthers

\* A call loads, checks, or is given up.
LEMMA SerialLoading ==
    ASSUME DelegationInv, SerialInv, NEW s \in Sessions,
           \/ \E a \in Agents : OpenDelegation(s, a)
           \/ StartChain(s)
           \/ \E c \in Chains : LoadChain(s, c)
           \/ LoadHeld(s)
           \/ LoadBound(s)
           \/ \E a \in Agents, cascade \in BOOLEAN : OpenKill(s, a, cascade)
           \/ AbandonCall(s)
    PROVE  SerialInv'
<1>0. TypeOK /\ api[s] \in Call
  BY DEF DelegationInv, TypeOK
<1>1. ASSUME NEW req, Starts(s, req), UNCHANGED <<chain, hops>>,
             Current(req, chain, hops)
      PROVE  SerialInv'
  <2>1. /\ api' = [api EXCEPT ![s] = req]
        /\ ~overlapped' => ~overlapped /\ \A t \in Sessions \ {s} : api[t].pc = "idle"
    BY <1>1 DEF Starts
  <2>2. QED BY <1>0, <1>1, <2>1, SerialMove
<1>2. ASSUME NEW a \in Agents, OpenDelegation(s, a) PROVE SerialInv'
  <2>1. PICK req : /\ req = [Idle EXCEPT !.pc = "agent", !.agent = a,
                                           !.own = agent[a].capabilities,
                                           !.limit = agent[a].limit]
                    /\ Starts(s, req)
    BY <1>2 DEF OpenDelegation
  <2>2. req.pc = "agent" /\ req.chain = NoChain /\ req.total = 0
    BY <2>1 DEF Idle
  <2>3. Current(req, chain, hops)
    BY <2>2 DEF Current
  <2>4. QED BY <1>1, <1>2, <2>1, <2>3 DEF OpenDelegation
<1>3. ASSUME NEW a \in Agents, NEW cascade \in BOOLEAN, OpenKill(s, a, cascade)
      PROVE  SerialInv'
  <2>1. PICK req : /\ req = [Idle EXCEPT !.pc = "killing", !.agent = a,
                                   !.seen = agent[a].status,
                                   !.dooms = {c \in Chains : /\ cascade
                                                             /\ chain[c].status = "active"
                                                             /\ chain[c].root = a}]
                    /\ Starts(s, req)
    BY <1>3 DEF OpenKill
  <2>2. req.pc = "killing"
    BY <2>1 DEF Idle
  <2>3. Current(req, chain, hops)
    BY <2>2 DEF Current
  <2>4. QED BY <1>1, <1>3, <2>1, <2>3 DEF OpenKill
<1>4. CASE StartChain(s)
  <2>1. /\ api[s].pc = "agent" /\ CheckGrant(s, 1, api[s].own)
        /\ UNCHANGED <<chain, hops, overlapped>>
    BY <1>4 DEF StartChain, NextDepth
  <2>2. ASSUME ~overlapped
        PROVE  /\ api[s].chain = NoChain /\ api[s].total = 0
               /\ Covers(hops, api[s].chain, api[s].agent, api[s].own)
    <3>1. api[s].chain = NoChain /\ api[s].total = 0
      BY <2>1, <2>2 DEF SerialInv, Current
    <3>2. QED BY <1>0, <3>1, HopTypes, NullsAreNotIds DEF Covers, Newest
  <2>3. QED BY <1>0, <2>1, <2>2, NullsAreNotIds, SerialGrant
<1>5. ASSUME NEW c \in Chains, LoadChain(s, c) PROVE SerialInv'
  <2>1. PICK req : /\ req = [api[s] EXCEPT !.pc = "chain", !.chain = c,
                                             !.total = chain[c].total,
                                             !.next = NextDepth(chain[c].deepest)]
                    /\ api' = [api EXCEPT ![s] = req]
    BY <1>5 DEF LoadChain
  <2>2. /\ req.pc = "chain" /\ req.chain = c /\ req.total = chain[c].total
        /\ req.next = chain[c].deepest + 1
    BY <1>0, <2>1 DEF Call, NextDepth
  <2>3. /\ chain[c].status = "active" /\ api[s].pc # "idle"
        /\ UNCHANGED <<chain, hops, overlapped>>
    BY <1>5 DEF LoadChain, Delegable
  <2>4. Current(req, chain, hops)
    BY <2>2, <2>3, NullsAreNotIds DEF Current
  <2>5. QED BY <1>0, <2>1, <2>3, <2>4, SerialMove, SerialOthers
<1>6. CASE LoadHeld(s)
  <2>1. /\ api[s].pc = "chain" /\ UNCHANGED <<chain, hops, overlapped>>
    BY <1>6 DEF LoadHeld
  <2>2. PICK held :
           /\ CheckGrant(s, api[s].next, held)
           /\ \/ DeepestTo(api[s].chain, api[s].agent) = {}
              \/ \E i \in DeepestTo(api[s].chain, api[s].agent) :
                    held = hops[i].capabilities
    BY <1>6 DEF LoadHeld
  <2>3. ASSUME ~overlapped
        PROVE  /\ api[s].chain \in Chains
               /\ chain[api[s].chain].status = "active"
               /\ api[s].total = chain[api[s].chain].total
               /\ api[s].next = chain[api[s].chain].deepest + 1
               /\ Covers(hops, api[s].chain, api[s].agent, held)
    <3>1. Current(api[s], chain, hops)
      BY <2>3 DEF SerialInv
    <3>2. api[s].chain \in Chains
      BY <2>1, <3>1 DEF Current
    <3>3. Counted(chain[api[s].chain], hops, api[s].chain)
      BY <2>3, <3>2 DEF SerialInv
    <3>4. \A j \in DOMAIN hops : Newest(hops, api[s].chain, api[s].agent, j) =>
             DeepestTo(api[s].chain, api[s].agent) = {j}
      BY <1>0, <3>2, <3>3, DeepestIsNewest
    <3>5. Covers(hops, api[s].chain, api[s].agent, held)
      BY <2>2, <3>4 DEF Covers
    <3>6. QED BY <2>1, <3>1, <3>2, <3>5 DEF Current
  <2>4. QED BY <1>0, <2>1, <2>2, <2>3, NullsAreNotIds, SerialGrant
<1>7. CASE LoadBound(s)
  <2>1. /\ api[s].pc = "held" /\ UNCHANGED <<chain, hops, overlapped>>
    BY <1>7 DEF LoadBound
  <2>2. PICK bound \in Times :
           /\ CheckBound(s, bound)
           /\ \/ DeepestTo(api[s].chain, api[s].agent) = {}
              \/ \E i \in DeepestTo(api[s].chain, api[s].agent) : bound = hops[i].expires
    <3>1. Never \in Times
      BY BoundsAreNats DEF Times, Never
    <3>2. \A i \in DOMAIN hops : hops[i].expires \in Times
      BY <1>0, HopTypes
    <3>3. QED BY <1>7, <3>1, <3>2 DEF LoadBound, DeepestTo, HopsTo
  <2>3. PICK asked, req :
           /\ asked \in Times
           /\ api' = [api EXCEPT ![s] = req]
           /\ req = IF Outlives(asked, bound)
                     THEN [Idle EXCEPT !.pc = "refused", !.refusal = "ttl_escalation",
                              !.agent = api[s].agent, !.chain = api[s].chain]
                     ELSE [api[s] EXCEPT !.pc = "bound", !.expires = Inherited(asked, bound)]
    BY <2>2 DEF CheckBound
  <2>4. \/ req.pc = "refused"
        \/ /\ req.pc = "bound" /\ req.next = api[s].next /\ req.total = api[s].total
           /\ req.chain = api[s].chain /\ req.agent = api[s].agent
           /\ req.grants = api[s].grants /\ req.expires = Inherited(asked, bound)
           /\ ~(Outlives(asked, bound))
    BY <1>0, <2>3 DEF Idle, Call
  <2>5. \/ req.pc = "refused"
        \/ req.expires <= bound
    BY <2>2, <2>3, <2>4, BoundsAreNats DEF Outlives, Inherited, Times, Never
  <2>6. ASSUME ~overlapped PROVE Current(req, chain, hops)
    <3>1. Current(api[s], chain, hops)
      BY <2>6 DEF SerialInv
    <3>2. CASE req.pc = "refused"
      BY <3>2 DEF Current
    <3>3. CASE req.pc = "bound"
      <4>1. \A j \in DOMAIN hops : Newest(hops, api[s].chain, api[s].agent, j) =>
               DeepestTo(api[s].chain, api[s].agent) = {j}
        <5>1. ASSUME NEW j \in DOMAIN hops, Newest(hops, api[s].chain, api[s].agent, j)
              PROVE  DeepestTo(api[s].chain, api[s].agent) = {j}
          <6>1. api[s].chain \in Chains
            BY <1>0, <5>1, HopTypes DEF Newest
          <6>2. Counted(chain[api[s].chain], hops, api[s].chain)
            BY <2>6, <6>1 DEF SerialInv
          <6>3. QED BY <1>0, <5>1, <6>1, <6>2, DeepestIsNewest
        <5>2. QED BY <5>1
      <4>2. \A j \in DOMAIN hops : Newest(hops, api[s].chain, api[s].agent, j) =>
               bound = hops[j].expires
        BY <2>2, <4>1
      <4>3. Outlasts(hops, req.chain, req.agent, req.expires)
        BY <2>4, <2>5, <3>3, <4>2 DEF Outlasts
      <4>4. Covers(hops, req.chain, req.agent, req.grants)
        BY <2>1, <2>4, <3>1, <3>3 DEF Current
      <4>5. QED BY <2>1, <2>4, <3>1, <3>3, <4>3, <4>4 DEF Current
    <3>4. QED BY <2>4, <3>2, <3>3
  <2>7. QED BY <1>0, <2>1, <2>3, <2>6, SerialMove, SerialOthers
<1>8. CASE AbandonCall(s)
  <2>1. /\ api' = [api EXCEPT ![s] = Idle] /\ UNCHANGED <<chain, hops, overlapped>>
    BY <1>8 DEF AbandonCall, Ends
  <2>2. Idle.pc = "idle"
    BY DEF Idle
  <2>3. Current(Idle, chain, hops)
    BY <2>2 DEF Current
  <2>4. QED BY <1>0, <2>1, <2>2, <2>3, SerialMove
<1>9. QED BY <1>2, <1>3, <1>4, <1>5, <1>6, <1>7, <1>8

\* A commit that adds no hop: only the call's own rows change, and only in status.
LEMMA SerialStatus ==
    ASSUME DelegationInv, SerialInv, NEW s \in Sessions, api[s].pc # "idle", Ends(s),
           UNCHANGED hops,
           ~overlapped =>
              \A c \in Chains : Counted(chain[c], hops, c) => Counted(chain'[c], hops, c)
    PROVE  SerialInv'
<1> SUFFICES ASSUME ~overlapped'
             PROVE  /\ Alone'
                    /\ \A c \in Chains : Counted(chain'[c], hops', c)
                    /\ \A t \in Sessions : Current(api'[t], chain', hops')
                    /\ CoveredByOne'
  BY DEF SerialInv
<1>1. api' = [api EXCEPT ![s] = Idle] /\ ~overlapped
  BY DEF Ends
<1>2. \A t \in Sessions : api'[t].pc = "idle"
  BY <1>1, SerialOthers DEF DelegationInv, TypeOK, Idle
<1>3. \A t \in Sessions : Current(api'[t], chain', hops')
  BY <1>2 DEF Current
<1>4. Alone'
  BY <1>2 DEF Alone
<1>5. CoveredByOne'
  BY <1>1 DEF SerialInv, CoveredByOne, LastBefore
<1>6. QED BY <1>1, <1>3, <1>4, <1>5 DEF SerialInv

LEMMA SerialRefusal ==
    ASSUME DelegationInv, SerialInv, NEW s \in Sessions, NEW c \in Chains,
           CommitRefusal(s, c)
    PROVE  SerialInv'
<1>0. /\ api[s].pc = "refused" /\ Target(s, c) /\ Ends(s) /\ UNCHANGED hops
      /\ chain \in [Chains -> ChainRow]
  BY DEF CommitRefusal, DelegationInv, TypeOK
<1>1. PICK row : /\ row = [ChainAfter(s, c) EXCEPT !.status = AfterRefusal]
                /\ chain' = [chain EXCEPT ![c] = row]
  BY DEF CommitRefusal
<1>2. /\ row.status = "violated"
      /\ \/ row.total = chain[c].total /\ row.deepest = chain[c].deepest
         \/ row.total = 0 /\ row.deepest = 0 /\ chain[c].status = "absent"
  BY <1>0, <1>1 DEF ChainAfter, Target, AfterRefusal, NoRow, ChainRow
<1>3. ASSUME Counted(chain[c], hops, c) PROVE Counted(row, hops, c)
  <2>1. CASE row.total = chain[c].total /\ row.deepest = chain[c].deepest
    BY <1>2, <1>3, <2>1 DEF Counted
  <2>2. CASE row.total = 0 /\ row.deepest = 0 /\ chain[c].status = "absent"
    <3>1. \A i \in DOMAIN hops : hops[i].chain # c
      BY <1>3, <2>2 DEF Counted
    <3>2. QED BY <1>2, <2>2, <3>1 DEF Counted
  <2>3. QED BY <1>2, <2>1, <2>2
<1>4. \A d \in Chains : Counted(chain[d], hops, d) => Counted(chain'[d], hops, d)
  BY <1>0, <1>1, <1>3
<1>5. QED BY <1>0, <1>4, SerialStatus

LEMMA SerialKill ==
    ASSUME DelegationInv, SerialInv, NEW s \in Sessions, CommitKill(s) PROVE SerialInv'
<1>0. /\ api[s].pc = "killing" /\ Ends(s) /\ UNCHANGED hops
      /\ api[s] \in Call /\ chain \in [Chains -> ChainRow]
  BY DEF CommitKill, DelegationInv, TypeOK
<1>1. \A c \in Chains : /\ chain'[c].total = chain[c].total
                        /\ chain'[c].deepest = chain[c].deepest
                        /\ chain'[c].status \in {chain[c].status, "terminated"}
  BY <1>0 DEF CommitKill, ChainRow
<1>2. \A c \in Chains : Counted(chain[c], hops, c) => Counted(chain'[c], hops, c)
  <2>1. ASSUME NEW c \in Chains, Counted(chain[c], hops, c)
        PROVE  Counted(chain'[c], hops, c)
    <3>1. chain'[c].status = "absent" => chain[c].status = "absent"
      BY <1>1
    <3>2. QED BY <1>1, <2>1, <3>1 DEF Counted
  <2>2. QED BY <2>1
<1>3. QED BY <1>0, <1>2, SerialStatus

LEMMA SerialUpdate ==
    ASSUME SerialInv, NEW a \in Agents, NEW row \in AgentRow, UpdateAgent(a, row)
    PROVE  SerialInv'
<1>1. UNCHANGED <<chain, hops, api, overlapped>>
  BY DEF UpdateAgent
<1>2. QED BY <1>1 DEF SerialInv, Alone, CoveredByOne, LastBefore

\* A new hop counts on from its chain's row, and is covered by the newest hop
\* to its agent.
LEMMA SerialHop ==
    ASSUME DelegationInv, SerialInv, NEW s \in Sessions, NEW c \in Chains, NEW b \in Agents,
           CommitHop(s, c, b)
    PROVE  SerialInv'
<1> SUFFICES ASSUME ~overlapped'
             PROVE  /\ Alone'
                    /\ \A d \in Chains : Counted(chain'[d], hops', d)
                    /\ \A t \in Sessions : Current(api'[t], chain', hops')
                    /\ CoveredByOne'
  BY DEF SerialInv
<1> DEFINE n == Len(hops)
<1>0. /\ api[s].pc = "bound" /\ Target(s, c) /\ TypeOK
      /\ api' = [api EXCEPT ![s] = Idle] /\ ~overlapped
      /\ chain \in [Chains -> ChainRow] /\ chain[c] \in ChainRow
      /\ hops \in Seq(Hop) /\ n \in Nat /\ DOMAIN hops = 1 .. n
      /\ Current(api[s], chain, hops) /\ Counted(chain[c], hops, c)
      /\ api[s] \in Call
  BY DEF CommitHop, DelegationInv, TypeOK, Ends, SerialInv
<1>1. \A t \in Sessions : api'[t].pc = "idle"
  BY <1>0, SerialOthers DEF TypeOK, Idle
<1>2. (\A t \in Sessions : Current(api'[t], chain', hops')) /\ Alone'
  BY <1>1 DEF Current, Alone
<1>3. PICK hop : /\ hop = [chain |-> c, from |-> api[s].agent, to |-> b,
                          depth |-> api[s].next, capabilities |-> api[s].grants,
                          expires |-> api[s].expires]
                /\ hops' = Append(hops, hop)
  BY DEF CommitHop
<1>4. PICK row : /\ row = [ChainAfter(s, c) EXCEPT !.total = api[s].total + 1,
                                                   !.deepest = api[s].next]
                /\ chain' = [chain EXCEPT ![c] = row]
  BY DEF CommitHop
<1>5. /\ hop.chain = c /\ hop.from = api[s].agent /\ hop.depth = api[s].next
      /\ hop.capabilities = api[s].grants /\ hop.expires = api[s].expires
  BY <1>3
<1>6. /\ DOMAIN hops' = 1 .. n + 1 /\ hops'[n + 1] = hop
      /\ \A i \in 1 .. n : hops'[i] = hops[i]
  BY <1>0, <1>3
<1>7. /\ row.total = api[s].total + 1 /\ row.deepest = api[s].next
      /\ row.status = "active"
  <2>1. ChainAfter(s, c).status = "active"
    BY <1>0 DEF ChainAfter, Target, Current, NoRow
  <2>2. ChainAfter(s, c) \in [status : {"active"}, root : Agents \cup {NoAgent},
                              total : Nat, deepest : Nat]
    <3>1. api[s].agent \in Agents \cup {NoAgent}
      BY <1>0 DEF Call
    <3>2. QED BY <1>0, <2>1, <3>1 DEF ChainAfter, NoRow, ChainRow
  <2>3. QED BY <1>4, <2>2
<1> HIDE DEF n
\* The row the hop counts on from.
<1>8. PICK deepest \in Nat :
         /\ api[s].total = deepest /\ api[s].next = deepest + 1
         /\ \A i \in 1 .. n : hops[i].chain = c => hops[i].depth <= deepest
         /\ \A d \in 1 .. deepest : \E i \in 1 .. n : hops[i].chain = c /\ hops[i].depth = d
  <2>1. CASE api[s].chain = NoChain
    <3>1. \A i \in 1 .. n : hops[i].chain # c
      BY <1>0, <2>1 DEF Target, Counted
    <3>2. api[s].total = 0 /\ api[s].next = 1
      BY <1>0, <2>1 DEF Current
    <3>3. QED BY <3>1, <3>2
  <2>2. CASE api[s].chain # NoChain
    <3>1. api[s].chain = c
      BY <1>0, <2>2 DEF Target
    <3>2. api[s].total = chain[c].total /\ api[s].next = chain[c].deepest + 1
      BY <1>0, <3>1 DEF Current
    <3>3. chain[c].deepest \in Nat /\ chain[c].total = chain[c].deepest
      BY <1>0 DEF ChainRow, Counted
    <3>4. QED BY <1>0, <3>2, <3>3 DEF Counted
  <2>3. QED BY <2>1, <2>2
<1>9. \A i \in 1 .. n : hops[i].depth \in Nat /\ hops[i].expires \in Times
  BY <1>0, HopTypes
<1>10. Counted(row, hops', c)
  <2>1. row.total = deepest + 1 /\ row.deepest = deepest + 1 /\ hop.depth = deepest + 1
    BY <1>5, <1>7, <1>8
  <2>2. \A i \in 1 .. n + 1 : hops'[i].chain = c => hops'[i].depth <= deepest + 1
    <3>1. \A i \in 1 .. n : hops'[i].chain = c => hops'[i].depth <= deepest + 1
      BY <1>6, <1>8, <1>9
    <3>2. QED BY <1>0, <1>6, <2>1, <3>1
  <2>3. ASSUME NEW d \in 1 .. deepest + 1
        PROVE  \E i \in 1 .. n + 1 : hops'[i].chain = c /\ hops'[i].depth = d
    <3>1. CASE d = deepest + 1
      BY <1>0, <1>5, <1>6, <2>1, <3>1
    <3>2. CASE d # deepest + 1
      <4>1. PICK i \in 1 .. n : hops[i].chain = c /\ hops[i].depth = d
        BY <1>8, <3>2
      <4>2. i \in 1 .. n + 1 /\ hops'[i] = hops[i]
        BY <1>0, <1>6
      <4>3. QED BY <4>1, <4>2
    <3>3. QED BY <3>1, <3>2
  <2>4. ASSUME NEW i \in 1 .. n + 1, NEW j \in 1 .. n + 1, hops'[i].chain = c,
               hops'[j].chain = c, i < j
        PROVE  hops'[i].depth < hops'[j].depth
    <3>1. i \in 1 .. n /\ hops'[i] = hops[i]
      BY <1>0, <1>6, <2>4
    <3>2. CASE j = n + 1
      <4>1. hops[i].depth \in Nat /\ hops[i].depth <= deepest
        BY <1>8, <1>9, <2>4, <3>1
      <4>2. hops'[j].depth = deepest + 1
        BY <1>6, <2>1, <3>2
      <4>3. QED BY <3>1, <4>1, <4>2
    <3>3. CASE j # n + 1
      <4>1. j \in 1 .. n /\ hops'[j] = hops[j]
        BY <1>0, <1>6, <3>3
      <4>2. QED BY <1>0, <2>4, <3>1, <4>1 DEF Counted
    <3>4. QED BY <3>2, <3>3
  <2>5. QED BY <1>6, <1>7, <2>1, <2>2, <2>3, <2>4 DEF Counted
<1>11. ASSUME NEW d \in Chains \ {c} PROVE Counted(chain'[d], hops', d)
  <2>1. chain'[d] = chain[d] /\ Counted(chain[d], hops, d)
    BY <1>0, <1>4 DEF SerialInv
  <2>2. \A i \in 1 .. n + 1 : hops'[i].chain = d => i \in 1 .. n /\ hops'[i] = hops[i]
    BY <1>0, <1>5, <1>6
  <2>3. \A i \in 1 .. n : i \in 1 .. n + 1 /\ hops'[i] = hops[i]
    BY <1>0, <1>6
  <2>4. QED BY <1>0, <1>6, <2>1, <2>2, <2>3 DEF Counted
<1>12. \A d \in Chains : Counted(chain'[d], hops', d)
  BY <1>0, <1>4, <1>10, <1>11
<1>13. \A j \in 1 .. n : Newest(hops, c, hop.from, j) =>
          hop.capabilities \subseteq hops[j].capabilities /\ hop.expires <= hops[j].expires
  <2>1. CASE api[s].chain = NoChain
    BY <1>0, <2>1 DEF Target, Counted, Newest
  <2>2. CASE api[s].chain # NoChain
    <3>1. api[s].chain = c
      BY <1>0, <2>2 DEF Target
    <3>2. QED BY <1>0, <1>5, <3>1 DEF Current, Covers, Outlasts
  <2>3. QED BY <2>1, <2>2
<1>14. CoveredByOne'
  <2>1. ASSUME NEW i \in 1 .. n + 1, NEW j \in 1 .. i - 1,
               hops'[j].chain = hops'[i].chain, hops'[j].to = hops'[i].from,
               \A k \in j + 1 .. i - 1 : \/ hops'[k].chain # hops'[i].chain
                                        \/ hops'[k].to # hops'[i].from
        PROVE  /\ hops'[i].capabilities \subseteq hops'[j].capabilities
               /\ hops'[i].expires <= hops'[j].expires
    <3>1. j \in 1 .. n /\ hops'[j] = hops[j]
      BY <1>0, <1>6
    <3>2. CASE i = n + 1
      <4>1. hops'[i] = hop /\ \A k \in 1 .. n : hops'[k] = hops[k]
        BY <1>6, <3>2
      <4>2. \A k \in 1 .. n : k > j => k \in j + 1 .. i - 1
        BY <1>0, <3>1, <3>2
      <4>3. \A k \in 1 .. n : k > j => hops[k].chain # c \/ hops[k].to # hop.from
        BY <1>5, <2>1, <4>1, <4>2
      <4>4. Newest(hops, c, hop.from, j)
        BY <1>0, <1>5, <2>1, <3>1, <4>1, <4>3 DEF Newest
      <4>5. QED BY <1>13, <3>1, <4>1, <4>4
    <3>3. CASE i # n + 1
      <4>1. i \in 1 .. n /\ hops'[i] = hops[i]
        BY <1>0, <1>6, <3>3
      <4>2. \A k \in j + 1 .. i - 1 : hops'[k] = hops[k]
        BY <1>0, <1>6, <3>1, <4>1
      <4>3. j \in LastBefore(i)
        BY <2>1, <3>1, <4>1, <4>2 DEF LastBefore
      <4>4. QED BY <1>0, <3>1, <4>1, <4>3 DEF SerialInv, CoveredByOne
    <3>4. QED BY <3>2, <3>3
  <2>2. QED BY <1>6, <2>1 DEF CoveredByOne, LastBefore
<1>15. QED BY <1>2, <1>12, <1>14

LEMMA SerialStep == DelegationInv /\ SerialInv /\ [Next]_vars => SerialInv'
<1> SUFFICES ASSUME DelegationInv, SerialInv, [Next]_vars PROVE SerialInv'
  OBVIOUS
<1>1. ASSUME NEW s \in Sessions, Step(s) PROVE SerialInv'
  BY <1>1, SerialLoading, SerialRefusal, SerialHop, SerialKill DEF Step
<1>2. CASE UNCHANGED vars
  <2>1. UNCHANGED <<chain, hops, api, overlapped>>
    BY <1>2 DEF vars
  <2>2. QED BY <2>1 DEF SerialInv, Alone, CoveredByOne, LastBefore
<1>3. QED BY <1>1, <1>2, SerialUpdate DEF Next

LEMMA SerialInvHolds == Spec => []SerialInv
BY InvInit, InvStep, SerialInit, SerialStep, PTL DEF Spec

\* As long as calls do not overlap, a chain's counters are those of its hops,
\* numbered without gaps.
THEOREM CountersTrue == Spec => []CountersAreTrue
<1>1. SerialInv => CountersAreTrue
  BY DEF SerialInv, Counted, CountersAreTrue, OfChain
<1>2. QED BY <1>1, SerialInvHolds, PTL

\* As long as calls do not overlap, a delegation never outlives the one that
\* authorized it, and one grant covers all it passes on.
THEOREM GrantsCovered == Spec => []OneGrantCovers
<1>1. SerialInv => OneGrantCovers
  BY DEF SerialInv, CoveredByOne, OneGrantCovers
<1>2. QED BY <1>1, SerialInvHolds, PTL

\* As long as calls do not overlap, a chain that was stopped takes no hop.
THEOREM StoppedChainsClosed == Spec => StoppedChainsTakeNoHops
<1>1. ASSUME DelegationInv, SerialInv, [Next]_vars, ~overlapped', NEW c \in Chains,
             chain[c].status \in {"violated", "terminated"}
      PROVE  OfChain(c)' = OfChain(c)
  <2>1. ASSUME NEW s \in Sessions, NEW d \in Chains, NEW b \in Agents, CommitHop(s, d, b)
        PROVE  OfChain(c)' = OfChain(c)
    <3>1. /\ api[s].pc = "bound" /\ Target(s, d) /\ ~overlapped
          /\ hops \in Seq(Hop) /\ Len(hops) \in Nat
      BY <1>1, <2>1 DEF CommitHop, Ends, DelegationInv, TypeOK
    <3>2. Current(api[s], chain, hops)
      BY <1>1, <3>1 DEF SerialInv
    <3>3. d # c
      BY <1>1, <3>1, <3>2 DEF Target, Current
    <3>4. PICK hop : hop.chain = d /\ hops' = Append(hops, hop)
      BY <2>1 DEF CommitHop
    <3>5. /\ DOMAIN hops = 1 .. Len(hops) /\ DOMAIN hops' = 1 .. Len(hops) + 1
          /\ hops'[Len(hops) + 1] = hop
          /\ \A i \in 1 .. Len(hops) : hops'[i] = hops[i]
      BY <3>1, <3>4
    <3>6. QED BY <3>1, <3>3, <3>4, <3>5 DEF OfChain
  <2>2. CASE hops' = hops
    BY <2>2 DEF OfChain
  <2>3. CASE hops' # hops
    BY <1>1, <2>1, <2>3
       DEF Next, Step, vars, OpenDelegation, StartChain, LoadChain, LoadHeld, LoadBound,
           CommitRefusal, OpenKill, CommitKill, AbandonCall, UpdateAgent
  <2>4. QED BY <2>2, <2>3
<1>2. DelegationInv /\ SerialInv /\ [Next]_vars =>
         [~overlapped' => \A c \in Chains :
             chain[c].status \in {"violated", "terminated"} =>
                 OfChain(c)' = OfChain(c)]_<<hops, overlapped>>
  BY <1>1
<1>3. QED BY <1>2, DelegationInvHolds, SerialInvHolds, PTL DEF Spec, StoppedChainsTakeNoHops


-----------------------------------------------------------------------------
(* Delegation in the composition                                           *)

\* update_agent's tools and models are no columns that delegations read.
LEMMA ToolsKeepDelegation ==
    ASSUME DelegationInv, NEW a \in Agents, NEW tools \in SUBSET Tools,
           UpdateTools(a, tools)
    PROVE  DelegationInv'
<1> USE DEF UpdateTools
<1>1. TypeOK'
  BY DEF DelegationInv, TypeOK
<1>2. AgentsInv' /\ CallsInv'
  BY DEF DelegationInv, AgentsInv, CallsInv, CallInv, Granted
<1>3. /\ HopsAreGranted' /\ CapabilitiesHaveAnOrigin' /\ DepthWithinLimit'
      /\ RefusalsAreRecorded'
  BY DEF DelegationInv, HopsAreGranted, GrantedBefore, Granted,
         CapabilitiesHaveAnOrigin, DepthWithinLimit, RefusalsAreRecorded
<1>4. QED BY <1>1, <1>2, <1>3 DEF DelegationInv

\* The steps of this module that leave delegation as it is.
LEMMA OwnStep ==
    ASSUME NEW u \in Callers, ActionStep(u) PROVE UNCHANGED vars
BY DEF ActionStep, OpenRecord, LoadChainView, LoadHop, Decide, AnswerCheck, CommitRecord,
       OpenReview, CommitApproval, CommitDenial, DropCall

LEMMA DelegationStep ==
    DelegationInv /\ [ActionsNext]_allVars => DelegationInv'
<1> SUFFICES ASSUME DelegationInv, [ActionsNext]_allVars PROVE DelegationInv'
  OBVIOUS
<1>1. CASE [Next]_vars
  BY <1>1, InvStep
<1>2. CASE \E a \in Agents, tools \in SUBSET Tools : UpdateTools(a, tools)
  BY <1>2, ToolsKeepDelegation
<1>3. CASE \E u \in Callers : ActionStep(u)
  BY <1>1, <1>3, OwnStep
<1>4. CASE (\E p \in Policy : CreatePolicy(p)) \/ Tick
  <2>1. UNCHANGED vars
    BY <1>4 DEF CreatePolicy, Tick
  <2>2. QED BY <1>1, <2>1
<1>5. CASE UNCHANGED allVars
  BY <1>1, <1>5 DEF allVars
<1>6. QED BY <1>1, <1>2, <1>3, <1>4, <1>5 DEF ActionsNext

-----------------------------------------------------------------------------
(* The engine's verdict                                                    *)

\* Every verdict is complete, and a policy that denies is obeyed.
LEMMA VerdictComplete ==
    ASSUME NEW view \in ActionCall, NEW claims, NEW verdicts
    PROVE  LET d == CheckAction(view, claims, verdicts) IN
           /\ d \in Decision
           /\ d.result \in Results
           /\ d.result = "denied" <=> d.incident # "none"
           /\ ~view.active \/ ~view.permitted \/ "deny" \in verdicts => d.result = "denied"
BY DEF CheckAction, ByPolicies, Denied, Undecided, Decision, Results, IncidentTypes,
       ActionCall

LEMMA NoCallIsCall == NoCall \in ActionCall
BY BoundsAreNats DEF NoCall, ActionCall, AnyTool, Undecided, Decision, Times, Never

-----------------------------------------------------------------------------
(* The steps of one call                                                   *)

\* Such a step moves call u to `new`, and changes no action.
Advances(u, new) ==
    /\ new \in ActionCall
    /\ call' = [call EXCEPT ![u] = new]
    /\ new.pc \notin {"approve", "deny"} /\ new.action = NoAction
    /\ new.pc \in {"decided", "answering"} =>
           /\ new.decision.result \in Results
           /\ new.decision.result = "denied" <=> new.decision.incident # "none"
           /\ new.barred => new.decision.result = "denied"
    /\ new.pc \in {"agent", "chain", "hop"} /\ new.barred =>
           \/ ~new.active \/ ~new.permitted
           \/ "deny" \in Verdicts(CustomPolicies(new.agent), new.tool)
    /\ UNCHANGED <<allowed, policies, action, raised, now, contested>>

LEMMA AdvanceKeepsInv ==
    ASSUME ActionsInv, NEW u \in Callers, NEW new, Advances(u, new)
    PROVE  ActionsInv'
<1> USE DEF ActionsInv, Advances
<1>0. /\ call'[u] = new
      /\ \A w \in Callers \ {u} : call'[w] = call[w]
  BY DEF ActionsTypeOK
<1>1. ActionsTypeOK'
  BY DEF ActionsTypeOK
<1>2. ReviewsInv'
  BY <1>0, NoActionIsNoId DEF ReviewsInv
<1>3. DecisionsInv'
  BY <1>0 DEF DecisionsInv
<1>4. BarredInv'
  BY <1>0 DEF BarredInv, Verdicts, CustomPolicies
<1>5. IncidentsAreDenials'
  BY DEF IncidentsAreDenials
<1>6. NothingBarredIsAllowed'
  BY <1>0 DEF NothingBarredIsAllowed
<1>7. QED BY <1>1, <1>2, <1>3, <1>4, <1>5, <1>6

LEMMA RecordSteps ==
    ASSUME ActionsInv, DelegationInv, NEW u \in Callers,
           \/ \E a \in Agents, c \in Chains \cup {NoChain}, tool \in AnyTool :
                  OpenRecord(u, a, c, tool)
           \/ LoadChainView(u) \/ LoadHop(u)
           \/ (\E claims \in SUBSET Capabilities : Decide(u, claims))
           \/ AnswerCheck(u) \/ DropCall(u)
    PROVE  \E new : Advances(u, new)
<1> USE DEF ActionsInv
<1>0. call[u] \in ActionCall
  BY DEF ActionsTypeOK
<1>1. TypeOK
  BY DEF DelegationInv
<1>2. ASSUME NEW a \in Agents, NEW c \in Chains \cup {NoChain}, NEW tool \in AnyTool,
             OpenRecord(u, a, c, tool)
      PROVE  \E new : Advances(u, new)
  <2> DEFINE new == [NoCall EXCEPT !.pc = "agent", !.agent = a, !.chain = c, !.tool = tool,
                                   !.active = agent[a].status = "active",
                                   !.permitted = Permitted(a, tool),
                                   !.limit = agent[a].limit,
                                   !.granted = agent[a].capabilities,
                                   !.barred = Barred(a, tool)]
  <2>1. /\ new.pc = "agent" /\ new.action = NoAction
        /\ new.active = (agent[a].status = "active")
        /\ new.permitted = Permitted(a, tool) /\ new.barred = Barred(a, tool)
        /\ new.agent = a /\ new.tool = tool
    BY DEF NoCall
  <2>2. agent[a].limit \in Nat /\ agent[a].capabilities \in SUBSET Capabilities
    BY <1>1, BoundsAreNats DEF TypeOK, AgentRow
  <2>3. Permitted(a, tool) \in BOOLEAN /\ Barred(a, tool) \in BOOLEAN
    BY DEF Permitted, Barred
  <2>4. new \in ActionCall
    <3>1. (agent[a].status = "active") \in BOOLEAN
      OBVIOUS
    <3> DEFINE asked == [NoCall EXCEPT !.pc = "agent", !.agent = a, !.chain = c, !.tool = tool]
               active == agent[a].status = "active"
               permitted == Permitted(a, tool)
               barred == Barred(a, tool)
    <3>2. asked \in ActionCall
      BY NoCallIsCall DEF ActionCall
    <3>3. new = [asked EXCEPT !.active = active, !.permitted = permitted,
                              !.limit = agent[a].limit,
                              !.granted = agent[a].capabilities, !.barred = barred]
      OBVIOUS
    <3> HIDE DEF asked, active, permitted, barred
    <3>4. [asked EXCEPT !.active = active, !.permitted = permitted,
                        !.limit = agent[a].limit,
                              !.granted = agent[a].capabilities, !.barred = barred] \in ActionCall
      <4>1. active \in BOOLEAN /\ permitted \in BOOLEAN /\ barred \in BOOLEAN
        BY <2>3, <3>1 DEF active, permitted, barred
      <4>2. QED BY <2>2, <3>2, <4>1 DEF ActionCall
    <3>5. QED BY <3>3, <3>4
  <2>5. new.barred => \/ ~new.active \/ ~new.permitted
                      \/ "deny" \in Verdicts(CustomPolicies(new.agent), new.tool)
    BY <2>1 DEF Barred, CustomPolicies
  <2>6. /\ call' = [call EXCEPT ![u] = new]
        /\ UNCHANGED <<allowed, policies, action, raised, now, contested>>
    BY <1>2 DEF OpenRecord
  <2> HIDE DEF new
  <2>7. Advances(u, new)
    BY <2>1, <2>4, <2>5, <2>6 DEF Advances
  <2>8. QED BY <2>7
<1>3. ASSUME LoadChainView(u) PROVE \E new : Advances(u, new)
  <2> DEFINE c == call[u].chain
             stored == c # NoChain /\ chain[c].status # "absent"
             new == [call[u] EXCEPT !.pc = IF stored THEN "chain" ELSE "hop",
                                    !.reached = IF stored THEN chain[c].deepest ELSE 0]
  <2>1. stored => chain[c].deepest \in Nat
    BY <1>0, <1>1 DEF ActionCall, TypeOK, ChainRow
  <2>2. new \in ActionCall
    BY <1>0, <2>1 DEF ActionCall
  <2>3. call[u].pc = "agent" /\ call[u].action = NoAction
    BY <1>3 DEF LoadChainView, ReviewsInv
  <2>4. Advances(u, new)
    BY <1>0, <1>3, <2>2, <2>3 DEF LoadChainView, Advances, BarredInv, ActionCall
  <2>5. QED BY <2>4
<1>4. ASSUME LoadHop(u) PROVE \E new : Advances(u, new)
  <2>1. call[u].pc = "chain" /\ call[u].action = NoAction
    BY <1>4 DEF LoadHop, ReviewsInv
  <2>2. ASSUME NEW expires \in Times, NEW granted \in SUBSET Capabilities,
               call' = [call EXCEPT ![u] = [@ EXCEPT !.pc = "hop", !.expires = expires,
                                                     !.granted = granted]]
        PROVE  \E new : Advances(u, new)
    <3> DEFINE new == [call[u] EXCEPT !.pc = "hop", !.expires = expires, !.granted = granted]
    <3>1. new \in ActionCall
      BY <1>0 DEF ActionCall
    <3>2. call' = [call EXCEPT ![u] = new]
      BY <1>0, <2>2 DEF ActionCall, ActionsTypeOK
    <3>3. Advances(u, new)
      BY <1>0, <1>4, <2>1, <3>1, <3>2 DEF LoadHop, Advances, BarredInv, ActionCall
    <3>4. QED BY <3>3
  <2>3. CASE call' = [call EXCEPT ![u].pc = "hop"]
    <3>1. call[u].expires \in Times /\ call[u].granted \in SUBSET Capabilities
      BY <1>0 DEF ActionCall
    <3>2. call' = [call EXCEPT ![u] = [@ EXCEPT !.pc = "hop", !.expires = call[u].expires,
                                                !.granted = call[u].granted]]
      BY <1>0, <2>3 DEF ActionCall, ActionsTypeOK
    <3>3. QED BY <2>2, <3>1, <3>2
  <2>4. ASSUME NEW i \in DeepestTo(call[u].chain, call[u].agent),
               call' = [call EXCEPT ![u] =
                           [@ EXCEPT !.pc = "hop", !.expires = hops[i].expires,
                                     !.granted = hops[i].capabilities]]
        PROVE  \E new : Advances(u, new)
    <3>1. i \in DOMAIN hops
      BY <2>4 DEF DeepestTo, HopsTo
    <3>2. hops[i] \in Hop
      BY <1>1, <3>1 DEF TypeOK
    <3>3. QED BY <2>2, <2>4, <3>2 DEF Hop
  <2>5. QED BY <1>4, <2>3, <2>4 DEF LoadHop
<1>5. ASSUME NEW claims \in SUBSET Capabilities, Decide(u, claims)
      PROVE  \E new : Advances(u, new)
  <2> DEFINE verdicts == Verdicts(CustomPolicies(call[u].agent), call[u].tool)
             new == [NoCall EXCEPT !.pc = IF claims = {} THEN "decided" ELSE "answering",
                                   !.agent = call[u].agent,
                                   !.barred = call[u].barred,
                                   !.decision = CheckAction(call[u], claims, verdicts)]
  <2>1. /\ new.pc \in {"decided", "answering"} /\ new.action = NoAction
        /\ new.decision = CheckAction(call[u], claims, verdicts)
    BY DEF NoCall
  <2>2. /\ new.decision \in Decision
        /\ new.decision.result \in Results
        /\ new.decision.result = "denied" <=> new.decision.incident # "none"
    BY <1>0, <2>1, VerdictComplete
  <2>3. new \in ActionCall
    <3>1. ASSUME NEW pc \in {"decided", "answering"}, NEW d \in Decision
          PROVE  [NoCall EXCEPT !.pc = pc, !.agent = call[u].agent,
                                !.barred = call[u].barred, !.decision = d] \in ActionCall
      BY <1>0, NoCallIsCall DEF ActionCall
    <3>2. PICK pc \in {"decided", "answering"} :
             pc = IF claims = {} THEN "decided" ELSE "answering"
      OBVIOUS
    <3>3. new = [NoCall EXCEPT !.pc = pc, !.agent = call[u].agent,
                               !.barred = call[u].barred, !.decision = new.decision]
      BY <2>1, <3>2
    <3>4. QED BY <2>2, <3>1, <3>3
  <2>4. call[u].barred => \/ ~call[u].active \/ ~call[u].permitted
                          \/ "deny" \in verdicts
    BY <1>5 DEF Decide, BarredInv
  <2>5. new.barred => new.decision.result = "denied"
    BY <1>0, <2>1, <2>4, VerdictComplete DEF NoCall
  <2>6. Advances(u, new)
    BY <1>5, <2>1, <2>2, <2>3, <2>5 DEF Decide, Advances
  <2>7. QED BY <2>6
<1>6. ASSUME AnswerCheck(u) \/ DropCall(u) PROVE \E new : Advances(u, new)
  <2>1. Advances(u, NoCall)
    BY <1>6, NoCallIsCall DEF AnswerCheck, DropCall, Advances, NoCall
  <2>2. QED BY <2>1
<1>7. QED BY <1>2, <1>3, <1>4, <1>5, <1>6

-----------------------------------------------------------------------------
(* The steps that write actions                                            *)

LEMMA CommitRecordStep ==
    ASSUME ActionsInv, NEW u \in Callers, NEW x \in Actions, CommitRecord(u, x)
    PROVE  ActionsInv'
<1> USE DEF ActionsInv, CommitRecord
<1> DEFINE d == call[u].decision
<1>0. /\ call'[u] = NoCall
      /\ \A w \in Callers \ {u} : call'[w] = call[w]
      /\ NoCall.pc = "idle" /\ NoCall.action = NoAction
  BY DEF ActionsTypeOK, NoCall
<1>1. /\ d.result \in Results
      /\ d.result = "denied" <=> d.incident # "none"
      /\ d.incident \in IncidentTypes \cup {"none"}
      /\ call[u].agent \in Agents \cup {NoAgent}
  BY DEF ActionsTypeOK, DecisionsInv, ActionCall, Decision
<1>2. /\ action'[x] = [result |-> d.result, agent |-> call[u].agent]
      /\ \A y \in Actions \ {x} : action'[y] = action[y]
  BY DEF ActionsTypeOK
<1>3. ActionsTypeOK'
  BY <1>1, NoCallIsCall DEF ActionsTypeOK, ActionRow, Raises
<1>4. ReviewsInv'
  BY <1>0, <1>2 DEF ReviewsInv
<1>5. DecisionsInv'
  BY <1>0 DEF DecisionsInv
<1>6. BarredInv' /\ NothingBarredIsAllowed'
  BY <1>0 DEF BarredInv, Verdicts, CustomPolicies, NothingBarredIsAllowed
<1>7. IncidentsAreDenials'
  <2> SUFFICES ASSUME NEW y \in Actions
               PROVE  /\ action'[y].result = "denied" => \E i \in raised' : i.action = y
                      /\ (\E i \in raised' : i.action = y) =>
                             action'[y].result = "denied" \/ y \in contested
    BY DEF IncidentsAreDenials
  <2>1. CASE y = x
    <3>1. action'[y].result = d.result
      BY <1>2, <2>1
    <3>2. (\E i \in raised : i.action = x) => x \in contested
      BY DEF IncidentsAreDenials
    <3>3. CASE d.result = "denied"
      <4>1. [action |-> x, type |-> d.incident] \in raised'
        BY <1>1, <3>3 DEF Raises, ActionIncident
      <4>2. QED BY <2>1, <3>1, <3>3, <4>1
    <3>4. CASE d.result # "denied"
      <4>1. raised' = raised
        BY <1>1, <3>4 DEF Raises, ActionIncident, IncidentTypes
      <4>2. QED BY <2>1, <3>1, <3>2, <3>4, <4>1
    <3>5. QED BY <3>3, <3>4
  <2>2. CASE y # x
    <3>1. action'[y] = action[y]
      BY <1>2, <2>2
    <3>2. (\E i \in raised' : i.action = y) <=> (\E i \in raised : i.action = y)
      BY <2>2 DEF Raises
    <3>3. QED BY <3>1, <3>2 DEF IncidentsAreDenials
  <2>3. QED BY <2>1, <2>2
<1>8. QED BY <1>3, <1>4, <1>5, <1>6, <1>7

LEMMA OpenReviewStep ==
    ASSUME ActionsInv, NEW u \in Callers, NEW x \in Actions,
           NEW verdict \in {"approve", "deny"}, OpenReview(u, x, verdict)
    PROVE  ActionsInv'
<1> USE DEF ActionsInv, OpenReview
<1> DEFINE new == [NoCall EXCEPT !.pc = verdict, !.action = x]
<1>0. /\ call'[u] = new
      /\ \A w \in Callers \ {u} : call'[w] = call[w]
      /\ new.pc = verdict /\ new.action = x
  BY DEF ActionsTypeOK, NoCall
<1>1. ActionsTypeOK'
  <2>1. new \in ActionCall
    BY NoCallIsCall DEF NoCall, ActionCall
  <2>2. QED BY <2>1 DEF ActionsTypeOK
<1>2. /\ contested \subseteq contested'
      /\ \A w \in Callers : call[w].action = x => x \in contested'
  OBVIOUS
<1>3. ReviewsInv'
  BY <1>0, <1>2 DEF ReviewsInv, Reviewable
<1>4. DecisionsInv' /\ BarredInv' /\ NothingBarredIsAllowed'
  BY <1>0 DEF DecisionsInv, BarredInv, Verdicts, CustomPolicies, NothingBarredIsAllowed
<1>5. IncidentsAreDenials'
  BY <1>2 DEF IncidentsAreDenials
<1>6. QED BY <1>1, <1>3, <1>4, <1>5

LEMMA CommitReviewStep ==
    ASSUME ActionsInv, NEW u \in Callers, CommitApproval(u) \/ CommitDenial(u)
    PROVE  ActionsInv'
<1> USE DEF ActionsInv, CommitApproval, CommitDenial
<1> DEFINE x == call[u].action
<1>0. /\ call' = [call EXCEPT ![u] = NoCall] /\ call'[u] = NoCall
      /\ \A w \in Callers \ {u} : call'[w] = call[w]
      /\ NoCall.pc = "idle" /\ NoCall.action = NoAction
  BY DEF ActionsTypeOK, NoCall
<1>1. /\ call[u].pc \in {"approve", "deny"}
      /\ x \in Actions
      /\ x \notin contested => action[x].result = "pending_approval"
  BY DEF ReviewsInv
<1>2. /\ \A y \in Actions \ {x} : action'[y] = action[y]
      /\ UNCHANGED <<allowed, policies, now, contested>>
  BY <1>1 DEF ActionsTypeOK
<1>3. ActionsTypeOK'
  BY <1>1, NoCallIsCall
     DEF ActionsTypeOK, ActionRow, Results, ActionIncident, IncidentTypes
<1>4. ReviewsInv'
  <2> SUFFICES ASSUME NEW w \in Callers \ {u}
               PROVE  IF call[w].pc \in {"approve", "deny"}
                      THEN LET y == call[w].action IN
                           /\ y \in Actions
                           /\ y \notin contested => action'[y].result = "pending_approval"
                           /\ \A v \in Callers \ {w} : call'[v].action = y => y \in contested
                      ELSE call[w].action = NoAction
    BY <1>0, <1>2 DEF ReviewsInv
  <2>1. CASE call[w].pc \notin {"approve", "deny"}
    BY <2>1 DEF ReviewsInv
  <2>2. CASE call[w].pc \in {"approve", "deny"}
    <3> DEFINE y == call[w].action
    <3>1. /\ y \in Actions
          /\ y \notin contested => action[y].result = "pending_approval"
          /\ \A v \in Callers \ {w} : call[v].action = y => y \in contested
      BY <2>2 DEF ReviewsInv
    <3>2. y \notin contested => y # x
      BY <3>1
    <3>3. y \notin contested => action'[y].result = "pending_approval"
      BY <1>2, <3>1, <3>2
    <3>4. ASSUME NEW v \in Callers \ {w}, call'[v].action = y PROVE y \in contested
      <4>1. v # u
        BY <1>0, <3>1, <3>4, NoActionIsNoId
      <4>2. QED BY <1>0, <3>1, <3>4, <4>1
    <3>5. QED BY <2>2, <3>1, <3>3, <3>4
  <2>3. QED BY <2>1, <2>2
<1>5. DecisionsInv' /\ BarredInv' /\ NothingBarredIsAllowed'
  BY <1>0, <1>2 DEF DecisionsInv, BarredInv, Verdicts, CustomPolicies, NothingBarredIsAllowed
<1>6. IncidentsAreDenials'
  <2>1. CASE CommitApproval(u)
    <3>1. raised' = raised
      BY <2>1
    <3>2. (\E i \in raised : i.action = x) => x \in contested
      BY <1>1 DEF IncidentsAreDenials
    <3>3. action'[x].result = "allowed"
      BY <1>1, <2>1 DEF ActionsTypeOK, ActionRow
    <3>4. QED BY <1>2, <3>1, <3>2, <3>3 DEF IncidentsAreDenials
  <2>2. CASE CommitDenial(u)
    <3>1. raised' = raised \cup {[action |-> x, type |-> "policy_violation"]}
      BY <2>2
    <3>2. action'[x].result = "denied"
      BY <1>1, <2>2 DEF ActionsTypeOK, ActionRow
    <3>3. \E i \in raised' : i.action = x
      <4> DEFINE i == [action |-> x, type |-> "policy_violation"]
      <4>1. i \in raised' /\ i.action = x
        BY <3>1
      <4>2. QED BY <4>1
    <3>4. \A y \in Actions \ {x} :
              (\E i \in raised' : i.action = y) <=> (\E i \in raised : i.action = y)
      BY <3>1
    <3>5. ASSUME NEW y \in Actions \ {x}
          PROVE  /\ action'[y].result = "denied" => \E i \in raised' : i.action = y
                 /\ (\E i \in raised' : i.action = y) =>
                        action'[y].result = "denied" \/ y \in contested
      BY <1>2, <3>4 DEF IncidentsAreDenials
    <3>6. QED BY <1>2, <3>2, <3>3, <3>5 DEF IncidentsAreDenials
  <2>3. QED BY <2>1, <2>2
<1>7. QED BY <1>3, <1>4, <1>5, <1>6

-----------------------------------------------------------------------------
(* The theorems                                                            *)

LEMMA ActionsInitHolds == ActionsInit => DelegationInv /\ ActionsInv
<1> SUFFICES ASSUME ActionsInit PROVE DelegationInv /\ ActionsInv
  OBVIOUS
<1>1. DelegationInv
  BY InvInit DEF ActionsInit
<1>2. ActionsTypeOK
  BY NoCallIsCall, BoundsAreNats DEF ActionsInit, ActionsTypeOK, ActionRow
<1>3. ReviewsInv /\ DecisionsInv /\ BarredInv /\ NothingBarredIsAllowed
  BY DEF ActionsInit, ReviewsInv, DecisionsInv, BarredInv, NothingBarredIsAllowed, NoCall
<1>4. IncidentsAreDenials
  BY DEF ActionsInit, IncidentsAreDenials
<1>5. QED BY <1>1, <1>2, <1>3, <1>4 DEF ActionsInv

\* A new policy can only add to what stands against an action, and no other step
\* of the surroundings is read by the invariant.
LEMMA SurroundingsStep ==
    ASSUME ActionsInv,
           UNCHANGED <<action, raised, call, contested>>,
           policies \subseteq policies', policies' \subseteq Policy,
           allowed' \in [Agents -> SUBSET Tools], now' \in 0 .. MaxTime
    PROVE  ActionsInv'
<1> USE DEF ActionsInv
<1>1. ActionsTypeOK'
  BY DEF ActionsTypeOK
<1>2. ReviewsInv' /\ DecisionsInv' /\ NothingBarredIsAllowed' /\ IncidentsAreDenials'
  BY DEF ReviewsInv, DecisionsInv, NothingBarredIsAllowed, IncidentsAreDenials
<1>3. BarredInv'
  BY DEF BarredInv, Verdicts, CustomPolicies
<1>4. QED BY <1>1, <1>2, <1>3

LEMMA ActionsStep ==
    DelegationInv /\ ActionsInv /\ [ActionsNext]_allVars => ActionsInv'
<1> SUFFICES ASSUME DelegationInv, ActionsInv, [ActionsNext]_allVars PROVE ActionsInv'
  OBVIOUS
<1>1. ASSUME NEW u \in Callers, ActionStep(u) PROVE ActionsInv'
  <2>1. CASE \/ \E a \in Agents, c \in Chains \cup {NoChain}, tool \in AnyTool :
                    OpenRecord(u, a, c, tool)
             \/ LoadChainView(u) \/ LoadHop(u)
             \/ (\E claims \in SUBSET Capabilities : Decide(u, claims))
             \/ AnswerCheck(u) \/ DropCall(u)
    BY <2>1, RecordSteps, AdvanceKeepsInv
  <2>2. CASE \E x \in Actions : CommitRecord(u, x)
    BY <2>2, CommitRecordStep
  <2>3. CASE \E x \in Actions, verdict \in {"approve", "deny"} : OpenReview(u, x, verdict)
    BY <2>3, OpenReviewStep
  <2>4. CASE CommitApproval(u) \/ CommitDenial(u)
    BY <2>4, CommitReviewStep
  <2>5. QED BY <1>1, <2>1, <2>2, <2>3, <2>4 DEF ActionStep
<1>2. CASE UNCHANGED own
  BY <1>2, SurroundingsStep DEF own, ActionsInv, ActionsTypeOK
<1>3. ASSUME NEW p \in Policy, CreatePolicy(p) PROVE ActionsInv'
  BY <1>3, SurroundingsStep DEF CreatePolicy, ActionsInv, ActionsTypeOK
<1>4. ASSUME NEW a \in Agents, NEW tools \in SUBSET Tools, UpdateTools(a, tools)
      PROVE  ActionsInv'
  BY <1>4, SurroundingsStep DEF UpdateTools, ActionsInv, ActionsTypeOK
<1>5. CASE Tick
  BY <1>5, SurroundingsStep, BoundsAreNats DEF Tick, ActionsInv, ActionsTypeOK
<1>6. QED BY <1>1, <1>2, <1>3, <1>4, <1>5 DEF ActionsNext, allVars

LEMMA BothHold == ActionsSpec => [](DelegationInv /\ ActionsInv)
<1>1. DelegationInv /\ ActionsInv /\ [ActionsNext]_allVars => (DelegationInv /\ ActionsInv)'
  BY DelegationStep, ActionsStep
<1>2. QED BY ActionsInitHolds, <1>1, PTL DEF ActionsSpec

\* What Delegation promises, it keeps while agents act, policies are written and
\* tools are taken away: every hop stays granted, every refusal recorded.
THEOREM ActionsKeepDelegation == ActionsSpec => []DelegationInv
BY BothHold, PTL

\* A denied action has its incident, and an incident is that of a denied action
\* unless two reviews of it overlapped, for any number of callers.
THEOREM ActionsInvHolds == ActionsSpec => []ActionsInv
BY BothHold, PTL

\* What stood against an action when the call began is not missed, however the
\* engine's four reads interleave with suspensions, policies and delegations.
THEOREM NothingBarredHolds == ActionsSpec => []NothingBarredIsAllowed
<1>1. ActionsInv => NothingBarredIsAllowed
  BY DEF ActionsInv
<1>2. QED BY ActionsInvHolds, <1>1, PTL

LEMMA VerdictKept ==
    ActionsInv /\ [ActionsNext]_allVars =>
        [\A x \in Actions :
             action[x].result \in {"allowed", "denied"} /\ x \notin contested =>
                 action'[x] = action[x]]_<<action, contested>>
<1> SUFFICES ASSUME ActionsInv, [ActionsNext]_allVars,
                    NEW x \in Actions,
                    action[x].result \in {"allowed", "denied"}, x \notin contested
             PROVE  action'[x] = action[x]
  OBVIOUS
<1>1. CASE UNCHANGED action
  BY <1>1
<1>2. ASSUME NEW u \in Callers, NEW y \in Actions, CommitRecord(u, y)
      PROVE  action'[x] = action[x]
  BY <1>2 DEF CommitRecord, ActionsInv, ActionsTypeOK
<1>3. ASSUME NEW u \in Callers, CommitApproval(u) \/ CommitDenial(u)
      PROVE  action'[x] = action[x]
  <2>1. call[u].pc \in {"approve", "deny"}
    BY <1>3 DEF CommitApproval, CommitDenial
  <2>2. x # call[u].action
    BY <2>1 DEF ActionsInv, ReviewsInv
  <2>3. QED BY <1>3, <2>2 DEF CommitApproval, CommitDenial, ActionsInv, ActionsTypeOK
<1>4. QED
  BY <1>1, <1>2, <1>3
     DEF ActionsNext, ActionStep, OpenRecord, LoadChainView, LoadHop, Decide, AnswerCheck,
         OpenReview, DropCall, CreatePolicy, UpdateTools, Tick, own, allVars

\* A verdict stands, as long as no two reviews of the action overlapped.
THEOREM VerdictsStandHolds == ActionsSpec => VerdictsStand
BY ActionsInvHolds, VerdictKept, PTL DEF ActionsSpec, VerdictsStand

===============================================================================
