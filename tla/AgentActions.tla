----------------------------- MODULE AgentActions -----------------------------
(***************************************************************************)
(* Actions of AI agents: AgentAudit.check and record with the policy       *)
(* engine, the review of actions that need one, and the creation of agent  *)
(* policies.  The module extends Delegation, which changes the agents,     *)
(* chains and hops that the engine's four queries read, in four steps.     *)
(***************************************************************************)
EXTENDS Delegation, FiniteSets

CONSTANTS
    Actions,       \* ids of agent_actions
    Callers,       \* concurrent calls of this module
    Tools,         \* a tool, with the model it invokes if it invokes one
    Rules,         \* the rules an administrator may write
    NoAction, NoTool,
    MaxPolicies    \* bound on agent_policies

VARIABLES
    allowed,       \* agents.allowed_tools and allowed_models
    policies,      \* agent_policies, enabled
    action,        \* agent_actions: verdict and agent
    raised,        \* agent_incidents of recorded or reviewed actions
    call,          \* the calls of this module
    now,           \* the clock
    contested      \* history: actions two reviews were open for at once

own == <<allowed, policies, action, raised, call, now, contested>>
allVars == <<vars, own>>

-----------------------------------------------------------------------------
(* Types                                                                   *)

AnyTool == Tools \cup {NoTool}

\* A rule's lists; `only` is AnyTool where the rule has no allow_only_tools.
Rule == [deny : SUBSET Tools, only : SUBSET AnyTool, gate : SUBSET Tools]

ASSUME RulesAreRules == Rules \subseteq Rule
ASSUME NoActionIsNoId == NoAction \notin Actions /\ NoTool \notin Tools

\* An org-wide policy has no agent.
Policy == [agent : Agents \cup {NoAgent}, rule : Rules]

Results == {"allowed", "denied", "pending_approval"}
IncidentTypes == {"policy_violation", "depth_exceeded", "delegation_expired",
                  "capability_escalation"}

ActionRow == [result : Results \cup {"none"}, agent : Agents \cup {NoAgent}]

ActionIncident == [action : Actions, type : IncidentTypes]

Decision == [result : Results \cup {"none"}, incident : IncidentTypes \cup {"none"}]
Undecided == [result |-> "none", incident |-> "none"]

\* `active`, `permitted` and `limit` were read with the agent, `reached` with
\* the chain, `expires` with the hop, `granted` with the agent or the hop;
\* `barred`: the agent or a policy stood against the action when the call began.
ActionCall == [pc : {"idle", "agent", "chain", "hop", "decided", "answering",
                     "approve", "deny"},
         action : Actions \cup {NoAction},
         agent : Agents \cup {NoAgent}, chain : Chains \cup {NoChain},
         tool : AnyTool, active : BOOLEAN, permitted : BOOLEAN, limit : Nat,
         granted : SUBSET Capabilities, reached : Nat, expires : Times, decision : Decision, barred : BOOLEAN]

NoCall == [pc |-> "idle", action |-> NoAction, agent |-> NoAgent, chain |-> NoChain,
         tool |-> NoTool, active |-> FALSE, permitted |-> FALSE, limit |-> 0,
         granted |-> {}, reached |-> 0, expires |-> Never, decision |-> Undecided,
         barred |-> FALSE]

ActionsTypeOK ==
    /\ allowed \in [Agents -> SUBSET Tools]
    /\ policies \subseteq Policy
    /\ action \in [Actions -> ActionRow]
    /\ raised \subseteq ActionIncident
    /\ call \in [Callers -> ActionCall]
    /\ now \in 0 .. MaxTime
    /\ contested \subseteq Actions

ActionsInit ==
    /\ Init
    /\ allowed \in [Agents -> SUBSET Tools]
    /\ policies = {}
    /\ action = [x \in Actions |-> [result |-> "none", agent |-> NoAgent]]
    /\ raised = {}
    /\ call = [u \in Callers |-> NoCall]
    /\ now = 0
    /\ contested = {}

-----------------------------------------------------------------------------
(* The policy engine                                                       *)

\* evaluate_custom_rule
Evaluate(rule, tool) ==
    IF tool \in rule.deny \/ tool \notin rule.only THEN "deny"
    ELSE IF tool \in rule.gate THEN "approval" ELSE "ok"

\* Only the agent's own policies, or as the code has it also the org-wide ones.
OwnPolicies(a) == {p \in policies : p.agent = a}
CustomPolicies(a) == {p \in policies : p.agent \in {a, NoAgent}}

Verdicts(ps, tool) == {Evaluate(p.rule, tool) : p \in ps}

Denied(type) == [result |-> "denied", incident |-> type]

\* A deny wins over a required approval, or loses to it.
ApprovalFirst(verdicts) ==
    IF "approval" \in verdicts THEN [Undecided EXCEPT !.result = "pending_approval"]
    ELSE IF "deny" \in verdicts THEN Denied("policy_violation")
    ELSE [Undecided EXCEPT !.result = "allowed"]

ByPolicies(verdicts) ==
    IF "deny" \in verdicts THEN Denied("policy_violation")
    ELSE IF "approval" \in verdicts THEN [Undecided EXCEPT !.result = "pending_approval"]
    ELSE [Undecided EXCEPT !.result = "allowed"]

\* check_action, of an action that claims capabilities.
CheckAction(view, claims, verdicts) ==
    IF ~view.active \/ ~view.permitted THEN Denied("policy_violation")
    ELSE IF view.reached > view.limit THEN Denied("depth_exceeded")
    ELSE IF view.expires # Never /\ now >= view.expires THEN Denied("delegation_expired")
    ELSE IF ~(claims \subseteq view.granted) THEN Denied("capability_escalation")
    ELSE ByPolicies(verdicts)

-----------------------------------------------------------------------------
(* POST /agents/actions/record                                             *)

Permitted(a, tool) == tool = NoTool \/ tool \in allowed[a]

Barred(a, tool) ==
    \/ agent[a].status # "active"
    \/ ~Permitted(a, tool)
    \/ "deny" \in Verdicts({p \in policies : p.agent \in {a, NoAgent}}, tool)

\* AgentAudit.check: the agent is loaded.
OpenRecord(u, a, c, tool) ==
    /\ call[u].pc = "idle"
    /\ call' = [call EXCEPT ![u] =
                   [NoCall EXCEPT !.pc = "agent", !.agent = a, !.chain = c, !.tool = tool,
                                !.active = agent[a].status = "active",
                                !.permitted = Permitted(a, tool),
                                !.limit = agent[a].limit,
                                !.granted = agent[a].capabilities,
                                !.barred = Barred(a, tool)]]
    /\ UNCHANGED <<vars, allowed, policies, action, raised, now, contested>>

\* _chain_view: without a stored chain the depth is 0.  The chain's status is
\* not looked at.
LoadChainView(u) ==
    LET c == call[u].chain
        stored == c # NoChain /\ chain[c].status # "absent" IN
    /\ call[u].pc = "agent"
    /\ call' = [call EXCEPT ![u] =
                   [@ EXCEPT !.pc = IF stored THEN "chain" ELSE "hop",
                             !.reached = IF stored THEN chain[c].deepest ELSE 0]]
    /\ UNCHANGED <<vars, allowed, policies, action, raised, now, contested>>

\* The deepest hop to the agent bounds it in time and in what it may do.
LoadHop(u) ==
    LET granting == DeepestTo(call[u].chain, call[u].agent) IN
    /\ call[u].pc = "chain"
    /\ \/ /\ granting = {}
          /\ call' = [call EXCEPT ![u].pc = "hop"]
       \/ \E i \in granting :
              call' = [call EXCEPT ![u] =
                          [@ EXCEPT !.pc = "hop", !.expires = hops[i].expires,
                                    !.granted = hops[i].capabilities]]
    /\ UNCHANGED <<vars, allowed, policies, action, raised, now, contested>>

\* _custom_policies, and the verdict.  An action that is to be recorded claims
\* no capabilities: only a verdict that is asked for alone is about any.
Decide(u, claims) ==
    /\ call[u].pc = "hop"
    /\ call' = [call EXCEPT ![u] =
                   [NoCall EXCEPT !.pc = IF claims = {} THEN "decided" ELSE "answering",
                       !.agent = call[u].agent, !.barred = call[u].barred,
                       !.decision = CheckAction(call[u], claims,
                                        Verdicts(CustomPolicies(call[u].agent),
                                                 call[u].tool))]]
    /\ UNCHANGED <<vars, allowed, policies, action, raised, now, contested>>

\* POST /agents/actions/check: the verdict is answered and nothing recorded.
AnswerCheck(u) ==
    /\ call[u].pc \in {"decided", "answering"}
    /\ call' = [call EXCEPT ![u] = NoCall]
    /\ UNCHANGED <<vars, allowed, policies, action, raised, now, contested>>

\* AgentAudit.record: the action and the incident of a denial are one commit.
\* A denial raises one, or as a slip none.
RaisesNothing(x, decision) == {}
Raises(x, decision) == {i \in ActionIncident : i = [action |-> x, type |-> decision.incident]}

CommitRecord(u, x) ==
    /\ call[u].pc = "decided"
    /\ action[x].result = "none"
    /\ action' = [action EXCEPT ![x] = [result |-> call[u].decision.result,
                                        agent |-> call[u].agent]]
    /\ raised' = raised \cup Raises(x, call[u].decision)
    /\ call' = [call EXCEPT ![u] = NoCall]
    /\ UNCHANGED <<vars, allowed, policies, now, contested>>

-----------------------------------------------------------------------------
(* Reviews: AgentAudit.approve_action and deny_action                      *)

\* Only a pending action is open to review, or any that is not yet denied.
NotDenied(x) == action[x].result \in {"pending_approval", "allowed"}
Reviewable(x) == action[x].result = "pending_approval"

OpenReview(u, x, verdict) ==
    /\ call[u].pc = "idle"
    /\ Reviewable(x)
    /\ call' = [call EXCEPT ![u] = [NoCall EXCEPT !.pc = verdict, !.action = x]]
    /\ contested' = IF \E w \in Callers : call[w].action = x
                    THEN contested \cup {x} ELSE contested
    /\ UNCHANGED <<vars, allowed, policies, action, raised, now>>

\* The row is written without another look at it, or at its agent.
CommitApproval(u) ==
    /\ call[u].pc = "approve"
    /\ action' = [action EXCEPT ![call[u].action].result = "allowed"]
    /\ call' = [call EXCEPT ![u] = NoCall]
    /\ UNCHANGED <<vars, allowed, policies, raised, now, contested>>

CommitDenial(u) ==
    /\ call[u].pc = "deny"
    /\ action' = [action EXCEPT ![call[u].action].result = "denied"]
    /\ raised' = raised \cup {[action |-> call[u].action, type |-> "policy_violation"]}
    /\ call' = [call EXCEPT ![u] = NoCall]
    /\ UNCHANGED <<vars, allowed, policies, now, contested>>

-----------------------------------------------------------------------------
(* The surroundings                                                        *)

\* create_agent_policy; no operation changes or deletes one.
CreatePolicy(p) ==
    /\ Cardinality(policies) < MaxPolicies
    /\ policies' = policies \cup {p}
    /\ UNCHANGED <<vars, allowed, action, raised, call, now, contested>>

\* AgentRegistry.update_agent: the columns that Delegation does not have.
UpdateTools(a, tools) ==
    /\ updates < MaxUpdates
    /\ updates' = updates + 1
    /\ allowed' = [allowed EXCEPT ![a] = tools]
    /\ UNCHANGED <<agent, chain, hops, incidents, api, registered, highest, overlapped,
                   policies, action, raised, call, now, contested>>

Tick == /\ now < MaxTime
        /\ now' = now + 1
        /\ UNCHANGED <<vars, allowed, policies, action, raised, call, contested>>

\* The call fails or its process dies: nothing was flushed yet.
DropCall(u) ==
    /\ call[u].pc # "idle"
    /\ call' = [call EXCEPT ![u] = NoCall]
    /\ UNCHANGED <<vars, allowed, policies, action, raised, now, contested>>

ActionStep(u) ==
    \/ \E a \in Agents, c \in Chains \cup {NoChain}, tool \in AnyTool :
           OpenRecord(u, a, c, tool)
    \/ LoadChainView(u)
    \/ LoadHop(u)
    \/ \E claims \in SUBSET Capabilities : Decide(u, claims)
    \/ AnswerCheck(u)
    \/ \E x \in Actions : CommitRecord(u, x)
    \/ \E x \in Actions, verdict \in {"approve", "deny"} : OpenReview(u, x, verdict)
    \/ CommitApproval(u)
    \/ CommitDenial(u)
    \/ DropCall(u)

ActionsNext ==
    \/ Next /\ UNCHANGED own
    \/ \E u \in Callers : ActionStep(u)
    \/ \E p \in Policy : CreatePolicy(p)
    \/ \E a \in Agents, tools \in SUBSET Tools : UpdateTools(a, tools)
    \/ Tick

ActionsSpec == ActionsInit /\ [][ActionsNext]_allVars

-----------------------------------------------------------------------------
(* What holds                                                              *)

\* "a denial always produces an incident": also of the approval and the denial
\* of one action that overlap, the last of which decides.  And an incident is
\* that of a denied action, unless two reviews of it overlapped.
IncidentsAreDenials ==
    \A x \in Actions :
        /\ action[x].result = "denied" => \E i \in raised : i.action = x
        /\ (\E i \in raised : i.action = x) =>
               action[x].result = "denied" \/ x \in contested

\* "you can't approve an already-decided action": a verdict stands, as long as
\* no two reviews of the action overlapped.
VerdictsStand ==
    [][\A x \in Actions :
           action[x].result \in {"allowed", "denied"} /\ x \notin contested =>
               action'[x] = action[x]]_<<action, contested>>

\* The engine does not miss what stood against an action when the call began: a
\* suspended agent, a tool it is not allowed, a policy that denies it.  What it
\* reads later can be newer, and its reads together are no state there ever was.
NothingBarredIsAllowed ==
    \A u \in Callers :
        call[u].pc \in {"decided", "answering"} /\ call[u].barred =>
            call[u].decision.result = "denied"

\* The inductive invariant.  What a review in flight knows of its action:
ReviewsInv ==
    \A u \in Callers :
        LET x == call[u].action IN
        IF call[u].pc \in {"approve", "deny"}
        THEN /\ x \in Actions
             /\ x \notin contested => action[x].result = "pending_approval"
             /\ \A w \in Callers \ {u} : call[w].action = x => x \in contested
        ELSE x = NoAction

\* A decision is complete: it denies with an incident, or has none.
DecisionsInv ==
    \A u \in Callers : call[u].pc \in {"decided", "answering"} =>
        /\ call[u].decision.result \in Results
        /\ call[u].decision.result = "denied" <=> call[u].decision.incident # "none"

\* What stood against a call when it began still does, or has been read.
BarredInv ==
    \A u \in Callers : call[u].pc \in {"agent", "chain", "hop"} /\ call[u].barred =>
        \/ ~call[u].active \/ ~call[u].permitted
        \/ "deny" \in Verdicts(CustomPolicies(call[u].agent), call[u].tool)

ActionsInv ==
    /\ ActionsTypeOK
    /\ ReviewsInv
    /\ DecisionsInv
    /\ BarredInv
    /\ NothingBarredIsAllowed
    /\ IncidentsAreDenials

-----------------------------------------------------------------------------
(* What the documentation says and the code does not keep                   *)

\* "Suspending the agent flips its status so the policy engine denies every
\* subsequent action" (kill_agent): an approval does not ask the engine again.
SuspendedAgentsAreDenied ==
    [][\A x \in Actions :
           action'[x].result = "allowed" /\ action[x].result = "pending_approval" =>
               agent[action[x].agent].status = "active"]_action

===============================================================================
