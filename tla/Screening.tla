------------------------------ MODULE Screening ------------------------------
(***************************************************************************)
(* What decides whether a prompt may leave: the policies and their         *)
(* versions, the use cases, the providers' connections and the prompt      *)
(* firewall, and the two ways in which a prompt arrives: create_request,   *)
(* whose row RequestPipeline takes over, and the governed chat, which      *)
(* calls the provider itself.                                              *)
(***************************************************************************)
EXTENDS RequestPipeline, Sequences

CONSTANTS
    Policies,      \* rows of ai_policies
    UseCases,      \* rows of ai_use_cases
    Providers,     \* rows of ai_providers
    Admins,        \* concurrent calls of administrators
    Vendors,       \* values of ai_providers.type
    NoVendor, NoRow,
    Terms,         \* blocked terms of rules
    Prompts,       \* what users write
    MaxVersions, MaxEdits    \* bounds

VARIABLES
    policy,        \* ai_policies.status
    version,       \* rows of ai_policy_versions
    useCase,       \* ai_use_cases.approved_policy_version_id
    provider,      \* rows of ai_providers
    edit,          \* the administrators' calls
    screen,        \* per session: the call that screens a prompt
    edits,         \* what the bound counts
    contested,     \* history: policies whose versions two calls numbered at once
    raced,         \* history: providers two calls updated at once
    stood          \* history: per chat, the rules in force ever since it began

governing == <<policy, version, useCase, provider>>
screening == <<governing, edit, screen, edits, contested, raced, stood>>
screeningVars == <<vars, screening>>

-----------------------------------------------------------------------------
(* Types                                                                   *)

RequireApproval == "require_approval"

\* What a version's rules_json may hold: blocked terms, and its effect.
Rules == Terms \cup {RequireApproval}

PolicyStates == {"none", "draft", "active", "archived"}

Version == [policy : Policies, number : Nat, rules : SUBSET Rules, approved : BOOLEAN]

\* `key`: the vendor the stored key was entered for.
Connection == [status : {"none", "active", "inactive"},
               type : Vendors \cup {NoVendor}, key : Vendors \cup {NoVendor}]

NoConnection == [status |-> "none", type |-> NoVendor, key |-> NoVendor]

\* A match is the characters from `from` up to, not including, `to`.
Match == [from : Nat, to : Nat]

Within(m, length) == 1 <= m.from /\ m.from < m.to /\ m.to <= length + 1

\* A prompt: its length, the terms that occur in it, and what the detectors, the
\* gazetteer and the NER model find, in the order in which they find it.
Prompt == [length : Nat, terms : SUBSET Terms,
           detected : Seq(Match), listed : Seq(Match), named : Seq(Match)]

NoPrompt == [length |-> 0, terms |-> {}, detected |-> <<>>, listed |-> <<>>, named |-> <<>>]

ASSUME PromptsAreTexts ==
    /\ Prompts \subseteq Prompt
    /\ \A p \in Prompts : \A found \in {p.detected, p.listed, p.named} :
          \A i \in DOMAIN found : Within(found[i], p.length)

ASSUME NullsAndBounds ==
    /\ NoVendor \notin Vendors
    /\ MaxVersions \in Nat /\ MaxEdits \in Nat

\* `pending`: the active policies whose rules it has yet to load; `found`: the
\* matches, those before `at` accepted (`taken`) or dropped; `left`: accepted and not
\* yet masked in `text`, which holds the positions of characters, and 0 for a mask.
Screened == [pc : {"idle", "rules", "scan", "called"},
             chat : BOOLEAN, said : Prompts \cup {NoPrompt},
             pending : SUBSET Policies, rules : SUBSET Rules,
             found : Seq(Match), at : Nat, taken : SUBSET Nat, left : SUBSET Nat,
             text : Seq(Nat)]

NoScreen == [pc |-> "idle", chat |-> FALSE, said |-> NoPrompt, pending |-> {}, rules |-> {},
             found |-> <<>>, at |-> 1, taken |-> {}, left |-> {}, text |-> <<>>]

\* `number`: of the version to add, or the row of the version to approve; `seen`, `row`:
\* the policy's status and the provider's row as loaded; `to`: the status to set.
Edit == [pc : {"idle", "first", "version", "status", "provider"},
         on : Policies \cup Providers \cup {NoRow}, number : Nat,
         seen : PolicyStates, to : PolicyStates, row : Connection]

NoEdit == [pc |-> "idle", on |-> NoRow, number |-> 0, seen |-> "none", to |-> "none",
           row |-> NoConnection]

ScreeningTypeOK ==
    /\ policy \in [Policies -> PolicyStates]
    /\ version \in Seq(Version)
    /\ useCase \in [UseCases -> Nat]
    /\ provider \in [Providers -> Connection]
    /\ edit \in [Admins -> Edit]
    /\ screen \in [Sessions -> Screened]
    /\ edits \in Nat
    /\ contested \subseteq Policies /\ raced \subseteq Providers
    /\ stood \in [Sessions -> SUBSET (Policies \X Rules)]

\* Policies with their versions, use cases and connections, and nothing under way.
StartFrom(policies, versions, cases, connections) ==
    /\ Init
    /\ policy = policies /\ version = versions
    /\ useCase = cases /\ provider = connections
    /\ edit = [a \in Admins |-> NoEdit]
    /\ screen = [s \in Sessions |-> NoScreen]
    /\ edits = 0 /\ contested = {} /\ raced = {}
    /\ stood = [s \in Sessions |-> {}]

ScreeningInit ==
    StartFrom([q \in Policies |-> "none"], <<>>, [u \in UseCases |-> 0],
              [g \in Providers |-> NoConnection])

-----------------------------------------------------------------------------
(* Policies and their versions                                             *)

VersionsOf(q) == {v \in DOMAIN version : version[v].policy = q}

\* The approved version with the highest number; two calls may have given the
\* same number.
Latest(q) ==
    {v \in VersionsOf(q) :
        /\ version[v].approved
        /\ \A w \in VersionsOf(q) : version[w].approved => version[w].number <= version[v].number}

\* The rules that everyone who reads an active policy finds.
InForce ==
    {rule \in Policies \X Rules :
        /\ policy[rule[1]] = "active"
        /\ Latest(rule[1]) # {}
        /\ \A v \in Latest(rule[1]) : rule[2] \in version[v].rules}

\* Of what was in force when the open chats began, what is so still.
KeepsStanding == stood' = [s \in Sessions |-> stood[s] \cap InForce']

BeginsEdit ==
    /\ edits < MaxEdits
    /\ edits' = edits + 1

\* create_policy commits twice: the draft, then its first version.
CreatePolicy(a, q) ==
    /\ BeginsEdit
    /\ edit[a].pc = "idle" /\ policy[q] = "none"
    /\ policy' = [policy EXCEPT ![q] = "draft"]
    /\ edit' = [edit EXCEPT ![a] = [NoEdit EXCEPT !.pc = "first", !.on = q, !.number = 1]]
    /\ UNCHANGED <<vars, version, useCase, provider, screen, contested, raced>>
    /\ KeepsStanding

Numbers(a, q) == edit[a].pc \in {"first", "version"} /\ edit[a].on = q

\* create_policy_version: one more than func.max of what is committed.
NextNumbers(q) ==
    LET given == {version[v].number : v \in VersionsOf(q)} IN
    {n \in {1} \cup {k + 1 : k \in given} : \A k \in given : k < n}

OpenVersion(a, q) ==
    /\ BeginsEdit
    /\ edit[a].pc = "idle" /\ policy[q] # "none"
    /\ \E n \in NextNumbers(q) :
          edit' = [edit EXCEPT ![a] = [NoEdit EXCEPT !.pc = "version", !.on = q, !.number = n]]
    /\ contested' = contested \cup IF \E b \in Admins : Numbers(b, q) THEN {q} ELSE {}
    /\ UNCHANGED <<vars, governing, screen, raced, stood>>

AddVersion(a) ==
    /\ edit[a].pc \in {"first", "version"}
    /\ Len(version) < MaxVersions
    /\ \E rules \in IF edit[a].pc = "first" THEN {{}} ELSE SUBSET Rules :
          version' = Append(version, [policy |-> edit[a].on, number |-> edit[a].number,
                                      rules |-> rules, approved |-> FALSE])
    /\ edit' = [edit EXCEPT ![a] = NoEdit]
    /\ UNCHANGED <<vars, policy, useCase, provider, screen, edits, contested, raced>>
    /\ KeepsStanding

\* The calls that set a policy's status load it first.
OpenStatus(a, q, v, to) ==
    /\ BeginsEdit
    /\ edit[a].pc = "idle" /\ policy[q] # "none"
    /\ edit' = [edit EXCEPT ![a] = [NoEdit EXCEPT !.pc = "status", !.on = q, !.number = v,
                                                  !.seen = policy[q], !.to = to]]
    /\ UNCHANGED <<vars, governing, screen, contested, raced, stood>>

OpenApproval(a, q) == \E v \in VersionsOf(q) : OpenStatus(a, q, v, "active")
OpenArchive(a, q) == OpenStatus(a, q, 0, "archived")
OpenActivate(a, q) == OpenStatus(a, q, 0, "active")

\* The status is written only if it differs from the one loaded.
CommitStatus(a) ==
    LET c == edit[a] IN
    /\ c.pc = "status"
    /\ policy' = [policy EXCEPT ![c.on] = IF c.to = c.seen THEN @ ELSE c.to]
    /\ version' = IF c.number = 0 THEN version
                  ELSE [version EXCEPT ![c.number].approved = TRUE]
    /\ edit' = [edit EXCEPT ![a] = NoEdit]
    /\ UNCHANGED <<vars, useCase, provider, screen, edits, contested, raced>>
    /\ KeepsStanding

\* A call that ends without its commit.
DropEdit(a) ==
    /\ edit[a].pc # "idle"
    /\ edit' = [edit EXCEPT ![a] = NoEdit]
    /\ UNCHANGED <<vars, governing, screen, edits, contested, raced, stood>>

-----------------------------------------------------------------------------
(* Use cases and providers                                                 *)

\* A use case names a row, of any policy, approved or not; an update cannot
\* take the reference away again.
SaveUseCase(u) ==
    /\ BeginsEdit
    /\ \E v \in DOMAIN version : useCase' = [useCase EXCEPT ![u] = v]
    /\ UNCHANGED <<vars, policy, version, provider, edit, screen, contested, raced, stood>>

CreateProvider(g) ==
    /\ BeginsEdit
    /\ provider[g].status = "none"
    /\ \E on \in {"active", "inactive"}, type \in Vendors : \E key \in {NoVendor, type} :
          provider' = [provider EXCEPT ![g] = [status |-> on, type |-> type, key |-> key]]
    /\ UNCHANGED <<vars, policy, version, useCase, edit, screen, contested, raced, stood>>

Updates(a, g) == edit[a].pc = "provider" /\ edit[a].on = g

OpenProvider(a, g) ==
    /\ BeginsEdit
    /\ edit[a].pc = "idle" /\ provider[g].status # "none"
    /\ edit' = [edit EXCEPT ![a] = [NoEdit EXCEPT !.pc = "provider", !.on = g,
                                                  !.row = provider[g]]]
    /\ raced' = raced \cup IF \E b \in Admins : Updates(b, g) THEN {g} ELSE {}
    /\ UNCHANGED <<vars, governing, screen, contested, stood>>

\* Another vendor takes the stored key away, unless one is given with it.
KeepsKey(seen, type, given) ==
    IF given = "new" THEN type ELSE IF given = "cleared" THEN NoVendor ELSE seen.key
KeyAfter(seen, type, given) ==
    IF given = "new" THEN type
    ELSE IF given = "cleared" \/ type # seen.type THEN NoVendor ELSE seen.key

\* A column is written if it differs from what was loaded; a given key always
\* does, as its encryption is new.
CommitProvider(a, on, type, given) ==
    LET g == edit[a].on
        seen == edit[a].row
        new == [status |-> on, type |-> type, key |-> KeyAfter(seen, type, given)]
    IN
    /\ edit[a].pc = "provider"
    /\ provider' = [provider EXCEPT ![g] =
           [c \in DOMAIN new |->
               IF new[c] = seen[c] /\ ~(c = "key" /\ given = "new") THEN @[c] ELSE new[c]]]
    /\ edit' = [edit EXCEPT ![a] = NoEdit]
    /\ UNCHANGED <<vars, policy, version, useCase, screen, edits, contested, raced, stood>>

-----------------------------------------------------------------------------
(* Prompts: the rules that apply                                           *)

\* create_request reads the rules of the version its use case names; the
\* provider's connection must be active.
OpenRequest(s, u, g, p) ==
    /\ api[s].pc = "idle" /\ screen[s].pc = "idle"
    /\ provider[g].status = "active"
    /\ screen' = [screen EXCEPT ![s] =
           [NoScreen EXCEPT !.pc = "rules", !.said = p,
                            !.rules = IF useCase[u] = 0 THEN {} ELSE version[useCase[u]].rules]]
    /\ UNCHANGED <<vars, governing, edit, edits, contested, raced, stood>>

ReadsOne(q) == q = CHOOSE r \in Policies : \A t \in Policies : policy[t] = "active" => policy[r] = "active"
ToRead(q) == policy[q] = "active"

\* governed_chat asks for the active policies first; it does not look at the
\* provider's status.
OpenChat(s, g, p) ==
    /\ api[s].pc = "idle" /\ screen[s].pc = "idle"
    /\ provider[g].status # "none"
    /\ screen' = [screen EXCEPT ![s] =
           [NoScreen EXCEPT !.pc = "rules", !.chat = TRUE, !.said = p,
                            !.pending = {q \in Policies : ToRead(q)}]]
    /\ stood' = [stood EXCEPT ![s] = InForce]
    /\ UNCHANGED <<vars, governing, edit, edits, contested, raced>>

\* _active_policy_rules, policy by policy: a query each.
LoadRules(s, q) ==
    /\ screen[s].pc = "rules" /\ q \in screen[s].pending
    /\ \E rules \in IF Latest(q) = {} THEN {{}} ELSE {version[v].rules : v \in Latest(q)} :
          screen' = [screen EXCEPT ![s].pending = @ \ {q}, ![s].rules = @ \cup rules]
    /\ UNCHANGED <<vars, governing, edit, edits, contested, raced, stood>>

-----------------------------------------------------------------------------
(* Prompts: the firewall                                                   *)

Blocked(s) == screen[s].said.terms \cap screen[s].rules # {}

\* prompt_firewall.scan: a blocked term ends it with an empty text.  The gazetteer
\* knows one language, which a chat never asks for; the NER model may be missing.
Scan(s) ==
    LET p == screen[s].said IN
    /\ screen[s].pc = "rules" /\ screen[s].pending = {}
    /\ \/ /\ Blocked(s)
          /\ screen' = [screen EXCEPT ![s].pc = "scan"]
       \/ /\ ~Blocked(s)
          /\ \E listed \in IF screen[s].chat THEN {<<>>} ELSE {<<>>, p.listed},
                named \in {<<>>, p.named} :
                screen' = [screen EXCEPT ![s] =
                    [@ EXCEPT !.pc = "scan", !.found = p.detected \o listed \o named,
                              !.text = [k \in 1..p.length |-> k]]]
    /\ UNCHANGED <<vars, governing, edit, edits, contested, raced, stood>>

Covers(m, p) == m.from <= p /\ p < m.to

Overlap(m, n) == m.from < n.to /\ n.from < m.to

\* _accept_by_priority, one candidate.
AcceptNext(s) ==
    LET c == screen[s] IN
    /\ c.pc = "scan" /\ c.at \in DOMAIN c.found
    /\ \/ /\ \E i \in c.taken : Overlap(c.found[c.at], c.found[i])
          /\ screen' = [screen EXCEPT ![s].at = @ + 1]
       \/ /\ \A i \in c.taken : ~Overlap(c.found[c.at], c.found[i])
          /\ screen' = [screen EXCEPT ![s] =
                 [c EXCEPT !.at = c.at + 1, !.taken = c.taken \cup {c.at},
                           !.left = c.left \cup {c.at}]]
    /\ UNCHANGED <<vars, governing, edit, edits, contested, raced, stood>>

\* Of the matches i and j, is j masked no earlier than i?
Leftmost(c, i, j) == c.found[i].from <= c.found[j].from
Rightmost(c, i, j) == c.found[j].from <= c.found[i].from

\* text[:start] + "[MASKED:...]" + text[end:]
Masked(text, m) == SubSeq(text, 1, m.from - 1) \o <<0>> \o SubSeq(text, m.to, Len(text))

\* _apply_masks, one match: the offsets of those to its left stay right.
MaskNext(s) ==
    LET c == screen[s] IN
    /\ c.pc = "scan" /\ c.at \notin DOMAIN c.found
    /\ \E i \in c.left :
          /\ \A j \in c.left : Rightmost(c, i, j)
          /\ screen' = [screen EXCEPT ![s].left = @ \ {i},
                                      ![s].text = Masked(@, c.found[i])]
    /\ UNCHANGED <<vars, governing, edit, edits, contested, raced, stood>>

Scanned(s) ==
    /\ screen[s].pc \in {"scan", "called"}
    /\ screen[s].at \notin DOMAIN screen[s].found
    /\ screen[s].left = {}

-----------------------------------------------------------------------------
(* Prompts: what becomes of them                                           *)

Verdict(s) ==
    IF Blocked(s) THEN "blocked"
    ELSE IF RequireApproval \in screen[s].rules THEN "pending_approval" ELSE "pending"

EndsScreen(s) ==
    /\ screen' = [screen EXCEPT ![s] = NoScreen]
    /\ stood' = [stood EXCEPT ![s] = {}]
    /\ UNCHANGED <<governing, edit, edits, contested, raced>>

\* The row is committed: a request's with any verdict, a chat's unless it may be
\* sent at once.
StoreVerdict(s, r) ==
    /\ screen[s].pc = "scan" /\ Scanned(s)
    /\ screen[s].chat => Verdict(s) # "pending"
    /\ CreateRequest(s, r) /\ status'[r] = Verdict(s)
    /\ EndsScreen(s)

\* The chat calls the provider, within the handler.
CallChat(s) ==
    /\ screen[s].pc = "scan" /\ Scanned(s)
    /\ screen[s].chat /\ Verdict(s) = "pending"
    /\ screen' = [screen EXCEPT ![s].pc = "called"]
    /\ UNCHANGED <<vars, governing, edit, edits, contested, raced, stood>>

\* An answered chat inserts its row, as completed and without a response.
LogChat(s, r) ==
    /\ screen[s].pc = "called"
    /\ status[r] = "absent"
    /\ status' = [status EXCEPT ![r] = "completed"]
    /\ prompt' = [prompt EXCEPT ![r] = "masked"]
    /\ EndsScreen(s)
    /\ UNCHANGED <<flags, approval, message, rows, api, worker, calls, released, crashes>>

\* The call ends before its commit: a check, the provider or the database
\* raises, or the process dies.
DropScreen(s) ==
    /\ screen[s].pc # "idle"
    /\ EndsScreen(s)
    /\ UNCHANGED vars

-----------------------------------------------------------------------------

AdminStep ==
    \/ \E a \in Admins, q \in Policies :
          CreatePolicy(a, q) \/ OpenVersion(a, q) \/ OpenApproval(a, q)
          \/ OpenArchive(a, q) \/ OpenActivate(a, q)
    \/ \E a \in Admins : AddVersion(a) \/ CommitStatus(a) \/ DropEdit(a)
    \/ \E u \in UseCases : SaveUseCase(u)
    \/ \E g \in Providers : CreateProvider(g) \/ \E a \in Admins : OpenProvider(a, g)
    \/ \E a \in Admins, on \in {"active", "inactive"}, type \in Vendors,
          given \in {"kept", "cleared", "new"} : CommitProvider(a, on, type, given)

FirewallStep(s) == Scan(s) \/ AcceptNext(s) \/ MaskNext(s)

PromptStep(s) ==
    \/ \E g \in Providers, p \in Prompts :
          OpenChat(s, g, p) \/ \E u \in UseCases : OpenRequest(s, u, g, p)
    \/ \E q \in Policies : LoadRules(s, q)
    \/ FirewallStep(s)
    \/ \E r \in Requests : StoreVerdict(s, r) \/ LogChat(s, r)
    \/ CallChat(s)
    \/ DropScreen(s)

\* The pipeline's other steps; a session serves one call at a time.
PipelineStep ==
    /\ \/ \E s \in Sessions : screen[s].pc = "idle" /\ ServedStep(s)
       \/ \E w \in Workers : WorkerStep(w)
    /\ UNCHANGED screening

ScreeningNext == AdminStep \/ (\E s \in Sessions : PromptStep(s)) \/ PipelineStep

ScreeningSpec == ScreeningInit /\ [][ScreeningNext]_screeningVars

-----------------------------------------------------------------------------
(* Safety                                                                  *)

\* Whatever the three layers find and however their matches overlap: every match
\* is masked, or overlaps an earlier one that is; no character of a masked match is
\* left in the text that is stored or sent, and every other character is (scan).
MatchesAreMasked ==
    \A s \in Sessions : Scanned(s) /\ ~Blocked(s) =>
        LET c == screen[s]
            covered == {p \in 1..c.said.length : \E i \in c.taken : Covers(c.found[i], p)}
            kept == {c.text[k] : k \in DOMAIN c.text} \ {0}
        IN
        /\ \A i \in DOMAIN c.found : i \notin c.taken =>
               \E j \in c.taken : j < i /\ Overlap(c.found[i], c.found[j])
        /\ kept = (1..c.said.length) \ covered

\* "Every active rule applies, not just one arbitrary policy": a rule that was in
\* force from a chat's beginning until its call neither forbids a term of the prompt
\* nor demands an approval, whatever administrators commit between the chat's
\* queries (_active_policy_rules, governed_chat).
StandingRulesApply ==
    \A s \in Sessions : screen[s].pc = "called" =>
        \A rule \in stood[s] : rule[2] \notin screen[s].said.terms \cup {RequireApproval}

-----------------------------------------------------------------------------
(* The inductive invariant                                                 *)

\* Two versions of a policy have one number only if two calls numbered versions of
\* it at the same time: the number is read before the row is inserted.
NumbersInv ==
    \A q \in Policies \ contested :
        /\ \A v, w \in VersionsOf(q) : version[v].number = version[w].number => v = w
        /\ \A a \in Admins : Numbers(a, q) =>
               /\ \A v \in VersionsOf(q) : version[v].number < edit[a].number
               /\ \A b \in Admins : Numbers(b, q) => a = b

\* A provider keeps a key of another vendor only if two calls updated it at the
\* same time: each writes the columns it changes of the row it loaded.
KeysInv ==
    /\ \A g \in Providers \ raced :
          /\ provider[g].key \in {NoVendor, provider[g].type}
          /\ \A a \in Admins : Updates(a, g) =>
                 /\ edit[a].row = provider[g]
                 /\ \A b \in Admins : Updates(b, g) => a = b
    /\ \A g \in Providers, a \in Admins : Updates(a, g) => provider[g].status # "none"

\* Calls work on rows that exist.
EditsInv ==
    /\ \A q \in Policies : policy[q] = "none" => VersionsOf(q) = {} /\ \A a \in Admins : ~Numbers(a, q)
    /\ \A a \in Admins :
          /\ edit[a].pc \in {"first", "version", "status"} => edit[a].on \in Policies
          /\ edit[a].pc = "status" => /\ edit[a].number \in {0} \cup VersionsOf(edit[a].on)
                                      /\ edit[a].to # "none"
          /\ edit[a].pc = "provider" => edit[a].on \in Providers
    /\ \A u \in UseCases : useCase[u] \in {0} \cup DOMAIN version

\* A session screens a prompt only while it serves no other call, and looks for
\* matches once all rules are loaded and none forbids the prompt.
SessionsInv ==
    \A s \in Sessions :
        /\ screen[s].pc # "idle" => api[s].pc = "idle"
        /\ screen[s].pc \in {"scan", "called"} => screen[s].pending = {}
        /\ screen[s].pc \in {"idle", "rules"} \/ Blocked(s) =>
               screen[s].found = <<>> /\ screen[s].at = 1
               /\ screen[s].taken = {} /\ screen[s].left = {}
        /\ screen[s].pc = "called" => Scanned(s) /\ Verdict(s) = "pending"

\* What still stands of a chat's rules is in force, and loaded or to be loaded.
StandingInv ==
    \A s \in Sessions :
        /\ stood[s] \subseteq InForce
        /\ screen[s].pc = "idle" => stood[s] = {}
        /\ \A rule \in stood[s] : rule[1] \in screen[s].pending \/ rule[2] \in screen[s].rules

\* The first loop: each match before `at` was accepted, or overlaps an earlier one
\* that was; accepted matches do not overlap.
AcceptsInv(c) ==
    /\ c.at \in 1..Len(c.found) + 1
    /\ \A i \in DOMAIN c.found : Within(c.found[i], c.said.length)
    /\ c.taken \subseteq 1..c.at - 1 /\ c.left \subseteq c.taken
    /\ c.at \in DOMAIN c.found => c.left = c.taken /\ c.text = [k \in 1..c.said.length |-> k]
    /\ \A i \in 1..c.at - 1 :
          i \in c.taken \/ \E j \in c.taken : j < i /\ Overlap(c.found[i], c.found[j])
    /\ \A i, j \in c.taken : i # j => ~Overlap(c.found[i], c.found[j])

\* The second loop: before position b the text is as it was, and all that is left to
\* mask is there; from b on it holds masks and what no masked match covers.
SplitsAt(c, b) ==
    /\ b <= Len(c.text) + 1
    /\ \A k \in 1..b - 1 : c.text[k] = k
    /\ \A i \in c.left : c.found[i].to <= b
    /\ \A i \in c.taken \ c.left : b <= c.found[i].from
    /\ \A k \in b..Len(c.text) : c.text[k] # 0 =>
          /\ c.text[k] \in b..c.said.length
          /\ \A i \in c.taken \ c.left : ~Covers(c.found[i], c.text[k])
    /\ \A p \in b..c.said.length :
          \/ \E i \in c.taken \ c.left : Covers(c.found[i], p)
          \/ \E k \in b..Len(c.text) : c.text[k] = p

MasksInv ==
    \A s \in Sessions : screen[s].pc \in {"scan", "called"} /\ ~Blocked(s) =>
        /\ AcceptsInv(screen[s])
        /\ \E b \in 1..screen[s].said.length + 1 : SplitsAt(screen[s], b)

ScreeningInv ==
    /\ ScreeningTypeOK
    /\ NumbersInv
    /\ KeysInv
    /\ EditsInv
    /\ SessionsInv
    /\ StandingInv
    /\ MasksInv

=============================================================================
