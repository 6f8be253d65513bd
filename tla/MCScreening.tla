----------------------------- MODULE MCScreening -----------------------------
(***************************************************************************)
(* Screening for TLC: administrators racing from nothing; a chat against   *)
(* administrators who change two policies; or every list of matches in a   *)
(* short prompt, and what the pipeline makes of the row.                   *)
(***************************************************************************)
EXTENDS Screening

CONSTANTS q1, q2, u1, g1, t1, r1, openai

VARIABLE kind          \* which of the three situations

Matches == {m \in [from : 1..3, to : 2..4] : m.from < m.to}

UpTo(n) == UNION {[1..k -> Matches] : k \in 0..n}

\* What is said while policies change, and where rules forbid: a forbidden term.
Risky == [length |-> 1, terms |-> {t1}, detected |-> <<>>, listed |-> <<>>, named |-> <<>>]

MCPrompts ==
    {Risky} \cup
    [length : {3}, terms : {{}}, detected : UpTo(2), listed : UpTo(1), named : UpTo(1)]

Row(q, n, rules) == [policy |-> q, number |-> n, rules |-> rules, approved |-> TRUE]

Connected == [g \in Providers |-> [status |-> "active", type |-> openai, key |-> openai]]

\* Two active policies, one that forbids the term.
Governed ==
    \E q \in Policies :
        StartFrom([p \in Policies |-> "active"],
                  <<Row(q, 1, {t1}), Row(IF q = q1 THEN q2 ELSE q1, 1, {})>>,
                  [u \in UseCases |-> 0], Connected)

\* The use case names rules that forbid the term, demand an approval, or neither.
Asked ==
    \E rules \in {{}, {t1}, {RequireApproval}} :
        StartFrom([q \in Policies |-> IF q = q1 THEN "active" ELSE "none"],
                  <<Row(q1, 1, rules)>>, [u \in UseCases |-> 1], Connected)

MCInit ==
    \/ kind = "admins" /\ ScreeningInit
    \/ kind = "chat" /\ Governed
    \/ kind = "prompts" /\ Asked

Scanning == \E s \in Sessions : screen[s].pc = "scan" /\ ~Scanned(s)

MCNext ==
    /\ ScreeningNext
    /\ kind' = kind
    /\ kind = "admins" => UNCHANGED <<vars, screen>>
    /\ kind = "chat" =>
          /\ UNCHANGED <<vars, useCase, provider>>
          /\ \A s \in Sessions : screen'[s].pc # "idle" => screen'[s].said = Risky /\ screen'[s].chat
    /\ kind = "prompts" =>
          /\ UNCHANGED edits
          /\ screen' # screen => status[r1] = "absent"
          /\ version[1].rules # {} =>
                \A s \in Sessions : screen'[s].said \in {NoPrompt, Risky}
    /\ Scanning => screen' # screen

MCSpec == MCInit /\ [][MCNext]_<<screeningVars, kind>>

===============================================================================
