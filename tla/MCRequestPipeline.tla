-------------------------- MODULE MCRequestPipeline --------------------------
(***************************************************************************)
(* RequestPipeline for TLC: two approvals decided in two sessions while no *)
(* worker is lost (as the API names the decisions; or in any words, while  *)
(* nothing is sent to the broker and nobody overrides), or two workers and *)
(* messages and a crash.  Rows, sessions, messages and workers are         *)
(* interchangeable: the second of them is used only while the first is.    *)
(***************************************************************************)
EXTENDS RequestPipeline

CONSTANTS a1, a2, s1, s2, m1, m2, w1, w2

VARIABLE kind          \* which of the three situations

Deciding == approval[a2].req # NoRequest \/ api[s2].pc # "idle"
Dispatching == crashes > 0 \/ message[m2].state # "unsent" \/ worker[w2].pc # "idle"

Named == \A s \in Sessions : api[s].verb # "other"
Quiet == /\ \A m \in Messages : message[m].state = "unsent"
         /\ \A s \in Sessions : api[s].pc # "overriding"

Starts(old, new) == old.pc = "idle" /\ new.pc # "idle"

InOrder ==
    /\ Starts(api[s2], api'[s2]) => api[s1].pc # "idle"
    /\ Starts(worker[w2], worker'[w2]) => worker[w1].pc # "idle"
    /\ approval'[a2].req # NoRequest => approval[a1].req # NoRequest
    /\ message'[m2].state # "unsent" => message[m1].state # "unsent"

MCInit == Init /\ kind \in {"deciding", "unnamed", "dispatching"}

MCNext ==
    /\ Next
    /\ kind' = kind
    /\ InOrder
    /\ kind = "unnamed" => Quiet'
    /\ kind # "unnamed" => Named'
    /\ kind = "deciding" => ~Dispatching'
    /\ kind = "dispatching" => ~Deciding'

MCSpec == MCInit /\ [][MCNext]_<<vars, kind>> /\ WorkerFairness

=============================================================================
