--------------------------- MODULE GovernedRelease ---------------------------
(***************************************************************************)
(* What the request pipeline promises, without its rows, messages and      *)
(* workers: a prompt goes to a provider only for a request that was let    *)
(* through, and the text of a request the firewall refused never goes.     *)
(***************************************************************************)
CONSTANT Requests

VARIABLES
    withheld,   \* requests whose text the firewall refused
    released,   \* requests a policy or a decision let through
    calls       \* what the provider received

vars == <<withheld, released, calls>>

Call == [req : Requests, text : {"masked", "edited", "placeholder"}]

Init == withheld = {} /\ released = {} /\ calls = {}

\* The firewall refuses a prompt, before anything else is decided about it.
Withhold(r) ==
    /\ r \notin released
    /\ withheld' = withheld \cup {r}
    /\ UNCHANGED <<released, calls>>

Let(r) ==
    /\ released' = released \cup {r}
    /\ UNCHANGED <<withheld, calls>>

Send(c) ==
    /\ c.req \in released
    /\ c.text = "masked" => c.req \notin withheld
    /\ calls' = calls \cup {c}
    /\ UNCHANGED <<withheld, released>>

Next == (\E r \in Requests : Withhold(r) \/ Let(r)) \/ (\E c \in Call : Send(c))

Spec == Init /\ [][Next]_vars

=============================================================================
