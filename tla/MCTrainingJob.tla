---------------------------- MODULE MCTrainingJob -----------------------------
(***************************************************************************)
(* TrainingJob for TLC.  Sessions and runs are interchangeable: the second *)
(* session takes a call, and the second run a message, only while the      *)
(* first is busy.  A third task is sent only in-process and without losses *)
(* or failures, and the last call meets those only in containers, where    *)
(* runs outlive their workers.                                             *)
(***************************************************************************)
EXTENDS TrainingJob

CONSTANTS s1, s2, r1, r2

Busy(old, new) == old.pc = "idle" /\ new.pc # "idle"

InOrder == /\ Busy(api[s2], api'[s2]) => api[s1].pc # "idle"
           /\ Busy(run[r2], run'[r2]) => run[r1].pc # "idle"

Third == message[3].state # "unsent"

MCNext ==
    /\ Next
    /\ InOrder
    /\ calls' = MaxCalls /\ crashes' > 0 => isolated
    /\ Third' => ~isolated /\ crashes' = 0

MCSpec == Init /\ [][MCNext]_vars /\ Fairness

=============================================================================
