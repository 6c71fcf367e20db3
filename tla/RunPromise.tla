----------------------------- MODULE RunPromise -----------------------------
(***************************************************************************)
(* What a background job promises, whatever its worker and its operators   *)
(* interleave: a run ends at most once and its outcome is final, and a     *)
(* confirm-tier call is executed only by a run that is still going and     *)
(* only after some operator granted it.                                    *)
(***************************************************************************)
CONSTANTS Jobs, Calls

VARIABLES
    outcome,     \* of the job's run
    granted,     \* calls some operator granted
    executed     \* confirm-tier calls executed by the run

vars == <<outcome, granted, executed>>

Outcomes == {"done", "failed", "canceled"}

Init ==
    /\ outcome = [j \in Jobs |-> "absent"]
    /\ granted \in SUBSET Calls
    /\ executed = [j \in Jobs |-> {}]

Begin(j) ==
    /\ outcome[j] = "absent"
    /\ outcome' = [outcome EXCEPT ![j] = "running"]
    /\ UNCHANGED <<granted, executed>>

End(j, o) ==
    /\ outcome[j] = "running"
    /\ outcome' = [outcome EXCEPT ![j] = o]
    /\ UNCHANGED <<granted, executed>>

Grant(S) ==
    /\ granted' = granted \cup S
    /\ UNCHANGED <<outcome, executed>>

Execute(j, c) ==
    /\ outcome[j] = "running"
    /\ c \in granted
    /\ executed' = [executed EXCEPT ![j] = @ \cup {c}]
    /\ UNCHANGED <<outcome, granted>>

Next ==
    \/ \E j \in Jobs : \/ Begin(j)
                       \/ \E o \in Outcomes : End(j, o)
                       \/ \E c \in Calls : Execute(j, c)
    \/ \E S \in SUBSET Calls : Grant(S)

Spec == Init /\ [][Next]_vars

=============================================================================
