-------------------------- MODULE DeliveryContract --------------------------
(***************************************************************************)
(* What the Direct workflow promises the Owner of a project, without       *)
(* commands, stages, revisions, runs or crashes: tasks are agreed on,      *)
(* written one at a time, checked against the agreement in force, and      *)
(* accepted only on a source that passed those checks.                     *)
(***************************************************************************)
CONSTANTS Tasks, Sources, None

VARIABLES phase,     \* of each task
          passed,    \* sources that passed the checks of the last agreement
          accepted   \* the source the Owner accepted, or None

vars == <<phase, passed, accepted>>

Phases == {"open", "agreed", "writing", "accepted"}

Init ==
    /\ phase = [t \in Tasks |-> "open"]
    /\ passed = [t \in Tasks |-> {}]
    /\ accepted = [t \in Tasks |-> None]

\* A new agreement starts with no evidence.
Agree(t) ==
    /\ phase[t] = "open"
    /\ phase' = [phase EXCEPT ![t] = "agreed"]
    /\ passed' = [passed EXCEPT ![t] = {}]
    /\ UNCHANGED accepted

Claim(t) ==
    /\ phase[t] = "agreed"
    /\ \A u \in Tasks : phase[u] # "writing"
    /\ phase' = [phase EXCEPT ![t] = "writing"]
    /\ UNCHANGED <<passed, accepted>>

Pass(t, s) ==
    /\ phase[t] = "writing"
    /\ passed' = [passed EXCEPT ![t] = @ \cup {s}]
    /\ UNCHANGED <<phase, accepted>>

\* A verdict that could not be published is withdrawn.
Retract(t, s) ==
    /\ phase[t] = "writing"
    /\ passed' = [passed EXCEPT ![t] = @ \ {s}]
    /\ UNCHANGED <<phase, accepted>>

Yield(t) ==
    /\ phase[t] = "writing"
    /\ phase' = [phase EXCEPT ![t] = "agreed"]
    /\ UNCHANGED <<passed, accepted>>

Reopen(t) ==
    /\ phase[t] \in {"agreed", "writing"}
    /\ phase' = [phase EXCEPT ![t] = "open"]
    /\ UNCHANGED <<passed, accepted>>

Accept(t, s) ==
    /\ phase[t] = "writing"
    /\ s \in passed[t]
    /\ phase' = [phase EXCEPT ![t] = "accepted"]
    /\ accepted' = [accepted EXCEPT ![t] = s]
    /\ UNCHANGED passed

Next ==
    \E t \in Tasks :
        \/ Agree(t) \/ Claim(t) \/ Yield(t) \/ Reopen(t)
        \/ \E s \in Sources : Pass(t, s) \/ Retract(t, s) \/ Accept(t, s)

Spec == Init /\ [][Next]_vars
=============================================================================
