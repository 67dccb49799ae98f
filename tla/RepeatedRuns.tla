----------------------------- MODULE RepeatedRuns -----------------------------
(***************************************************************************)
(* A machine may be run again, with other arguments, another budget and    *)
(* other limits.  Two history variables, which restrict nothing, make its  *)
(* runs comparable: asked is the override the caller gave the current run, *)
(* and noted holds what some earlier finished run was given and its        *)
(* outcome.  Which one is left open: whenever a run starts, the one that   *)
(* has just finished may be noted, or the run noted before it may stay.    *)
(* So the current run is compared with every earlier run of the machine,   *)
(* however many runs there were between the two.                           *)
(***************************************************************************)
EXTENDS MachineProperties

VARIABLES asked, noted

historyVars == <<asked, noted>>

\* What the caller gives a run besides its budget.  run_limits is not among it:
\* the machine makes it of the override and create's limits.
Inputs == [arguments |-> arguments, override |-> asked]
Outcome == [fault |-> fault, value |-> value, carriers |-> carriers,
            memory |-> memory, islands_executed |-> islands_executed]

NoRun == [finished |-> FALSE]

NoteRun ==
    \/ UNCHANGED noted
    \/ /\ phase = "done"
       /\ noted' = [finished |-> TRUE, inputs |-> Inputs, budget |-> max_islands,
                    outcome |-> Outcome]

RepeatedInit == Init /\ asked = NoOverride /\ noted = NoRun

RepeatedNext ==
    \/ \E override \in Overrides :
           StartRunWith(override) /\ asked' = override /\ NoteRun
    \/ (Verify \/ RunStep) /\ UNCHANGED historyVars

RepeatedSpec == RepeatedInit /\ [][RepeatedNext]_<<vars, historyVars>>

BudgetFault == [code |-> "ResourceLimit", site |-> "dispatch"]

\* Both runs have finished and were given the same arguments and override.
Comparable == phase = "done" /\ noted.finished /\ noted.inputs = Inputs

\* run is const and keeps nothing: two equal calls have equal outcomes, whatever
\* ran before the first, between the two, and however those runs ended.
RunsAreRepeatable ==
    Comparable /\ noted.budget = max_islands => noted.outcome = Outcome

\* A larger budget changes nothing for a run the smaller one did not cut short,
\* and a budget of exactly the islands a halting run needs is enough, whichever
\* of the two runs came first and whatever ran between them.
BudgetOnlyTruncates ==
    Comparable =>
        /\ noted.budget <= max_islands /\ noted.outcome.fault # BudgetFault
               => noted.outcome = Outcome
        /\ max_islands <= noted.budget /\ fault # BudgetFault
               => noted.outcome = Outcome
        /\ noted.outcome.value # NoValue /\ noted.outcome.islands_executed <= max_islands
               => value = noted.outcome.value
=============================================================================
