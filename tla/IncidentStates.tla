--------------------------- MODULE IncidentStates --------------------------
(***************************************************************************)
(* The incident lifecycle of src/incidents/models.py and                   *)
(* src/incidents/state_machine.py: the statuses, the table of valid        *)
(* transitions and the two ways of reading it.                             *)
(***************************************************************************)

Active == {"Triggered", "Triaged", "Investigating", "Mitigated"}

Status == Active \cup {"Resolved", "Postmortem"}

(* VALID_TRANSITIONS.                                                      *)
ValidTransitions ==
  [Triggered     |-> {"Triaged"},
   Triaged       |-> {"Investigating"},
   Investigating |-> {"Mitigated", "Resolved"},
   Mitigated     |-> {"Resolved", "Investigating"},
   Resolved      |-> {"Postmortem", "Investigating"},
   Postmortem    |-> {}]

(* validate_transition; execute_transition raises where this is FALSE.     *)
ValidTransition(current, target) == target \in ValidTransitions[current]
=============================================================================
