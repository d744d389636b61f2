----------------------------- MODULE AlertRules -----------------------------
(***************************************************************************)
(* The alert rule engine (enterprise/alert_rules.py) and the rule endpoints*)
(* of enterprise/router.py.  Rules are rows; the times at which a rule with*)
(* a time window saw an alert are kept in memory, per rule and group.  The *)
(* caller that evaluates alerts is external: src/ has none.                *)
(***************************************************************************)
EXTENDS Integers, Sequences, FiniteSets, SequencesExt

CONSTANTS
    Rules,         \* ids of rules
    Conditions,    \* sequences of leaves under "and" or "or": [op, parts]
    ActionTypes,   \* subset of "create_incident", "escalate", "notify", "suppress"
    Alerts,        \* alerts: [field -> value or Missing]
    Missing,       \* the value of a field an alert does not have
    Duration,      \* duration_minutes of a suppression
    MaxHour,       \* bound on the clock
    MaxEdits,      \* bound: rules created, updated, toggled or deleted
    MaxAlerts      \* bound: alerts evaluated

ASSUME AlertAssumption ==
    /\ Duration \in Nat /\ MaxHour \in Nat /\ MaxEdits \in Nat /\ MaxAlerts \in Nat
    /\ \A c \in Conditions : /\ Len(c.parts) \in Nat /\ DOMAIN c.parts = 1 .. Len(c.parts)
                             /\ \A n \in DOMAIN c.parts :
                                  c.parts[n].type = "time_window" => c.parts[n].window \in Nat

VARIABLES
    rules,         \* the rows, newest first: [id, condition, action, active, created]
    tracker,       \* _time_window_tracker: times per rule and group
    hour,
    edits,
    judged,        \* the last evaluation: rules evaluated, those that matched, the alert
    seen,          \* history: every look of a rule's windows at an alert: [rule, groups, time]
    rewound        \* history: rules whose condition was changed, or deleted

alertVars == <<rules, tracker, hour, edits, judged, seen, rewound>>

NoVerdict == [of |-> {}, matched |-> {}, alert |-> [f \in {} |-> 0], time |-> 0]

----------------------------------------------------------------------------
(* Conditions                                                              *)

\* _get_alert_field
Field(alert, field) == IF field \in DOMAIN alert THEN alert[field] ELSE Missing

\* _eval_threshold: a missing field matches nothing, not even "neq".
\* An operator nobody knows matches nothing; substrings ("contains") are left out.
Threshold(alert, leaf) ==
    LET a == Field(alert, leaf.field)
    IN a # Missing /\ CASE leaf.op = "eq"     -> a = leaf.value
                        [] leaf.op = "neq"    -> a # leaf.value
                        [] leaf.op = "gt"     -> a > leaf.value
                        [] leaf.op = "lt"     -> a < leaf.value
                        [] leaf.op = "gte"    -> a >= leaf.value
                        [] leaf.op = "lte"    -> a <= leaf.value
                        [] leaf.op = "in"     -> a \in leaf.value
                        [] leaf.op = "not_in" -> a \notin leaf.value
                        [] OTHER              -> FALSE

\* _eval_pattern: the values the expression finds; a malformed one finds none.
Pattern(alert, leaf) == Field(alert, leaf.field) \in leaf.value \ {Missing}

Group(alert, leaf) == LET g == Field(alert, leaf.group) IN IF g = Missing THEN "default" ELSE g

\* _eval_time_window: what is left of the entries, and this one.
Recent(times, from) ==
    LET kept[n \in 0 .. Len(times)] ==
            IF n = 0 THEN <<>> ELSE IF times[n] >= from THEN Append(kept[n - 1], times[n]) ELSE kept[n - 1]
    IN kept[Len(times)]

Counted(times, leaf, now) == Append(Recent(times, now - leaf.window), now)

Times(all, key) == IF key \in DOMAIN all THEN all[key] ELSE <<>>

\* _evaluate_condition of one leaf, of which a window counts n alerts.
Matches(alert, leaf, n) ==
    CASE leaf.type = "threshold"   -> Threshold(alert, leaf)
      [] leaf.type = "pattern"     -> Pattern(alert, leaf)
      [] leaf.type = "time_window" -> n >= leaf.count
      [] OTHER                     -> FALSE

\* One leaf on top of what the leaves before it found.
Leaf(r, alert, acc, leaf) ==
    LET key == <<r, Group(alert, leaf)>>
        times == Counted(Times(acc.tracker, key), leaf, hour)
    IN [found |-> Append(acc.found, Matches(alert, leaf, Len(times))),
        tracker |-> IF leaf.type # "time_window" THEN acc.tracker
                    ELSE [k \in DOMAIN acc.tracker \cup {key} |-> IF k = key THEN times ELSE acc.tracker[k]]]

Holds(condition, found) ==
    /\ found # <<>>
    /\ IF condition.op = "or" THEN \E n \in DOMAIN found : found[n] ELSE \A n \in DOMAIN found : found[n]

\* Slip: an "and" stops at the first leaf that does not match.
Slip_Composite(rule, alert, all) ==
    LET parts == rule.condition.parts
        upTo[n \in 0 .. Len(parts)] ==
            IF n = 0 THEN [found |-> <<>>, tracker |-> all]
            ELSE IF rule.condition.op = "and" /\ \E m \in DOMAIN upTo[n - 1].found : ~upTo[n - 1].found[m]
                 THEN upTo[n - 1] ELSE Leaf(rule.id, alert, upTo[n - 1], parts[n])
    IN upTo[Len(parts)]

\* _eval_composite: every leaf is evaluated.
Composite(rule, alert, all) ==
    LET parts == rule.condition.parts
        upTo[n \in 0 .. Len(parts)] ==
            IF n = 0 THEN [found |-> <<>>, tracker |-> all] ELSE Leaf(rule.id, alert, upTo[n - 1], parts[n])
    IN upTo[Len(parts)]

Windows(condition) == {n \in DOMAIN condition.parts : condition.parts[n].type = "time_window"}

\* What is remembered of a rule's evaluation, for the properties only.
Looked(rule, alert, looks) ==
    LET windows == Windows(rule.condition)
    IN IF windows = {} THEN looks
       ELSE Append(looks, [rule |-> rule.id, time |-> hour,
                           groups |-> {Group(alert, rule.condition.parts[n]) : n \in windows}])

\* _evaluate_condition
Judge(rule, alert, acc) ==
    LET last == Composite(rule, alert, acc.tracker)
    IN [of |-> acc.of \cup {rule.id}, tracker |-> last.tracker, seen |-> Looked(rule, alert, acc.seen),
        matched |-> IF Holds(rule.condition, last.found) THEN acc.matched \cup {rule.id} ELSE acc.matched]

Unjudged == [of |-> {}, matched |-> {}, tracker |-> tracker, seen |-> seen]

----------------------------------------------------------------------------
(* Evaluation                                                              *)

AlertInit ==
    /\ rules = <<>> /\ tracker = [k \in {} |-> <<>>] /\ hour = 0 /\ edits = 0
    /\ judged = NoVerdict /\ seen = <<>> /\ rewound = {}

ClockStrikes ==
    /\ hour < MaxHour /\ hour' = hour + 1
    /\ UNCHANGED <<rules, tracker, edits, judged, seen, rewound>>

Judged(all, alert) ==
    /\ tracker' = all.tracker /\ seen' = all.seen
    /\ judged' = [of |-> all.of, matched |-> all.matched, alert |-> alert, time |-> hour]
    /\ UNCHANGED <<rules, hour, edits, rewound>>

Arrives == Len(seen) < MaxAlerts

\* A suppression that matches and still lasts.
Suppresses(rule, all) == rule.id \in all.matched /\ hour - rule.created <= Duration

\* The active rules of list_rules, newest first; of suppressions those up to the first that holds.
Evaluated(alert, suppressing) ==
    LET upTo[n \in 0 .. Len(rules)] ==
            IF n = 0 THEN Unjudged
            ELSE IF /\ rules[n].active
                    /\ suppressing => /\ rules[n].action = "suppress"
                                      /\ \A m \in 1 .. n - 1 : ~Suppresses(rules[m], upTo[n - 1])
                 THEN Judge(rules[n], alert, upTo[n - 1]) ELSE upTo[n - 1]
    IN upTo[Len(rules)]

\* evaluate_alert
EvaluateAlert(alert) == Arrives /\ Judged(Evaluated(alert, FALSE), alert)

\* evaluate_suppression_rules
EvaluateSuppression(alert) == Arrives /\ Judged(Evaluated(alert, TRUE), alert)

----------------------------------------------------------------------------
(* Endpoints                                                               *)

Edit(new, changed) ==
    /\ edits < MaxEdits /\ edits' = edits + 1
    /\ rules' = new /\ rewound' = rewound \cup changed
    /\ UNCHANGED <<tracker, hour, judged, seen>>

RuleIds == {rules[n].id : n \in DOMAIN rules}

\* create_rule; ids are never used again.
CreateRule(condition, action) ==
    LET fresh == Rules \ (RuleIds \cup rewound)
    IN /\ fresh # {}
       /\ Edit(<<[id |-> CHOOSE id \in fresh : TRUE, condition |-> condition, action |-> action, active |-> TRUE, created |-> hour]>> \o rules, {})

\* update_rule
UpdateRule(n, condition, action) ==
    /\ condition # rules[n].condition \/ action # rules[n].action
    /\ Edit([rules EXCEPT ![n].condition = condition, ![n].action = action],
            IF condition = rules[n].condition THEN {} ELSE {rules[n].id})

\* toggle_rule; the window remembers what it saw before.
ToggleRule(n) == Edit([rules EXCEPT ![n].active = ~@], {})

\* delete_rule; what the window saw stays in memory.
DeleteRule(n) == Edit(RemoveAt(rules, n), {rules[n].id})

AlertNext ==
    \/ ClockStrikes
    \/ \E alert \in Alerts : EvaluateAlert(alert) \/ EvaluateSuppression(alert)
    \/ \E condition \in Conditions, action \in ActionTypes :
         \/ CreateRule(condition, action)
         \/ \E n \in DOMAIN rules : UpdateRule(n, condition, action)
    \/ \E n \in DOMAIN rules : ToggleRule(n) \/ DeleteRule(n)

----------------------------------------------------------------------------
(* Properties                                                              *)

\* The alerts the window of a leaf should count, for a reader who kept every look.
Looks(all, r, group, from) ==
    {n \in DOMAIN all : all[n].rule = r /\ group \in all[n].groups /\ all[n].time >= from}

InWindow(all, r, alert, leaf, now) == Cardinality(Looks(all, r, Group(alert, leaf), now - leaf.window))

\* Invariant.  A rule with one time window matches exactly if the alerts it was
\* given within the window, counted over everything it ever saw of the group,
\* and the rest of its condition say so: pruning loses nothing that counts and
\* keeps nothing that does not, whether the rule is evaluated as a rule or as
\* a suppression, is switched off meanwhile, or its other conditions fail.
WindowCounts == \A n \in DOMAIN rules : LET r == rules[n] IN
    r.id \in judged.of \ rewound /\ Cardinality(Windows(r.condition)) = 1 =>
        (r.id \in judged.matched <=>
            Holds(r.condition, [m \in DOMAIN r.condition.parts |-> LET leaf == r.condition.parts[m] IN
                Matches(judged.alert, leaf, InWindow(seen, r.id, judged.alert, leaf, judged.time))]))
=============================================================================
