----------------------------- MODULE MCPlatform -----------------------------
EXTENDS Platform, TLC

Raw(title, fingerprint) == [title |-> title, fingerprint |-> fingerprint]
Hook(source, signature, org, alerts) ==
    [source |-> source, signature |-> signature, org |-> org, wellFormed |-> TRUE, alerts |-> alerts]

Up == {"api", "down"}
Slow == {"db", "slow"}

\* Two alerts with one fingerprint and unlike titles; a title like another; an alert that is
\* suppressed; no organisation; a payload of the wrong shape; a batch with one, and with a
\* wrong signature.
MCBodies ==
    {[kind |-> "webhook", webhook |-> Hook("prometheus", "right", "o", <<Raw(Up, "f"), Raw({"disk"}, "")>>)],
     [kind |-> "webhook", webhook |-> Hook("grafana", "", "o", <<Raw(Slow, "f")>>)],
     [kind |-> "webhook", webhook |-> Hook("pagerduty", "", "o", <<Raw({"disk"}, ""), Raw(Up, "")>>)],
     [kind |-> "webhook", webhook |-> Hook("generic", "", "", <<Raw(Up \cup {"now"}, "f")>>)],
     [kind |-> "webhook", webhook |-> [Hook("manual", "", "o", <<>>) EXCEPT !.wellFormed = FALSE]],
     [kind |-> "batch", webhooks |-> <<[Hook("prometheus", "right", "o", <<>>) EXCEPT !.wellFormed = FALSE],
                                       Hook("prometheus", "wrong", "o", <<Raw(Up, "")>>),
                                       Hook("prometheus", "right", "o", <<Raw(Slow, "f")>>)>>],
     [kind |-> "deliver"],
     [kind |-> "agents", incident |-> 1]}

Email(email, primary, verified) == [email |-> email, primary |-> primary, verified |-> verified]
MCProfiles == {[emails |-> <<Email("ann", FALSE, TRUE), Email("bob", TRUE, TRUE)>>, public |-> ""],
               [emails |-> <<Email("ann", TRUE, FALSE)>>, public |-> "ann"],
               [emails |-> <<>>, public |-> ""]}

MCSetups == {[bot |-> TRUE, hook |-> TRUE], [bot |-> TRUE, hook |-> FALSE], [bot |-> FALSE, hook |-> TRUE]}
\* War rooms on request and two failures for one incident; two incidents with less.
MCSlackBounds == {
    [outages |-> {"i1"}, reloads |-> 1, requests |-> 1, updates |-> 1, glitches |-> 2],
    [outages |-> {"i1", "i2"}, reloads |-> 1, requests |-> 0, updates |-> 1, glitches |-> 1]}
MCItems == {<<"x", "y">>, <<"z">>, <<>>}

Symmetry == Permutations(DocIds) \cup Permutations(Calls)
=============================================================================
