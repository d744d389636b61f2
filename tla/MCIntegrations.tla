--------------------------- MODULE MCIntegrations ---------------------------
(* Bounds for Integrations: settings and deliveries are explored by        *)
(* behaviours of their own, with one save among the deliveries.            *)
EXTENDS Integrations

MCEnv == [s \in Secrets |-> IF s = "token" THEN "e" ELSE Empty]
MCProfiles == {
    [saves |-> 2, typed |-> 1, restarts |-> 2, changes |-> 0, dispatches |-> 0],
    [saves |-> 1, typed |-> 0, restarts |-> 0, changes |-> 3, dispatches |-> 2]}
MCOffers == {
    [enabled |-> TRUE, wants |-> TRUE, tries |-> 2],
    [enabled |-> TRUE, wants |-> TRUE, tries |-> 0],
    [enabled |-> FALSE, wants |-> TRUE, tries |-> 1]}
=============================================================================
