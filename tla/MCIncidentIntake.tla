-------------------------- MODULE MCIncidentIntake --------------------------
(* Model-checking instances of IncidentIntake.                             *)
EXTENDS IncidentIntake, TLC

CONSTANTS h1, h2, unknown, empty

Alert(fp, service, words, severity, source, labels) ==
  [fp |-> fp, service |-> service, words |-> words, severity |-> severity, source |-> source,
   labels |-> labels]

(* Two alerts that have nothing in common: an ordinary one, and one whose  *)
(* title has no words and whose sender named no service.                   *)
Errors == Alert("f1", "pay", {"high", "errors"}, "P1", "prometheus", {})
Blank  == Alert("f3", unknown, {}, "P2", "generic", {"host"})

Two == {Errors, Blank}

(* A third alert arrives only where no time has passed and every alert     *)
(* says that it was triggered at the beginning: the ids and the counter,   *)
(* for which it takes three, do not depend on the clock.                   *)
Timeless ==
  /\ now = 0
  /\ \A h \in Handlers : Creating(h) => handler[h].at = 0
  /\ \A i \in DOMAIN incidents : incidents[i].at = 0
  /\ \A p \in pages \cup late : p.at = 0

MCNext == Next /\ (arrivals <= 2 \/ Timeless)'

MCSpec == Init /\ [][MCNext]_vars

Symmetry == Permutations({h1, h2})
=============================================================================
