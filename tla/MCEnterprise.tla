---------------------------- MODULE MCEnterprise ----------------------------
EXTENDS Enterprise

Member(email, lead) == [email |-> email, lead |-> lead]
MCRosters == {<<Member("ann", FALSE), Member("bob", FALSE), Member("cat", TRUE)>>,
              <<Member("ann", TRUE), Member("bob", FALSE)>>}

MCLimits == [p1 |-> [response |-> 0, acknowledge |-> 1, resolution |-> 1]]

Step(type, text) == [type |-> type, text |-> text]
MCScripts == {<<Step("command", "allowed"), Step("approval", ""), Step("k8s", "scale")>>,
              <<Step("manual", ""), Step("api_call", "allowed"), Step("command", "allowed")>>,
              <<Step("command", "allowed"), Step("command", "blocked"), Step("command", "allowed")>>}

Level(op, value) == [type |-> "threshold", field |-> "level", op |-> op, value |-> value]
Window(count, window) == [type |-> "time_window", group |-> "service", count |-> count, window |-> window]
Finds(values) == [type |-> "pattern", field |-> "service", value |-> values]
MCAlerts == {"service" :> "pay" @@ "level" :> 3, "service" :> "pay" @@ "level" :> 1, "level" :> 3}
MCConditions == {[op |-> "and", parts |-> <<Level("gte", 2), Window(2, 1)>>],
                 [op |-> "or", parts |-> <<Finds({"pay"}), Window(3, 2)>>]}
=============================================================================
