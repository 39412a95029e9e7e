---------------------------- MODULE MCAnalytics ----------------------------
(***************************************************************************)
(* Energy, the two halves of Screen, Bills and Estimate share no state:    *)
(* each is explored from its initial state with the others at rest.        *)
(***************************************************************************)
EXTENDS Energy, Screen, Bills, Estimate

MCBillSets ==
    {[m \in {"jan", "jul"} |-> {}],
     [m \in {"jan", "jul"} |-> IF m = "jan" THEN {110, 160} ELSE {300}],
     [m \in {"jan", "jul"} |-> IF m = "jan" THEN {} ELSE {120, 200}]}
MCPeriods == <<"hour", "day", "month">>
MCPeriodLen == [p \in {"hour", "day", "month"} |->
                  CASE p = "hour" -> 1 [] p = "day" -> 2 [] p = "month" -> 3]
MCExposes == [s \in {"opower", "paper"} |->
                IF s = "opower" THEN {"hour", "day", "month"} ELSE {"month"}]

MCMonthDays == <<2, 3>>

Init == EInit /\ SInit /\ MInit /\ UInit /\ XInit
Next ==
    \/ SInit /\ MInit /\ UInit /\ XInit /\ ENext /\ UNCHANGED <<svars, mvars, uvars, xvars>>
    \/ EInit /\ MInit /\ UInit /\ XInit /\ SNext /\ UNCHANGED <<evars, mvars, uvars, xvars>>
    \/ EInit /\ SInit /\ UInit /\ XInit /\ MNext /\ UNCHANGED <<evars, svars, uvars, xvars>>
    \/ EInit /\ SInit /\ MInit /\ XInit /\ UNext /\ UNCHANGED <<evars, svars, mvars, xvars>>
    \/ EInit /\ SInit /\ MInit /\ UInit /\ XNext /\ UNCHANGED <<evars, svars, mvars, uvars>>
=============================================================================
