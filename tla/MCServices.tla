---------------------------- MODULE MCServices ----------------------------
(***************************************************************************)
(* Registry, Broker, Aggregate, Pending and Enrol share no state: each is  *)
(* explored from its initial states with the others at rest, which visits  *)
(* every state of each and none of their product.                          *)
(***************************************************************************)
EXTENDS Registry, Broker, Aggregate, Pending, Enrol

Init == RInit /\ BInit /\ GInit /\ PInit /\ NInit
Next ==
    \/ BInit /\ GInit /\ PInit /\ NInit /\ RNext /\ UNCHANGED <<bvars, gvars, pvars, nvars>>
    \/ RInit /\ GInit /\ PInit /\ NInit /\ BNext /\ UNCHANGED <<rvars, gvars, pvars, nvars>>
    \/ RInit /\ BInit /\ PInit /\ NInit /\ GNext /\ UNCHANGED <<rvars, bvars, pvars, nvars>>
    \/ RInit /\ BInit /\ GInit /\ NInit /\ PNext /\ UNCHANGED <<rvars, bvars, gvars, nvars>>
    \/ RInit /\ BInit /\ GInit /\ PInit /\ NNext /\ UNCHANGED <<rvars, bvars, gvars, pvars>>
=============================================================================
