------------------------------ MODULE Follower ------------------------------
(***************************************************************************)
(* What a component that keeps a copy of another's state promises, whatever*)
(* the mechanism: the copy is only ever replaced by what the original is at*)
(* that moment, and a change stays owed until such a replacement, unless it*)
(* went unheard.                                                           *)
(***************************************************************************)
CONSTANT Nothing        \* the copy a component starts with

VARIABLES
    want,       \* the original
    have,       \* the copy
    owed,       \* somebody is bound to copy again
    unheard     \* a change was lost on its way

fvars == <<want, have, owed, unheard>>

FInit == have = Nothing /\ owed = TRUE /\ unheard = FALSE

\* The original changes and the news is on its way, or is lost.
Change == owed' = TRUE /\ UNCHANGED <<have, unheard>>
Lose == unheard' = TRUE /\ UNCHANGED have

\* The copy is brought up to date; more news may be on its way.
Copy ==
    /\ have' = want /\ UNCHANGED want
    /\ owed' \in BOOLEAN /\ unheard' \in {FALSE, unheard}

\* The component restarts from nothing, and with it what it had missed.
Forget == have' = Nothing /\ owed' = TRUE /\ unheard' \in {FALSE, unheard}

FNext == Change \/ Lose \/ Copy \/ Forget

FSpec == FInit /\ [][FNext]_fvars

(* A copy that differs from the original is owed an update, or the change  *)
(* went unheard.                                                           *)
Current == owed \/ unheard \/ have = want
=============================================================================
