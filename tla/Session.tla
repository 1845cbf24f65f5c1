------------------------------ MODULE Session ------------------------------
(***************************************************************************)
(* What the daemon promises about connections, without its threads: at     *)
(* most one selection is being connected at a time, a new one starts only  *)
(* after the old one has ended, a selection with the kill switch runs only *)
(* behind a closed box, and the box is closed or opened only between       *)
(* selections.  Module Daemon is shown to implement this.                  *)
(***************************************************************************)
CONSTANTS Selections,   \* what a person can ask to be connected
          KillSwitch    \* the selections that carry the kill switch

VARIABLES running,      \* the selections being connected
          shut          \* the kill switch's rules stand in the kernel

vars == <<running, shut>>

Init == /\ running = {}
        /\ shut = FALSE

Begin(s) == /\ running = {}
            /\ s \in KillSwitch => shut
            /\ running' = {s}
            /\ UNCHANGED shut

End == /\ running' = {}
       /\ UNCHANGED shut

Shut == /\ running = {}
        /\ shut' = TRUE
        /\ UNCHANGED running

Open == /\ running = {}
        /\ shut' = FALSE
        /\ UNCHANGED running

Next == \/ \E s \in Selections : Begin(s)
        \/ End
        \/ Shut
        \/ Open

Spec == Init /\ [][Next]_vars
=============================================================================
