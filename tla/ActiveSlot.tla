----------------------------- MODULE ActiveSlot ------------------------------
(***************************************************************************)
(* What model governance promises: one slot holds the active model, a      *)
(* promotion remembers what it displaced, and a rollback puts back what    *)
(* the present model displaced when it was last promoted.                  *)
(***************************************************************************)
CONSTANTS Models, NoModel

VARIABLES
    slot,       \* the active model, or NoModel
    displaced   \* what each model displaced when it was last promoted

Init ==
    /\ slot = NoModel
    /\ displaced = [m \in Models |-> NoModel]

Promote(m) ==
    /\ slot' = m
    /\ displaced' = [displaced EXCEPT ![m] = slot]

Rollback ==
    /\ slot # NoModel
    /\ displaced[slot] # NoModel
    /\ slot' = displaced[slot]
    /\ UNCHANGED displaced

Deactivate ==
    /\ slot' = NoModel
    /\ UNCHANGED displaced

Next == (\E m \in Models : Promote(m)) \/ Rollback \/ Deactivate

Spec == Init /\ [][Next]_<<slot, displaced>>

=============================================================================
