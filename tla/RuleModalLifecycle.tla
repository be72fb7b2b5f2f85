-------------------------- MODULE RuleModalLifecycle --------------------------
(***************************************************************************)
(* The modal lifecycle of spec section 4.3, for the two collection-rule   *)
(* dialogs.  The rule list (CollectionRuleList) is opened from the page;   *)
(* RuleEdit is opened over it ("stacked": the list is hidden and restored  *)
(* when RuleEdit closes) or, by a successful get, from anywhere.  Closing  *)
(* RuleEdit by cancel, close control, backdrop or successful save is not a *)
(* full Closed transition when the list lies underneath.                   *)
(***************************************************************************)

VARIABLES
    am,        \* "closed", "list" or "edit": the dialog shown
    stacked    \* RuleEdit was opened from within the list

OpenList ==
    /\ am = "closed"
    /\ am' = "list"
    /\ stacked' = FALSE

OpenEdit ==
    /\ am' = "edit"
    /\ stacked' = (am = "list" \/ (am = "edit" /\ stacked))

CloseEdit ==
    /\ am = "edit"
    /\ am' = IF stacked THEN "list" ELSE "closed"
    /\ stacked' = FALSE

CloseList ==
    /\ am = "list"
    /\ am' = "closed"
    /\ stacked' = FALSE

Init == am = "closed" /\ stacked = FALSE

Next == OpenList \/ OpenEdit \/ CloseEdit \/ CloseList

Spec == Init /\ [][Next]_<<am, stacked>>

=============================================================================
