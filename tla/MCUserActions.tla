---------------------------- MODULE MCUserActions ----------------------------
(* The user-action cards instantiated for TLC: the constants are set in    *)
(* MCUserActions.cfg.                                                       *)
EXTENDS UserActions

\* Every case of the switch is reached by some card.
MCCards == AllCases
=============================================================================
