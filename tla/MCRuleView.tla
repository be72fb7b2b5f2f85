----------------------------- MODULE MCRuleView -----------------------------
(* The collection-rule dialogs instantiated for TLC: the constants are set  *)
(* in the cfg files MCRuleView*.cfg.                                         *)
EXTENDS RuleView
=============================================================================
