---------------------------- MODULE MCRuleReload ----------------------------
(* Two contents with rules for the application, one without, one that does *)
(* not parse, and the empty file that opening for writing leaves.          *)
EXTENDS RuleReload

File(id, whole, parses, section) ==
  [id |-> id, whole |-> whole, parses |-> parses, section |-> section]

First == File(1, TRUE, TRUE, "rules")
Second == File(2, TRUE, TRUE, "rules")
Emptied == File(3, TRUE, TRUE, "empty")
Removed == File(4, TRUE, TRUE, "none")
Blank == File(0, FALSE, TRUE, "none")
Torn == File(5, FALSE, FALSE, "none")
Part == File(6, FALSE, TRUE, "rules")

WithRules == {First, Second, Blank, Part, Torn}
Any == WithRules \cup {Emptied, Removed}

PartsOf(c) == IF c.id = 2 THEN {Blank, Part, Torn} ELSE {Blank}
MCPrefixes == [c \in Any |-> PartsOf(c)]
MCPrefixesRules == [c \in WithRules |-> PartsOf(c)]
=============================================================================
