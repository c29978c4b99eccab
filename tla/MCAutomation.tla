---------------------------- MODULE MCAutomation ----------------------------
(* Model-checking instance of Automation: a list with two waits, and a     *)
(* shorter one it may be replaced by.                                      *)
EXTENDS Automation

NudgeTwice == {<<"ACT", "WAIT", "ACT", "WAIT", "ACT">>, <<"WAIT", "ACT">>}
=============================================================================
