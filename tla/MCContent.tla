----------------------------- MODULE MCContent -----------------------------
(* The run processor for TLC: two XObjects.                                *)
EXTENDS Content

MCForms == {[oc |-> "plain", group |-> FALSE], [oc |-> "oc", group |-> TRUE]}
=============================================================================
