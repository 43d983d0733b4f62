---------------------------- MODULE MCBaoPolicy ----------------------------
(* Values for the constants of BaoPolicyController.                         *)
EXTENDS BaoPolicyController

CONSTANTS r1, r2, own, other

\* One list of rules has parameters, and so two texts.
MCOrders == [r \in Rules |-> IF r = r1 THEN 2 ELSE 1]

\* Two lists of rules, under the name of the object and under another.
MCSpecs == {[name |-> Unnamed, rules |-> r1], [name |-> other, rules |-> r2]}

=============================================================================
