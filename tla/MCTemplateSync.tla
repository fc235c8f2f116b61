--------------------------- MODULE MCTemplateSync ---------------------------
(* An instance of TemplateSync for TLC. *)
EXTENDS TemplateSync, TLC

CONSTANTS n1, n2, l1, l2, i1, i2, i3, p1, p2, Budget

MCGiven == {<<l, "PENDING", TRUE>> : l \in Lang}

Symmetry == Permutations(Id) \cup Permutations(Proc) \cup Permutations(Lang)
              \cup Permutations(Name)

(* Users, Meta and failures do no more than Budget things between them;      *)
(* synchronisations, events and requests run as often as they like.          *)
LittleHappens ==
  decisions + faults + Cardinality({w \in MetaId : issued[w] # None})
    + Cardinality(edited) + Cardinality(asked) + Cardinality(used \ ids) <= Budget
=============================================================================
