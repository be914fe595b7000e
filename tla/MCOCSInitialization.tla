-------------------------- MODULE MCOCSInitialization --------------------------
(* OCSInitialization with an internal cluster that gets a second, external *)
(* one, is edited to differ in all that the config maps depend on, and is  *)
(* deleted; on a platform with and without monitoring of its own.          *)
EXTENDS OCSInitialization

Plain ==
  [external |-> FALSE, nonresilient |-> FALSE, label |-> "zone",
   nfs |-> FALSE, consumers |-> FALSE,
   tolerations |-> [k \in CsiKeys |-> {}]]

Rich ==
  [Plain EXCEPT !.nonresilient = TRUE, !.nfs = TRUE, !.consumers = TRUE,
                !.tolerations = [k \in CsiKeys |->
                                   IF k = "plugin" THEN {"infra"} ELSE {}]]

External ==
  [Plain EXCEPT !.external = TRUE, !.nonresilient = TRUE, !.label = "rack",
                !.tolerations = [k \in CsiKeys |->
                                   IF k = "plugin" THEN {"edge"} ELSE {}]]

const_Fleets == {<<Plain>>, <<Rich, External>>}
=============================================================================
