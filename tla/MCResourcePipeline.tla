--------------------------- MODULE MCResourcePipeline ---------------------------
(* Scripts, leftovers and bounds for the runs of ResourcePipeline.         *)
EXTENDS ResourcePipeline

AllManaged == [k \in Kinds |-> "manage"]

Internal(features, devices) ==
  [mode |-> "internal", features |-> features, strategy |-> AllManaged,
   disabled |-> {}, devices |-> devices, profile |-> "lean",
   entries |-> <<>>, secret |-> 0]

External(entries, secret) ==
  [Internal({}, 0) EXCEPT !.mode = "external", !.entries = entries,
                          !.secret = secret]

Standalone == [Internal({}, 0) EXCEPT !.mode = "standalone"]

(* Everything but the CephCluster follows another strategy.                *)
Following(s, strategy) ==
  [s EXCEPT !.strategy = [k \in Kinds |-> IF k = "CephCluster" THEN "manage"
                                          ELSE strategy]]

AllPlatform == {"kubevirt", "clusterclaims"}
NoLeftovers == {{}}
DyingPool == {{}, {"CephBlockPool"}}

MostEntries == <<"ExternalConfigMap", "RBDClass", "OBCClass">>

(* The runs' scripts, each with the disturbances it allows.                *)
Plain == <<Internal({}, 3)>>
Full == <<Internal({"nonresilient", "nfs", "mirroring", "quota", "backing",
                    "kms", "encryptedclass", "tools"}, 3)>>
Provider == <<Internal({"consumers", "loadbalancer"}, 3)>>
NoMoreProvider == Provider \o Plain
NoMoreMirroring == <<Internal({"mirroring"}, 3), Internal({"noroute"}, 6)>>
Adopted == <<Following(Internal({}, 3), "init"), Internal({}, 3)>>
HandsOff == <<[Following(Internal({}, 3), "ignore") EXCEPT !.profile = ""]>>
Outside == <<External(MostEntries, 1)>>
OnlyNooBaa == <<Standalone>>

SafetyScripts == {Full, NoMoreProvider, NoMoreMirroring, Adopted, HandsOff,
                  Outside, OnlyNooBaa}
SafetyDisturbances ==
  [s \in SafetyScripts |->
     IF s \in {Full, HandsOff, Outside, OnlyNooBaa} THEN 1 ELSE 0]

LivenessScripts == {Plain, Provider, Outside, OnlyNooBaa}
LivenessDisturbances ==
  [s \in LivenessScripts |-> IF s \in {Plain, OnlyNooBaa} THEN 1 ELSE 0]

RadosScripts == {<<External(<<"ExternalConfigMap", "RadosNamespace",
                              "RadosNamespaceClass">>, 1)>>}
Expansion == {<<Internal({}, 3), Internal({}, 6)>>}
Calm == [s \in Scripts |-> 0]
=============================================================================
