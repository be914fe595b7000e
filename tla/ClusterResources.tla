--------------------------- MODULE ClusterResources ---------------------------
(***************************************************************************)
(* What a StorageCluster asks for: for each resource manager of            *)
(* controllers/storagecluster the objects its newX functions return for a  *)
(* spec, in the order in which ensureCreated goes through them, and the    *)
(* lists in which reconcilePhases and deleteResources call the managers.   *)
(*                                                                         *)
(* A spec is a record:                                                     *)
(*   mode      "internal", "external" or "standalone" (MultiCloudGateway)  *)
(*   features  the optional parts that are switched on                     *)
(*   strategy  the reconcile strategy of each kind of managed resource     *)
(*   disabled  the storage and snapshot classes that are switched off      *)
(*   devices   the number of OSDs asked for                                *)
(*   profile   spec.resourceProfile                                        *)
(*   entries   the content of the external cluster's secret, in order      *)
(*   secret    its checksum                                                *)
(***************************************************************************)
EXTENDS Naturals, Sequences, FiniteSets

CONSTANT Platform    \* what the platform offers, see PlatformAssumption

ASSUME PlatformAssumption ==
  Platform \subseteq {"cloud", "kubevirt", "clusterclaims"}

(* Fields of spec.managedResources (and multiCloudGateway, monitoring)     *)
(* that carry a reconcile strategy.                                        *)
Kinds == {"CephCluster", "CephBlockPools", "CephFilesystems", "CephConfig",
          "CephObjectStores", "CephObjectStoreUsers", "CephRBDMirror",
          "CephToolbox", "MultiCloudGateway", "Monitoring"}

Strategies == {"manage", "init", "ignore"}

Modes == {"internal", "external", "standalone"}

Features ==
  {"consumers", "loadbalancer", "nonresilient", "nfs", "mirroring", "quota",
   "backing", "kms", "encryptedclass", "noroute", "tools"}

Has(s, feature) == feature \in s.features

Optional(condition, objects) == IF condition THEN objects ELSE <<>>

Elements(objects) == {objects[i] : i \in DOMAIN objects}

(* PlatformsShouldSkipObjectStore: clouds bring an object store.           *)
SkipObjectStore == "cloud" \in Platform

-----------------------------------------------------------------------------
(* The objects of one manager                                              *)

NewStorageQuotas(s) == Optional(Has(s, "quota"), <<"ClusterResourceQuota">>)

NewCephConfig(s) == <<"RookConfigOverride">>

NewCephCluster(s) == <<"CephCluster">>
CreatePrometheusRules(s) == <<"CephPrometheusRule">>

(* The device sets of the CephCluster, by their count of OSDs.             *)
NewStorageClassDeviceSets(s) == IF s.mode = "internal" THEN s.devices ELSE 0

NewCephBlockPoolInstances(s) ==
  <<"CephBlockPool">>
    \o Optional(Has(s, "nonresilient"), <<"NonResilientPools">>)
    \o Optional(Has(s, "nfs"), <<"NFSPool">>)

NewCephFilesystemInstances(s) == <<"CephFilesystem">>

(* createDefaultSubvolumeGroup is left out in provider mode.               *)
DefaultSubvolumeGroup(s) ==
  Optional(~Has(s, "consumers"), <<"SubVolumeGroup">>)

NewCephNFSInstances(s) == <<"CephNFS">>
NewNFSServices(s) == <<"NFSService">>
NewNFSServiceMonitors(s) == <<"NFSServiceMonitor">>

NewCephObjectStoreInstances(s) == <<"CephObjectStore">>
NewCephObjectStoreUserInstances(s) == <<"CephObjectStoreUser">>
NewCephRGWRoutes(s) == <<"RGWRoute", "RGWSecureRoute">>

NewCephRbdMirrorInstances(s) == <<"CephRBDMirror">>

(* newStorageClassConfigurations; the classes that need no consumer of     *)
(* another cluster come first.                                             *)
NewStorageClassConfigurations(s) ==
  <<"CephFSClass", "RBDClass">>
    \o Optional(~Has(s, "consumers") /\ "kubevirt" \in Platform,
                <<"VirtualizationClass">>)
    \o Optional(Has(s, "nonresilient"), <<"NonResilientClass">>)
    \o Optional(Has(s, "nfs"), <<"NFSClass">>)
    \o Optional(s.mode = "external" \/ ~SkipObjectStore, <<"OBCClass">>)
    \o Optional(Has(s, "encryptedclass") /\ Has(s, "kms"),
                <<"EncryptedClass">>)

NewSnapshotClassConfigurations(s) ==
  <<"CephFSSnapshotClass", "RBDSnapshotClass">>
    \o Optional(Has(s, "nfs"), <<"NFSSnapshotClass">>)

NewNooBaa(s) == <<"NooBaa">>

OsdCleanUpTemplate(s) == <<"OsdRemovalTemplate">>
ExtendClusterTemplate(s) == <<"ExtendClusterTemplate">>

NewClusterClaims(s) ==
  Optional("clusterclaims" \in Platform, <<"ClusterClaims">>)

NewBackingStorageClasses(s) ==
  Optional(Has(s, "backing"), <<"BackingClass">>)

NewStorageClient(s) == <<"StorageClient">>
GetProviderAPIServerSecret(s) == <<"ProviderSecret">>
GetProviderAPIServerService(s) == <<"ProviderService">>
GetProviderAPIServerDeployment(s) == <<"ProviderDeployment">>
GetOnboardingJobObject(s) == <<"OnboardingJob">>

NewToolsDeployment(s) == <<"ToolsDeployment">>

(* enableMetricsExporter and enablePrometheusRules create these in turn.   *)
ExporterServiceAccount(s) == <<"ExporterAccount">>
ExporterClusterRoles(s) == <<"ExporterClusterRole">>
ExporterClusterRoleBindings(s) == <<"ExporterClusterRoleBinding">>
ExporterRoles(s) == <<"ExporterRole">>
ExporterRolebindings(s) == <<"ExporterRoleBinding">>
RookCephClusterRolebindings(s) == <<"RookMonitoringBinding">>
ExporterConfigMap(s) == <<"ExporterConfigMap">>
DeployMetricsExporter(s) == <<"ExporterDeployment">>
ExporterService(s) == <<"ExporterService">>
ExporterServiceMonitor(s) == <<"ExporterServiceMonitor">>
NewPrometheusRules(s) == <<"PrometheusRule">>

NewMetricsExporter(s) ==
  ExporterServiceAccount(s) \o ExporterClusterRoles(s)
    \o ExporterClusterRoleBindings(s) \o ExporterRoles(s)
    \o ExporterRolebindings(s) \o RookCephClusterRolebindings(s)
    \o ExporterConfigMap(s) \o DeployMetricsExporter(s)
    \o ExporterService(s) \o ExporterServiceMonitor(s)
    \o NewPrometheusRules(s)

(* The entries of the external secret by kind.  Objects are made one entry *)
(* after the other, the classes and object stores when all are read.       *)
ExternalClasses == {"CephFSClass", "RBDClass", "RadosNamespaceClass",
                    "TopologyClass", "OBCClass"}
ExternalEntries ==
  {"ExternalConfigMap", "ExternalKeys", "SubVolumeGroup",
   "RadosNamespace"} \cup ExternalClasses

NewExternalObjects(s) == Elements(s.entries) \ ExternalClasses
NewExternalCephObjectStoreInstances(s) ==
  Optional("OBCClass" \in Elements(s.entries), <<"CephObjectStore">>)

(* The objects an administrator provides and an uninstall deletes.         *)
KMSResources == {"KMSConfigMap"}
ExternalSecrets == {"ExternalDetailsSecret"}

-----------------------------------------------------------------------------
(* The managers in the order of reconcilePhases and deleteResources        *)

Managers(s) ==
  CASE s.mode = "standalone" -> <<"NoobaaSystem">>
    [] s.mode = "external" ->
         <<"ExternalResources", "StorageQuota", "CephCluster",
           "SnapshotClass", "NoobaaSystem", "ClusterClaim">>
    [] OTHER ->
         <<"ProviderServer", "StorageClient", "BackingStorageClasses",
           "TopologyMap", "StorageQuota", "CephConfig", "CephCluster",
           "CephBlockPools", "CephFilesystems", "CephNFS",
           "CephNFSService", "CephObjectStores", "CephObjectStoreUsers",
           "CephRGWRoutes", "StorageClass", "NoobaaSystem",
           "SnapshotClass", "JobTemplates", "CephRbdMirrors",
           "ClusterClaim">>

Completion == <<"ResourceProfile", "Completion", "MetricsExporter",
                "MirrorDebugLogging", "Tools", "StatusUpdate">>

(* Mutant: the storage classes are deleted before NooBaa.                  *)
UninstallOrderClassesFirst ==
  <<"MarkCephCluster", "StorageClass", "NoobaaUninstallMode",
    "NoobaaSystem", "StorageClient", "ProviderServer", "CephRGWRoutes",
    "CephObjectStoreUsers", "CephObjectStores", "CephRbdMirrors",
    "CephNFS", "CephNFSService", "CephFilesystems", "CephBlockPools",
    "SnapshotClass", "StorageQuota", "CephCluster", "ClusterClaim",
    "BackingStorageClasses", "NodeTaint", "KMSResources",
    "ExternalSecret", "Finalizer", "Tools", "StatusUpdate">>

UninstallOrder ==
  <<"MarkCephCluster", "NoobaaUninstallMode", "NoobaaSystem",
    "StorageClient", "ProviderServer", "CephRGWRoutes",
    "CephObjectStoreUsers", "CephObjectStores", "CephRbdMirrors",
    "CephNFS", "CephNFSService", "CephFilesystems", "CephBlockPools",
    "SnapshotClass", "StorageQuota", "StorageClass", "CephCluster",
    "ClusterClaim", "BackingStorageClasses", "NodeTaint",
    "KMSResources", "ExternalSecret", "Finalizer", "Tools",
    "StatusUpdate">>

-----------------------------------------------------------------------------
(* What the objects are                                                    *)

(* Resources of the Rook operator, which puts a finalizer on each.         *)
RookObjects ==
  {"CephCluster", "CephBlockPool", "NonResilientPools", "NFSPool",
   "CephFilesystem", "SubVolumeGroup", "CephNFS", "CephObjectStore",
   "CephObjectStoreUser", "CephRBDMirror", "RadosNamespace"}

Finalized == RookObjects \cup {"NooBaa", "StorageClient"}

StorageClasses ==
  ExternalClasses \cup {"VirtualizationClass", "NonResilientClass",
                        "NFSClass", "EncryptedClass"}

(* createStorageClasses waits for the Ceph resource a class names.         *)
Prerequisite(s, class) ==
  IF s.mode = "external"
    THEN IF class = "RadosNamespaceClass" THEN {"RadosNamespace"} ELSE {}
    ELSE CASE class \in {"RBDClass", "VirtualizationClass",
                         "EncryptedClass"} -> {"CephBlockPool"}
           [] class = "NonResilientClass" -> {"NonResilientPools"}
           [] class = "CephFSClass" -> {"CephFilesystem"}
           [] class = "NFSClass" -> {"CephNFS"}
           [] OTHER -> {}

(* The kind whose strategy a storage or snapshot class follows.            *)
KindOfClass(class) ==
  CASE class \in {"CephFSClass", "CephFSSnapshotClass"} -> "CephFilesystems"
    [] class = "OBCClass" -> "CephObjectStores"
    [] OTHER -> "CephBlockPools"

(* NFS classes, and those of topology constrained pools, have no strategy. *)
ClassStrategy(s, class) ==
  IF class \in {"NFSClass", "NFSSnapshotClass", "NonResilientClass",
                "TopologyClass"}
    THEN "manage"
    ELSE s.strategy[KindOfClass(class)]

Objects ==
  RookObjects \cup StorageClasses \cup KMSResources \cup ExternalSecrets \cup
  {"ClusterResourceQuota", "RookConfigOverride", "NFSService",
   "NFSServiceMonitor", "RGWRoute", "RGWSecureRoute", "CephFSSnapshotClass",
   "RBDSnapshotClass", "NFSSnapshotClass", "NooBaa", "OsdRemovalTemplate",
   "ExtendClusterTemplate", "ClusterClaims", "BackingClass",
   "StorageClient", "ProviderSecret", "ProviderService",
   "ProviderDeployment", "OnboardingJob", "OnboardingKey",
   "ToolsDeployment", "ExporterAccount", "ExporterClusterRole",
   "ExporterClusterRoleBinding", "ExporterRole", "ExporterRoleBinding",
   "RookMonitoringBinding", "ExporterConfigMap", "ExporterDeployment",
   "ExporterService", "ExporterServiceMonitor", "PrometheusRule",
   "CephPrometheusRule", "ExternalConfigMap", "ExternalKeys"}

(* What a change of makes the controller reconcile: the StorageCluster,    *)
(* and of the objects those with a watch that sees more than their spec.   *)
Watched == {"CephCluster", "NooBaa", "StorageClient"}
=============================================================================
