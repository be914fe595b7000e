--------------------------- MODULE OCSInitialization ---------------------------
(***************************************************************************)
(* controllers/ocsinitialization: the reconciler of the one                *)
(* OCSInitialization named ocsinit, which makes what the operator needs    *)
(* before there is a StorageCluster, and keeps two config maps in line     *)
(* with all StorageClusters:                                               *)
(*   rook-ceph-operator-config  shared with the user; the controller       *)
(*                 writes tolerations, over what the user has set under    *)
(*                 the key, and takes the key back; a flag in its own      *)
(*                 status says whether those in the map are its own;       *)
(*   ocs-operator-config  the controller's alone; Rook reads it when its   *)
(*                 pod starts, and is restarted for a change.              *)
(* Clusters come, change and go meanwhile, the user edits the first map    *)
(* and may delete ocsinit for a reset, calls fail, the operator crashes.   *)
(***************************************************************************)
EXTENDS Naturals, Sequences, FiniteSets

CONSTANTS
  AllTolerations,   \* the tolerations there may be, "user" the user's
  Fleets,           \* the StorageClusters there may be, as they are listed
  Monitored,        \* sets of BOOLEAN: is the platform ROSA HCP?
  MaxEdits,         \* bound: changes by users and clusters
  MaxDisturbances   \* bound: failed calls and crashes

CsiKeys == {"plugin", "provisioner"}
Labels == {"", "zone", "rack"}

(* nonresilient, label: of an internal cluster, what the specification     *)
(* says and status.failureDomainKey; of an external one, whether the       *)
(* topology storage class was made for it, and the key in that.            *)
Cluster ==
  [external: BOOLEAN, nonresilient: BOOLEAN, label: Labels,
   nfs: BOOLEAN, consumers: BOOLEAN,
   tolerations: [CsiKeys -> SUBSET AllTolerations]]

(* GetClusters sorts what it lists: internal clusters are first.           *)
ASSUME InitializationAssumption ==
  /\ "user" \in AllTolerations
  /\ Fleets \subseteq Seq(Cluster)
  /\ \A listed \in Fleets : \A i, j \in DOMAIN listed :
       listed[i].external /\ ~listed[j].external => j < i
  /\ Monitored \subseteq BOOLEAN
  /\ MaxEdits \in Nat /\ MaxDisturbances \in Nat

VARIABLES
  fleet,         \* the StorageClusters there are
  hcp,           \* is the platform ROSA HCP?
  ocsinit,       \* the OCSInitialization: phase, modified flags
  stray,         \* phase of an OCSInitialization of another name
  objects,       \* by object: "absent", "owned" or "orphaned"
  csv,           \* the Prometheus operator: "absent", "idle" or "scaled"
  tolerations,   \* the tolerations in rook-ceph-operator-config
  config,        \* ocs-operator-config, or NoConfig
  rook,          \* the data Rook's pod was started with, or NoConfig
  pass,          \* the reconcile in progress
  queued,        \* names in the work queue
  unrestarted,   \* did a restart of Rook get lost?
  unflagged,     \* keys with tolerations whose flag got lost
  edits, disturbances

made == <<objects, csv, tolerations>>
bounds == <<edits, disturbances>>
vars == <<fleet, hcp, ocsinit, stray, made, config, rook, pass, queued,
          unrestarted, unflagged, bounds>>

SCCs == <<"RookSCC", "CsiSCC">>
UXBackend == <<"UXBackendSecret", "UXBackendService">>
Monitoring == <<"KubeRBACConfigMap", "PrometheusService", "Prometheus",
                "AlertManager", "ServiceMonitor">>

AllObjects ==
  {"RookSCC", "CsiSCC", "UXBackendSecret", "UXBackendService",
   "KubeRBACConfigMap", "PrometheusService", "Prometheus", "AlertManager",
   "ServiceMonitor"}
Owned == AllObjects \ {"RookSCC", "CsiSCC"}

(* The data of ocs-operator-config. noHolders is CSI_REMOVE_HOLDER_PODS.   *)
NoConfig == [absent |-> TRUE]
Data ==
  [single: BOOLEAN, topology: BOOLEAN, label: Labels, nfs: BOOLEAN,
   csiDisabled: BOOLEAN, noHolders: {"", "true", "false"}]

(* orphaned: its owner is an OCSInitialization that was deleted.           *)
OperatorConfig == [data: Data, orphaned: BOOLEAN]

Phases == {"", "Progressing", "Error", "Ready"}

Steps == {"SCCs", "SCCStatus", "RookConfig", "OperatorConfig", "Restart",
          "PrometheusCSV", "Complete"} \cup AllObjects

TypeOK ==
  /\ fleet \in Fleets
  /\ hcp \in Monitored
  /\ ocsinit \in [exists: BOOLEAN, phase: Phases,
                  modified: [CsiKeys -> BOOLEAN]]
  /\ stray \in {"absent", "new", "Ignored"}
  /\ objects \in [AllObjects -> {"absent", "owned", "orphaned"}]
  /\ csv \in {"absent", "idle", "scaled"}
  /\ tolerations \in [CsiKeys -> SUBSET AllTolerations]
  /\ config \in OperatorConfig \cup {NoConfig}
  /\ rook \in Data \cup {NoConfig}
  /\ pass \in [todo: Seq(Steps), clusters: Fleets \cup {<<>>},
               modified: [CsiKeys -> BOOLEAN]]
  /\ queued \subseteq {"ocsinit", "stray"}
  /\ unrestarted \in BOOLEAN
  /\ unflagged \subseteq CsiKeys
  /\ edits \in 0..MaxEdits
  /\ disturbances \in 0..MaxDisturbances

Unmodified == [k \in CsiKeys |-> FALSE]
NewInit == [exists |-> TRUE, phase |-> "", modified |-> Unmodified]
NoPass == [todo |-> <<>>, clusters |-> <<>>, modified |-> Unmodified]

(* The map of a version before there was an entry for holder pods.         *)
Upgraded ==
  [data |-> [single |-> TRUE, topology |-> FALSE, label |-> "", nfs |-> FALSE,
             csiDisabled |-> FALSE, noHolders |-> ""],
   orphaned |-> FALSE]

Init ==
  /\ fleet \in Fleets
  /\ hcp \in Monitored
  /\ ocsinit = NewInit
  /\ stray = "absent"
  /\ objects = [o \in AllObjects |-> "absent"]
  /\ csv = "absent"
  /\ tolerations = [k \in CsiKeys |-> {}]
  /\ \/ config = NoConfig /\ rook = NoConfig
     \/ config = Upgraded /\ rook = Upgraded.data
  /\ pass = NoPass
  /\ queued = {"ocsinit"}
  /\ unrestarted = FALSE
  /\ unflagged = {}
  /\ edits = 0
  /\ disturbances = 0

Elements(s) == {s[i] : i \in DOMAIN s}
Idle == pass.todo = <<>>
At(step) == ~Idle /\ Head(pass.todo) = step

Disturb ==
  /\ disturbances < MaxDisturbances
  /\ disturbances' = disturbances + 1
  /\ UNCHANGED edits

Undisturbed == UNCHANGED bounds

Edit ==
  /\ edits < MaxEdits
  /\ edits' = edits + 1
  /\ UNCHANGED disturbances

Next1(p) == pass' = [p EXCEPT !.todo = Tail(pass.todo)]

(* Mutant: the error is logged and not returned.                           *)
FailQuietly == pass' = NoPass /\ UNCHANGED queued

(* The reconcile returns an error, and the name goes back into the queue.  *)
Fail == pass' = NoPass /\ queued' = queued \cup {"ocsinit"}

(* What is in memory is lost: the flags of tolerations written before.     *)
LosesFlags ==
  unflagged' = unflagged \cup {k \in CsiKeys : pass.modified[k]
                                 /\ ~ocsinit.modified[k]}

-----------------------------------------------------------------------------
(* Reconcile                                                               *)

Todo ==
  <<"SCCs", "SCCStatus", "RookConfig", "OperatorConfig">> \o UXBackend
    \o (IF hcp THEN <<"PrometheusCSV">> \o Monitoring ELSE <<>>)
    \o <<"Complete">>

(* ocsinit is read, or made if it is not there; a status without           *)
(* conditions gets some; the clusters are listed.                          *)
Reconcile ==
  /\ Idle
  /\ "ocsinit" \in queued
  /\ \/ /\ ~ocsinit.exists
        /\ ocsinit' = NewInit
        /\ UNCHANGED <<pass, queued>>       \* its creation is an event
        /\ Undisturbed
     \/ /\ ocsinit.exists
        /\ ocsinit' = [ocsinit EXCEPT
                         !.phase = IF @ = "" THEN "Progressing" ELSE @]
        /\ pass' = [todo |-> Todo, clusters |-> fleet,
                    modified |-> ocsinit.modified]
        /\ queued' = queued \ {"ocsinit"}
        /\ Undisturbed
  /\ UNCHANGED <<fleet, hcp, stray, made, config, rook, unrestarted,
                 unflagged>>

(* Mutant: it gets the phase of a failure.                                 *)
IgnoredAsFailed == "Error"

IgnoredPhase == "Ignored"

(* Any other OCSInitialization is marked as ignored.                       *)
IgnoreStray ==
  /\ Idle
  /\ "stray" \in queued
  /\ \/ /\ stray' = IF stray = "absent" THEN stray ELSE IgnoredPhase
        /\ queued' = queued \ {"stray"}
        /\ Undisturbed
     \/ Disturb /\ UNCHANGED <<stray, queued>>
  /\ UNCHANGED <<fleet, hcp, ocsinit, made, config, rook, pass, unrestarted,
                 unflagged>>

(* One after the other is created or updated; a failure is the one that    *)
(* is written to the status, if that can be written.                       *)
EnsureSCCs ==
  /\ At("SCCs")
  /\ \/ /\ objects' = [o \in AllObjects |-> IF o \in Elements(SCCs)
                                             THEN "owned" ELSE objects[o]]
        /\ Next1(pass)
        /\ UNCHANGED <<ocsinit, queued, unflagged>>
        /\ Undisturbed
     \/ /\ Disturb
        /\ \E n \in 0..1 :
             objects' = [o \in AllObjects |->
                           IF o \in Elements(SubSeq(SCCs, 1, n))
                             THEN "owned" ELSE objects[o]]
        /\ Fail /\ LosesFlags
        /\ ocsinit' \in {ocsinit, IF ocsinit.exists
                                    THEN [ocsinit EXCEPT !.phase = "Error"]
                                    ELSE ocsinit}
  /\ UNCHANGED <<fleet, hcp, stray, csv, tolerations, config, rook,
                 unrestarted>>

(* The status is written with the flags as they were read.                 *)
SCCStatus ==
  /\ At("SCCStatus")
  /\ \/ ocsinit.exists /\ Next1(pass) /\ UNCHANGED <<queued, unflagged>>
          /\ Undisturbed
     \/ ~ocsinit.exists /\ Fail /\ LosesFlags /\ Undisturbed
     \/ Disturb /\ Fail /\ LosesFlags
  /\ UNCHANGED <<fleet, hcp, ocsinit, stray, made, config, rook, unrestarted>>

(* getCsiTolerations: those of all clusters.                               *)
CsiTolerations(clusters, key) ==
  UNION {c.tolerations[key] : c \in Elements(clusters)}

(* Mutant: the tolerations stay in the map once they were written.         *)
NewTolerationsKept(key) ==
  LET wanted == CsiTolerations(pass.clusters, key) IN
  IF wanted # {} THEN wanted ELSE tolerations[key]

(* updateTolerationsConfigFunc: tolerations are written over what is       *)
(* there, the user's as well; where there are none, the key is taken back  *)
(* if the controller has written it, whatever the user has put there since.*)
NewTolerations(key) ==
  LET wanted == CsiTolerations(pass.clusters, key) IN
  IF wanted # {} THEN wanted
  ELSE IF pass.modified[key] THEN {} ELSE tolerations[key]

NewFlags ==
  [k \in CsiKeys |-> CsiTolerations(pass.clusters, k) # {}]

EnsureRookCephOperatorConfigExists ==
  /\ At("RookConfig")
  /\ \/ /\ tolerations' = [k \in CsiKeys |-> NewTolerations(k)]
        /\ Next1([pass EXCEPT !.modified = NewFlags])
        /\ queued' = IF tolerations' = tolerations THEN queued
                     ELSE queued \cup {"ocsinit"}
        /\ UNCHANGED unflagged
        /\ Undisturbed
     \/ Disturb /\ Fail /\ LosesFlags /\ UNCHANGED tolerations
  /\ UNCHANGED <<fleet, hcp, ocsinit, stray, objects, csv, config, rook,
                 unrestarted>>

-----------------------------------------------------------------------------
(* ocs-operator-config                                                     *)

HasTopology(c) == c.nonresilient
Any(clusters, P(_)) == \E i \in DOMAIN clusters : P(clusters[i])

(* getTopologyDomainLabelsKeyValue: the first cluster that has a key.      *)
TopologyLabel(clusters) ==
  LET having == {i \in DOMAIN clusters : HasTopology(clusters[i])} IN
  IF having = {} THEN ""
  ELSE clusters[CHOOSE i \in having : \A j \in having : i <= j].label

(* Mutant: the entry of every map is made as for a new one.                *)
NoHoldersForAll == "true"

(* A new map has no holder pods; one from before the entry keeps them.     *)
NoHolders ==
  IF config = NoConfig THEN "true"
  ELSE IF config.data.noHolders = "" THEN "false"
  ELSE config.data.noHolders

WantedData(clusters) ==
  [single |-> Len(clusters) <= 1,
   topology |-> Any(clusters, HasTopology),
   label |-> TopologyLabel(clusters),
   nfs |-> Any(clusters, LAMBDA c : c.nfs),
   csiDisabled |-> Any(clusters, LAMBDA c : ~c.external /\ c.consumers),
   noHolders |-> NoHolders]

(* Mutant: the map is left as it is once it was made.                      *)
WantedConfigOnce ==
  IF config # NoConfig THEN config
  ELSE [data |-> WantedData(pass.clusters), orphaned |-> ~ocsinit.exists]

(* Written over what is there, with the owner the reconcile has read.      *)
WantedConfig == [data |-> WantedData(pass.clusters),
                 orphaned |-> ~ocsinit.exists]

(* Mutant: only a map that was there before makes a restart necessary.     *)
RestartIfUpdated ==
  IF WantedConfig = config \/ config = NoConfig THEN Tail(pass.todo)
  ELSE <<"Restart">> \o Tail(pass.todo)

(* Rook is restarted when the map was made or changed.                     *)
RestartIfChanged ==
  IF WantedConfig = config THEN Tail(pass.todo)
  ELSE <<"Restart">> \o Tail(pass.todo)

EnsureOcsOperatorConfigExists ==
  /\ At("OperatorConfig")
  /\ \/ /\ config' = WantedConfig
        /\ pass' = [pass EXCEPT !.todo = RestartIfChanged]
        /\ queued' = IF config' = config THEN queued
                     ELSE queued \cup {"ocsinit"}
        /\ UNCHANGED unflagged
        /\ Undisturbed
     \/ Disturb /\ Fail /\ LosesFlags /\ UNCHANGED config
  /\ UNCHANGED <<fleet, hcp, ocsinit, stray, made, rook, unrestarted>>

(* RestartPod: its failure is logged and nothing else.                     *)
RestartPod ==
  /\ At("Restart")
  /\ Next1(pass)
  /\ \/ rook' = NoConfig /\ unrestarted' = FALSE /\ Undisturbed
     \/ Disturb /\ unrestarted' = TRUE /\ UNCHANGED rook
  /\ UNCHANGED <<fleet, hcp, ocsinit, stray, made, config, queued, unflagged>>

-----------------------------------------------------------------------------
(* The objects of the UX backend and of the monitoring                     *)

(* Mutant: the owner is set when the object is made.                       *)
OwnedSinceMade(o) ==
  IF objects[o] # "absent" THEN objects[o]
  ELSE IF ocsinit.exists THEN "owned" ELSE "orphaned"

(* SetControllerReference: the owner is the ocsinit this reconcile read,   *)
(* in place of one of the same name.                                       *)
OwnedNow(o) == IF ocsinit.exists THEN "owned" ELSE "orphaned"

ReconcileObject ==
  /\ \E o \in Owned :
       /\ At(o)
       /\ \/ /\ objects' = [objects EXCEPT ![o] = OwnedNow(o)]
             /\ Next1(pass)
             /\ queued' = IF objects' = objects THEN queued
                          ELSE queued \cup {"ocsinit"}
             /\ UNCHANGED unflagged
             /\ Undisturbed
          \/ Disturb /\ Fail /\ LosesFlags /\ UNCHANGED objects
  /\ UNCHANGED <<fleet, hcp, ocsinit, stray, csv, tolerations, config, rook,
                 unrestarted>>

(* The deployment in the CSV of the Prometheus operator gets one replica;  *)
(* without the CSV the reconcile fails.                                    *)
ReconcilePrometheusOperatorCSV ==
  /\ At("PrometheusCSV")
  /\ \/ /\ csv # "absent"
        /\ csv' = "scaled"
        /\ Next1(pass)
        /\ queued' = IF csv = "idle" THEN queued \cup {"ocsinit"} ELSE queued
        /\ UNCHANGED unflagged
        /\ Undisturbed
     \/ csv = "absent" /\ Fail /\ LosesFlags /\ UNCHANGED csv /\ Undisturbed
     \/ Disturb /\ Fail /\ LosesFlags /\ UNCHANGED csv
  /\ UNCHANGED <<fleet, hcp, ocsinit, stray, objects, tolerations, config,
                 rook, unrestarted>>

(* The status is Ready, with the flags. The heartbeat in its conditions    *)
(* makes the update an event, except in the second of the one before.      *)
Complete ==
  /\ At("Complete")
  /\ \/ /\ ocsinit.exists
        /\ ocsinit' = [ocsinit EXCEPT !.phase = "Ready",
                                      !.modified = pass.modified]
        /\ pass' = NoPass
        /\ queued' \in {queued \cup {"ocsinit"},
                        IF ocsinit' = ocsinit THEN queued
                        ELSE queued \cup {"ocsinit"}}
        /\ unflagged' = {k \in unflagged : ~pass.modified[k]}
        /\ Undisturbed
     \/ /\ ~ocsinit.exists
        /\ Fail /\ LosesFlags /\ UNCHANGED ocsinit /\ Undisturbed
     \/ Disturb /\ Fail /\ LosesFlags /\ UNCHANGED ocsinit
  /\ UNCHANGED <<fleet, hcp, stray, made, config, rook, unrestarted>>

(* The operator is started again: main makes ocsinit if it is not there,   *)
(* and everything is reconciled once.                                      *)
Crash ==
  /\ Disturb
  /\ pass' = NoPass
  /\ LosesFlags
  /\ unrestarted' = (unrestarted \/ At("Restart"))
  /\ ocsinit' = IF ocsinit.exists THEN ocsinit ELSE NewInit
  /\ queued' = {"ocsinit"} \cup (IF stray = "absent" THEN {} ELSE {"stray"})
  /\ UNCHANGED <<fleet, hcp, stray, made, config, rook>>

-----------------------------------------------------------------------------
(* Rook, OLM, the garbage collector, users                                 *)

(* The pod that takes the place of the deleted one reads the map.          *)
RookPodStarts ==
  /\ rook = NoConfig /\ config # NoConfig
  /\ rook' = config.data
  /\ unrestarted' = FALSE
  /\ UNCHANGED <<fleet, hcp, ocsinit, stray, made, config, pass, queued,
                 unflagged>>
  /\ Undisturbed

(* What a deleted ocsinit owned is deleted after it: the map, what is for  *)
(* the UX backend, what is for the monitoring, in any order.               *)
CollectGarbage ==
  /\ \/ /\ \E group \in {Elements(UXBackend), Elements(Monitoring)} :
             /\ \E o \in group : objects[o] = "orphaned"
             /\ objects' = [o \in AllObjects |->
                              IF o \in group /\ objects[o] = "orphaned"
                                THEN "absent" ELSE objects[o]]
        /\ UNCHANGED config
     \/ /\ config # NoConfig /\ config.orphaned
        /\ config' = NoConfig
        /\ UNCHANGED objects
  /\ queued' = queued \cup {"ocsinit"}
  /\ UNCHANGED <<fleet, hcp, ocsinit, stray, csv, tolerations, rook, pass,
                 unrestarted, unflagged>>
  /\ Undisturbed

(* OLM installs the CSV, or puts its deployment back.                      *)
InstallCSV ==
  /\ hcp
  /\ \/ csv = "absent" /\ Undisturbed
     \/ csv = "scaled" /\ Edit
  /\ csv' = "idle"
  /\ queued' = queued \cup {"ocsinit"}
  /\ UNCHANGED <<fleet, hcp, ocsinit, stray, objects, tolerations, config,
                 rook, pass, unrestarted, unflagged>>

(* Clusters are made, edited and deleted.                                  *)
EditFleet ==
  /\ Edit
  /\ fleet' \in Fleets \ {fleet}
  /\ queued' = queued \cup {"ocsinit"}
  /\ UNCHANGED <<hcp, ocsinit, stray, made, config, rook, pass, unrestarted,
                 unflagged>>

(* The user sets tolerations in the map that is there for it.              *)
UserSetsTolerations ==
  /\ Edit
  /\ \E k \in CsiKeys : tolerations' = [tolerations EXCEPT ![k] = {"user"}]
  /\ queued' = queued \cup {"ocsinit"}
  /\ UNCHANGED <<fleet, hcp, ocsinit, stray, objects, csv, config, rook, pass,
                 unrestarted, unflagged>>

(* "A user may delete it to induce a reset of all initial data."           *)
DeleteInit ==
  /\ Edit
  /\ ocsinit.exists
  /\ ocsinit' = [exists |-> FALSE, phase |-> "", modified |-> Unmodified]
  /\ unflagged' = unflagged \cup {k \in CsiKeys : ocsinit.modified[k]}
  /\ objects' = [o \in AllObjects |->
                   IF o \in Owned /\ objects[o] = "owned" THEN "orphaned"
                   ELSE objects[o]]
  /\ config' = IF config = NoConfig THEN config
               ELSE [config EXCEPT !.orphaned = TRUE]
  /\ queued' = queued \cup {"ocsinit"}
  /\ UNCHANGED <<fleet, hcp, stray, csv, tolerations, rook, pass, unrestarted>>

CreateStray ==
  /\ Edit
  /\ stray = "absent"
  /\ stray' = "new"
  /\ queued' = queued \cup {"stray"}
  /\ UNCHANGED <<fleet, hcp, ocsinit, made, config, rook, pass, unrestarted,
                 unflagged>>

DeleteStray ==
  /\ Edit
  /\ stray # "absent"
  /\ stray' = "absent"
  /\ queued' = queued \cup {"stray"}
  /\ UNCHANGED <<fleet, hcp, ocsinit, made, config, rook, pass, unrestarted,
                 unflagged>>

Controller ==
  \/ Reconcile \/ IgnoreStray
  \/ EnsureSCCs \/ SCCStatus
  \/ EnsureRookCephOperatorConfigExists
  \/ EnsureOcsOperatorConfigExists \/ RestartPod
  \/ ReconcileObject \/ ReconcilePrometheusOperatorCSV
  \/ Complete

Environment ==
  \/ RookPodStarts \/ CollectGarbage \/ InstallCSV
  \/ EditFleet \/ UserSetsTolerations
  \/ DeleteInit \/ CreateStray \/ DeleteStray
  \/ Crash

Next == Controller \/ Environment

(* The worker takes what is queued, in the order it came, so that no name  *)
(* waits forever for the other, and goes on with it; the pod is started,   *)
(* garbage is collected, OLM installs what is subscribed to.               *)
Spec ==
  /\ Init /\ [][Next]_vars
  /\ WF_vars(Controller)
  /\ SF_vars(IgnoreStray)
  /\ WF_vars(RookPodStarts)
  /\ WF_vars(CollectGarbage)
  /\ WF_vars(InstallCSV /\ csv = "absent")

-----------------------------------------------------------------------------
(* Properties                                                              *)

Settled == Idle /\ "ocsinit" \notin queued

(* When the controller has nothing left to do, ocs-operator-config says    *)
(* what the clusters there are want: every change of theirs, whenever it   *)
(* came in a reconcile that had listed them already, led to another.       *)
ConfigFollowsClusters ==
  Settled =>
    /\ config # NoConfig
    /\ config.data = WantedData(fleet)
    /\ ~config.orphaned

(* ... and rook-ceph-operator-config has the tolerations the clusters      *)
(* want, and no others that the controller put there, unless the flag that *)
(* says so got lost on the way to the status.  What becomes of the user's  *)
(* is left open here: updateTolerationsConfigFunc                          *)
(* (ocsinitialization_controller.go:390-401) writes the clusters' over     *)
(* them and takes the whole key back, although the comment above it says   *)
(* "We don't reconcile it if it exists as it can reset any values the user *)
(* has set" (:342).                                                        *)
TolerationsFollowClusters ==
  Settled =>
    \A k \in CsiKeys :
      LET wanted == CsiTolerations(fleet, k) IN
      /\ wanted \subseteq tolerations[k]
      /\ \/ tolerations[k] \subseteq wanted \cup {"user"}
         \/ wanted = {} /\ k \in unflagged

(* ... and Rook runs with the map as it is, or is about to be started,     *)
(* unless the call that restarts it failed or was never made.              *)
RookRunsConfig ==
  Settled => rook = NoConfig \/ unrestarted \/ rook = config.data

(* ... and ocsinit is there, and all that the platform calls for, owned    *)
(* by it, although a reset left the objects of the ocsinit before.         *)
ReadyMeansComplete ==
  Settled =>
    /\ ocsinit.exists /\ ocsinit.phase = "Ready"
    /\ \A i \in DOMAIN Todo : Todo[i] \in Owned => objects[Todo[i]] = "owned"
    /\ hcp => csv = "scaled"

(* The holder pods of a cluster that was upgraded are kept for as long as  *)
(* its map is, whatever is changed in it.                                  *)
HolderPodsKept ==
  [][(/\ config # NoConfig /\ config.data.noHolders # "true"
      /\ config' # NoConfig)
       => config'.data.noHolders # "true"]_vars

(* Users stop changing things at some time, and faults are rare: from then *)
(* on the reconciles lead to a state that stays as the clusters want it,   *)
(* with any other OCSInitialization ignored.                               *)
InPlace ==
  /\ ocsinit.exists /\ ocsinit.phase = "Ready"
  /\ config # NoConfig /\ config.data = WantedData(fleet)
  /\ rook \in {config.data, NoConfig} \/ unrestarted
  /\ \A k \in CsiKeys :
       CsiTolerations(fleet, k) \subseteq tolerations[k]
  /\ stray # "new"

Settles == <>[]InPlace
=============================================================================
