-------------------------- MODULE ArtifactsProofs --------------------------
(***************************************************************************)
(* Proofs about module Artifacts: its types, that what a deployment mounts *)
(* always exists, that nothing is taken from the shared Ingress, that a    *)
(* complete pass leaves the cluster and the Ingress as the list wants      *)
(* them, and that pods never run old code behind a new template.           *)
(***************************************************************************)
EXTENDS Artifacts, FoldTheorems, TLAPS

\* Versions count updates.
VersionInv ==
    /\ count["updates"] <= MaxUpdates
    /\ obj.cur <= count["updates"] /\ cached.cur <= count["updates"]
    /\ copy # None => copy.cur <= count["updates"]

DepYAMLName(i) == <<"depyml", i>>

\* What a deployment of application i mounts with the code of version v.
MountSets(i, v) ==
    {S \cup {AppsCMName(i, v)} : S \in SUBSET {DepYAMLName(i), DepYAMLName(0)}}

OwnMounts(i, t) ==
    /\ \E v \in Versions : t.mounts \in MountSets(i, v)
    /\ t.claim \in {None, i}

\* Deployments and pods mount what belongs to their application.
FormInv ==
    \A i \in Apps :
        /\ dep[i] # None => OwnMounts(i, dep[i])
        /\ pods[i] # None => OwnMounts(i, pods[i].template)

TypeInv == TypeOK /\ VersionInv /\ FormInv

LEMMA ListFacts ==
    ASSUME NEW l \in AppLists
    PROVE  /\ l \in Seq(Application) /\ Len(l) \in Nat
           /\ 1 <= Len(l) /\ Len(l) <= MaxApps /\ MaxApps \in Nat
           /\ DOMAIN l = 1 .. Len(l)
           /\ \A i \in 1 .. Len(l) : i \in Apps /\ l[i] \in Application
           /\ l # None
BY BoundsAssumption, NoneAssumption DEF AppLists, Apps

LEMMA CopyFacts ==
    ASSUME TypeOK, pc \notin {"down", "idle"}
    PROVE  /\ copy \in Objects /\ copy.spec \in Specs
           /\ copy.cur \in Versions /\ copy.prev \in Versions
           /\ env.image \in STRING /\ env.AutoCreateIngress \in BOOLEAN
BY DEF TypeOK, WorkerTypes, Objects

LEMMA CleanFacts ==
    ASSUME TypeOK, pc \in CleanSteps
    PROVE  /\ idx \in Apps /\ apps \in AppLists
           /\ idx \in Len(apps) + 1 .. oldLen /\ oldLen \in 0 .. MaxApps
<1>1. apps \in AppLists /\ idx \in Len(apps) + 1 .. oldLen /\ oldLen \in 0 .. MaxApps
  BY DEF TypeOK, WorkerTypes, CleanSteps
<1> QED BY <1>1, ListFacts DEF Apps

LEMMA DeployFacts ==
    ASSUME TypeOK, pc \in DeploySteps
    PROVE  /\ idx \in 1 .. Len(apps) /\ idx \in Apps /\ apps \in AppLists
           /\ App \in Application /\ App = apps[idx]
           /\ UsesClaim \in BOOLEAN
<1>1. apps \in AppLists /\ idx \in 1 .. Len(apps)
  BY DEF TypeOK, WorkerTypes, DeploySteps
<1> QED BY <1>1, ListFacts DEF App, UsesClaim, Application

LEMMA NameFacts ==
    ASSUME NEW i \in Apps, NEW v \in Versions
    PROVE  /\ AppsCMName(i, v) \in CMNames
           /\ DepYAMLName(i) \in CMNames /\ DepYAMLName(0) \in CMNames
BY DEF AppsCMName, CMNames, DepYAMLName

LEMMA NamesDiffer ==
    ASSUME NEW i \in Apps, NEW v \in Versions, NEW j \in Apps, NEW w \in Versions,
           NEW k \in Apps \cup {0}
    PROVE  /\ AppsCMName(i, v) # DepYAMLName(k)
           /\ AppsCMName(i, v) = AppsCMName(j, w) => i = j /\ v = w
           /\ AppsCMName(i, v)[1] = "apps" /\ AppsCMName(i, v)[3] = v
           /\ DepYAMLName(k)[1] # "apps"
BY DEF AppsCMName, DepYAMLName

LEMMA DepYAMLFacts ==
    ASSUME TypeOK, pc \in DeploySteps
    PROVE  DepYAML \in SUBSET {DepYAMLName(idx), DepYAMLName(0)}
BY DEF DepYAML, DepYAMLName

\* What fails, is skipped or stops.
Disturbance ==
    Stop \/ DeletionSkipped \/ CleanFails \/ DeploymentFails \/ WriteFails

LEMMA Counting ==
    ASSUME TypeOK, [Next]_vars
    PROVE  /\ count' \in [Counters -> Nat]
           /\ \A c \in Counters : count[c] \in Nat /\ count[c] <= count'[c]
           /\ \/ count'["updates"] = count["updates"]
              \/ \E s \in Specs : UserUpdate(s)
           /\ (\E s \in Specs : UserUpdate(s)) =>
                  /\ count["updates"] < MaxUpdates
                  /\ count'["updates"] = count["updates"] + 1
           /\ Disturbance => count'["disturbances"] # 0
<1>0. count \in [Counters -> Nat]
  BY DEF TypeOK
<1>1. ASSUME NEW c \in Counters, Spend(c)
      PROVE  /\ count' \in [Counters -> Nat]
             /\ count'[c] = count[c] + 1
             /\ \A d \in Counters \ {c} : count'[d] = count[d]
             /\ \A d \in Counters : count[d] \in Nat /\ count[d] <= count'[d]
  BY <1>0, <1>1 DEF Spend
<1>2. {"updates", "edits", "disturbances"} = Counters
  BY DEF Counters
<1>3. CASE \E s \in Specs : UserUpdate(s)
  <2>1. Spend("updates") /\ count["updates"] < MaxUpdates
    BY <1>3 DEF UserUpdate
  <2>2. ~Disturbance
    <3>1. ASSUME Spend("disturbances") PROVE FALSE
      <4>1. /\ count'["updates"] = count["updates"]
            /\ count'["updates"] = count["updates"] + 1
            /\ count["updates"] \in Nat
        BY <1>0, <1>1, <1>2, <2>1, <3>1
      <4> QED BY <4>1
    <3> QED BY <3>1 DEF Disturbance, Stop, DeletionSkipped, CleanFails,
                        DeploymentFails, WriteFails
  <2> QED BY <1>1, <1>2, <1>3, <2>1, <2>2
<1>4. CASE ~\E s \in Specs : UserUpdate(s)
  <2>1. \/ Spend("edits") /\ ~Spend("disturbances")
        \/ Spend("disturbances")
        \/ UNCHANGED count /\ ~Spend("disturbances")
    <3>1. Spend("edits") \/ Spend("disturbances") \/ UNCHANGED count
      BY <1>4 DEF Next, Worker, EditOperatorConfig, Stop, Restart, RollOut,
                  PodRestart, BeginPass, SetStateAndParse, DeleteDeployment,
                  DeleteService, DeletePVC, DeleteConfigMap, DeletionSkipped,
                  CleanFails, StoreApps, CreateClaim, CreateDepYAML, CreateAppsCM,
                  CreateOrUpdateDeployment, DeploymentFails,
                  CreateOrUpdateService, CreateOrUpdateIngress, WriteFails,
                  SyncVersion, vars
    <3> QED BY <3>1
  <2>2. Disturbance => Spend("disturbances")
    BY DEF Disturbance, Stop, DeletionSkipped, CleanFails, DeploymentFails,
           WriteFails
  <2>3. CASE Spend("disturbances")
    <3>1. /\ count'["disturbances"] = count["disturbances"] + 1
          /\ count["disturbances"] \in Nat
          /\ count'["updates"] = count["updates"]
      BY <1>0, <1>1, <1>2, <2>3
    <3> QED BY <1>1, <1>2, <1>4, <2>3, <3>1
  <2>4. CASE Spend("edits") /\ ~Spend("disturbances")
    BY <1>0, <1>1, <1>2, <1>4, <2>2, <2>4
  <2>5. CASE UNCHANGED count /\ ~Spend("disturbances")
    BY <1>0, <1>2, <1>4, <2>2, <2>5
  <2> QED BY <2>1, <2>3, <2>4, <2>5
<1> QED BY <1>3, <1>4

LEMMA Calm ==
    ASSUME TypeOK, [Next]_vars, Undisturbed'
    PROVE  /\ Undisturbed /\ ~Stop /\ ~DeletionSkipped /\ ~CleanFails
           /\ ~DeploymentFails /\ ~WriteFails
<1>1. "disturbances" \in Counters
  BY DEF Counters
<1> QED BY <1>1, Counting DEF Undisturbed, Disturbance

\* The actions that a proof about the object, the list or the copy of the
\* worker has to look at; the others leave those alone.
Elsewhere == UNCHANGED <<obj, cached, todo, SPContainer, copy, fresh, env>>

LEMMA ObjectSteps ==
    ASSUME [Next]_vars
    PROVE  \/ \E s \in Specs : UserUpdate(s)
           \/ Stop \/ Restart \/ BeginPass \/ SetStateAndParse
           \/ CleanFails \/ StoreApps \/ SyncVersion
           \/ Elsewhere
BY DEF Next, Worker, Elsewhere, EditOperatorConfig, RollOut, PodRestart,
       DeleteDeployment, DeleteService, DeletePVC, DeleteConfigMap,
       DeletionSkipped,
       CreateClaim, CreateDepYAML, CreateAppsCM, CreateOrUpdateDeployment,
       DeploymentFails, CreateOrUpdateService, CreateOrUpdateIngress,
       WriteFails, Frame, vars, objectVars, workerVars

LEMMA NextObjects ==
    ASSUME TypeInv, [Next]_vars
    PROVE  ObjectTypes' /\ VersionInv'
<1>0. /\ TypeOK /\ VersionInv /\ count["updates"] \in Nat
      /\ count'["updates"] \in Nat /\ count["updates"] <= count'["updates"]
      /\ count'["updates"] <= MaxUpdates /\ MaxUpdates \in Nat
      /\ obj \in Objects /\ cached \in [cur : Versions, prev : Versions]
      /\ opcm' \in OperatorConfigs
  <2>1. opcm' \in OperatorConfigs
    BY DEF TypeInv, TypeOK, ObjectTypes, Next, Worker, UserUpdate,
           EditOperatorConfig, Stop, Restart, RollOut, PodRestart, BeginPass,
           SetStateAndParse, DeleteDeployment, DeleteService, DeletePVC,
           DeleteConfigMap, DeletionSkipped, CleanFails, StoreApps,
           CreateClaim, CreateDepYAML,
           CreateAppsCM, CreateOrUpdateDeployment, DeploymentFails,
           CreateOrUpdateService, CreateOrUpdateIngress, WriteFails,
           SyncVersion, Frame, vars
  <2>2. "updates" \in Counters
    BY DEF Counters
  <2> QED BY <2>1, <2>2, Counting, BoundsAssumption
          DEF TypeInv, VersionInv, TypeOK, ObjectTypes
<1>1. CASE \E s \in Specs : UserUpdate(s)
  <2>1. PICK s \in Specs : UserUpdate(s)
    BY <1>1
  <2>2. count'["updates"] = count["updates"] + 1 /\ count["updates"] < MaxUpdates
    BY <1>0, <1>1, Counting
  <2>3. /\ obj' = [obj EXCEPT !.spec = s] /\ UNCHANGED <<copy, SPContainer>>
        /\ \/ UNCHANGED <<cached, todo>>
           \/ cached' = [cur |-> obj.cur + 1, prev |-> obj.prev] /\ todo' = TRUE
    BY <2>1 DEF UserUpdate
  <2>4. /\ obj.cur \in Versions /\ obj.prev \in Versions /\ obj.cur + 1 \in Versions
        /\ obj.cur + 1 <= count'["updates"]
    BY <1>0, <2>2 DEF VersionInv, Objects, Versions
  <2>5. obj' \in Objects /\ obj'.cur = obj.cur
    BY <1>0, <2>1, <2>3 DEF Objects
  <2>6. /\ cached' \in [cur : Versions, prev : Versions]
        /\ cached'.cur = cached.cur \/ cached'.cur = obj.cur + 1
    <3>1. CASE UNCHANGED cached
      BY <1>0, <3>1
    <3>2. CASE cached' = [cur |-> obj.cur + 1, prev |-> obj.prev]
      BY <2>4, <3>2
    <3> QED BY <2>3, <3>1, <3>2
  <2>8. todo' \in BOOLEAN
    BY <1>0, <2>3 DEF TypeOK, ObjectTypes
  <2>7. copy # None => copy.cur \in Versions
    BY <1>0 DEF TypeOK, WorkerTypes, Objects
  <2> QED BY <1>0, <2>2, <2>3, <2>4, <2>5, <2>6, <2>7, <2>8
          DEF TypeOK, ObjectTypes, VersionInv, Versions
<1>2. CASE Stop \/ CleanFails
  BY <1>0, <1>2 DEF Stop, CleanFails, Forget, objectVars, TypeOK, ObjectTypes,
                    VersionInv, Objects, Versions
<1>3. CASE Restart
  BY <1>0, <1>3 DEF Restart, TypeOK, ObjectTypes, WorkerTypes, VersionInv,
                    Objects, Versions
<1>4. CASE BeginPass
  BY <1>0, <1>4 DEF BeginPass, objectVars, TypeOK, ObjectTypes,
                    VersionInv, Objects, Versions
<1>5. CASE SetStateAndParse
  <2>1. copy \in Objects /\ copy # None
    BY <1>0, <1>5, CopyFacts, NoneAssumption DEF SetStateAndParse
  <2>2. \/ UNCHANGED objectVars
        \/ /\ obj' = copy /\ todo' = FALSE
           /\ cached' = [cur |-> copy.cur, prev |-> copy.prev]
    BY <1>5 DEF SetStateAndParse
  <2>3. UNCHANGED <<copy, SPContainer>>
    BY <1>5 DEF SetStateAndParse
  <2>4. CASE UNCHANGED objectVars
    BY <1>0, <2>1, <2>3, <2>4 DEF objectVars, TypeOK, ObjectTypes, VersionInv,
                    Objects, Versions
  <2>5. CASE /\ obj' = copy /\ todo' = FALSE
             /\ cached' = [cur |-> copy.cur, prev |-> copy.prev]
    <3>1. /\ cached' \in [cur : Versions, prev : Versions]
          /\ cached'.cur = copy.cur /\ copy.cur \in Versions
      BY <2>1, <2>5 DEF Objects
    <3>2. ObjectTypes'
      BY <1>0, <2>1, <2>3, <2>5, <3>1 DEF TypeOK, ObjectTypes
    <3>3. VersionInv'
      BY <1>0, <2>1, <2>3, <2>5, <3>1 DEF VersionInv, Versions
    <3> QED BY <3>2, <3>3
  <2> QED BY <2>2, <2>4, <2>5
<1>6. CASE StoreApps
  <2>1. apps \in AppLists
    BY <1>0, <1>6 DEF StoreApps, TypeOK, WorkerTypes
  <2> QED BY <1>0, <1>6, <2>1 DEF StoreApps, Frame, TypeOK, ObjectTypes,
                    WorkerTypes, VersionInv, Objects, Versions
<1>7. CASE SyncVersion
  <2>1. copy \in Objects /\ copy # None
    BY <1>0, <1>7, CopyFacts, NoneAssumption DEF SyncVersion
  <2> QED BY <1>0, <1>7, <2>1 DEF SyncVersion, Synced, Forget, TypeOK,
                    ObjectTypes, VersionInv, Objects, Versions
<1>8. CASE Elsewhere
  BY <1>0, <1>8 DEF Elsewhere, TypeOK, ObjectTypes, WorkerTypes, VersionInv,
                    Objects, Versions
<1> QED BY <1>1, <1>2, <1>3, <1>4, <1>5, <1>6, <1>7, <1>8, ObjectSteps

\* The config map that CodeOf reads.
CodeName(t) == CHOOSE n \in t.mounts : n[1] = "apps"

LEMMA CodeNameFacts ==
    ASSUME NEW i \in Apps, NEW v \in Versions, NEW t, t.mounts \in MountSets(i, v)
    PROVE  /\ AppsCMName(i, v) \in t.mounts
           /\ CodeName(t) = AppsCMName(i, v) /\ CodeOf(t) = cms[CodeName(t)]
           /\ CodeName(t)[3] = v
<1>1. PICK S \in SUBSET {DepYAMLName(i), DepYAMLName(0)} :
          t.mounts = S \cup {AppsCMName(i, v)}
  BY DEF MountSets
<1>2. \A n \in t.mounts : n[1] = "apps" <=> n = AppsCMName(i, v)
  BY <1>1, NamesDiffer
<1>3. AppsCMName(i, v) \in t.mounts
  BY <1>1
<1>4. CodeName(t) = AppsCMName(i, v)
  BY <1>2, <1>3 DEF CodeName
<1> QED BY <1>3, <1>4, NamesDiffer DEF CodeOf, CodeName

LEMMA TemplateFacts ==
    ASSUME TypeOK, pc = "deployment"
    PROVE  /\ Template \in Templates /\ Template # None
           /\ Template.mounts = DepYAML \cup {AppsCMName(idx, copy.cur)}
           /\ Template.mounts \in MountSets(idx, copy.cur)
           /\ OwnMounts(idx, Template)
           /\ Template.claim = (IF UsesClaim THEN idx ELSE None)
           /\ Template.image = env.image
           /\ Template.ports = Append(App.ports, HealthPort)
<1>1. /\ idx \in Apps /\ App \in Application /\ copy.cur \in Versions
      /\ env.image \in STRING /\ pc \in DeploySteps
  BY DeployFacts, CopyFacts DEF DeploySteps
<1>2. Append(App.ports, HealthPort) \in Seq(Nat)
  BY <1>1, DefaultsAssumption DEF Application, PortLists
<1>3. /\ DepYAML \cup {AppsCMName(idx, copy.cur)} \in SUBSET CMNames
      /\ DepYAML \cup {AppsCMName(idx, copy.cur)} \in MountSets(idx, copy.cur)
  BY <1>1, DepYAMLFacts, NameFacts DEF MountSets
<1>4. (IF UsesClaim THEN idx ELSE None) \in {None, idx}
  OBVIOUS
<1>5. Template \in Templates
  BY <1>1, <1>2, <1>3, <1>4 DEF Template, Templates
<1>6. /\ Template.mounts = DepYAML \cup {AppsCMName(idx, copy.cur)}
      /\ Template.claim = (IF UsesClaim THEN idx ELSE None)
      /\ Template.image = env.image
      /\ Template.ports = Append(App.ports, HealthPort)
  BY DEF Template
<1> QED BY <1>1, <1>3, <1>4, <1>5, <1>6, NoneAssumption DEF OwnMounts

LEMMA ClusterSteps ==
    ASSUME [Next]_vars
    PROVE  \/ \E i \in Apps : RollOut(i) \/ PodRestart(i)
           \/ DeleteDeployment \/ DeleteService \/ DeletePVC \/ DeleteConfigMap
           \/ CreateClaim \/ CreateDepYAML \/ CreateAppsCM
           \/ CreateOrUpdateDeployment \/ CreateOrUpdateService
           \/ UNCHANGED <<cms, claims, dep, svc, pods>>
BY DEF Next, Worker, UserUpdate, EditOperatorConfig, Stop, Restart, BeginPass,
       SetStateAndParse, DeletionSkipped, CleanFails, StoreApps, DeploymentFails,
       CreateOrUpdateIngress, WriteFails, SyncVersion, vars, clusterVars

LEMMA StraySteps ==
    ASSUME TypeOK, [Next]_vars
    PROVE  /\ stray' \subseteq Apps
           /\ ~(DeleteDeployment \/ CreateOrUpdateDeployment \/ DeletionSkipped)
                  => UNCHANGED stray
           /\ ~DeletionSkipped => stray' \subseteq stray
<1>1. stray \subseteq Apps
  BY DEF TypeOK, ClusterTypes
<1>2. CASE DeleteDeployment \/ CreateOrUpdateDeployment
  BY <1>1, <1>2 DEF DeleteDeployment, CreateOrUpdateDeployment
<1>3. CASE DeletionSkipped
  <2>1. idx \in Apps
    BY <1>3, CleanFacts DEF DeletionSkipped
  <2> QED BY <1>1, <1>3, <2>1 DEF DeletionSkipped
<1>4. CASE ~(DeleteDeployment \/ CreateOrUpdateDeployment \/ DeletionSkipped)
  <2>1. UNCHANGED stray
    BY <1>4 DEF Next, UserUpdate, EditOperatorConfig, Stop, Restart, RollOut,
                PodRestart, Worker, BeginPass, SetStateAndParse, DeleteService,
                DeletePVC, DeleteConfigMap, CleanFails, StoreApps, CreateClaim,
                CreateDepYAML, CreateAppsCM, DeploymentFails,
                CreateOrUpdateService, CreateOrUpdateIngress, WriteFails,
                SyncVersion, vars, clusterVars
  <2> QED BY <1>1, <1>4, <2>1
<1> QED BY <1>2, <1>3, <1>4

LEMMA NextCluster ==
    ASSUME TypeInv, [Next]_vars
    PROVE  ClusterTypes' /\ FormInv'
<1>0. /\ TypeOK /\ FormInv /\ cms \in [CMNames -> Contents \cup {None}]
      /\ claims \subseteq Apps /\ dep \in [Apps -> Templates \cup {None}]
      /\ svc \in [Apps -> Seq(Nat) \cup {None}]
      /\ pods \in [Apps -> Pods \cup {None}] /\ stray' \subseteq Apps
  BY StraySteps DEF TypeInv, TypeOK, ClusterTypes
<1>1. ASSUME NEW i \in Apps, NEW t \in Templates, OwnMounts(i, t), Mountable(t)
      PROVE  CodeOf(t) \in Contents
  <2>1. PICK v \in Versions : t.mounts \in MountSets(i, v)
    BY <1>1 DEF OwnMounts
  <2>2. CodeOf(t) = cms[AppsCMName(i, v)] /\ AppsCMName(i, v) \in t.mounts
    BY <1>1, <2>1, CodeNameFacts
  <2>3. AppsCMName(i, v) \in CMNames
    BY <1>1, NameFacts
  <2> QED BY <1>0, <1>1, <2>2, <2>3 DEF Mountable
<1>2. ASSUME NEW i \in Apps, RollOut(i) PROVE ClusterTypes' /\ FormInv'
  <2>1. dep[i] \in Templates /\ OwnMounts(i, dep[i]) /\ Mountable(dep[i])
    BY <1>0, <1>2 DEF RollOut, FormInv
  <2>2. CodeOf(dep[i]) \in Contents
    BY <1>1, <2>1
  <2>3. /\ pods' = [pods EXCEPT ![i] = [template |-> dep[i], code |-> CodeOf(dep[i])]]
        /\ UNCHANGED <<cms, claims, dep, svc>>
    BY <1>2 DEF RollOut
  <2>4. ClusterTypes'
    BY <1>0, <2>1, <2>2, <2>3 DEF ClusterTypes, Pods
  <2>5. \A j \in Apps : j # i => pods'[j] = pods[j]
    BY <1>0, <2>3
  <2>6. pods'[i].template = dep[i]
    BY <1>0, <2>3
  <2> QED BY <1>0, <2>1, <2>3, <2>4, <2>5, <2>6 DEF FormInv
<1>3. ASSUME NEW i \in Apps, PodRestart(i) PROVE ClusterTypes' /\ FormInv'
  <2>1. /\ pods[i] \in Pods
        /\ pods[i].template \in Templates
        /\ OwnMounts(i, pods[i].template) /\ Mountable(pods[i].template)
    BY <1>0, <1>3 DEF PodRestart, FormInv, Pods
  <2>2. CodeOf(pods[i].template) \in Contents
    BY <1>1, <2>1
  <2>3. /\ pods' = [pods EXCEPT ![i].code = CodeOf(pods[i].template)]
        /\ UNCHANGED <<cms, claims, dep, svc>>
    BY <1>3 DEF PodRestart
  <2>4. ClusterTypes'
    BY <1>0, <2>1, <2>2, <2>3 DEF ClusterTypes, Pods
  <2>5. \A j \in Apps : j # i => pods'[j] = pods[j]
    BY <1>0, <2>3
  <2>6. pods'[i].template = pods[i].template
    BY <1>0, <2>1, <2>3 DEF Pods
  <2> QED BY <1>0, <2>1, <2>3, <2>4, <2>5, <2>6 DEF FormInv
<1>4. CASE DeleteDeployment
  <2>1. /\ dep' = [dep EXCEPT ![idx] = None] /\ pods' = [pods EXCEPT ![idx] = None]
        /\ UNCHANGED <<cms, claims, svc>>
    BY <1>4 DEF DeleteDeployment
  <2> QED BY <1>0, <2>1 DEF ClusterTypes, FormInv
<1>5. CASE DeleteService \/ DeletePVC
  BY <1>0, <1>5 DEF DeleteService, DeletePVC, ClusterTypes, FormInv
<1>6. CASE DeleteConfigMap
  BY <1>0, <1>6 DEF DeleteConfigMap, ClusterTypes, FormInv
<1>7. CASE CreateClaim
  <2>1. idx \in Apps
    BY <1>0, <1>7, DeployFacts DEF CreateClaim, DeploySteps
  <2>2. claims' \subseteq Apps /\ UNCHANGED <<cms, dep, svc, pods>>
    BY <1>0, <1>7, <2>1 DEF CreateClaim
  <2> QED BY <1>0, <2>2 DEF ClusterTypes, FormInv
<1>8. CASE CreateDepYAML
  <2>1. copy.spec.SiddhiConfig \in Contents
    BY <1>0, <1>8, CopyFacts, SpecsAssumption DEF CreateDepYAML, Contents
  <2>2. /\ cms' = [n \in CMNames |-> IF n \in DepYAML THEN copy.spec.SiddhiConfig
                                      ELSE cms[n]]
        /\ UNCHANGED <<claims, dep, svc, pods>>
    BY <1>8 DEF CreateDepYAML
  <2>3. cms' \in [CMNames -> Contents \cup {None}]
    BY <1>0, <2>1, <2>2
  <2> QED BY <1>0, <2>2, <2>3 DEF ClusterTypes, FormInv
<1>9. CASE CreateAppsCM
  <2>1. App.code \in STRING
    BY <1>0, <1>9, DeployFacts DEF CreateAppsCM, DeploySteps, Application
  <2> QED BY <1>0, <1>9, <2>1 DEF CreateAppsCM, ClusterTypes, FormInv, Contents
<1>10. CASE CreateOrUpdateDeployment
  <2>1. /\ dep' = [dep EXCEPT ![idx] = Template]
        /\ UNCHANGED <<cms, claims, svc, pods>>
        /\ Template \in Templates /\ OwnMounts(idx, Template)
    BY <1>0, <1>10, TemplateFacts DEF CreateOrUpdateDeployment
  <2> QED BY <1>0, <2>1 DEF ClusterTypes, FormInv
<1>11. CASE CreateOrUpdateService
  <2>1. App.ports \in Seq(Nat)
    BY <1>0, <1>11, DeployFacts
       DEF CreateOrUpdateService, DeploySteps, Application, PortLists
  <2> QED BY <1>0, <1>11, <2>1 DEF CreateOrUpdateService, ClusterTypes, FormInv
<1>12. CASE UNCHANGED <<cms, claims, dep, svc, pods>>
  BY <1>0, <1>12 DEF ClusterTypes, FormInv
<1> QED BY <1>2, <1>3, <1>4, <1>5, <1>6, <1>7, <1>8, <1>9, <1>10, <1>11, <1>12,
           ClusterSteps

\* The steps of the loop over the applications.
LoopStep ==
    \/ CreateClaim \/ CreateDepYAML \/ CreateAppsCM
    \/ CreateOrUpdateDeployment \/ DeploymentFails
    \/ CreateOrUpdateService \/ CreateOrUpdateIngress \/ WriteFails

CleanStep ==
    DeleteDeployment \/ DeleteService \/ DeletePVC \/ DeleteConfigMap

LEMMA ProceedFacts ==
    ASSUME Proceed
    PROVE  /\ UNCHANGED idx
           /\ pc = "claim" => pc' = "depyml"
           /\ pc = "depyml" => pc' = "apps"
           /\ pc = "apps" => pc' = "deployment"
           /\ pc = "deployment" => pc' = "service"
           /\ pc = "service" => pc' = "ingress"
BY DEF Proceed, After

LEMMA NextAppFacts ==
    ASSUME TypeOK, pc \in DeploySteps, NextApp
    PROVE  /\ idx' = idx + 1 /\ idx \in Nat /\ Len(apps) \in Nat
           /\ \/ pc' = "claim" /\ idx < Len(apps)
              \/ pc' = "sync" /\ idx = Len(apps)
BY DeployFacts, ListFacts DEF NextApp

LEMMA LoopFacts ==
    ASSUME TypeOK, LoopStep
    PROVE  /\ pc \in DeploySteps
           /\ UNCHANGED <<obj, cached, todo, SPContainer, opcm, copy, fresh, env,
                          apps, oldLen, overtaken>>
           /\ (Proceed /\ pc # "ingress") \/ NextApp
<1>1. pc \in DeploySteps /\ UNCHANGED SPContainer /\ Frame
  BY DEF LoopStep, CreateClaim, CreateDepYAML, CreateAppsCM,
         CreateOrUpdateDeployment, DeploymentFails, CreateOrUpdateService,
         CreateOrUpdateIngress, WriteFails, DeploySteps
<1>2. (Proceed /\ pc # "ingress") \/ NextApp
  BY DEF LoopStep, CreateClaim, CreateDepYAML, CreateAppsCM,
         CreateOrUpdateDeployment, DeploymentFails, CreateOrUpdateService,
         CreateOrUpdateIngress, WriteFails
<1> QED BY <1>1, <1>2 DEF Frame

LEMMA CleanStepFacts ==
    ASSUME TypeOK, CleanStep \/ DeletionSkipped
    PROVE  /\ pc \in CleanSteps
           /\ UNCHANGED <<obj, cached, todo, SPContainer, opcm, copy, fresh, env,
                          apps, oldLen, overtaken>>
           /\ \/ UNCHANGED idx /\ pc' \in CleanSteps \ {"rmDeployment"}
              \/ idx' = idx + 1 /\ idx < oldLen /\ pc' = "rmDeployment"
              \/ idx' = idx + 1 /\ idx = oldLen /\ pc' = "store"
<1>1. pc \in CleanSteps /\ UNCHANGED SPContainer /\ Frame
  BY DEF CleanStep, DeleteDeployment, DeleteService, DeletePVC,
         DeleteConfigMap, DeletionSkipped, CleanSteps
<1>2. idx \in Nat /\ oldLen \in Nat /\ idx <= oldLen
  BY <1>1, CleanFacts, ListFacts
<1> QED BY <1>1, <1>2 DEF Frame, CleanStep, DeleteDeployment, DeleteService,
           DeletePVC, DeleteConfigMap, DeletionSkipped, CleanSteps

LEMMA WorkerSteps ==
    ASSUME [Next]_vars
    PROVE  \/ \E s \in Specs : UserUpdate(s)
           \/ Stop \/ Restart \/ BeginPass \/ SetStateAndParse
           \/ CleanStep \/ DeletionSkipped \/ CleanFails
           \/ StoreApps \/ LoopStep \/ SyncVersion
           \/ UNCHANGED <<objectVars, SPContainer, workerVars, overtaken>>
BY DEF Next, Worker, CleanStep, LoopStep, EditOperatorConfig, RollOut,
       PodRestart, vars

LEMMA NextWorker ==
    ASSUME TypeInv, [Next]_vars
    PROVE  WorkerTypes'
<1>0. /\ TypeOK /\ WorkerTypes /\ obj \in Objects /\ obj.spec \in Specs
      /\ cached \in [cur : Versions, prev : Versions] /\ opcm \in OperatorConfigs
      /\ SPContainer \in AppLists \cup {None} /\ MaxApps \in Nat
  BY BoundsAssumption DEF TypeInv, TypeOK, ObjectTypes, Objects
<1>1. CASE \E s \in Specs : UserUpdate(s)
  BY <1>0, <1>1 DEF UserUpdate, WorkerTypes
<1>2. CASE Stop \/ CleanFails \/ SyncVersion
  <2>1. /\ pc' \in {"down", "idle"} /\ Forget /\ UNCHANGED overtaken
    BY <1>2 DEF Stop, CleanFails, SyncVersion
  <2>2. copy' = None /\ fresh' \in BOOLEAN /\ oldLen' = 0
    BY <2>1 DEF Forget
  <2> QED BY <1>0, <2>1, <2>2 DEF WorkerTypes, CleanSteps, DeploySteps
<1>3. CASE Restart
  BY <1>0, <1>3 DEF Restart, WorkerTypes, CleanSteps, DeploySteps
<1>4. CASE BeginPass
  <2>1. /\ pc' = "state" /\ env' = UpdateDefaultConfigs(obj.spec)
        /\ copy' = [spec |-> obj.spec, cur |-> cached.cur, prev |-> cached.prev]
        /\ fresh' = TRUE /\ UNCHANGED <<idx, apps, oldLen, overtaken>>
    BY <1>4 DEF BeginPass
  <2>2. copy' \in Objects /\ copy' # None
    BY <1>0, <2>1, NoneAssumption DEF Objects
  <2>3. env'.image \in STRING /\ env'.AutoCreateIngress \in BOOLEAN
    BY <1>0, <2>1, SpecsAssumption, DefaultsAssumption
       DEF UpdateDefaultConfigs, Setting
  <2> QED BY <1>0, <2>1, <2>2, <2>3 DEF WorkerTypes, CleanSteps, DeploySteps
<1>5. CASE SetStateAndParse
  <2>1. copy.spec \in Specs /\ pc = "state"
    BY <1>0, <1>5, CopyFacts DEF SetStateAndParse
  <2>2. /\ apps' \in IF modified \/ SPContainer = None
                     THEN copy.spec.answers ELSE {SPContainer}
        /\ oldLen' = IF SPContainer = None THEN 0 ELSE Len(SPContainer)
        /\ idx' = FirstToClean(apps')
        /\ pc' = IF modified /\ idx' <= oldLen' THEN "rmDeployment" ELSE "store"
        /\ UNCHANGED <<copy, fresh, env>>
    BY <1>5 DEF SetStateAndParse
  <2>3. apps' \in AppLists
    BY <1>0, <2>1, <2>2, SpecsAssumption
  <2>4. Len(apps') \in Nat /\ idx' = Len(apps') + 1
    BY <2>2, <2>3, ListFacts DEF FirstToClean
  <2>5. oldLen' \in 0 .. MaxApps
    BY <1>0, <2>2, ListFacts
  <2>6. pc' = "store" \/ (pc' = "rmDeployment" /\ idx' <= oldLen')
    BY <2>2
  <2>7. overtaken' \in BOOLEAN
    BY <1>0, <1>5 DEF SetStateAndParse, WorkerTypes
  <2> QED BY <1>0, <2>1, <2>2, <2>3, <2>4, <2>5, <2>6, <2>7
          DEF WorkerTypes, CleanSteps, DeploySteps
<1>6. CASE CleanStep \/ DeletionSkipped
  <2>1. /\ idx \in Nat /\ oldLen \in Nat /\ Len(apps) \in Nat
        /\ Len(apps) + 1 <= idx /\ idx <= oldLen /\ apps \in AppLists
    BY <1>0, <1>6, CleanStepFacts, CleanFacts, ListFacts
  <2> QED BY <1>0, <1>6, <2>1, CleanStepFacts
          DEF WorkerTypes, CleanSteps, DeploySteps
<1>7. CASE StoreApps
  <2>1. apps \in AppLists /\ pc = "store"
    BY <1>0, <1>7 DEF StoreApps, WorkerTypes
  <2> QED BY <1>0, <1>7, <2>1, ListFacts
          DEF StoreApps, Frame, WorkerTypes, CleanSteps, DeploySteps
<1>8. CASE LoopStep
  <2>1. idx \in 1 .. Len(apps) /\ apps \in AppLists /\ Len(apps) \in Nat
    BY <1>0, <1>8, LoopFacts, DeployFacts, ListFacts
  <2>2. CASE Proceed /\ pc # "ingress"
    <3>1. pc' \in DeploySteps /\ UNCHANGED idx
      BY <1>0, <1>8, <2>2, LoopFacts, ProceedFacts DEF DeploySteps
    <3> QED BY <1>0, <1>8, <2>1, <3>1, LoopFacts
            DEF WorkerTypes, CleanSteps, DeploySteps
  <2>3. CASE NextApp
    BY <1>0, <1>8, <2>1, <2>3, LoopFacts, NextAppFacts
       DEF WorkerTypes, CleanSteps, DeploySteps
  <2> QED BY <1>0, <1>8, <2>2, <2>3, LoopFacts
<1>9. CASE UNCHANGED <<objectVars, SPContainer, workerVars, overtaken>>
  BY <1>0, <1>9 DEF workerVars, WorkerTypes
<1> QED BY <1>1, <1>2, <1>3, <1>4, <1>5, <1>6, <1>7, <1>8, <1>9, WorkerSteps

---------------------------------------------------------------------------
(* Types of the Ingress, and what a merge does to its rules.               *)

AddPaths(paths, added) == FoldLeft(AddPath, paths, added)

\* The loop over the paths to add, turn by turn.
LEMMA AddPathSteps ==
    ASSUME NEW V, NEW paths \in Seq(V), NEW added \in Seq(V)
    PROVE  \E h : /\ h[0] = paths
                  /\ \A k \in 1 .. Len(added) : h[k] = AddPath(h[k - 1], added[k])
                  /\ AddPaths(paths, added) = h[Len(added)]
<1> DEFINE n == Len(added)
           A == Seq(V)
           step == [p \in A \X (1 .. n) |-> AddPath(p[1], added[p[2]])]
           Equation(f) ==
               [s \in SUBSET (1 .. n) |->
                   IF s = {} THEN paths
                   ELSE AddPath(f[s \ {Max(s)}], added[Max(s)])]
           F == CHOOSE f : f = Equation(f)
<1>1. n \in Nat /\ DOMAIN added = 1 .. n
  OBVIOUS
<1>2. AddPaths(paths, added) = F[1 .. n]
  BY <1>1 DEF AddPaths, FoldLeft, MapThenFoldSet
<1>3. step \in [A \X (1 .. n) -> A]
  <2>1. ASSUME NEW ps \in A, NEW k \in 1 .. n
        PROVE  AddPath(ps, added[k]) \in A
    BY <1>1 DEF AddPath
  <2> QED BY <2>1
<1>4. \E f : f = Equation(f)
  <2>1. PICK g \in [SUBSET (1 .. n) -> A] : Solves(g, n, paths, step)
    <3>1. paths \in A
      OBVIOUS
    <3> HIDE DEF A, step, n
    <3> QED BY <1>1, <1>3, <3>1, FoldExists
  <2>2. ASSUME NEW s \in SUBSET (1 .. n), s # {}
        PROVE  step[<<g[s \ {Max(s)}], Max(s)>>]
                   = AddPath(g[s \ {Max(s)}], added[Max(s)])
    <3>1. Max(s) \in 1 .. n
      BY <1>1, <2>2, MaxIn
    <3>2. g[s \ {Max(s)}] \in A
      <4> HIDE DEF A
      <4> QED BY <2>1, <2>2
    <3> QED BY <3>1, <3>2
  <2>3. g = Equation(g)
    <3> HIDE DEF step, A
    <3> QED BY <2>1, <2>2 DEF Solves
  <2> QED BY <2>3
<1>5. F = Equation(F)
  <2> HIDE DEF Equation
  <2> QED BY <1>4, Zenon
<1> DEFINE h == [k \in 0 .. n |-> F[1 .. k]]
<1>6. h[0] = paths
  <2>1. 1 .. 0 = {} /\ 0 \in 0 .. n
    BY <1>1
  <2>2. F[{}] = paths
    <3> HIDE DEF F
    <3> QED BY <1>5
  <2> HIDE DEF F
  <2> QED BY <2>1, <2>2
<1>7. ASSUME NEW k \in 1 .. n PROVE h[k] = AddPath(h[k - 1], added[k])
  <2>1. /\ 1 .. k \in SUBSET (1 .. n) /\ k \in 1 .. k
        /\ (1 .. k) \ {k} = 1 .. k - 1 /\ k - 1 \in 0 .. n /\ k \in 0 .. n /\ k \in Nat
    BY <1>1
  <2>2. Max(1 .. k) = k
    BY <2>1, MaxOfPrefix
  <2>3. F[1 .. k] = AddPath(F[1 .. k - 1], added[k])
    <3> HIDE DEF F, n
    <3> QED BY <1>5, <2>1, <2>2
  <2> HIDE DEF F, n
  <2> QED BY <2>1, <2>3
<1>8. AddPaths(paths, added) = h[n]
  <2> HIDE DEF F, n
  <2> QED BY <1>1, <1>2
<1> HIDE DEF h
<1> QED BY <1>6, <1>7, <1>8

\* One list of paths grown from another: what was there stays in its place,
\* and no path comes in twice.
Grown(old, new) ==
    /\ Len(old) <= Len(new)
    /\ \A k \in 1 .. Len(old) : new[k] = old[k]
    /\ IsInjective(old) => IsInjective(new)

LEMMA AddPathGrows ==
    ASSUME NEW V, NEW old \in Seq(V), NEW paths \in Seq(V), NEW path \in V,
           Grown(old, paths), NEW new, new = AddPath(paths, path)
    PROVE  /\ new \in Seq(V) /\ Grown(old, new)
           /\ Range(paths) \subseteq Range(new) /\ path \in Range(new)
<1>0. /\ Len(paths) \in Nat /\ DOMAIN paths = 1 .. Len(paths)
      /\ Len(old) \in Nat /\ DOMAIN old = 1 .. Len(old)
  OBVIOUS
<1>1. CASE pathContains(paths, path)
  <2>1. new = paths
    BY <1>1 DEF AddPath
  <2> QED BY <1>1, <2>1 DEF Range, pathContains
<1>2. CASE ~pathContains(paths, path)
  <2>1. new = Append(paths, path)
    BY <1>2 DEF AddPath
  <2>2. /\ new \in Seq(V) /\ Len(new) = Len(paths) + 1
        /\ DOMAIN new = 1 .. Len(paths) + 1
        /\ \A k \in 1 .. Len(paths) : new[k] = paths[k]
        /\ new[Len(paths) + 1] = path
    BY <2>1
  <2>3. \A k \in 1 .. Len(paths) : paths[k] # path
    BY <1>0, <1>2 DEF pathContains
  <2>4. IsInjective(paths) => IsInjective(new)
    <3> QED BY <1>0, <2>2, <2>3 DEF IsInjective
  <2>5. Range(paths) \subseteq Range(new) /\ path \in Range(new)
    <3> QED BY <1>0, <2>2 DEF Range
  <2>6. Grown(old, new)
    <3> QED BY <1>0, <2>2, <2>4 DEF Grown
  <2> QED BY <2>2, <2>5, <2>6
<1> QED BY <1>1, <1>2

LEMMA PathsAdded ==
    ASSUME NEW V, NEW paths \in Seq(V), NEW added \in Seq(V),
           NEW new, new = AddPaths(paths, added)
    PROVE  /\ new \in Seq(V) /\ Grown(paths, new)
           /\ Range(paths) \subseteq Range(new)
           /\ Range(added) \subseteq Range(new)
<1> DEFINE n == Len(added)
<1>0. n \in Nat /\ DOMAIN added = 1 .. n
  OBVIOUS
<1>1. PICK h : /\ h[0] = paths
               /\ \A k \in 1 .. n : h[k] = AddPath(h[k - 1], added[k])
               /\ AddPaths(paths, added) = h[n]
  BY AddPathSteps
<1> DEFINE Done(k) ==
               /\ h[k] \in Seq(V) /\ Grown(paths, h[k])
               /\ Range(paths) \subseteq Range(h[k])
               /\ \A j \in 1 .. k : added[j] \in Range(h[k])
           S == {k \in 0 .. n : Done(k)}
<1>2. 0 \in S
  <2>1. Done(0)
    BY <1>1 DEF Grown
  <2> QED BY <1>0, <2>1
<1>3. ASSUME NEW k \in 0 .. n - 1, k \in S PROVE k + 1 \in S
  <2>0. k + 1 \in 1 .. n /\ k + 1 \in 0 .. n /\ (k + 1) - 1 = k /\ added[k + 1] \in V
    BY <1>0
  <2>1. h[k + 1] = AddPath(h[k], added[k + 1])
    BY <1>1, <2>0
  <2>2. Done(k)
    BY <1>3
  <2>3. /\ h[k + 1] \in Seq(V) /\ Grown(paths, h[k + 1])
        /\ Range(h[k]) \subseteq Range(h[k + 1])
        /\ added[k + 1] \in Range(h[k + 1])
    <3>1. h[k] \in Seq(V) /\ Grown(paths, h[k])
      BY <2>2
    <3> HIDE DEF Done
    <3> QED BY <2>0, <2>1, <3>1, AddPathGrows
  <2>4. \A j \in 1 .. k + 1 : j \in 1 .. k \/ j = k + 1
    BY <1>0
  <2>5. Done(k + 1)
    BY <2>2, <2>3, <2>4
  <2> QED BY <2>0, <2>5
<1> HIDE DEF S, n
<1>4. n \in S
  BY <1>0, <1>2, <1>3, Induction
<1>5. Done(n)
  BY <1>4 DEF S
<1>6. Range(added) \subseteq Range(h[n])
  BY <1>0, <1>5 DEF Range
<1> QED BY <1>1, <1>5, <1>6 DEF n

\* What a merge may do to the rule at one place of the Ingress.
RuleKept(old, new) ==
    /\ new \in IngressRules /\ new.host = old.host
    /\ Grown(old.paths, new.paths)
    /\ Range(old.paths) \subseteq Range(new.paths)
    /\ old.host # IngressName => new = old

LEMMA RuleExtended ==
    ASSUME NEW old \in IngressRules, NEW added \in Seq(Paths), old.host = IngressName,
           NEW new, new = [old EXCEPT !.paths = AddPaths(old.paths, added)]
    PROVE  RuleKept(old, new) /\ Range(added) \subseteq Range(new.paths)
<1> DEFINE paths == AddPaths(old.paths, added)
<1>1. old.paths \in Seq(Paths)
  BY DEF IngressRules
<1>2. /\ paths \in Seq(Paths) /\ Grown(old.paths, paths)
      /\ Range(old.paths) \subseteq Range(paths)
      /\ Range(added) \subseteq Range(paths)
  <2> HIDE DEF Paths
  <2> QED BY <1>1, PathsAdded
<1>3. new \in IngressRules /\ new.host = old.host /\ new.paths = paths
  <2> HIDE DEF paths
  <2>1. new = [old EXCEPT !.paths = paths]
    BY DEF paths
  <2> QED BY <1>2, <2>1 DEF IngressRules
<1> HIDE DEF paths
<1> QED BY <1>2, <1>3 DEF RuleKept

LEMMA RuleSame ==
    ASSUME NEW old \in IngressRules PROVE RuleKept(old, old)
BY DEF RuleKept, Grown, IngressRules

LEMMA HostName == IngressName \in STRING
BY LiteralsAssumption DEF IngressName

LEMMA NewRule ==
    ASSUME NEW added \in Seq(Paths), NEW rule,
           rule = [host |-> IngressName, paths |-> added]
    PROVE  rule \in IngressRules /\ rule.host = IngressName /\ rule.paths = added
BY HostName DEF IngressRules

LEMMA RulesMerged ==
    ASSUME NEW rules \in Seq(IngressRules), NEW added \in Seq(Paths), IsInjective(added),
           NEW new, new = MergeRules(rules, added)
    PROVE  /\ new \in Seq(IngressRules) /\ Len(rules) <= Len(new)
           /\ \A k \in 1 .. Len(rules) : RuleKept(rules[k], new[k])
           /\ \A k \in DOMAIN new :
                  k \notin DOMAIN rules => IsInjective(new[k].paths)
           /\ \E k \in DOMAIN new : /\ new[k].host = IngressName
                                    /\ Range(added) \subseteq Range(new[k].paths)
<1>0. /\ Len(rules) \in Nat /\ DOMAIN rules = 1 .. Len(rules)
      /\ \A k \in 1 .. Len(rules) : rules[k] \in IngressRules
  OBVIOUS
<1>1. CASE \E k \in DOMAIN rules : rules[k].host = IngressName
  <2>1. new = [k \in DOMAIN rules |->
                  IF rules[k].host = IngressName
                  THEN [rules[k] EXCEPT !.paths = AddPaths(rules[k].paths, added)]
                  ELSE rules[k]]
    BY <1>1 DEF MergeRules, AddPaths
  <2>2. ASSUME NEW k \in 1 .. Len(rules)
        PROVE  /\ RuleKept(rules[k], new[k])
               /\ rules[k].host = IngressName =>
                      Range(added) \subseteq Range(new[k].paths)
    <3>1. CASE rules[k].host = IngressName
      <4>1. new[k] = [rules[k] EXCEPT !.paths = AddPaths(rules[k].paths, added)]
        BY <1>0, <2>1, <3>1
      <4> QED BY <1>0, <3>1, <4>1, RuleExtended
    <3>2. CASE rules[k].host # IngressName
      <4>1. new[k] = rules[k]
        BY <1>0, <2>1, <3>2
      <4> QED BY <1>0, <3>2, <4>1, RuleSame
    <3> QED BY <3>1, <3>2
  <2>3. DOMAIN new = 1 .. Len(rules)
    BY <1>0, <2>1
  <2>4. new \in [1 .. Len(rules) -> IngressRules]
    <3>1. \A k \in 1 .. Len(rules) : new[k] \in IngressRules
      BY <2>2 DEF RuleKept
    <3>2. new = [k \in 1 .. Len(rules) |-> new[k]]
      BY <1>0, <2>1
    <3> HIDE DEF IngressRules
    <3> QED BY <3>1, <3>2
  <2>5. new \in Seq(IngressRules) /\ Len(new) = Len(rules)
    <3> HIDE DEF IngressRules
    <3> QED BY <1>0, <2>4
  <2>6. PICK k \in 1 .. Len(rules) : rules[k].host = IngressName
    BY <1>0, <1>1
  <2>7. new[k].host = IngressName /\ Range(added) \subseteq Range(new[k].paths)
    BY <2>2, <2>6 DEF RuleKept
  <2> QED BY <1>0, <2>2, <2>3, <2>5, <2>7
<1>2. CASE ~\E k \in DOMAIN rules : rules[k].host = IngressName
  <2> DEFINE rule == [host |-> IngressName, paths |-> added]
  <2>1. new = Append(rules, rule)
    BY <1>2 DEF MergeRules
  <2>2. rule \in IngressRules /\ rule.host = IngressName /\ rule.paths = added
    BY NewRule
  <2> HIDE DEF rule
  <2>3. /\ new \in Seq(IngressRules) /\ Len(new) = Len(rules) + 1
        /\ DOMAIN new = 1 .. Len(rules) + 1
        /\ \A k \in 1 .. Len(rules) : new[k] = rules[k]
        /\ new[Len(rules) + 1] = rule
    <3> HIDE DEF IngressRules
    <3> QED BY <2>1, <2>2
  <2>4. \A k \in 1 .. Len(rules) : RuleKept(rules[k], new[k])
    BY <1>0, <2>3, RuleSame
  <2>5. \A k \in DOMAIN new : k \notin DOMAIN rules => IsInjective(new[k].paths)
    <3>1. ASSUME NEW k \in DOMAIN new, k \notin DOMAIN rules PROVE k = Len(rules) + 1
      BY <1>0, <2>3, <3>1
    <3> QED BY <2>2, <2>3, <3>1
  <2>6. Len(rules) + 1 \in DOMAIN new
    BY <1>0, <2>3
  <2> QED BY <1>0, <2>2, <2>3, <2>4, <2>5, <2>6
<1> QED BY <1>1, <1>2

LEMMA IngressPathsFacts ==
    ASSUME TypeOK, pc \in DeploySteps
    PROVE  /\ ingressPaths \in Seq(Paths) /\ IsInjective(ingressPaths)
           /\ \A p \in Range(apps[idx].ports) : <<idx, p>> \in Range(ingressPaths)
<1>1. App.ports \in Seq(Nat) /\ IsInjective(App.ports) /\ App = apps[idx] /\ idx \in Nat
  BY DeployFacts DEF Application, PortLists, Apps
<1> DEFINE ports == App.ports
           n == Len(ports)
<1>2. n \in Nat /\ DOMAIN ports = 1 .. n /\ \A k \in 1 .. n : ports[k] \in Nat
  BY <1>1
<1>3. ingressPaths = [k \in 1 .. n |-> <<idx, ports[k]>>]
  BY <1>2 DEF ingressPaths
<1>4. IsInjective(ports) /\ ports = apps[idx].ports
  BY <1>1
<1> HIDE DEF ports, n
<1>5. \A k \in 1 .. n : <<idx, ports[k]>> \in Paths
  BY <1>1, <1>2 DEF Paths
<1>6. ingressPaths \in Seq(Paths)
  <2> HIDE DEF Paths
  <2> QED BY <1>2, <1>3, <1>5
<1>7. IsInjective(ingressPaths)
  BY <1>2, <1>3, <1>4 DEF IsInjective
<1>8. \A p \in Range(ports) : <<idx, p>> \in Range(ingressPaths)
  BY <1>2, <1>3 DEF Range
<1> QED BY <1>4, <1>6, <1>7, <1>8

LEMMA RulesType ==
    ASSUME TypeOK PROVE Rules \in Seq(IngressRules)
BY DEF TypeOK, IngressTypes, Ingresses, Rules

LEMMA IngressWrite ==
    ASSUME TypeOK, CreateOrUpdateIngress
    PROVE  /\ ingress' \in Ingresses
           /\ Rules' = MergeRules(Rules, ingressPaths)
           /\ pc \in DeploySteps
<1>1. /\ pc = "ingress" /\ pc \in DeploySteps
      /\ ingress' = [tls |-> env.TLS, rules |-> MergeRules(Rules, ingressPaths)]
  BY DEF CreateOrUpdateIngress, DeploySteps, Rules
<1>2. env.TLS \in STRING
  BY <1>1 DEF TypeOK, IngressTypes
<1> DEFINE new == MergeRules(Rules, ingressPaths)
<1>3. new \in Seq(IngressRules)
  BY <1>1, IngressPathsFacts, RulesType, RulesMerged
<1>4. ingress' = [tls |-> env.TLS, rules |-> new]
  BY <1>1
<1> HIDE DEF new
<1>5. ingress' \in Ingresses /\ ingress'.rules = new
  BY <1>2, <1>3, <1>4 DEF Ingresses
<1>6. ingress' # None
  BY <1>5, NoneAssumption
<1> QED BY <1>1, <1>5, <1>6 DEF Rules, new

LEMMA SettingType ==
    ASSUME TypeOK, NEW key, NEW default \in STRING
    PROVE  Setting(key, default) \in STRING
BY DefaultsAssumption DEF Setting, TypeOK, ObjectTypes

LEMMA NextIngress ==
    ASSUME TypeOK, [Next]_vars PROVE IngressTypes'
<1>1. ingress' \in Ingresses \cup {None}
  <2>1. CASE UNCHANGED ingress
    BY <2>1 DEF TypeOK, IngressTypes
  <2> QED BY <2>1, IngressWrite
          DEF Next, UserUpdate, EditOperatorConfig, Stop, Restart, RollOut, PodRestart,
              Worker, BeginPass, SetStateAndParse, DeleteDeployment, DeleteService,
              DeletePVC, DeleteConfigMap, DeletionSkipped, CleanFails, StoreApps,
              CreateClaim,
              CreateDepYAML, CreateAppsCM, CreateOrUpdateDeployment, DeploymentFails,
              CreateOrUpdateService, WriteFails, SyncVersion, vars, clusterVars
<1>2. pc' \notin {"down", "idle"} => env'.TLS \in STRING
  <2>1. CASE BeginPass
    <3>1. env'.TLS = Setting("ingressTLS", "")
      BY <2>1 DEF BeginPass, UpdateDefaultConfigs
    <3> QED BY <3>1, SettingType, LiteralsAssumption
  <2>2. CASE UNCHANGED env /\ (pc' \notin {"down", "idle"} => pc \notin {"down", "idle"})
    BY <2>2 DEF TypeOK, IngressTypes
  <2>3. CASE pc' \in {"down", "idle"}
    BY <2>3
  <2>4. CASE DeletionSkipped
    <3>1. UNCHANGED env /\ pc \notin {"down", "idle"}
      BY <2>4 DEF DeletionSkipped, Frame, CleanSteps
    <3> QED BY <2>2, <3>1
  <2> QED BY <2>1, <2>2, <2>3, <2>4
          DEF Next, UserUpdate, EditOperatorConfig, Stop, Restart, RollOut, PodRestart,
              Worker, SetStateAndParse, DeleteDeployment, DeleteService, Frame,
              DeletePVC, DeleteConfigMap, CleanFails, StoreApps, CreateClaim,
              CreateDepYAML, CreateAppsCM, CreateOrUpdateDeployment, DeploymentFails,
              CreateOrUpdateService, CreateOrUpdateIngress, WriteFails, SyncVersion,
              vars, workerVars
<1> QED BY <1>1, <1>2 DEF IngressTypes

LEMMA InitTypes == Init => TypeInv
<1> SUFFICES ASSUME Init PROVE TypeInv
  OBVIOUS
<1>1. MaxApps \in Nat /\ MaxUpdates \in Nat
  BY BoundsAssumption
<1>2. ObjectTypes
  BY <1>1 DEF Init, ObjectTypes, Objects, Versions
<1>3. ClusterTypes
  BY DEF Init, ClusterTypes
<1>4. WorkerTypes
  <2>1. pc = "idle" /\ copy = None /\ oldLen = 0
    BY DEF Init
  <2>2. fresh \in BOOLEAN /\ overtaken \in BOOLEAN
    BY DEF Init
  <2> QED BY <1>1, <2>1, <2>2 DEF WorkerTypes, CleanSteps, DeploySteps
<1>5. count \in [Counters -> Nat] /\ count["updates"] = 0
  BY DEF Init, Counters
<1>6. VersionInv
  BY <1>1, <1>5 DEF Init, VersionInv
<1>7. FormInv
  BY DEF Init, FormInv
<1>8. IngressTypes
  BY IngressAssumption DEF Init, IngressTypes
<1> QED BY <1>2, <1>3, <1>4, <1>5, <1>6, <1>7, <1>8 DEF TypeInv, TypeOK

LEMMA NextTypes ==
    ASSUME TypeInv, [Next]_vars
    PROVE  TypeInv'
BY NextObjects, NextCluster, NextIngress, NextWorker, Counting DEF TypeInv, TypeOK

\* Every version the operator counts stays within the updates the user made,
\* a pass has the copy, the list and the settings its step needs, and no
\* loop of CleanArtifacts or CreateArtifacts runs past the list it is about.
THEOREM ArtifactTypes == Spec => []TypeOK
<1>1. TypeInv => TypeOK
  BY DEF TypeInv
<1> QED BY <1>1, InitTypes, NextTypes, PTL DEF Spec

---------------------------------------------------------------------------
(* What a deployment mounts.                                               *)

\* A deletion finds no deployment that mounts what it deletes; a write of a
\* deployment finds what it mounts.
MountInv ==
    /\ MountsExist
    /\ pc \in {"rmService", "rmClaim", "rmConfigMap"} =>
           dep[idx] = None \/ idx \in stray
    /\ Undisturbed => stray = {}
    /\ pc \in {"depyml", "apps", "deployment"} /\ UsesClaim => idx \in claims
    /\ pc \in {"apps", "deployment"} => \A n \in DepYAML : cms[n] # None
    /\ pc = "deployment" => cms[AppsCMName(idx, copy.cur)] # None

LEMMA Mounted ==
    ASSUME TypeInv, NEW i \in Apps, dep[i] # None
    PROVE  /\ dep[i] \in Templates /\ dep[i].claim \in {None, i}
           /\ dep[i].mounts \subseteq CMNames
           /\ \A j \in Apps \ {i}, v \in Versions : AppsCMName(j, v) \notin dep[i].mounts
<1>1. dep[i] \in Templates /\ OwnMounts(i, dep[i])
  BY DEF TypeInv, TypeOK, ClusterTypes, FormInv
<1>2. PICK w \in Versions, S \in SUBSET {DepYAMLName(i), DepYAMLName(0)} :
          dep[i].mounts = S \cup {AppsCMName(i, w)}
  BY <1>1 DEF OwnMounts, MountSets
<1>3. ASSUME NEW j \in Apps \ {i}, NEW v \in Versions,
             AppsCMName(j, v) \in dep[i].mounts
      PROVE  FALSE
  BY <1>2, <1>3, NamesDiffer
<1> QED BY <1>1, <1>3 DEF OwnMounts, Templates

\* What is mounted stays mountable while nothing of it is deleted.
LEMMA MountKept ==
    ASSUME TypeInv, MountsExist, NEW i \in Apps \ stray, dep'[i] = dep[i],
           i \in claims => i \in claims',
           \A n \in CMNames : (\A j \in Apps \ {i}, v \in Versions : n # AppsCMName(j, v))
                                  => (cms[n] # None => cms'[n] # None)
    PROVE  dep'[i] # None => Mountable(dep[i])'
<1> SUFFICES ASSUME dep[i] # None PROVE Mountable(dep[i])'
  OBVIOUS
<1>1. Mountable(dep[i])
  BY DEF MountsExist
<1>2. ASSUME NEW n \in dep[i].mounts PROVE cms'[n] # None
  BY <1>1, Mounted DEF Mountable
<1>3. dep[i].claim # None => dep[i].claim \in claims'
  BY <1>1, Mounted DEF Mountable
<1>4. dep'[i].mounts = dep[i].mounts /\ dep'[i].claim = dep[i].claim
  OBVIOUS
<1> QED BY <1>2, <1>3, <1>4 DEF Mountable

LEMMA NextMounts ==
    ASSUME TypeInv, MountInv, [Next]_vars
    PROVE  MountInv'
<1>0. /\ TypeOK /\ MountsExist /\ cms \in [CMNames -> Contents \cup {None}]
      /\ dep \in [Apps -> Templates \cup {None}]
      /\ pc' \in {"down", "idle", "state", "store", "sync"}
                  \cup CleanSteps \cup DeploySteps
  BY NextTypes DEF TypeInv, TypeOK, ClusterTypes, WorkerTypes, MountInv
<1>a. Undisturbed' => stray' = {}
  BY <1>0, Calm, StraySteps DEF MountInv
<1>b. ~(DeleteDeployment \/ CreateOrUpdateDeployment \/ DeletionSkipped)
          => UNCHANGED stray
  BY <1>0, StraySteps
<1>1. ASSUME UNCHANGED <<cms, claims, dep>>, stray \subseteq stray'
      PROVE  MountsExist'
  <2>1. \A i \in Apps \ stray : dep'[i] # None => Mountable(dep[i])'
    BY <1>0, <1>1, MountKept
  <2> QED BY <1>1, <2>1 DEF MountsExist
<1>2. ASSUME pc' \in {"down", "idle", "state", "store", "rmDeployment",
                      "sync", "claim", "service", "ingress"},
             MountsExist'
      PROVE  MountInv'
  BY <1>a, <1>2 DEF MountInv
<1>3. CASE /\ UNCHANGED <<cms, claims, dep, stray, pc>>
           /\ pc \notin {"down", "idle"} => UNCHANGED <<idx, copy, apps>>
  BY <1>a, <1>1, <1>3 DEF MountInv, UsesClaim, DepYAML, App, AppsCMName
<1>4. CASE \/ Stop \/ Restart \/ BeginPass \/ SetStateAndParse \/ StoreApps
           \/ CleanFails \/ SyncVersion
  <2>1. UNCHANGED <<cms, claims, dep, stray>>
    BY <1>4 DEF Stop, Restart, BeginPass, SetStateAndParse, StoreApps,
                CleanFails, SyncVersion, clusterVars
  <2>2. pc' \in {"down", "idle", "state", "store", "rmDeployment", "sync", "claim"}
    BY <1>4 DEF Stop, Restart, BeginPass, SetStateAndParse, StoreApps,
                CleanFails, SyncVersion
  <2> QED BY <1>1, <1>2, <2>1, <2>2
<1>5. CASE DeleteDeployment
  <2>1. /\ dep' = [dep EXCEPT ![idx] = None] /\ pc' = "rmService"
        /\ stray' = stray \ {idx} /\ UNCHANGED <<cms, claims, idx>> /\ idx \in Apps
    BY <1>0, <1>5, CleanFacts DEF DeleteDeployment, CleanSteps
  <2>2. dep'[idx] = None /\ \A i \in Apps \ {idx} : dep'[i] = dep[i]
    BY <1>0, <2>1
  <2>3. \A i \in (Apps \ stray) \ {idx} : dep'[i] # None => Mountable(dep[i])'
    BY <2>1, <2>2, <1>0, MountKept
  <2>4. MountsExist'
    BY <2>1, <2>2, <2>3 DEF MountsExist
  <2> QED BY <1>a, <2>1, <2>2, <2>4 DEF MountInv
<1>6. CASE DeleteService
  BY <1>a, <1>1, <1>6 DEF DeleteService, MountInv
<1>7. CASE DeletePVC
  <2>1. /\ claims' = claims \ {idx} /\ pc' = "rmConfigMap"
        /\ dep[idx] = None \/ idx \in stray
        /\ UNCHANGED <<cms, dep, stray, idx>> /\ idx \in Apps
    BY <1>0, <1>7, CleanFacts DEF DeletePVC, CleanSteps, MountInv
  <2>2. \A i \in (Apps \ stray) \ {idx} : dep'[i] # None => Mountable(dep[i])'
    BY <2>1, <1>0, MountKept
  <2>3. MountsExist'
    BY <2>1, <2>2 DEF MountsExist
  <2> QED BY <1>a, <2>1, <2>3 DEF MountInv
<1>8. CASE DeleteConfigMap
  <2>1. /\ cms' = [cms EXCEPT ![AppsCMName(idx, copy.prev)] = None]
        /\ pc' \in {"rmDeployment", "store"} /\ (dep[idx] = None \/ idx \in stray)
        /\ UNCHANGED <<claims, dep, stray>> /\ idx \in Apps /\ copy.prev \in Versions
    BY <1>0, <1>8, CleanFacts, CopyFacts DEF DeleteConfigMap, CleanSteps, MountInv
  <2>2. ASSUME NEW i \in (Apps \ stray) \ {idx} PROVE dep'[i] # None => Mountable(dep[i])'
    <3>1. \A n \in CMNames :
              (\A j \in Apps \ {i}, v \in Versions : n # AppsCMName(j, v))
                  => (cms[n] # None => cms'[n] # None)
      BY <1>0, <2>1, <2>2
    <3> QED BY <1>0, <2>1, <3>1, MountKept
  <2>3. MountsExist'
    BY <2>1, <2>2 DEF MountsExist
  <2> QED BY <1>2, <2>1, <2>3
<1>9. CASE CreateClaim
  <2>1. claims \subseteq claims' /\ UNCHANGED <<cms, dep, stray, copy, apps>>
    BY <1>9 DEF CreateClaim, Frame
  <2>2. MountsExist'
    <3>1. \A i \in Apps \ stray : dep'[i] # None => Mountable(dep[i])'
      BY <1>0, <2>1, MountKept
    <3> QED BY <2>1, <3>1 DEF MountsExist
  <2>3. CASE NextApp
    BY <1>0, <1>2, <1>9, <2>2, <2>3, NextAppFacts DEF CreateClaim, DeploySteps
  <2>4. CASE ~NextApp
    <3>1. Proceed /\ (UsesClaim => idx \in claims') /\ pc = "claim"
      BY <1>9, <2>4 DEF CreateClaim
    <3>2. pc' = "depyml" /\ UNCHANGED idx
      BY <3>1, ProceedFacts
    <3> QED BY <1>a, <2>1, <2>2, <3>1, <3>2 DEF MountInv, UsesClaim, App
  <2> QED BY <2>3, <2>4
<1>10. CASE CreateDepYAML
  <2>1. /\ cms' = [n \in CMNames |-> IF n \in DepYAML THEN copy.spec.SiddhiConfig
                                      ELSE cms[n]]
        /\ UNCHANGED <<claims, dep, stray, copy, apps>> /\ pc = "depyml" /\ Proceed
    BY <1>10 DEF CreateDepYAML, Frame
  <2>2. pc' = "apps" /\ UNCHANGED idx
    BY <2>1, ProceedFacts
  <2>3. copy.spec.SiddhiConfig # None /\ DepYAML \subseteq CMNames
    <3>1. copy.spec \in Specs /\ idx \in Apps
      BY <1>0, <2>1, CopyFacts, DeployFacts DEF DeploySteps
    <3>2. copy.spec.SiddhiConfig \in Contents
      BY <3>1, SpecsAssumption DEF Contents
    <3>3. DepYAML \subseteq {DepYAMLName(idx), DepYAMLName(0)}
      BY <1>0, <2>1, DepYAMLFacts DEF DeploySteps
    <3>4. DepYAMLName(idx) \in CMNames /\ DepYAMLName(0) \in CMNames
      BY <3>1 DEF DepYAMLName, CMNames
    <3> QED BY <3>2, <3>3, <3>4, NoneAssumption
  <2>4. \A n \in CMNames : cms[n] # None => cms'[n] # None
    BY <2>1, <2>3
  <2>5. MountsExist'
    <3>1. \A i \in Apps \ stray : dep'[i] # None => Mountable(dep[i])'
      BY <1>0, <2>1, <2>4, MountKept
    <3> QED BY <2>1, <3>1 DEF MountsExist
  <2>6. DepYAML' = DepYAML /\ UsesClaim' = UsesClaim
    BY <2>1, <2>2 DEF DepYAML, UsesClaim, App
  <2>7. \A n \in DepYAML : cms'[n] # None
    BY <2>1, <2>3
  <2> QED BY <1>a, <2>1, <2>2, <2>5, <2>6, <2>7 DEF MountInv
<1>11. CASE CreateAppsCM
  <2>1. /\ cms' = [cms EXCEPT ![AppsCMName(idx, copy.cur)] = App.code]
        /\ UNCHANGED <<claims, dep, stray, copy, apps>> /\ pc = "apps" /\ Proceed
    BY <1>11 DEF CreateAppsCM, Frame
  <2>2. pc' = "deployment" /\ UNCHANGED idx
    BY <2>1, ProceedFacts
  <2>3. App.code # None /\ AppsCMName(idx, copy.cur) \in CMNames
    <3>1. copy.cur \in Versions /\ idx \in Apps /\ App \in Application
      BY <1>0, <2>1, CopyFacts, DeployFacts DEF DeploySteps
    <3> QED BY <3>1, NameFacts, NoneAssumption DEF Application, Contents
  <2>4. \A n \in CMNames : cms[n] # None => cms'[n] # None
    BY <1>0, <2>1, <2>3
  <2>5. MountsExist'
    <3>1. \A i \in Apps \ stray : dep'[i] # None => Mountable(dep[i])'
      BY <1>0, <2>1, <2>4, MountKept
    <3> QED BY <2>1, <3>1 DEF MountsExist
  <2>6. /\ DepYAML' = DepYAML /\ UsesClaim' = UsesClaim
        /\ AppsCMName(idx, copy.cur)' = AppsCMName(idx, copy.cur)
    BY <2>1, <2>2 DEF DepYAML, UsesClaim, App, AppsCMName
  <2>7. \A n \in DepYAML : cms'[n] # None
    <3>1. DepYAML \subseteq CMNames
      <4>1. idx \in Apps
        BY <1>0, <2>1, DeployFacts DEF DeploySteps
      <4> QED BY <4>1 DEF DepYAML, CMNames
    <3> QED BY <2>1, <2>4, <3>1 DEF MountInv
  <2>8. cms'[AppsCMName(idx, copy.cur)] # None
    BY <1>0, <2>1, <2>3
  <2> QED BY <1>a, <2>1, <2>2, <2>5, <2>6, <2>7, <2>8 DEF MountInv
<1>12. CASE CreateOrUpdateDeployment
  <2>1. /\ dep' = [dep EXCEPT ![idx] = Template] /\ UNCHANGED <<cms, claims, idx>>
        /\ stray' = stray \ {idx}
        /\ pc = "deployment" /\ pc' = "service" /\ idx \in Apps
    BY <1>0, <1>12, ProceedFacts, DeployFacts
       DEF CreateOrUpdateDeployment, DeploySteps
  <2>2. Mountable(Template)
    BY <1>0, <2>1, TemplateFacts DEF MountInv, Mountable
  <2>3. dep'[idx] = Template /\ \A i \in Apps \ {idx} : dep'[i] = dep[i]
    BY <1>0, <2>1
  <2>4. Mountable(dep[idx])'
    BY <2>1, <2>2, <2>3 DEF Mountable
  <2>5. \A i \in (Apps \ stray) \ {idx} : dep'[i] # None => Mountable(dep[i])'
    BY <1>0, <2>1, <2>3, MountKept
  <2>6. MountsExist'
    BY <2>1, <2>4, <2>5 DEF MountsExist
  <2> QED BY <1>2, <2>1, <2>6
<1>13. CASE \/ DeploymentFails \/ CreateOrUpdateService
            \/ CreateOrUpdateIngress \/ WriteFails
  <2>1. UNCHANGED <<cms, claims, dep, stray>>
    BY <1>13 DEF DeploymentFails, CreateOrUpdateService, CreateOrUpdateIngress,
                 WriteFails, clusterVars
  <2>2. pc \in DeploySteps /\ (NextApp \/ (Proceed /\ pc \in {"deployment", "service"}))
    BY <1>13 DEF DeploymentFails, CreateOrUpdateService, CreateOrUpdateIngress,
                 WriteFails, DeploySteps
  <2>3. pc' \in {"service", "ingress", "claim", "sync"}
    BY <1>0, <2>2, NextAppFacts, ProceedFacts
  <2> QED BY <1>1, <1>2, <2>1, <2>3
<1>14. CASE \/ \E s \in Specs : UserUpdate(s)
            \/ \E c \in OperatorConfigs : EditOperatorConfig(c)
            \/ \E i \in Apps : RollOut(i) \/ PodRestart(i)
            \/ UNCHANGED vars
  <2>1. UNCHANGED <<cms, claims, dep, stray, pc, idx, copy, apps>>
    BY <1>14 DEF UserUpdate, EditOperatorConfig, RollOut, PodRestart, vars,
                 clusterVars, workerVars
  <2> QED BY <1>3, <2>1
<1>15. CASE DeletionSkipped
  <2>1. /\ UNCHANGED <<cms, claims, dep>> /\ stray \subseteq stray'
        /\ pc \in CleanSteps
        /\ pc = "rmDeployment" => idx \in stray'
        /\ \/ UNCHANGED idx /\ pc' \in CleanSteps \ {"rmDeployment"}
           \/ pc' \in {"rmDeployment", "store"}
    BY <1>15 DEF DeletionSkipped, CleanSteps
  <2>2. MountsExist'
    BY <1>1, <2>1
  <2>3. CASE pc' \in {"rmDeployment", "store"}
    BY <1>2, <2>2, <2>3
  <2>4. CASE UNCHANGED idx /\ pc' \in CleanSteps \ {"rmDeployment"}
    <3>1. dep'[idx'] = None \/ idx' \in stray'
      BY <2>1, <2>4 DEF MountInv, CleanSteps
    <3> QED BY <1>a, <2>2, <2>4, <3>1 DEF MountInv, CleanSteps
  <2> QED BY <2>1, <2>3, <2>4
<1> QED BY <1>4, <1>5, <1>6, <1>7, <1>8, <1>9, <1>10, <1>11, <1>12, <1>13, <1>14,
           <1>15
        DEF Next, Worker

\* Whatever call fails or is skipped and whenever the operator stops, what a
\* deployment mounts exists, unless the deployment was left behind by a
\* skipped deletion and not written since: Deploy writes the claim and the
\* config maps before it, and CleanArtifacts deletes them after it.
THEOREM AlwaysMountable == Spec => []MountsExist
<1>1. Init => MountInv
  BY DEF Init, MountInv, MountsExist
<1>2. TypeInv /\ MountInv /\ [Next]_vars => (TypeInv /\ MountInv)'
  BY NextTypes, NextMounts
<1>3. MountInv => MountsExist
  BY DEF MountInv
<1> QED BY <1>1, <1>2, <1>3, InitTypes, PTL DEF Spec

---------------------------------------------------------------------------
(* The shared Ingress.                                                     *)

\* Only CreateOrUpdateIngress writes it.
LEMMA IngressSteps ==
    ASSUME [Next]_vars PROVE CreateOrUpdateIngress \/ UNCHANGED ingress
BY DEF Next, UserUpdate, EditOperatorConfig, Stop, Restart, RollOut, PodRestart,
       Worker, BeginPass, SetStateAndParse, DeleteDeployment, DeleteService,
       DeletePVC, DeleteConfigMap, DeletionSkipped, CleanFails, StoreApps,
              CreateClaim,
       CreateDepYAML, CreateAppsCM, CreateOrUpdateDeployment, DeploymentFails,
       CreateOrUpdateService, WriteFails, SyncVersion, vars, clusterVars

LEMMA RulesGrow ==
    ASSUME TypeOK, [Next]_vars
    PROVE  /\ Rules \in Seq(IngressRules) /\ Rules' \in Seq(IngressRules)
           /\ Len(Rules) <= Len(Rules')
           /\ \A k \in 1 .. Len(Rules) : RuleKept(Rules[k], Rules'[k])
           /\ \A k \in DOMAIN Rules' :
                  k \notin DOMAIN Rules => IsInjective(Rules'[k].paths)
<1>1. Rules \in Seq(IngressRules)
  BY RulesType
<1>2. CASE CreateOrUpdateIngress
  <2>1. Rules' = MergeRules(Rules, ingressPaths) /\ pc \in DeploySteps
    BY <1>2, IngressWrite
  <2>2. ingressPaths \in Seq(Paths) /\ IsInjective(ingressPaths)
    BY <2>1, IngressPathsFacts
  <2> QED BY <1>1, <2>1, <2>2, RulesMerged
<1>3. CASE UNCHANGED ingress
  <2>1. Rules' = Rules
    BY <1>3 DEF Rules
  <2>2. \A k \in 1 .. Len(Rules) : RuleKept(Rules[k], Rules[k])
    BY <1>1, RuleSame
  <2> QED BY <1>1, <2>1, <2>2
<1> QED BY <1>2, <1>3, IngressSteps

LEMMA GrownPrefix ==
    ASSUME NEW V, NEW old \in Seq(V), NEW new \in Seq(V), Grown(old, new)
    PROVE  IsPrefix(old, new) /\ (IsInjective(old) => IsInjective(new))
<1>1. Len(old) <= Len(new) /\ \A k \in 1 .. Len(old) : new[k] = old[k]
  BY DEF Grown
<1>2. SubSeq(old, 1, Len(old)) = SubSeq(new, 1, Len(old))
  BY <1>1
<1> QED BY <1>1, <1>2 DEF IsPrefix, Grown

LEMMA IngressStep ==
    ASSUME TypeOK, [Next]_vars
    PROVE  /\ Len(Rules') >= Len(Rules)
           /\ \A k \in DOMAIN Rules :
                  /\ IsPrefix(Rules[k].paths, Rules'[k].paths)
                  /\ Rules[k].host # IngressName => Rules'[k] = Rules[k]
           /\ \A k \in DOMAIN Rules' :
                  (k \in DOMAIN Rules => IsInjective(Rules[k].paths))
                      => IsInjective(Rules'[k].paths)
<1>1. /\ Rules \in Seq(IngressRules) /\ Rules' \in Seq(IngressRules)
      /\ DOMAIN Rules = 1 .. Len(Rules)
      /\ Len(Rules') \in Nat /\ Len(Rules) \in Nat /\ Len(Rules) <= Len(Rules')
  BY RulesGrow
<1>2. ASSUME NEW k \in DOMAIN Rules
      PROVE  /\ IsPrefix(Rules[k].paths, Rules'[k].paths)
             /\ Rules[k].host # IngressName => Rules'[k] = Rules[k]
             /\ IsInjective(Rules[k].paths) => IsInjective(Rules'[k].paths)
  <2>1. RuleKept(Rules[k], Rules'[k])
    BY <1>1, <1>2, RulesGrow
  <2>2. Rules[k].paths \in Seq(Paths) /\ Rules'[k].paths \in Seq(Paths)
    <3>1. Rules[k] \in IngressRules
      BY <1>1, <1>2
    <3> QED BY <2>1, <3>1 DEF RuleKept, IngressRules
  <2> QED BY <2>1, <2>2, GrownPrefix DEF RuleKept
<1> QED BY <1>1, <1>2, RulesGrow

\* The Ingress "siddhi" is shared by every process: whatever rules it has
\* when the operator first sees it, whatever the parser answers, whichever
\* calls fail and whenever the operator stops, IngressMutateFunc takes no
\* path from it, leaves the rules of other hosts alone and adds no path that
\* is there.
THEOREM IngressStaysWhole == Spec => IngressKept
<1>1. TypeInv /\ [Next]_vars =>
          [ /\ Len(Rules') >= Len(Rules)
            /\ \A k \in DOMAIN Rules :
                   /\ IsPrefix(Rules[k].paths, Rules'[k].paths)
                   /\ Rules[k].host # IngressName => Rules'[k] = Rules[k]
            /\ \A k \in DOMAIN Rules' :
                   (k \in DOMAIN Rules => IsInjective(Rules[k].paths))
                       => IsInjective(Rules'[k].paths) ]_vars
  BY IngressStep DEF TypeInv
<1>2. TypeInv /\ [Next]_vars => TypeInv'
  BY NextTypes
<1> QED BY <1>1, <1>2, InitTypes, PTL DEF Spec, IngressKept

---------------------------------------------------------------------------
(* What a pass leaves behind.                                              *)

InPass == pc \notin {"down", "idle", "state"}

\* The versions in the API server, in the cache and in the pass.  An update
\* always makes the cached version the next one, and a pass that begins
\* has either such a version or the one of a process without a list.
OrderInv ==
    /\ pc # "down"
    /\ obj.prev <= obj.cur /\ cached.prev = obj.prev
    /\ SPContainer = None => obj.prev = 0
    /\ \/ cached.cur = obj.cur + 1 /\ todo
       \/ cached.cur = obj.cur /\ ~todo
       \/ cached.cur = 0 /\ obj.cur = 0 /\ todo /\ SPContainer = None /\ ~InPass
    /\ ~todo /\ SPContainer = None => InPass
    /\ pc = "state" =>
           /\ todo /\ copy.prev = obj.prev
           /\ \/ copy.cur = obj.cur + 1
              \/ copy.cur = 0 /\ obj.cur = 0 /\ SPContainer = None
           /\ fresh => obj.spec = copy.spec /\ cached.cur = copy.cur
           /\ ~fresh => cached.cur = obj.cur + 1
    /\ InPass =>
           /\ modified \/ copy.cur = 0
           /\ apps \in copy.spec.answers
           /\ fresh <=> ~todo
           /\ fresh => obj = copy
    /\ pc \in CleanSteps => modified
    /\ pc \in DeploySteps \cup {"sync"} => SPContainer = apps
    /\ pc # "idle" /\ copy.spec.Image # "" => env.image = copy.spec.Image

Empty(i) == dep[i] = None /\ svc[i] = None /\ i \notin claims

Beyond(n) == \A i \in Apps : i > n => Empty(i)

\* Nothing is left of an application beyond the end of the list.
ExtentInv ==
    /\ ~InPass => Beyond(IF SPContainer = None THEN 0 ELSE Len(SPContainer))
    /\ pc \in CleanSteps =>
           /\ Beyond(oldLen)
           /\ \A i \in Apps : Len(apps) < i /\ i < idx => Empty(i)
           /\ pc # "rmDeployment" => dep[idx] = None
           /\ pc \in {"rmClaim", "rmConfigMap"} => svc[idx] = None
           /\ pc = "rmConfigMap" => idx \notin claims
    /\ pc \in DeploySteps \cup {"store", "sync"} => Beyond(Len(apps))

Deployed(list, image, i) ==
    /\ dep[i] # None
    /\ CodeOf(dep[i]) = list[i].code
    /\ dep[i].ports = Append(list[i].ports, HealthPort)
    /\ dep[i].image = image

Served(list, i) == list[i].ports # <<>> => svc[i] = list[i].ports

\* The loop of CreateArtifacts has written everything for the applications
\* before idx, and for idx what comes before the step it is at.
LoopInv ==
    /\ pc \in DeploySteps /\ Deployable(copy.spec) =>
           /\ \A i \in 1 .. Len(apps) : i < idx =>
                  Deployed(apps, env.image, i) /\ Served(apps, i)
           /\ pc = "deployment" => cms[AppsCMName(idx, copy.cur)] = App.code
           /\ pc \in {"service", "ingress"} => Deployed(apps, env.image, idx)
           /\ pc = "ingress" => Served(apps, idx)
    /\ pc = "sync" /\ Deployable(copy.spec) =>
           \A i \in 1 .. Len(apps) :
               Deployed(apps, env.image, i) /\ Served(apps, i)

PassInv == Undisturbed => OrderInv /\ ExtentInv /\ LoopInv /\ Converged

LEMMA Numbers ==
    ASSUME TypeOK
    PROVE  /\ obj.cur \in Nat /\ obj.prev \in Nat
           /\ cached.cur \in Nat /\ cached.prev \in Nat
           /\ copy # None => copy.cur \in Nat /\ copy.prev \in Nat
           /\ todo \in BOOLEAN /\ fresh \in BOOLEAN
BY BoundsAssumption DEF TypeOK, ObjectTypes, WorkerTypes, Objects, Versions

LEMMA OrderStep ==
    ASSUME TypeInv, OrderInv, [Next]_vars, Undisturbed'
    PROVE  OrderInv'
<1>0. /\ TypeOK /\ pc # "down" /\ SPContainer \in AppLists \cup {None}
      /\ ~Stop /\ ~DeletionSkipped /\ ~CleanFails /\ ~Restart
      /\ obj \in Objects /\ TypeOK'
  BY Calm, NextTypes DEF OrderInv, Restart, TypeInv, TypeOK, ObjectTypes
<1>1. CASE \E s \in Specs : UserUpdate(s)
  <2>1. PICK s \in Specs : UserUpdate(s)
    BY <1>1
  <2>2. /\ obj' = [obj EXCEPT !.spec = s] /\ todo' /\ ~fresh'
        /\ cached' = [cur |-> obj.cur + 1, prev |-> obj.prev]
        /\ UNCHANGED <<SPContainer, pc, copy, env, apps>>
    BY <1>0, <2>1 DEF UserUpdate
  <2>3. /\ obj'.cur = obj.cur /\ obj'.prev = obj.prev
        /\ cached'.cur = obj.cur + 1 /\ cached'.prev = obj.prev
    BY <1>0, <2>2 DEF Objects
  <2>4. InPass' = InPass /\ modified' = modified
    BY <2>2 DEF InPass, modified
  <2> QED BY <1>0, <2>2, <2>3, <2>4, Numbers DEF OrderInv
<1>2. CASE BeginPass
  <2>1. /\ copy' = [spec |-> obj.spec, cur |-> cached.cur, prev |-> cached.prev]
        /\ fresh' /\ env' = UpdateDefaultConfigs(obj.spec)
        /\ pc = "idle" /\ pc' = "state" /\ UNCHANGED <<obj, cached, todo, SPContainer>>
        /\ Due
    BY <1>2 DEF BeginPass, objectVars
  <2>2. /\ copy'.spec = obj.spec /\ copy'.cur = cached.cur
        /\ copy'.prev = cached.prev
    BY <2>1
  <2>3. obj.spec.Image # "" => env'.image = obj.spec.Image
    BY <2>1 DEF UpdateDefaultConfigs
  <2>4. ~InPass /\ ~InPass' /\ pc' \notin CleanSteps \cup DeploySteps \cup {"sync"}
    BY <2>1 DEF InPass, CleanSteps, DeploySteps
  <2>5. todo
    BY <2>1, <2>4 DEF OrderInv, Due
  <2> QED BY <1>0, <2>1, <2>2, <2>3, <2>4, <2>5, Numbers DEF OrderInv
<1>3. CASE SetStateAndParse
  <2>1. /\ pc = "state" /\ InPass' /\ pc' # "idle" /\ pc' # "down" /\ pc' # "state"
        /\ UNCHANGED <<SPContainer, copy, fresh, env>>
        /\ apps' \in IF modified \/ SPContainer = None
                     THEN copy.spec.answers ELSE {SPContainer}
        /\ pc' \in CleanSteps => modified
        /\ pc' \notin DeploySteps \cup {"sync"}
    BY <1>3 DEF SetStateAndParse, InPass, CleanSteps, DeploySteps
  <2>0. /\ copy # None /\ copy \in Objects /\ modified' = modified
        /\ copy.prev = obj.prev /\ obj.prev <= obj.cur
        /\ copy.cur = obj.cur + 1 \/ (copy.cur = 0 /\ obj.cur = 0 /\ SPContainer = None)
    <3>1. copy # None /\ copy \in Objects /\ modified' = modified
      BY <1>0, <2>1, CopyFacts, NoneAssumption DEF modified
    <3> QED BY <2>1, <3>1 DEF OrderInv
  <2>2. /\ copy # None /\ copy \in Objects /\ modified' = modified
        /\ modified \/ (copy.cur = 0 /\ SPContainer = None)
        /\ copy.prev <= copy.cur
    BY <1>0, <2>0, Numbers DEF modified
  <2>3. apps' \in copy.spec.answers
    BY <2>1, <2>2
  <2>4. CASE fresh
    <3>1. /\ obj' = copy /\ ~todo'
          /\ cached' = [cur |-> copy.cur, prev |-> copy.prev]
      BY <1>3, <2>4 DEF SetStateAndParse
    <3>2. obj'.cur = copy.cur /\ obj'.prev = copy.prev /\ copy.prev = obj.prev
          /\ cached'.cur = copy.cur /\ cached'.prev = copy.prev
      BY <2>0, <3>1
    <3> QED BY <1>0, <2>1, <2>2, <2>3, <2>4, <3>1, <3>2, Numbers DEF OrderInv
  <2>5. CASE ~fresh
    <3>1. UNCHANGED <<obj, cached, todo>>
      BY <1>3, <2>5 DEF SetStateAndParse, objectVars
    <3> QED BY <1>0, <2>1, <2>2, <2>3, <2>5, <3>1, Numbers DEF OrderInv
  <2> QED BY <1>0, <2>4, <2>5, Numbers
<1>4. CASE CleanStep \/ LoopStep
  <2>1. /\ UNCHANGED <<obj, cached, todo, SPContainer, copy, fresh, env, apps>>
        /\ pc \notin {"down", "idle", "state"} /\ pc' \notin {"down", "idle", "state"}
        /\ pc' \in CleanSteps => pc \in CleanSteps
        /\ pc' \in DeploySteps \cup {"sync"} => pc \in DeploySteps
    BY <1>0, <1>4, CleanStepFacts, LoopFacts, ProceedFacts, NextAppFacts
       DEF CleanSteps, DeploySteps
  <2>2. InPass /\ InPass' /\ modified' = modified
    BY <2>1 DEF InPass, modified
  <2> QED BY <1>0, <2>1, <2>2 DEF OrderInv
<1>5. CASE StoreApps
  <2>1. /\ UNCHANGED <<obj, cached, todo, copy, fresh, env, apps>>
        /\ SPContainer' # None /\ SPContainer' = apps
        /\ pc \notin {"down", "idle", "state"}
        /\ pc' \notin {"down", "idle", "state"} \cup CleanSteps
    <3>1. apps \in AppLists
      BY <1>0, <1>5 DEF StoreApps, TypeOK, WorkerTypes
    <3> QED BY <1>5, <3>1, NoneAssumption DEF StoreApps, Frame, CleanSteps
  <2>2. InPass /\ InPass' /\ modified' = modified
    BY <2>1 DEF InPass, modified
  <2> QED BY <1>0, <2>1, <2>2 DEF OrderInv
<1>6. CASE SyncVersion
  <2>1. /\ pc = "sync" /\ pc' = "idle" /\ ~InPass' /\ InPass /\ UNCHANGED <<todo, SPContainer>>
        /\ pc' \notin CleanSteps \cup DeploySteps \cup {"sync"}
    BY <1>6 DEF SyncVersion, InPass, CleanSteps, DeploySteps
  <2>2. copy \in Objects /\ copy # None
    BY <1>0, <2>1, CopyFacts, NoneAssumption
  <2>3. SPContainer # None
    <3>1. apps \in AppLists
      BY <1>0, <2>1 DEF TypeOK, WorkerTypes
    <3> QED BY <2>1, <3>1, NoneAssumption DEF OrderInv
  <2>4. CASE fresh
    <3>1. obj' = Synced(copy) /\ cached' = [cur |-> obj'.cur, prev |-> obj'.prev]
      BY <1>6, <2>4 DEF SyncVersion
    <3>2. /\ obj'.cur = copy.cur /\ obj'.prev = copy.cur
          /\ cached'.cur = copy.cur /\ cached'.prev = copy.cur
      BY <2>2, <3>1 DEF Synced, Objects
    <3>3. ~todo
      <4>1. InPass => (fresh <=> ~todo)
        BY DEF OrderInv
      <4> QED BY <2>1, <2>4, <4>1
    <3>4. copy.cur <= copy.cur
      BY <1>0, <2>2, Numbers
    <3> QED BY <2>1, <2>3, <3>2, <3>3, <3>4 DEF OrderInv
  <2>5. CASE ~fresh
    <3>1. UNCHANGED <<obj, cached>>
      BY <1>6, <2>5 DEF SyncVersion
    <3> QED BY <1>0, <2>1, <2>3, <2>5, <3>1 DEF OrderInv
  <2> QED BY <1>0, <2>4, <2>5, Numbers
<1>7. CASE UNCHANGED <<objectVars, SPContainer, workerVars, overtaken>>
  BY <1>7 DEF OrderInv, InPass, modified, objectVars, workerVars
<1> QED BY <1>0, <1>1, <1>2, <1>3, <1>4, <1>5, <1>6, <1>7, WorkerSteps

LEMMA ExtentStep ==
    ASSUME TypeInv, OrderInv, ExtentInv, [Next]_vars, Undisturbed'
    PROVE  ExtentInv'
<1>0. /\ TypeOK /\ pc # "down" /\ SPContainer \in AppLists \cup {None}
      /\ ~Stop /\ ~DeletionSkipped /\ ~CleanFails /\ ~Restart
      /\ ~DeploymentFails /\ ~WriteFails
      /\ dep \in [Apps -> Templates \cup {None}] /\ Apps \subseteq Nat
      /\ svc \in [Apps -> Seq(Nat) \cup {None}]
  <2>1. TypeOK
    BY DEF TypeInv
  <2>2. /\ ~Stop /\ ~DeletionSkipped /\ ~CleanFails
        /\ ~DeploymentFails /\ ~WriteFails
    BY <2>1, Calm
  <2>3. pc # "down" /\ ~Restart
    BY DEF OrderInv, Restart
  <2>4. Apps \subseteq Nat
    BY BoundsAssumption DEF Apps
  <2> QED BY <2>1, <2>2, <2>3, <2>4 DEF TypeOK, ObjectTypes, ClusterTypes
<1>1. ASSUME NEW n, UNCHANGED <<dep, svc, claims>>, Beyond(n) PROVE Beyond(n)'
  BY <1>1 DEF Beyond, Empty
<1>2. CASE UNCHANGED <<dep, svc, claims, pc, SPContainer, idx, apps, oldLen>>
  BY <1>2 DEF ExtentInv, InPass, Beyond, Empty
<1>3. CASE BeginPass
  <2>1. ~InPass /\ ~InPass' /\ UNCHANGED <<dep, svc, claims, SPContainer>>
        /\ pc' \notin CleanSteps \cup DeploySteps \cup {"store", "sync"}
    BY <1>3 DEF BeginPass, InPass, clusterVars, CleanSteps, DeploySteps
  <2> QED BY <2>1 DEF ExtentInv, Beyond, Empty
<1>4. CASE SetStateAndParse
  <2>1. /\ pc = "state" /\ UNCHANGED <<dep, svc, claims>>
        /\ oldLen' = (IF SPContainer = None THEN 0 ELSE Len(SPContainer))
        /\ idx' = Len(apps') + 1
        /\ pc' = (IF modified /\ idx' <= oldLen' THEN "rmDeployment" ELSE "store")
        /\ ~InPass
    BY <1>4 DEF SetStateAndParse, FirstToClean, clusterVars, InPass
  <2>2. apps' \in AppLists /\ Len(apps') \in Nat /\ oldLen' \in Nat
    <3>1. InPass'
      BY <2>1 DEF InPass
    <3>2. TypeOK'
      BY NextTypes DEF TypeInv
    <3>3. apps' \in AppLists
      BY <3>1, <3>2 DEF TypeOK, WorkerTypes, InPass
    <3> QED BY <1>0, <2>1, <3>3, ListFacts
  <2>3. Beyond(oldLen')
    BY <2>1 DEF ExtentInv
  <2>4. modified \/ oldLen' = 0
    <3>1. copy.cur \in Nat /\ copy.prev \in Nat /\ obj.cur \in Nat /\ obj.prev \in Nat
      BY <1>0, <2>1, Numbers, CopyFacts, NoneAssumption
    <3>2. /\ copy.prev = obj.prev /\ obj.prev <= obj.cur
          /\ copy.cur = obj.cur + 1 \/ SPContainer = None
      BY <2>1 DEF OrderInv
    <3> QED BY <2>1, <3>1, <3>2 DEF modified
  <2>5. CASE pc' = "rmDeployment"
    <3>1. \A i \in Apps : ~(Len(apps') < i /\ i < idx')
      BY <1>0, <2>1, <2>2
    <3> QED BY <2>1, <2>3, <2>5, <3>1
            DEF ExtentInv, InPass, CleanSteps, DeploySteps, Beyond, Empty
  <2>6. CASE pc' = "store"
    <3>1. oldLen' <= Len(apps')
      BY <2>1, <2>2, <2>4, <2>6
    <3>2. Beyond(Len(apps'))
      BY <1>0, <2>2, <2>3, <3>1 DEF Beyond
    <3> QED BY <2>1, <2>6, <3>2
            DEF ExtentInv, InPass, CleanSteps, DeploySteps, Beyond, Empty
  <2> QED BY <2>1, <2>5, <2>6
<1>5. CASE CleanStep
  <2>0. /\ pc \in CleanSteps /\ UNCHANGED <<apps, oldLen>> /\ idx \in Apps
        /\ idx \in Nat /\ Len(apps) \in Nat /\ oldLen \in Nat
        /\ Len(apps) < idx /\ idx <= oldLen
        /\ Beyond(oldLen) /\ \A i \in Apps : Len(apps) < i /\ i < idx => Empty(i)
    BY <1>0, <1>5, CleanStepFacts, CleanFacts, ListFacts DEF ExtentInv
  <2>1. \A i \in Apps : dep[i] = None => dep'[i] = None
    BY <1>0, <1>5 DEF CleanStep, DeleteDeployment, DeleteService, DeletePVC,
                      DeleteConfigMap
  <2>2. \A i \in Apps : svc[i] = None => svc'[i] = None
    BY <1>0, <1>5 DEF CleanStep, DeleteDeployment, DeleteService, DeletePVC,
                      DeleteConfigMap
  <2>3. claims' \subseteq claims
    BY <1>5 DEF CleanStep, DeleteDeployment, DeleteService, DeletePVC,
                DeleteConfigMap
  <2>4. \A i \in Apps : Empty(i) => Empty(i)'
    BY <2>1, <2>2, <2>3 DEF Empty
  <2>5. Beyond(oldLen)' /\ \A i \in Apps : Len(apps) < i /\ i < idx => Empty(i)'
    BY <2>0, <2>4 DEF Beyond
  <2>6. CASE DeleteDeployment \/ DeleteService \/ DeletePVC
    <3>1. UNCHANGED idx /\ pc' \in CleanSteps /\ pc' # "rmDeployment"
      BY <2>6 DEF DeleteDeployment, DeleteService, DeletePVC, CleanSteps
    <3>2. dep'[idx] = None
      BY <1>0, <2>0, <2>1, <2>6
         DEF DeleteDeployment, DeleteService, DeletePVC, ExtentInv
    <3>3. pc' \in {"rmClaim", "rmConfigMap"} => svc'[idx] = None
      BY <1>0, <2>0, <2>2, <2>6
         DEF DeleteDeployment, DeleteService, DeletePVC, ExtentInv
    <3>4. pc' = "rmConfigMap" => idx \notin claims'
      BY <2>6 DEF DeleteDeployment, DeleteService, DeletePVC
    <3> QED BY <2>0, <2>5, <3>1, <3>2, <3>3, <3>4
            DEF ExtentInv, InPass, CleanSteps, DeploySteps
  <2>7. CASE DeleteConfigMap
    <3>1. /\ idx' = idx + 1 /\ pc = "rmConfigMap"
          /\ \/ pc' = "rmDeployment" /\ idx < oldLen
             \/ pc' = "store" /\ idx = oldLen
      BY <2>0, <2>7 DEF DeleteConfigMap
    <3>2. Empty(idx)
      BY <2>0, <3>1 DEF ExtentInv, Empty
    <3>3. \A i \in Apps : Len(apps) < i /\ i < idx' => Empty(i)'
      BY <1>0, <2>0, <2>4, <2>5, <3>1, <3>2
    <3>4. ASSUME idx = oldLen PROVE \A i \in Apps : i > Len(apps) => Empty(i)'
      BY <1>0, <2>0, <2>5, <3>1, <3>3, <3>4 DEF Beyond
    <3>5. pc' = "store" => Beyond(Len(apps))'
      BY <2>0, <3>1, <3>4 DEF Beyond
    <3> QED BY <2>0, <2>5, <3>1, <3>3, <3>5
            DEF ExtentInv, InPass, CleanSteps, DeploySteps
  <2> QED BY <1>5, <2>6, <2>7 DEF CleanStep
<1>6. CASE StoreApps
  <2>1. /\ UNCHANGED <<dep, svc, claims, apps>> /\ pc = "store"
        /\ pc' \in {"claim", "sync"}
    BY <1>6 DEF StoreApps, Frame, clusterVars
  <2> QED BY <2>1 DEF ExtentInv, InPass, CleanSteps, DeploySteps, Beyond, Empty
<1>7. CASE LoopStep
  <2>1. /\ pc \in DeploySteps /\ UNCHANGED apps /\ idx \in 1 .. Len(apps)
        /\ Len(apps) \in Nat /\ Beyond(Len(apps)) /\ pc' \in DeploySteps \cup {"sync"}
    BY <1>0, <1>7, LoopFacts, DeployFacts, ListFacts, ProceedFacts, NextAppFacts
       DEF ExtentInv, DeploySteps
  <2>2. ASSUME NEW i \in Apps, i > Len(apps)
        PROVE  dep'[i] = dep[i] /\ svc'[i] = svc[i] /\ (i \in claims' <=> i \in claims)
    <3>1. i # idx
      BY <2>1, <2>2
    <3>2. dep'[i] = dep[i]
      BY <1>0, <1>7, <2>2, <3>1
         DEF LoopStep, CreateClaim, CreateDepYAML, CreateAppsCM,
             CreateOrUpdateDeployment, CreateOrUpdateService,
             CreateOrUpdateIngress
    <3>3. svc'[i] = svc[i]
      BY <1>0, <1>7, <2>2, <3>1
         DEF LoopStep, CreateClaim, CreateDepYAML, CreateAppsCM,
             CreateOrUpdateDeployment, CreateOrUpdateService,
             CreateOrUpdateIngress
    <3>4. i \in claims' <=> i \in claims
      BY <1>0, <1>7, <3>1
         DEF LoopStep, CreateClaim, CreateDepYAML, CreateAppsCM,
             CreateOrUpdateDeployment, CreateOrUpdateService,
             CreateOrUpdateIngress
    <3> QED BY <3>2, <3>3, <3>4
  <2>3. Beyond(Len(apps))'
    BY <2>1, <2>2 DEF Beyond, Empty
  <2> QED BY <2>1, <2>3 DEF ExtentInv, InPass, CleanSteps, DeploySteps
<1>8. CASE SyncVersion
  <2>1. /\ UNCHANGED <<dep, svc, claims, SPContainer>> /\ pc = "sync" /\ pc' = "idle"
        /\ SPContainer = apps /\ apps \in AppLists /\ Beyond(Len(apps))
    BY <1>0, <1>8 DEF SyncVersion, clusterVars, TypeOK, WorkerTypes, OrderInv,
                      ExtentInv
  <2>2. SPContainer' # None
    BY <2>1, NoneAssumption
  <2> QED BY <2>1, <2>2
          DEF ExtentInv, InPass, CleanSteps, DeploySteps, Beyond, Empty
<1>9. CASE \/ \E s \in Specs : UserUpdate(s)
           \/ \E c \in OperatorConfigs : EditOperatorConfig(c)
           \/ \E i \in Apps : RollOut(i) \/ PodRestart(i)
           \/ UNCHANGED vars
  BY <1>2, <1>9 DEF UserUpdate, EditOperatorConfig, RollOut, PodRestart, vars,
                    clusterVars, workerVars
<1> QED BY <1>0, <1>3, <1>4, <1>5, <1>6, <1>7, <1>8, <1>9
        DEF Next, Worker, CleanStep, LoopStep

LEMMA SameCode ==
    ASSUME TypeInv, NEW i \in Apps, dep[i] # None, dep'[i] = dep[i],
           \A v \in Versions : cms'[AppsCMName(i, v)] = cms[AppsCMName(i, v)]
    PROVE  CodeOf(dep[i])' = CodeOf(dep[i])
<1>1. PICK v \in Versions : dep[i].mounts \in MountSets(i, v)
  BY DEF TypeInv, FormInv, OwnMounts
<1>2. CodeName(dep[i]) = AppsCMName(i, v)
  BY <1>1, CodeNameFacts
<1>3. CodeOf(dep[i]) = cms[CodeName(dep[i])]
  BY DEF CodeOf, CodeName
<1>4. CodeOf(dep[i])' = cms'[CodeName(dep[i])]
  BY DEF CodeOf, CodeName
<1> QED BY <1>2, <1>3, <1>4

LEMMA LoopInvStep ==
    ASSUME TypeInv, OrderInv, LoopInv, [Next]_vars, Undisturbed'
    PROVE  LoopInv'
<1>0. /\ TypeOK /\ pc # "down"
      /\ ~Stop /\ ~DeletionSkipped /\ ~CleanFails /\ ~Restart
      /\ ~DeploymentFails /\ ~WriteFails
      /\ dep \in [Apps -> Templates \cup {None}]
      /\ svc \in [Apps -> Seq(Nat) \cup {None}]
      /\ cms \in [CMNames -> Contents \cup {None}]
  <2>1. TypeOK
    BY DEF TypeInv
  <2>2. /\ ~Stop /\ ~DeletionSkipped /\ ~CleanFails
        /\ ~DeploymentFails /\ ~WriteFails
    BY <2>1, Calm
  <2>3. pc # "down" /\ ~Restart
    BY DEF OrderInv, Restart
  <2> QED BY <2>1, <2>2, <2>3 DEF TypeOK, ClusterTypes
<1>1. ASSUME NEW i \in Apps, dep'[i] = dep[i], UNCHANGED <<apps, env>>,
             \A v \in Versions : cms'[AppsCMName(i, v)] = cms[AppsCMName(i, v)],
             Deployed(apps, env.image, i)
      PROVE  Deployed(apps, env.image, i)'
  BY <1>1, SameCode DEF Deployed
<1>2. ASSUME pc' \notin DeploySteps \cup {"sync"} PROVE LoopInv'
  BY <1>2 DEF LoopInv, DeploySteps
<1>3. CASE BeginPass \/ SetStateAndParse \/ CleanStep \/ SyncVersion
  <2>1. pc' \notin DeploySteps \cup {"sync"}
    BY <1>3 DEF BeginPass, SetStateAndParse, CleanStep, DeleteDeployment,
                DeleteService, DeletePVC, DeleteConfigMap, SyncVersion,
                DeploySteps
  <2> QED BY <1>2, <2>1
<1>4. CASE StoreApps
  <2>1. /\ pc = "store" /\ idx' = 1
        /\ pc' = (IF copy.cur = 0 \/ modified THEN "claim" ELSE "sync")
    BY <1>4 DEF StoreApps
  <2>2. pc' = "claim"
    BY <2>1 DEF OrderInv, InPass
  <2>3. apps' \in AppLists
    <3>1. TypeOK'
      BY NextTypes DEF TypeInv
    <3> QED BY <2>2, <3>1 DEF TypeOK, WorkerTypes
  <2>4. \A i \in 1 .. Len(apps') : ~(i < idx')
    BY <2>1, <2>3, ListFacts
  <2> QED BY <2>2, <2>4 DEF LoopInv, DeploySteps
<1>5. CASE LoopStep
  <2> SUFFICES ASSUME Deployable(copy.spec)' PROVE LoopInv'
    BY DEF LoopInv
  <2>0. /\ pc \in DeploySteps /\ UNCHANGED <<copy, env, apps>> /\ idx \in Apps
        /\ idx \in 1 .. Len(apps) /\ Len(apps) \in Nat
        /\ \A i \in 1 .. Len(apps) : i \in Apps
        /\ App = apps[idx] /\ copy.cur \in Versions
    BY <1>0, <1>5, LoopFacts, DeployFacts, ListFacts, CopyFacts DEF DeploySteps
  <2>1. Deployable(copy.spec)
    BY <2>0 DEF Deployable
  <2>2. /\ \A i \in 1 .. Len(apps) : i < idx =>
               Deployed(apps, env.image, i) /\ Served(apps, i)
        /\ pc = "deployment" => cms[AppsCMName(idx, copy.cur)] = App.code
        /\ pc \in {"service", "ingress"} => Deployed(apps, env.image, idx)
        /\ pc = "ingress" => Served(apps, idx)
    BY <2>0, <2>1 DEF LoopInv
  <2>3. ASSUME \A i \in Apps \ {idx} :
                   /\ dep'[i] = dep[i] /\ svc'[i] = svc[i]
                   /\ \A v \in Versions : cms'[AppsCMName(i, v)] = cms[AppsCMName(i, v)]
        PROVE  \A i \in 1 .. Len(apps) : i < idx =>
                   Deployed(apps, env.image, i)' /\ Served(apps, i)'
    <3>1. ASSUME NEW i \in 1 .. Len(apps), i < idx
          PROVE  Deployed(apps, env.image, i)' /\ Served(apps, i)'
      <4>1. i \in Apps \ {idx} /\ Deployed(apps, env.image, i) /\ Served(apps, i)
        BY <2>0, <2>2, <3>1
      <4>2. Deployed(apps, env.image, i)'
        BY <1>1, <2>0, <2>3, <4>1
      <4>3. Served(apps, i)'
        BY <2>0, <2>3, <4>1 DEF Served
      <4> QED BY <4>2, <4>3
    <3> QED BY <3>1
  <2>4. ASSUME NextApp,
               \A i \in 1 .. Len(apps) : i < idx =>
                   Deployed(apps, env.image, i)' /\ Served(apps, i)',
               UNCHANGED <<cms, dep>>, Deployed(apps, env.image, idx),
               apps[idx].ports # <<>> => svc'[idx] = apps[idx].ports
        PROVE  LoopInv'
    <3>1. Deployed(apps, env.image, idx) => \A i \in {idx} : Deployed(apps, env.image, i)'
      BY <1>1, <2>0, <2>4
    <3>2. \A i \in {idx} : Served(apps, i)'
      BY <2>0, <2>4 DEF Served
    <3>3. /\ idx' = idx + 1
          /\ \/ pc' = "claim" /\ idx < Len(apps)
             \/ pc' = "sync" /\ idx = Len(apps)
      BY <1>0, <2>0, <2>4, NextAppFacts
    <3>4. \A i \in 1 .. Len(apps) : i < idx' =>
              Deployed(apps, env.image, i)' /\ Served(apps, i)'
      BY <2>0, <2>4, <3>1, <3>2, <3>3
    <3> QED BY <2>0, <3>3, <3>4 DEF LoopInv, DeploySteps
  <2>5. CASE CreateClaim
    <3>1. Proceed /\ pc = "claim"
      <4>1. UsesClaim => copy.spec.PVC = "granted" /\ copy.spec.SiddhiConfig # "malformed"
        BY <2>1 DEF Deployable, UsesClaim
      <4> QED BY <2>5, <4>1 DEF CreateClaim
    <3>2. UNCHANGED <<cms, dep, svc>>
      BY <2>5 DEF CreateClaim
    <3> QED BY <2>0, <2>3, <3>1, <3>2, ProceedFacts DEF LoopInv, DeploySteps
  <2>6. CASE CreateDepYAML
    <3>1. /\ cms' = [n \in CMNames |-> IF n \in DepYAML THEN copy.spec.SiddhiConfig
                                        ELSE cms[n]]
          /\ pc = "depyml" /\ Proceed /\ UNCHANGED <<dep, svc>>
      BY <2>6 DEF CreateDepYAML
    <3>2. ASSUME NEW i \in Apps, NEW v \in Versions
          PROVE  cms'[AppsCMName(i, v)] = cms[AppsCMName(i, v)]
      <4>1. AppsCMName(i, v) \notin DepYAML
        BY <1>0, <2>0, DepYAMLFacts, NamesDiffer
      <4> QED BY <3>1, <4>1, NameFacts
    <3> QED BY <2>0, <2>3, <3>1, <3>2, ProceedFacts DEF LoopInv, DeploySteps
  <2>7. CASE CreateAppsCM
    <3>1. /\ cms' = [cms EXCEPT ![AppsCMName(idx, copy.cur)] = App.code]
          /\ pc = "apps" /\ Proceed /\ UNCHANGED <<dep, svc>>
      BY <2>7 DEF CreateAppsCM
    <3>2. ASSUME NEW i \in Apps \ {idx}, NEW v \in Versions
          PROVE  cms'[AppsCMName(i, v)] = cms[AppsCMName(i, v)]
      BY <1>0, <2>0, <3>1, NamesDiffer, NameFacts
    <3>3. cms'[AppsCMName(idx, copy.cur)] = App.code
      BY <1>0, <2>0, <3>1, NameFacts
    <3>4. pc' = "deployment" /\ UNCHANGED idx
      BY <3>1, ProceedFacts
    <3>5. App' = App /\ AppsCMName(idx, copy.cur)' = AppsCMName(idx, copy.cur)
      BY <2>0, <3>4 DEF App, AppsCMName
    <3> QED BY <2>0, <2>3, <3>1, <3>2, <3>3, <3>4, <3>5 DEF LoopInv, DeploySteps
  <2>8. CASE CreateOrUpdateDeployment
    <3>1. /\ dep' = [dep EXCEPT ![idx] = Template] /\ UNCHANGED <<cms, svc>>
          /\ pc = "deployment" /\ Proceed
      BY <2>8 DEF CreateOrUpdateDeployment
    <3>2. pc' = "service" /\ UNCHANGED idx
      BY <3>1, ProceedFacts
    <3>3. /\ Template # None /\ Template.image = env.image
          /\ Template.ports = Append(apps[idx].ports, HealthPort)
          /\ Template.mounts \in MountSets(idx, copy.cur)
      BY <1>0, <2>0, <3>1, TemplateFacts
    <3>4. dep'[idx] = Template /\ \A i \in Apps \ {idx} : dep'[i] = dep[i]
      BY <1>0, <2>0, <3>1
    <3>5. CodeOf(dep[idx])' = cms'[CodeName(Template)]
      BY <3>2, <3>4 DEF CodeOf, CodeName
    <3>6. CodeName(Template) = AppsCMName(idx, copy.cur)
      BY <2>0, <3>3, CodeNameFacts
    <3>7. CodeOf(dep[idx])' = apps[idx].code
      BY <2>0, <2>2, <3>1, <3>5, <3>6
    <3>8. Deployed(apps, env.image, idx)'
      BY <2>0, <3>2, <3>3, <3>4, <3>7 DEF Deployed
    <3> QED BY <2>0, <2>3, <3>1, <3>2, <3>4, <3>8 DEF LoopInv, DeploySteps
  <2>9. CASE CreateOrUpdateService
    <3>1. /\ pc = "service" /\ UNCHANGED <<cms, dep>>
          /\ \A i \in Apps \ {idx} : svc'[i] = svc[i]
          /\ ServiceEnabled => svc' = [svc EXCEPT ![idx] = App.ports]
          /\ (Proceed /\ ServiceEnabled) \/ NextApp
      BY <1>0, <2>9 DEF CreateOrUpdateService
    <3>2. apps[idx].ports # <<>> => svc'[idx] = apps[idx].ports
      BY <1>0, <2>0, <3>1 DEF ServiceEnabled
    <3>3. \A i \in 1 .. Len(apps) : i < idx =>
              Deployed(apps, env.image, i)' /\ Served(apps, i)'
      BY <2>3, <3>1
    <3>4. CASE NextApp
      BY <2>2, <2>4, <3>1, <3>2, <3>3, <3>4
    <3>5. CASE Proceed
      <4>1. pc' = "ingress" /\ UNCHANGED idx
        BY <3>1, <3>5, ProceedFacts
      <4>2. Deployed(apps, env.image, idx)' /\ Served(apps, idx)'
        <5>1. \A i \in {idx} : Deployed(apps, env.image, i)'
          BY <1>1, <2>0, <2>2, <3>1
        <5>2. Served(apps, idx)'
          BY <2>0, <3>2, <4>1 DEF Served
        <5> QED BY <4>1, <5>1, <5>2
      <4> QED BY <2>0, <3>3, <4>1, <4>2 DEF LoopInv, DeploySteps
    <3> QED BY <3>1, <3>4, <3>5
  <2>10. CASE CreateOrUpdateIngress
    <3>1. pc = "ingress" /\ NextApp /\ UNCHANGED <<cms, dep, svc>>
      BY <2>10 DEF CreateOrUpdateIngress
    <3>2. \A i \in 1 .. Len(apps) : i < idx =>
              Deployed(apps, env.image, i)' /\ Served(apps, i)'
      BY <2>3, <3>1
    <3>3. apps[idx].ports # <<>> => svc'[idx] = apps[idx].ports
      BY <2>2, <3>1 DEF Served
    <3> QED BY <2>2, <2>4, <3>1, <3>2, <3>3
  <2> QED BY <1>0, <1>5, <2>5, <2>6, <2>7, <2>8, <2>9, <2>10 DEF LoopStep
<1>6. CASE \/ \E s \in Specs : UserUpdate(s)
           \/ \E c \in OperatorConfigs : EditOperatorConfig(c)
           \/ \E i \in Apps : RollOut(i) \/ PodRestart(i)
           \/ UNCHANGED vars
  <2>1. UNCHANGED <<dep, svc, cms, pc, idx, apps, copy, env>>
    BY <1>6 DEF UserUpdate, EditOperatorConfig, RollOut, PodRestart, vars,
                clusterVars, workerVars
  <2> QED BY <2>1 DEF LoopInv, Deployed, Served, CodeOf, Deployable, App, AppsCMName
<1> QED BY <1>0, <1>3, <1>4, <1>5, <1>6 DEF Next, Worker, CleanStep, LoopStep

LEMMA ConvergedStep ==
    ASSUME TypeInv, OrderInv, ExtentInv, LoopInv, Converged, [Next]_vars, Undisturbed'
    PROVE  Converged'
<1>0. TypeOK /\ Undisturbed /\ ~Stop /\ ~DeletionSkipped /\ ~CleanFails /\ ~Restart
  <2>1. TypeOK
    BY DEF TypeInv
  <2> QED BY <2>1, Calm DEF OrderInv, Restart
<1>1. CASE UNCHANGED <<pc, todo, SPContainer, obj, dep, cms, svc, claims>>
  BY <1>0, <1>1 DEF Converged, PassComplete, CodeOf
<1>2. CASE pc' # "idle" \/ todo'
  BY <1>2 DEF Converged, PassComplete
<1>3. CASE SyncVersion
  <2> SUFFICES ASSUME PassComplete' PROVE Converged'
    BY DEF Converged
  <2>1. /\ pc = "sync" /\ SPContainer = apps /\ apps \in AppLists
        /\ copy \in Objects /\ ~todo
        /\ UNCHANGED <<todo, SPContainer, dep, cms, svc, claims>>
    BY <1>0, <1>3, CopyFacts
       DEF SyncVersion, OrderInv, TypeOK, WorkerTypes, clusterVars, PassComplete
  <2>2. /\ fresh /\ apps \in copy.spec.answers
        /\ copy.spec.Image # "" => env.image = copy.spec.Image
    <3>1. InPass
      BY <2>1 DEF InPass
    <3> QED BY <2>1, <3>1 DEF OrderInv
  <2>3. obj'.spec = copy.spec
    BY <1>3, <2>1, <2>2 DEF SyncVersion, Synced, Objects
  <2>4. Deployable(copy.spec)
    BY <2>3 DEF PassComplete, Deployable
  <2>5. /\ DOMAIN apps = 1 .. Len(apps) /\ 1 \in 1 .. Len(apps)
        /\ \A i \in 1 .. Len(apps) : i \in Apps
        /\ Len(apps) \in Nat /\ Apps \subseteq Nat \ {0}
    BY <2>1, ListFacts DEF Apps
  <2>6. \A i \in 1 .. Len(apps) : Deployed(apps, env.image, i) /\ Served(apps, i)
    BY <2>1, <2>4 DEF LoopInv
  <2>7. ASSUME NEW i \in Apps \ DOMAIN apps PROVE Empty(i)
    <3>1. i > Len(apps)
      BY <2>5, <2>7
    <3> QED BY <2>1, <3>1 DEF ExtentInv, Beyond
  <2>8. ASSUME NEW i \in DOMAIN apps
        PROVE  /\ dep[i] # None /\ CodeOf(dep[i])' = apps[i].code
               /\ dep[i].ports = Append(apps[i].ports, HealthPort)
               /\ dep[i].image = dep[1].image
               /\ apps[i].ports # <<>> => svc[i] = apps[i].ports
    <3>1. CodeOf(dep[i])' = CodeOf(dep[i])
      BY <2>1 DEF CodeOf
    <3> QED BY <2>5, <2>6, <2>8, <3>1 DEF Deployed, Served
  <2>9. copy.spec.Image # "" => dep[1].image = copy.spec.Image
    BY <2>2, <2>5, <2>6 DEF Deployed
  <2> QED BY <2>1, <2>2, <2>3, <2>7, <2>8, <2>9 DEF Converged, Empty
<1>4. CASE \E s \in Specs : UserUpdate(s)
  <2>1. todo' \/ pc' # "idle"
    BY <1>4 DEF UserUpdate
  <2> QED BY <1>2, <2>1
<1>5. CASE \/ \E c \in OperatorConfigs : EditOperatorConfig(c)
           \/ \E i \in Apps : RollOut(i) \/ PodRestart(i)
           \/ UNCHANGED vars
  BY <1>1, <1>5 DEF EditOperatorConfig, RollOut, PodRestart, vars, objectVars,
                    clusterVars, workerVars
<1>6. CASE BeginPass \/ SetStateAndParse \/ CleanStep \/ StoreApps \/ LoopStep
  <2>1. CASE CleanStep \/ LoopStep
    BY <1>0, <1>2, <2>1, CleanStepFacts, LoopFacts, ProceedFacts, NextAppFacts
       DEF CleanSteps, DeploySteps
  <2>2. CASE BeginPass \/ SetStateAndParse \/ StoreApps
    BY <1>2, <2>2 DEF BeginPass, SetStateAndParse, StoreApps
  <2> QED BY <1>6, <2>1, <2>2
<1> QED BY <1>0, <1>3, <1>4, <1>5, <1>6 DEF Next, Worker, CleanStep, LoopStep

LEMMA InitPass == Init => PassInv
<1> SUFFICES ASSUME Init PROVE OrderInv /\ ExtentInv /\ LoopInv /\ Converged
  BY DEF PassInv
<1>1. obj.cur = 0 /\ obj.prev = 0 /\ cached.cur = 0 /\ cached.prev = 0
  BY DEF Init
<1>2. OrderInv
  BY <1>1 DEF Init, OrderInv, InPass, CleanSteps, DeploySteps
<1>3. ExtentInv
  BY DEF Init, ExtentInv, InPass, CleanSteps, DeploySteps, Beyond, Empty
<1>4. LoopInv
  BY DEF Init, LoopInv, DeploySteps
<1>5. Converged
  BY DEF Init, Converged, PassComplete
<1> QED BY <1>2, <1>3, <1>4, <1>5

LEMMA NextPass ==
    ASSUME TypeInv, PassInv, [Next]_vars
    PROVE  PassInv'
<1> SUFFICES ASSUME Undisturbed'
             PROVE  (OrderInv /\ ExtentInv /\ LoopInv /\ Converged)'
  BY DEF PassInv
<1>1. Undisturbed
  BY Calm DEF TypeInv
<1>2. OrderInv /\ ExtentInv /\ LoopInv /\ Converged
  BY <1>1 DEF PassInv
<1> QED BY <1>2, OrderStep, ExtentStep, LoopInvStep, ConvergedStep

\* After a pass without failures for the current spec, the cluster has what
\* the new list needs and nothing of the applications that are gone, for
\* every sequence of specs, of any length, and every order of their events.
THEOREM PassConverges == Spec => []Converged
<1>1. PassInv => Converged
  BY DEF PassInv, Converged, PassComplete
<1>2. TypeInv /\ PassInv /\ [Next]_vars => (TypeInv /\ PassInv)'
  BY NextTypes, NextPass
<1> QED BY <1>1, <1>2, InitTypes, InitPass, PTL DEF Spec

---------------------------------------------------------------------------
(* What can be reached through the Ingress after a pass.                   *)

PathIn(rules, path) ==
    \E r \in Range(rules) : r.host = IngressName /\ path \in Range(r.paths)

Reached(rules, list, i) == \A p \in Range(list[i].ports) : PathIn(rules, <<i, p>>)

AutoCreated ==
    count["edits"] = 0 /\ Setting("autoIngressCreation", "true") = "true"

\* The loop of CreateArtifacts has added the paths of every application
\* before idx, and SyncVersion comes when none is left.
ReachInv ==
    /\ pc \notin {"down", "idle"} => env.AutoCreateIngress
    /\ pc \in DeploySteps /\ Deployable(copy.spec) =>
           \A i \in 1 .. Len(apps) : i < idx => Reached(Rules, apps, i)
    /\ pc = "sync" /\ Deployable(copy.spec) =>
           \A i \in 1 .. Len(apps) : Reached(Rules, apps, i)
    /\ IngressComplete

IngressInv == Undisturbed /\ AutoCreated => ReachInv

LEMMA PathStays ==
    ASSUME TypeOK, [Next]_vars, NEW path, PathIn(Rules, path)
    PROVE  PathIn(Rules', path)
<1>1. PICK k \in DOMAIN Rules :
          Rules[k].host = IngressName /\ path \in Range(Rules[k].paths)
  BY DEF PathIn, Range
<1>2. /\ Rules \in Seq(IngressRules) /\ Rules' \in Seq(IngressRules)
      /\ Len(Rules) <= Len(Rules') /\ k \in 1 .. Len(Rules)
      /\ RuleKept(Rules[k], Rules'[k])
  BY <1>1, RulesGrow
<1>3. k \in DOMAIN Rules'
  BY <1>2
<1>4. Rules'[k].host = IngressName /\ path \in Range(Rules'[k].paths)
  BY <1>1, <1>2 DEF RuleKept
<1>5. Rules'[k] \in Range(Rules')
  BY <1>3 DEF Range
<1> QED BY <1>4, <1>5 DEF PathIn

LEMMA ReachedStays ==
    ASSUME TypeOK, [Next]_vars
    PROVE  \A list, i : Reached(Rules, list, i) => Reached(Rules', list, i)
BY PathStays DEF Reached

LEMMA PathsWritten ==
    ASSUME TypeOK, CreateOrUpdateIngress
    PROVE  Reached(Rules', apps, idx)
<1>1. Rules' = MergeRules(Rules, ingressPaths) /\ pc \in DeploySteps
  BY IngressWrite
<1>2. /\ ingressPaths \in Seq(Paths) /\ IsInjective(ingressPaths)
      /\ \A p \in Range(apps[idx].ports) : <<idx, p>> \in Range(ingressPaths)
  BY <1>1, IngressPathsFacts
<1>3. PICK k \in DOMAIN Rules' :
          /\ Rules'[k].host = IngressName
          /\ Range(ingressPaths) \subseteq Range(Rules'[k].paths)
  BY <1>1, <1>2, RulesType, RulesMerged
<1>4. Rules'[k] \in Range(Rules')
  BY <1>3 DEF Range
<1>5. \A path \in Range(ingressPaths) : PathIn(Rules', path)
  BY <1>3, <1>4 DEF PathIn
<1> QED BY <1>2, <1>5 DEF Reached

LEMMA ReachStep ==
    ASSUME TypeInv, OrderInv, ReachInv, AutoCreated, AutoCreated', [Next]_vars,
           Undisturbed', UNCHANGED opcm
    PROVE  ReachInv'
<1>0. /\ TypeOK /\ Undisturbed /\ pc # "down"
      /\ ~Stop /\ ~DeletionSkipped /\ ~CleanFails /\ ~Restart
      /\ ~DeploymentFails /\ ~WriteFails
  <2>1. TypeOK
    BY DEF TypeInv
  <2> QED BY <2>1, Calm DEF OrderInv, Restart
<1>1. pc' \notin {"down", "idle"} => env'.AutoCreateIngress
  <2>1. CASE BeginPass
    BY <2>1 DEF BeginPass, UpdateDefaultConfigs, AutoCreated
  <2>2. CASE UNCHANGED env /\ (pc' \notin {"down", "idle"} => pc \notin {"down", "idle"})
    BY <2>2 DEF ReachInv
  <2>3. CASE pc' \in {"down", "idle"}
    BY <2>3
  <2> QED BY <1>0, <2>1, <2>2, <2>3
          DEF Next, UserUpdate, EditOperatorConfig, RollOut, PodRestart,
              Worker, SetStateAndParse, DeleteDeployment, DeleteService, Frame,
              DeletePVC, DeleteConfigMap, StoreApps, CreateClaim,
              CreateDepYAML, CreateAppsCM, CreateOrUpdateDeployment,
              CreateOrUpdateService, CreateOrUpdateIngress, SyncVersion,
              vars, workerVars
<1>2. /\ pc' \in DeploySteps /\ Deployable(copy'.spec) =>
             \A i \in 1 .. Len(apps') : i < idx' => Reached(Rules', apps', i)
      /\ pc' = "sync" /\ Deployable(copy'.spec) =>
             \A i \in 1 .. Len(apps') : Reached(Rules', apps', i)
  <2> SUFFICES ASSUME pc' \in DeploySteps \cup {"sync"}, Deployable(copy'.spec)
               PROVE  /\ pc' \in DeploySteps =>
                             \A i \in 1 .. Len(apps') :
                                 i < idx' => Reached(Rules', apps', i)
                      /\ pc' = "sync" =>
                             \A i \in 1 .. Len(apps') : Reached(Rules', apps', i)
    OBVIOUS
  <2>1. CASE StoreApps
    <3>1. pc' = "claim" /\ idx' = 1
      BY <2>1 DEF StoreApps, OrderInv, InPass
    <3>2. \A i \in 1 .. Len(apps') : ~(i < idx')
      <4>1. apps' \in AppLists
        <5>1. TypeOK'
          BY NextTypes DEF TypeInv
        <5> QED BY <3>1, <5>1 DEF TypeOK, WorkerTypes
      <4> QED BY <3>1, <4>1, ListFacts
    <3> QED BY <3>1, <3>2
  <2>2. CASE LoopStep
    <3>0. /\ pc \in DeploySteps /\ UNCHANGED <<copy, env, apps>>
          /\ idx \in 1 .. Len(apps) /\ Len(apps) \in Nat /\ App = apps[idx]
      BY <1>0, <2>2, LoopFacts, DeployFacts, ListFacts
    <3>1. Deployable(copy.spec) /\ env.AutoCreateIngress
      <4>1. pc \notin {"down", "idle"}
        BY <3>0 DEF DeploySteps
      <4> QED BY <3>0, <4>1 DEF Deployable, ReachInv
    <3>2. \A i \in 1 .. Len(apps) : i < idx => Reached(Rules', apps, i)
      BY <1>0, <3>0, <3>1, ReachedStays DEF ReachInv
    <3>3. CASE NextApp /\ Reached(Rules', apps, idx)
      <4>1. /\ idx' = idx + 1
            /\ \/ pc' = "claim" /\ idx < Len(apps)
               \/ pc' = "sync" /\ idx = Len(apps)
        BY <1>0, <3>0, <3>3, NextAppFacts
      <4>2. \A i \in 1 .. Len(apps) : i < idx + 1 => Reached(Rules', apps, i)
        BY <3>0, <3>2, <3>3
      <4> QED BY <3>0, <4>1, <4>2
    <3>4. CASE Proceed /\ pc # "ingress"
      <4>1. UNCHANGED idx /\ pc' # "sync"
        BY <3>0, <3>4, ProceedFacts DEF DeploySteps
      <4> QED BY <3>0, <3>2, <4>1
    <3>5. CASE CreateClaim
      <4>1. UsesClaim => copy.spec.PVC = "granted" /\ copy.spec.SiddhiConfig # "malformed"
        BY <3>1 DEF Deployable, UsesClaim
      <4> QED BY <3>4, <3>5, <4>1 DEF CreateClaim
    <3>6. CASE CreateDepYAML \/ CreateAppsCM \/ CreateOrUpdateDeployment
      BY <3>4, <3>6 DEF CreateDepYAML, CreateAppsCM, CreateOrUpdateDeployment
    <3>7. CASE CreateOrUpdateService
      <4>1. CASE ServiceEnabled
        BY <3>1, <3>4, <3>7, <4>1 DEF CreateOrUpdateService
      <4>2. CASE ~ServiceEnabled
        <5>1. Range(apps[idx].ports) = {}
          BY <3>0, <4>2 DEF ServiceEnabled, Range
        <5>2. Reached(Rules', apps, idx)
          BY <5>1 DEF Reached
        <5> QED BY <3>3, <3>7, <4>2, <5>2 DEF CreateOrUpdateService
      <4> QED BY <4>1, <4>2
    <3>8. CASE CreateOrUpdateIngress
      BY <1>0, <3>3, <3>8, PathsWritten DEF CreateOrUpdateIngress
    <3> QED BY <1>0, <2>2, <3>5, <3>6, <3>7, <3>8 DEF LoopStep
  <2>3. CASE BeginPass \/ SetStateAndParse \/ CleanStep \/ SyncVersion
    BY <2>3 DEF BeginPass, SetStateAndParse, CleanStep, DeleteDeployment,
                DeleteService, DeletePVC, DeleteConfigMap, SyncVersion, DeploySteps
  <2>4. CASE UNCHANGED <<ingress, pc, idx, apps, copy>>
    <3>1. Rules' = Rules
      BY <2>4 DEF Rules
    <3> QED BY <2>4, <3>1 DEF ReachInv
  <2> QED BY <1>0, <2>1, <2>2, <2>3, <2>4
          DEF Next, Worker, CleanStep, LoopStep, UserUpdate, EditOperatorConfig,
              RollOut, PodRestart, vars, clusterVars, workerVars
<1>3. IngressComplete'
  <2> SUFFICES ASSUME PassComplete'
               PROVE  \A i \in DOMAIN SPContainer' : Reached(Rules', SPContainer', i)
    BY DEF IngressComplete, Reached, PathIn
  <2>1. CASE SyncVersion
    <3>1. /\ pc = "sync" /\ SPContainer = apps /\ apps \in AppLists
          /\ copy \in Objects /\ ~todo /\ UNCHANGED SPContainer
      BY <1>0, <2>1, CopyFacts
         DEF SyncVersion, OrderInv, TypeOK, WorkerTypes, PassComplete
    <3>2. fresh
      BY <3>1 DEF OrderInv, InPass
    <3>3. obj'.spec = copy.spec
      BY <2>1, <3>1, <3>2 DEF SyncVersion, Synced, Objects
    <3>4. Deployable(copy.spec)
      BY <3>3 DEF PassComplete, Deployable
    <3>5. \A i \in DOMAIN apps : Reached(Rules, apps, i)
      BY <3>1, <3>4, ListFacts DEF ReachInv
    <3> QED BY <1>0, <3>1, <3>5, ReachedStays
  <2>2. CASE UNCHANGED <<pc, todo, SPContainer, obj, count>>
    <3>1. PassComplete
      BY <2>2 DEF PassComplete, Undisturbed, Deployable
    <3>2. \A i \in DOMAIN SPContainer : Reached(Rules, SPContainer, i)
      BY <3>1 DEF ReachInv, IngressComplete, AutoCreated, Reached, PathIn
    <3> QED BY <1>0, <2>2, <3>2, ReachedStays
  <2>3. CASE pc' # "idle" \/ todo'
    BY <2>3 DEF PassComplete
  <2>4. CASE \/ \E s \in Specs : UserUpdate(s)
             \/ BeginPass \/ SetStateAndParse \/ CleanStep \/ StoreApps \/ LoopStep
    <3>1. CASE CleanStep \/ LoopStep
      BY <1>0, <2>3, <3>1, CleanStepFacts, LoopFacts, ProceedFacts, NextAppFacts
         DEF CleanSteps, DeploySteps
    <3>2. CASE \/ \E s \in Specs : UserUpdate(s)
               \/ BeginPass \/ SetStateAndParse \/ StoreApps
      BY <2>3, <3>2 DEF UserUpdate, BeginPass, SetStateAndParse, StoreApps
    <3> QED BY <2>4, <3>1, <3>2
  <2>5. CASE \/ \E i \in Apps : RollOut(i) \/ PodRestart(i)
             \/ UNCHANGED vars
    BY <2>2, <2>5 DEF RollOut, PodRestart, vars, objectVars, clusterVars, workerVars
  <2>6. ~\E c \in OperatorConfigs : EditOperatorConfig(c)
    BY DEF EditOperatorConfig
  <2> QED BY <1>0, <2>1, <2>4, <2>5, <2>6 DEF Next, Worker, CleanStep, LoopStep
<1> QED BY <1>1, <1>2, <1>3 DEF ReachInv

\* The settings stay what they are until somebody edits them.
LEMMA Unedited ==
    ASSUME TypeOK, [Next]_vars, AutoCreated' PROVE AutoCreated /\ UNCHANGED opcm
<1>1. /\ "edits" \in Counters /\ count \in [Counters -> Nat]
      /\ count'["edits"] = 0
  BY DEF Counters, TypeOK, AutoCreated
<1>2. count["edits"] \in Nat /\ count["edits"] <= count'["edits"]
  BY <1>1, Counting
<1>3. count["edits"] = 0
  BY <1>1, <1>2
<1>4. ~\E c \in OperatorConfigs : EditOperatorConfig(c)
  <2>1. Spend("edits") => count'["edits"] = count["edits"] + 1
    BY <1>1 DEF Spend
  <2> QED BY <1>1, <1>3, <2>1 DEF EditOperatorConfig
<1>5. UNCHANGED opcm
  BY <1>4 DEF Next, UserUpdate, Stop, Restart, RollOut, PodRestart,
              Worker, BeginPass, SetStateAndParse, DeleteDeployment, DeleteService,
              DeletePVC, DeleteConfigMap, DeletionSkipped, CleanFails, StoreApps,
              CreateClaim, Frame,
              CreateDepYAML, CreateAppsCM, CreateOrUpdateDeployment, DeploymentFails,
              CreateOrUpdateService, CreateOrUpdateIngress, WriteFails, SyncVersion,
              vars
<1> QED BY <1>3, <1>5 DEF AutoCreated, Setting

LEMMA NextIngressInv ==
    ASSUME TypeInv, PassInv, IngressInv, [Next]_vars
    PROVE  IngressInv'
<1> SUFFICES ASSUME Undisturbed', AutoCreated' PROVE ReachInv'
  BY DEF IngressInv
<1>1. TypeOK /\ Undisturbed
  BY Calm DEF TypeInv
<1>2. AutoCreated /\ UNCHANGED opcm
  BY <1>1, Unedited
<1> QED BY <1>1, <1>2, ReachStep DEF IngressInv, PassInv

\* With automatic ingress creation, every port of every application of the
\* list can be reached through the Ingress after a pass without failures,
\* whatever the Ingress had before and however many specs came and went:
\* CreateOrUpdateService reaches CreateOrUpdateIngress for every application
\* with ports, and pathContains keeps a path out only when it is there.
THEOREM PortsReached == Spec => []IngressComplete
<1>1. Init => IngressInv
  BY DEF Init, IngressInv, ReachInv, IngressComplete, PassComplete, DeploySteps
<1>2. IngressInv => IngressComplete
  BY DEF IngressInv, ReachInv, AutoCreated, IngressComplete, PassComplete
<1>3. TypeInv /\ PassInv /\ IngressInv /\ [Next]_vars =>
          (TypeInv /\ PassInv /\ IngressInv)'
  BY NextTypes, NextPass, NextIngressInv
<1> QED BY <1>1, <1>2, <1>3, InitTypes, InitPass, PTL DEF Spec

---------------------------------------------------------------------------
(* What the pods run.                                                      *)

\* The version of the code that a template mounts.
CodeVersion(t) == CodeName(t)[3]

\* Deployment and pods of application i have a version below n.
Below(i, n) ==
    /\ dep[i] # None => CodeVersion(dep[i]) < n
    /\ pods[i] # None => CodeVersion(pods[i].template) < n

\* Pods of the current template run the code that it mounts.
PodOK(i) ==
    pods[i] # None =>
        /\ dep[i] # None
        /\ pods[i].template = dep[i] => pods[i].code = CodeOf(dep[i])

\* Until the worker comes to application i, whatever is there of i has an
\* older version than that of the pass.
CodeInv ==
    /\ \A i \in Apps : PodOK(i) /\ Below(i, obj.cur + 1)
    /\ InPass => copy.cur = obj.cur
    /\ pc \in CleanSteps \cup {"store"} => \A i \in Apps : Below(i, copy.cur)
    /\ pc \in DeploySteps =>
           \A i \in Apps : \/ i < idx
                           \/ i = idx /\ pc \in {"service", "ingress"}
                           \/ Below(i, copy.cur)

PodsInv == Undisturbed /\ ~overtaken => CodeInv

LEMMA CodeFacts ==
    ASSUME NEW i \in Apps, NEW t, OwnMounts(i, t)
    PROVE  /\ CodeVersion(t) \in Versions /\ CodeVersion(t) \in Nat
           /\ CodeName(t) = AppsCMName(i, CodeVersion(t))
<1>1. PICK v \in Versions : t.mounts \in MountSets(i, v)
  BY DEF OwnMounts
<1> QED BY <1>1, CodeNameFacts, BoundsAssumption DEF CodeVersion, Versions

\* What stays true of the pods of an application whose deployment and pods
\* a step leaves alone, and the code that they read.
LEMMA PodKept ==
    ASSUME TypeInv, NEW i \in Apps, dep'[i] = dep[i], pods'[i] = pods[i],
           dep[i] # None => cms'[CodeName(dep[i])] = cms[CodeName(dep[i])]
    PROVE  /\ PodOK(i) => PodOK(i)'
           /\ \A n : Below(i, n) => Below(i, n)'
<1>1. ASSUME NEW n, Below(i, n) PROVE Below(i, n)'
  BY <1>1 DEF Below
<1>2. ASSUME PodOK(i) PROVE PodOK(i)'
  <2>1. CodeOf(dep[i]) = cms[CodeName(dep[i])]
    BY DEF CodeOf, CodeName
  <2>2. CodeOf(dep[i])' = cms'[CodeName(dep[i])]
    BY DEF CodeOf, CodeName
  <2> QED BY <1>2, <2>1, <2>2 DEF PodOK
<1> QED BY <1>1, <1>2

\* The versions after a step of the user, the pods or the worker's loops.
LEMMA CodeStep ==
    ASSUME TypeInv, OrderInv, ExtentInv, MountInv, CodeInv, [Next]_vars,
           Undisturbed', ~overtaken'
    PROVE  CodeInv'
<1>0. /\ TypeOK /\ pc # "down" /\ Apps \subseteq Nat
      /\ ~Stop /\ ~DeletionSkipped /\ ~CleanFails /\ ~Restart
      /\ ~DeploymentFails /\ ~WriteFails
      /\ dep \in [Apps -> Templates \cup {None}]
      /\ pods \in [Apps -> Pods \cup {None}]
      /\ cms \in [CMNames -> Contents \cup {None}]
      /\ obj.cur \in Nat /\ obj \in Objects /\ FormInv
  <2>1. TypeOK /\ FormInv
    BY DEF TypeInv
  <2>2. /\ ~Stop /\ ~DeletionSkipped /\ ~CleanFails
        /\ ~DeploymentFails /\ ~WriteFails
    BY <2>1, Calm
  <2>3. pc # "down" /\ ~Restart
    BY DEF OrderInv, Restart
  <2>4. Apps \subseteq Nat
    BY BoundsAssumption DEF Apps
  <2> QED BY <2>1, <2>2, <2>3, <2>4, Numbers DEF TypeOK, ObjectTypes, ClusterTypes
<1>1. ASSUME NEW i \in Apps, NEW n \in Nat, Below(i, n) PROVE Below(i, n + 1)
  BY <1>0, <1>1, CodeFacts DEF Below, FormInv
<1>2. ASSUME UNCHANGED <<dep, pods, cms>>
      PROVE  \A i \in Apps : PodOK(i)' /\ (\A n : Below(i, n) => Below(i, n)')
  BY <1>2, PodKept DEF CodeInv
<1>3. CASE \E s \in Specs : UserUpdate(s)
  <2>1. UNCHANGED <<dep, pods, cms, pc, idx, copy>> /\ obj'.cur = obj.cur
    BY <1>0, <1>3 DEF UserUpdate, clusterVars, Objects
  <2>2. InPass' = InPass
    BY <2>1 DEF InPass
  <2> QED BY <1>2, <2>1, <2>2 DEF CodeInv
<1>4. CASE \/ \E c \in OperatorConfigs : EditOperatorConfig(c)
           \/ UNCHANGED vars
  <2>1. UNCHANGED <<dep, pods, cms, pc, idx, copy, obj>>
    BY <1>4 DEF EditOperatorConfig, vars, clusterVars, workerVars, objectVars
  <2>2. InPass' = InPass
    BY <2>1 DEF InPass
  <2> QED BY <1>2, <2>1, <2>2 DEF CodeInv
<1>5. CASE \E i \in Apps : RollOut(i) \/ PodRestart(i)
  <2>1. PICK i \in Apps : RollOut(i) \/ PodRestart(i)
    BY <1>5
  <2>2. UNCHANGED <<dep, cms, pc, idx, copy, obj>> /\ InPass' = InPass
    BY <2>1 DEF RollOut, PodRestart, objectVars, workerVars, InPass
  <2>3. \A j \in Apps \ {i} : pods'[j] = pods[j]
    BY <1>0, <2>1 DEF RollOut, PodRestart
  <2>4. \A j \in Apps \ {i} : PodOK(j)' /\ (\A n : Below(j, n) => Below(j, n)')
    BY <2>2, <2>3, PodKept DEF CodeInv
  <2>5. CodeOf(dep[i])' = CodeOf(dep[i])
    BY <2>2 DEF CodeOf
  <2>6. PodOK(i)' /\ (\A n : Below(i, n) => Below(i, n)')
    <3>1. CASE RollOut(i)
      <4>1. dep[i] # None /\ pods'[i] = [template |-> dep[i], code |-> CodeOf(dep[i])]
        BY <1>0, <3>1 DEF RollOut
      <4>2. pods'[i].template = dep[i] /\ pods'[i].code = CodeOf(dep[i])
        BY <4>1
      <4> QED BY <2>2, <2>5, <4>1, <4>2 DEF PodOK, Below
    <3>2. CASE PodRestart(i)
      <4>1. /\ pods[i] # None /\ pods[i] \in Pods
            /\ pods' = [pods EXCEPT ![i].code = CodeOf(pods[i].template)]
        BY <1>0, <3>2 DEF PodRestart
      <4>2. /\ pods'[i].template = pods[i].template
            /\ pods'[i].code = CodeOf(pods[i].template)
        BY <1>0, <4>1 DEF Pods
      <4>3. dep[i] # None
        BY <4>1 DEF CodeInv, PodOK
      <4> QED BY <2>2, <2>5, <4>1, <4>2, <4>3 DEF PodOK, Below
    <3> QED BY <2>1, <3>1, <3>2
  <2>7. \A j \in Apps : PodOK(j)' /\ (\A n : Below(j, n) => Below(j, n)')
    BY <2>4, <2>6
  <2> QED BY <2>2, <2>7 DEF CodeInv
<1>6. CASE BeginPass
  <2>1. UNCHANGED <<dep, pods, cms, obj>> /\ pc' = "state"
    BY <1>6 DEF BeginPass, clusterVars, objectVars
  <2> QED BY <1>2, <2>1 DEF CodeInv, InPass, CleanSteps, DeploySteps
<1>7. CASE SetStateAndParse
  <2>1. /\ fresh /\ obj' = copy /\ UNCHANGED <<dep, pods, cms, copy>>
        /\ pc = "state" /\ pc' \in {"rmDeployment", "store"}
    BY <1>7 DEF SetStateAndParse, clusterVars
  <2>2. /\ copy.cur \in Nat
        /\ copy.cur = obj.cur + 1 \/ (copy.cur = 0 /\ SPContainer = None)
    BY <1>0, <2>1, Numbers, CopyFacts, NoneAssumption DEF OrderInv
  <2>3. ASSUME NEW i \in Apps PROVE Below(i, copy.cur)
    <3>1. CASE copy.cur = obj.cur + 1
      BY <3>1 DEF CodeInv
    <3>2. CASE SPContainer = None
      <4>1. i > 0
        BY DEF Apps
      <4>2. dep[i] = None
        BY <2>1, <3>2, <4>1 DEF ExtentInv, InPass, Beyond, Empty
      <4> QED BY <4>2 DEF CodeInv, PodOK, Below
    <3> QED BY <2>2, <3>1, <3>2
  <2>4. \A i \in Apps : PodOK(i)' /\ Below(i, copy.cur)' /\ Below(i, copy.cur + 1)'
    BY <1>1, <1>2, <2>1, <2>2, <2>3
  <2> QED BY <2>1, <2>4 DEF CodeInv, InPass, CleanSteps, DeploySteps
<1>8. CASE CleanStep
  <2>1. /\ pc \in CleanSteps /\ pc' \in CleanSteps \cup {"store"}
        /\ UNCHANGED <<copy, obj>> /\ idx \in Apps /\ copy.prev \in Versions
        /\ InPass /\ InPass'
    BY <1>0, <1>8, CleanStepFacts, CleanFacts, CopyFacts DEF CleanSteps, InPass
  <2>2. ASSUME NEW i \in Apps PROVE PodOK(i)' /\ (\A n : Below(i, n) => Below(i, n)')
    <3>1. CASE DeleteDeployment
      <4>1. /\ dep' = [dep EXCEPT ![idx] = None]
            /\ pods' = [pods EXCEPT ![idx] = None] /\ UNCHANGED cms
        BY <3>1 DEF DeleteDeployment
      <4>2. CASE i = idx
        BY <1>0, <2>1, <4>1, <4>2 DEF PodOK, Below
      <4>3. CASE i # idx
        BY <1>0, <4>1, <4>3, PodKept DEF CodeInv
      <4> QED BY <4>2, <4>3
    <3>2. CASE DeleteService \/ DeletePVC
      <4>1. UNCHANGED <<dep, pods, cms>>
        BY <3>2 DEF DeleteService, DeletePVC
      <4> QED BY <1>2, <4>1
    <3>3. CASE DeleteConfigMap
      <4>1. /\ cms' = [cms EXCEPT ![AppsCMName(idx, copy.prev)] = None]
            /\ UNCHANGED <<dep, pods>> /\ dep[idx] = None
        BY <1>0, <3>3, Calm DEF DeleteConfigMap, MountInv
      <4>2. ASSUME dep[i] # None
            PROVE  cms'[CodeName(dep[i])] = cms[CodeName(dep[i])]
        <5>1. OwnMounts(i, dep[i]) /\ i # idx
          BY <1>0, <4>1, <4>2 DEF FormInv
        <5>2. /\ CodeName(dep[i]) = AppsCMName(i, CodeVersion(dep[i]))
              /\ CodeVersion(dep[i]) \in Versions
          BY <5>1, CodeFacts
        <5>3. CodeName(dep[i]) # AppsCMName(idx, copy.prev)
          BY <2>1, <5>1, <5>2, NamesDiffer
        <5> QED BY <1>0, <4>1, <5>2, <5>3, NameFacts
      <4> QED BY <4>1, <4>2, PodKept DEF CodeInv
    <3> QED BY <1>8, <3>1, <3>2, <3>3 DEF CleanStep
  <2> QED BY <2>1, <2>2 DEF CodeInv, CleanSteps, DeploySteps
<1>9. CASE StoreApps
  <2>1. /\ UNCHANGED <<dep, pods, cms, copy, obj>> /\ pc = "store"
        /\ pc' \in {"claim", "sync"} /\ idx' = 1
    BY <1>9 DEF StoreApps, Frame, clusterVars
  <2> QED BY <1>2, <2>1 DEF CodeInv, InPass, CleanSteps, DeploySteps
<1>10. CASE LoopStep
  <2>1. /\ pc \in DeploySteps /\ UNCHANGED <<copy, obj>> /\ idx \in Apps
        /\ copy.cur \in Versions /\ copy.cur = obj.cur
        /\ InPass /\ InPass' /\ pc' \in DeploySteps \cup {"sync"}
    BY <1>0, <1>10, LoopFacts, DeployFacts, CopyFacts, ProceedFacts, NextAppFacts
       DEF DeploySteps, InPass, CodeInv
  <2>2. \/ UNCHANGED idx /\ pc' \in {"service", "ingress"}
        \/ UNCHANGED idx /\ pc \notin {"service", "ingress"}
        \/ idx' = idx + 1
    BY <1>0, <1>10, LoopFacts, ProceedFacts, NextAppFacts DEF DeploySteps
  <2>3. ASSUME NEW i \in Apps, ~(CreateOrUpdateDeployment /\ i = idx)
        PROVE  PodOK(i)' /\ (\A n : Below(i, n) => Below(i, n)')
    <3>1. dep'[i] = dep[i] /\ pods'[i] = pods[i]
      BY <1>0, <1>10, <2>3
         DEF LoopStep, CreateClaim, CreateDepYAML, CreateAppsCM,
             CreateOrUpdateDeployment, CreateOrUpdateService,
             CreateOrUpdateIngress
    <3>2. ASSUME dep[i] # None
          PROVE  cms'[CodeName(dep[i])] = cms[CodeName(dep[i])]
      <4>1. OwnMounts(i, dep[i])
        BY <1>0, <3>2 DEF FormInv
      <4>2. /\ CodeName(dep[i]) = AppsCMName(i, CodeVersion(dep[i]))
            /\ CodeVersion(dep[i]) \in Versions /\ CodeVersion(dep[i]) \in Nat
            /\ CodeName(dep[i]) \in CMNames
        BY <4>1, CodeFacts, NameFacts
      <4>3. CASE CreateDepYAML
        <5>1. CodeName(dep[i]) \notin DepYAML
          <6>1. DepYAML \subseteq {DepYAMLName(idx), DepYAMLName(0)}
            BY <1>0, <2>1, DepYAMLFacts
          <6>2. ASSUME NEW k \in Apps \cup {0} PROVE CodeName(dep[i]) # DepYAMLName(k)
            BY <2>3, <4>2, NamesDiffer
          <6> QED BY <2>1, <6>1, <6>2
        <5>2. cms' = [n \in CMNames |-> IF n \in DepYAML THEN copy.spec.SiddhiConfig
                                        ELSE cms[n]]
          BY <4>3 DEF CreateDepYAML
        <5> QED BY <4>2, <5>1, <5>2
      <4>4. CASE CreateAppsCM
        <5>1. cms' = [cms EXCEPT ![AppsCMName(idx, copy.cur)] = App.code] /\ pc = "apps"
          BY <4>4 DEF CreateAppsCM
        <5>2. CASE i = idx
          <6>1. CodeVersion(dep[i]) < copy.cur
            BY <1>0, <2>1, <3>2, <5>1, <5>2 DEF CodeInv, Below
          <6>2. CodeVersion(dep[i]) # copy.cur
            BY <1>0, <2>1, <4>2, <6>1
          <6>3. CodeName(dep[i]) # AppsCMName(idx, copy.cur)
            BY <2>1, <4>2, <6>2, NamesDiffer
          <6> QED BY <1>0, <4>2, <5>1, <6>3
        <5>3. CASE i # idx
          <6>1. CodeName(dep[i]) # AppsCMName(idx, copy.cur)
            BY <2>1, <4>2, <5>3, NamesDiffer
          <6> QED BY <1>0, <4>2, <5>1, <6>1
        <5> QED BY <5>2, <5>3
      <4>5. CASE ~CreateDepYAML /\ ~CreateAppsCM
        BY <1>0, <1>10, <4>5
           DEF LoopStep, CreateClaim, CreateOrUpdateDeployment,
               CreateOrUpdateService, CreateOrUpdateIngress
      <4> QED BY <4>3, <4>4, <4>5
    <3> QED BY <3>1, <3>2, PodKept DEF CodeInv
  <2>4. ASSUME CreateOrUpdateDeployment
        PROVE  /\ \A i \in {idx} : PodOK(i)' /\ Below(i, obj.cur + 1)'
               /\ UNCHANGED idx /\ pc' = "service"
    <3>1. /\ dep' = [dep EXCEPT ![idx] = Template] /\ UNCHANGED pods
          /\ pc = "deployment" /\ UNCHANGED idx /\ pc' = "service"
      BY <2>4, ProceedFacts DEF CreateOrUpdateDeployment
    <3>2. dep'[idx] = Template /\ Template # None
          /\ CodeVersion(Template) = copy.cur
      <4>1. Template # None /\ Template.mounts \in MountSets(idx, copy.cur)
        BY <1>0, <3>1, TemplateFacts
      <4>2. CodeName(Template)[3] = copy.cur
        BY <2>1, <4>1, CodeNameFacts
      <4> QED BY <1>0, <2>1, <3>1, <4>1, <4>2 DEF CodeVersion
    <3>3. pods[idx] # None =>
              CodeVersion(pods[idx].template) < copy.cur
      BY <1>0, <2>1, <3>1 DEF CodeInv, Below
    <3>4. pods[idx] # None => CodeVersion(pods[idx].template) \in Nat
      BY <1>0, <2>1, CodeFacts DEF FormInv
    <3>5. pods[idx] # None => pods[idx].template # Template
      BY <1>0, <2>1, <3>2, <3>3, <3>4
    <3>6. \A i \in {idx} : PodOK(i)'
      BY <3>1, <3>2, <3>5 DEF PodOK
    <3>7. \A i \in {idx} : Below(i, obj.cur + 1)'
      BY <1>0, <2>1, <3>1, <3>2, <3>3, <3>4 DEF Below
    <3> QED BY <3>1, <3>6, <3>7
  <2>5. \A i \in Apps : PodOK(i)' /\ Below(i, obj.cur + 1)'
    BY <2>1, <2>3, <2>4 DEF CodeInv
  <2>6. ASSUME NEW i \in Apps, pc' \in DeploySteps
        PROVE  \/ i < idx'
               \/ i = idx' /\ pc' \in {"service", "ingress"}
               \/ Below(i, copy.cur)'
    <3>1. \/ i < idx \/ (i = idx /\ pc \in {"service", "ingress"}) \/ Below(i, copy.cur)
      BY <2>1 DEF CodeInv
    <3>2. CASE CreateOrUpdateDeployment /\ i = idx
      BY <2>4, <3>2
    <3>3. CASE ~(CreateOrUpdateDeployment /\ i = idx)
      <4>1. Below(i, copy.cur) => Below(i, copy.cur)'
        BY <2>1, <2>3, <3>3
      <4> QED BY <1>0, <2>1, <2>2, <3>1, <4>1
    <3> QED BY <3>2, <3>3
  <2> QED BY <2>1, <2>5, <2>6 DEF CodeInv, CleanSteps, DeploySteps
<1>11. CASE SyncVersion
  <2>1. /\ UNCHANGED <<dep, pods, cms>> /\ pc = "sync" /\ pc' = "idle"
        /\ obj' = Synced(copy) \/ UNCHANGED obj
        /\ copy \in Objects
    BY <1>0, <1>11, CopyFacts DEF SyncVersion, clusterVars
  <2>2. obj'.cur = obj.cur
    BY <1>0, <2>1, CopyFacts DEF Synced, Objects, CodeInv, InPass
  <2> QED BY <1>2, <2>1, <2>2 DEF CodeInv, InPass, CleanSteps, DeploySteps
<1> QED BY <1>0, <1>3, <1>4, <1>5, <1>6, <1>7, <1>8, <1>9, <1>10, <1>11
        DEF Next, Worker, CleanStep, LoopStep

LEMMA OvertakenStays ==
    ASSUME TypeOK, [Next]_vars, ~overtaken'
    PROVE  ~overtaken
BY CleanStepFacts, LoopFacts, WorkerSteps
   DEF UserUpdate, Stop, Restart, BeginPass, SetStateAndParse, CleanFails,
       StoreApps, Frame, SyncVersion

\* Pods never run old code behind a new template, for every sequence of
\* updates, as long as no call failed and no update came between the read
\* of a pass and its first status write.
THEOREM PodsUpToDate == Spec => []PodsRunCurrentApp
<1>1. Init => TypeInv /\ MountInv /\ PassInv /\ PodsInv
  <2>1. Init => MountInv
    BY DEF Init, MountInv, MountsExist
  <2>2. Init => CodeInv
    BY DEF Init, CodeInv, PodOK, Below, InPass, CleanSteps, DeploySteps
  <2> QED BY <2>1, <2>2, InitTypes, InitPass DEF PodsInv
<1>2. TypeInv /\ MountInv /\ PassInv /\ PodsInv /\ [Next]_vars
          => (TypeInv /\ MountInv /\ PassInv /\ PodsInv)'
  <2> SUFFICES ASSUME TypeInv, MountInv, PassInv, PodsInv, [Next]_vars
               PROVE  PodsInv'
    BY NextTypes, NextMounts, NextPass
  <2>1. ASSUME Undisturbed', ~overtaken' PROVE CodeInv'
    <3>1. Undisturbed /\ ~overtaken
      BY <2>1, Calm, OvertakenStays DEF TypeInv
    <3>2. OrderInv /\ ExtentInv /\ CodeInv
      BY <3>1 DEF PassInv, PodsInv
    <3> QED BY <2>1, <3>2, CodeStep
  <2> QED BY <2>1 DEF PodsInv
<1>3. TypeInv /\ PassInv /\ PodsInv => PodsRunCurrentApp
  <2> SUFFICES ASSUME TypeInv, PassInv, PodsInv, PassComplete, ~overtaken,
                      NEW i \in DOMAIN SPContainer,
                      pods[i] # None, pods[i].template = dep[i]
               PROVE  pods[i].code = SPContainer[i].code
    BY DEF PodsRunCurrentApp
  <2>1. Undisturbed /\ SPContainer \in AppLists
    BY DEF PassComplete, TypeInv, TypeOK, ObjectTypes
  <2>2. i \in Apps
    BY <2>1, ListFacts
  <2>3. CodeOf(dep[i]) = SPContainer[i].code
    BY <2>1 DEF PassInv, Converged
  <2> QED BY <2>1, <2>2, <2>3 DEF PodsInv, CodeInv, PodOK
<1> QED BY <1>1, <1>2, <1>3, PTL DEF Spec
===========================================================================
