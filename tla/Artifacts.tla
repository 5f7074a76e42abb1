----------------------------- MODULE Artifacts -----------------------------
(***************************************************************************)
(* What one pass of Reconcile does to the cluster, call by call: the       *)
(* claims, config maps, deployments, services and the ingress that         *)
(* CleanArtifacts, Deploy and CreateArtifacts delete and write for the     *)
(* applications of one SiddhiProcess, and the pods that run from them.     *)
(*                                                                         *)
(* Module SiddhiOperator has the informer, the predicates, the queue and   *)
(* the error returns in detail and sees a deployment as one write; here    *)
(* the writes are detailed and an event is delivered with the step that    *)
(* causes it.  Application i of a list is the one the code numbers i - 1.  *)
(***************************************************************************)
EXTENDS Integers, Sequences, SequencesExt

CONSTANTS
    None,             \* "nil" or "not found"
    Specs,            \* the specs the user may write
    OperatorConfigs,  \* contents of the operator's own ConfigMap
    InitialIngress,   \* the Ingress "siddhi" before the first pass
    SiddhiImage,      \* the default image
    HealthPort,       \* the port that every container opens
    MaxApps,          \* longest application list
    MaxUpdates,       \* spec updates by the user
    MaxEvents         \* updates, edits of the operator's ConfigMap, failed API
                      \* calls, skipped deletions and restarts, together

Apps == 1 .. MaxApps
Versions == 0 .. MaxUpdates

\* Names of config maps: the one with the code of an application (its name
\* followed by the version), and the "-depyml" ones with the configuration,
\* of one application or of the whole process.
CMNames == ({"apps"} \X Apps \X Versions) \cup ({"depyml"} \X (Apps \cup {0}))

ASSUME BoundsAssumption ==
    {MaxApps, MaxUpdates, MaxEvents} \subseteq Nat

\* Parse lists a port once.
PortLists == {p \in Seq(Nat) : IsInjective(p)}
Application == [code : STRING, ports : PortLists, persistent : BOOLEAN]
AppLists == {l \in Seq(Application) : Len(l) \in Apps}

Configs == {"empty", "yaml", "malformed"}

\* The parser's answers to a spec: more than one when the apps come from a
\* ConfigMap, whose entries getSiddhiApps visits in the order of a Go map.
ASSUME SpecsAssumption ==
    \A s \in Specs :
        /\ s.answers # {} /\ s.answers \subseteq AppLists
        /\ s.PVC \in {"empty", "granted", "restricted"}
        /\ s.SiddhiConfig \in Configs
        /\ s.Image \in STRING

ASSUME DefaultsAssumption ==
    /\ SiddhiImage \in STRING /\ HealthPort \in Nat
    /\ \A c \in OperatorConfigs : \A key \in DOMAIN c : c[key] \in STRING

Objects == [spec : Specs, cur : Versions, prev : Versions]
Contents == STRING \cup Configs  \* of a config map
Templates == [image : STRING, ports : Seq(Nat), mounts : SUBSET CMNames,
              claim : Apps \cup {None}]
Pods == [template : Templates, code : Contents]

\* A path leads to a port of the service of an application, or of another
\* process.
Paths == Nat \X Nat
IngressRules == [host : STRING, paths : Seq(Paths)]
Ingresses == [tls : STRING, rules : Seq(IngressRules)]

ASSUME IngressAssumption == InitialIngress \subseteq Ingresses \cup {None}

\* Always true: the provers do not know that a literal is a string.
ASSUME LiteralsAssumption == "" \in STRING /\ "siddhi" \in STRING

ASSUME NoneAssumption ==
    /\ None \notin Contents /\ None \notin Apps /\ None \notin Seq(Nat)
    /\ None \notin AppLists /\ None \notin Objects
    /\ None \notin Templates /\ None \notin Pods /\ None \notin Ingresses

VARIABLES
    obj,          \* the object in the API server: spec and the two versions
    cached,       \* the versions in the operator's cache
    todo,         \* the cached event type is not Timer
    SPContainer,  \* the application list, or None
    opcm,         \* the operator's own ConfigMap
    cms,          \* the config maps
    claims,       \* applications with a PersistentVolumeClaim
    dep,          \* pod templates of the deployments
    svc,          \* ports of the services
    ingress,      \* the Ingress, shared with other processes
    pods,         \* template that the pods were started from, and their code
    pc, idx,      \* step of the worker, and the application it is at
    copy, fresh,  \* its copy of the object; whether its writes are accepted
    env,          \* image, ingress and TLS settings of this pass
    apps, oldLen, \* the new list; length of the old one
    overtaken,    \* an update came between a pass's read and first write
    stray,        \* deployments left behind by a deletion that was skipped
    count         \* what the environment has spent of its bounds

objectVars == <<obj, cached, todo>>
clusterVars == <<cms, claims, dep, stray, svc, ingress, pods>>
workerVars == <<pc, idx, copy, fresh, env, apps, oldLen>>
vars == <<objectVars, SPContainer, opcm, clusterVars, workerVars, overtaken,
          count>>

Counters == {"updates", "edits", "disturbances"}

CleanSteps == {"rmDeployment", "rmService", "rmClaim", "rmConfigMap"}
DeploySteps == {"claim", "depyml", "apps", "deployment", "service", "ingress"}

ObjectTypes ==
    /\ obj \in Objects
    /\ cached \in [cur : Versions, prev : Versions] /\ todo \in BOOLEAN
    /\ SPContainer \in AppLists \cup {None}
    /\ opcm \in OperatorConfigs

ClusterTypes ==
    /\ cms \in [CMNames -> Contents \cup {None}]
    /\ claims \subseteq Apps
    /\ dep \in [Apps -> Templates \cup {None}] /\ stray \subseteq Apps
    /\ svc \in [Apps -> Seq(Nat) \cup {None}]
    /\ pods \in [Apps -> Pods \cup {None}]

IngressTypes ==
    /\ ingress \in Ingresses \cup {None}
    /\ pc \notin {"down", "idle"} => env.TLS \in STRING

\* A step of a pass has the copy and the settings of the pass, and after
\* populateSiddhiApps its list; a loop stays within the list it is about.
WorkerTypes ==
    /\ pc \in {"down", "idle", "state", "store", "sync"}
              \cup CleanSteps \cup DeploySteps
    /\ copy \in Objects \cup {None} /\ fresh \in BOOLEAN
    /\ pc \notin {"down", "idle"} =>
           copy # None /\ env.image \in STRING /\ env.AutoCreateIngress \in BOOLEAN
    /\ pc \notin {"down", "idle", "state"} => apps \in AppLists
    /\ oldLen \in 0 .. MaxApps
    /\ pc \in CleanSteps => idx \in Len(apps) + 1 .. oldLen
    /\ pc \in DeploySteps => idx \in 1 .. Len(apps)
    /\ overtaken \in BOOLEAN

TypeOK ==
    /\ ObjectTypes /\ ClusterTypes /\ IngressTypes /\ WorkerTypes
    /\ count \in [Counters -> Nat]

Init ==
    /\ \E s \in Specs : obj = [spec |-> s, cur |-> 0, prev |-> 0]
    /\ cached = [cur |-> 0, prev |-> 0] /\ todo = TRUE
    /\ SPContainer = None
    /\ opcm \in OperatorConfigs
    /\ cms = [n \in CMNames |-> None] /\ claims = {}
    /\ dep = [i \in Apps |-> None] /\ stray = {} /\ svc = [i \in Apps |-> None]
    /\ ingress \in InitialIngress
    /\ pods = [i \in Apps |-> None]
    /\ pc = "idle" /\ idx = 0 /\ copy = None /\ fresh = FALSE
    /\ env = None /\ apps = <<>> /\ oldLen = 0
    /\ overtaken = FALSE
    /\ count = [c \in Counters |-> 0]

Spend(c) ==
    /\ count["updates"] + count["edits"] + count["disturbances"] < MaxEvents
    /\ count' = [count EXCEPT ![c] = @ + 1]

---------------------------------------------------------------------------
(* The user, the operator's process and the pods.                          *)

\* UpdateFunc counts from the version in the API server, not from the
\* cached one.  Nobody counts while the operator is down.
UserUpdate(s) ==
    /\ s # obj.spec
    /\ count["updates"] < MaxUpdates /\ Spend("updates")
    /\ obj' = [obj EXCEPT !.spec = s]
    /\ IF pc = "down" THEN UNCHANGED <<cached, todo>>
       ELSE /\ cached' = [cur |-> obj.cur + 1, prev |-> obj.prev]
            /\ todo' = TRUE
    /\ fresh' = FALSE
    /\ UNCHANGED <<SPContainer, opcm, clusterVars, pc, idx, copy, env, apps,
                   oldLen, overtaken>>

\* Nobody listens to the operator's own ConfigMap, which a pass reads at its
\* start: an edit during a pass is one after it.
EditOperatorConfig(c) ==
    /\ pc \in {"down", "idle"}
    /\ c # opcm
    /\ Spend("edits")
    /\ opcm' = c
    /\ UNCHANGED <<objectVars, SPContainer, clusterVars, workerVars, overtaken>>

Forget ==
    /\ idx' = 0 /\ copy' = None /\ fresh' = FALSE /\ env' = None
    /\ apps' = <<>> /\ oldLen' = 0

Stop ==
    /\ pc # "down"
    /\ Spend("disturbances")
    /\ pc' = "down" /\ Forget
    /\ SPContainer' = None
    /\ UNCHANGED <<objectVars, opcm, clusterVars, overtaken>>

\* The informer lists the object and CreateFunc resets its versions.
Restart ==
    /\ pc = "down"
    /\ pc' = "idle"
    /\ cached' = [cur |-> 0, prev |-> 0] /\ todo' = TRUE
    /\ UNCHANGED <<obj, SPContainer, opcm, clusterVars, idx, copy, fresh, env,
                   apps, oldLen, overtaken, count>>

Mountable(t) ==
    /\ \A n \in t.mounts : cms[n] # None
    /\ t.claim # None => t.claim \in claims

CodeOf(t) == cms[CHOOSE n \in t.mounts : n[1] = "apps"]

\* The deployment controller replaces the pods of a changed template.
RollOut(i) ==
    /\ dep[i] # None
    /\ pods[i] # None => pods[i].template # dep[i]
    /\ Mountable(dep[i])
    /\ pods' = [pods EXCEPT ![i] = [template |-> dep[i], code |-> CodeOf(dep[i])]]
    /\ UNCHANGED <<objectVars, SPContainer, opcm, cms, claims, dep, stray, svc,
                   ingress, workerVars, overtaken, count>>

\* A pod starts again and reads its files as they are now.
PodRestart(i) ==
    /\ pods[i] # None
    /\ Mountable(pods[i].template)
    /\ pods[i].code # CodeOf(pods[i].template)
    /\ pods' = [pods EXCEPT ![i].code = CodeOf(pods[i].template)]
    /\ UNCHANGED <<objectVars, SPContainer, opcm, cms, claims, dep, stray, svc,
                   ingress, workerVars, overtaken, count>>

---------------------------------------------------------------------------
(* A pass: the object, the settings and the application list.              *)

\* A key of the operator's ConfigMap, where it is set.
Setting(key, default) == IF key \in DOMAIN opcm THEN opcm[key] ELSE default

UpdateDefaultConfigs(spec) ==
    [image |-> IF spec.Image # "" THEN spec.Image
               ELSE Setting("siddhiImage", SiddhiImage),
     AutoCreateIngress |-> Setting("autoIngressCreation", "true") = "true",
     TLS |-> Setting("ingressTLS", "")]

\* Mutant of Due: an update is taken for a timer event.
DueOnce == SPContainer = None

\* The timer branch, which writes no artifact, is not taken.
Due == todo \/ SPContainer = None

BeginPass ==
    /\ pc = "idle"
    /\ Due
    /\ copy' = [spec |-> obj.spec, cur |-> cached.cur, prev |-> cached.prev]
    /\ fresh' = TRUE
    /\ env' = UpdateDefaultConfigs(obj.spec)
    /\ pc' = "state"
    /\ UNCHANGED <<objectVars, SPContainer, opcm, clusterVars, idx, apps, oldLen,
                   overtaken, count>>

modified == copy.cur > copy.prev

\* Mutant of FirstToClean: off by one.
FirstToCleanSkips(list) == Len(list) + 2

FirstToClean(list) == Len(list) + 1

\* The first status write of the pass, whose event comes back as Timer, and
\* populateSiddhiApps with an answer of the parser.
SetStateAndParse ==
    /\ pc = "state"
    /\ IF fresh
       THEN /\ obj' = copy
            /\ cached' = [cur |-> copy.cur, prev |-> copy.prev]
            /\ todo' = FALSE
            /\ UNCHANGED overtaken
       ELSE overtaken' = TRUE /\ UNCHANGED objectVars
    /\ apps' \in IF modified \/ SPContainer = None
                 THEN copy.spec.answers ELSE {SPContainer}
    /\ oldLen' = IF SPContainer = None THEN 0 ELSE Len(SPContainer)
    /\ idx' = FirstToClean(apps')
    /\ pc' = IF modified /\ idx' <= oldLen' THEN "rmDeployment" ELSE "store"
    /\ UNCHANGED <<SPContainer, opcm, clusterVars, copy, fresh, env, count>>

---------------------------------------------------------------------------
(* CleanArtifacts: four deletions for each application that is gone.       *)

\* What every step of the worker leaves alone.
Frame == UNCHANGED <<obj, cached, todo, opcm, copy, fresh, env, apps, oldLen,
                     overtaken>>

\* The pods go with their deployment.
DeleteDeployment ==
    /\ pc = "rmDeployment"
    /\ dep' = [dep EXCEPT ![idx] = None]
    /\ pods' = [pods EXCEPT ![idx] = None]
    /\ stray' = stray \ {idx}
    /\ pc' = "rmService"
    /\ Frame /\ UNCHANGED <<SPContainer, cms, claims, svc, ingress, idx, count>>

DeleteService ==
    /\ pc = "rmService"
    /\ svc' = [svc EXCEPT ![idx] = None]
    /\ pc' = "rmClaim"
    /\ Frame
    /\ UNCHANGED <<SPContainer, cms, claims, dep, stray, ingress, pods, idx, count>>

DeletePVC ==
    /\ pc = "rmClaim"
    /\ claims' = claims \ {idx}
    /\ pc' = "rmConfigMap"
    /\ Frame
    /\ UNCHANGED <<SPContainer, cms, dep, stray, svc, ingress, pods, idx, count>>

\* Mutant of AppsCMName: the version is not part of the name.
AppsCMNameFixed(i, version) == <<"apps", i, 0>>

AppsCMName(i, version) == <<"apps", i, version>>

DeleteConfigMap ==
    /\ pc = "rmConfigMap"
    /\ cms' = [cms EXCEPT ![AppsCMName(idx, copy.prev)] = None]
    /\ idx' = idx + 1
    /\ pc' = IF idx' <= oldLen THEN "rmDeployment" ELSE "store"
    /\ Frame
    /\ UNCHANGED <<SPContainer, claims, dep, stray, svc, ingress, pods, count>>

\* The Get that opens each of the four fails or does not find the object in
\* the cache: nothing is deleted, no error is returned, the loop goes on.
DeletionSkipped ==
    /\ pc \in CleanSteps
    /\ Spend("disturbances")
    /\ stray' = IF pc = "rmDeployment" THEN stray \cup {idx} ELSE stray
    /\ idx' = IF pc = "rmConfigMap" THEN idx + 1 ELSE idx
    /\ pc' = CASE pc = "rmDeployment" -> "rmService"
               [] pc = "rmService" -> "rmClaim"
               [] pc = "rmClaim" -> "rmConfigMap"
               [] OTHER -> IF idx' <= oldLen THEN "rmDeployment" ELSE "store"
    /\ Frame /\ UNCHANGED <<SPContainer, cms, claims, dep, svc, ingress, pods>>

\* The first Delete that fails ends the pass.  The retry finds the event
\* type Timer and a list, and does nothing here.
CleanFails ==
    /\ pc \in CleanSteps
    /\ Spend("disturbances")
    /\ pc' = "idle" /\ Forget
    /\ UNCHANGED <<objectVars, SPContainer, opcm, clusterVars, overtaken>>

---------------------------------------------------------------------------
(* CreateArtifacts and Deploy.                                             *)

\* CreateArtifacts writes nothing when the event type is "none".
StoreApps ==
    /\ pc = "store"
    /\ SPContainer' = apps
    /\ idx' = 1
    /\ pc' = IF copy.cur = 0 \/ modified THEN "claim" ELSE "sync"
    /\ Frame /\ UNCHANGED <<clusterVars, count>>

App == apps[idx]

\* Mutant of After: the deployment is written before its config map.
AfterSwapped(step) ==
    CASE step = "claim" -> "depyml" [] step = "depyml" -> "deployment"
      [] step = "deployment" -> "apps" [] step = "apps" -> "service"
      [] step = "service" -> "ingress"

\* The order of the writes for one application.
After(step) ==
    CASE step = "claim" -> "depyml" [] step = "depyml" -> "apps"
      [] step = "apps" -> "deployment" [] step = "deployment" -> "service"
      [] step = "service" -> "ingress"

\* On to the next write, or to the next application.
Proceed == pc' = After(pc) /\ UNCHANGED idx

NextApp ==
    /\ idx' = idx + 1
    /\ pc' = IF idx < Len(apps) THEN "claim" ELSE "sync"

UsesClaim == App.persistent /\ copy.spec.PVC # "empty"

\* CreateOrUpdatePVC, which looks at the access modes only when it creates
\* the claim, and populateMountPath, which reads the configuration.
CreateClaim ==
    /\ pc = "claim"
    /\ claims' = IF UsesClaim /\ copy.spec.PVC = "granted"
                 THEN claims \cup {idx} ELSE claims
    /\ IF UsesClaim /\ (idx \notin claims' \/ copy.spec.SiddhiConfig = "malformed")
       THEN NextApp ELSE Proceed
    /\ Frame /\ UNCHANGED <<SPContainer, cms, dep, stray, svc, ingress, pods, count>>

\* The config map with the configuration, if there is one: a stateful
\* application has its own, with a default, the stateless ones share one.
DepYAML ==
    IF App.persistent THEN {<<"depyml", idx>>}
    ELSE IF copy.spec.SiddhiConfig # "empty" THEN {<<"depyml", 0>>}
    ELSE {}

CreateDepYAML ==
    /\ pc = "depyml"
    /\ cms' = [n \in CMNames |-> IF n \in DepYAML THEN copy.spec.SiddhiConfig
                                 ELSE cms[n]]
    /\ Proceed
    /\ Frame
    /\ UNCHANGED <<SPContainer, claims, dep, stray, svc, ingress, pods, count>>

CreateAppsCM ==
    /\ pc = "apps"
    /\ cms' = [cms EXCEPT ![AppsCMName(idx, copy.cur)] = App.code]
    /\ Proceed
    /\ Frame
    /\ UNCHANGED <<SPContainer, claims, dep, stray, svc, ingress, pods, count>>

\* The pod template that CreateOrUpdateDeployment creates or assigns.
Template ==
    [image |-> env.image,
     ports |-> Append(App.ports, HealthPort),
     mounts |-> DepYAML \cup {AppsCMName(idx, copy.cur)},
     claim |-> IF UsesClaim THEN idx ELSE None]

CreateOrUpdateDeployment ==
    /\ pc = "deployment"
    /\ dep' = [dep EXCEPT ![idx] = Template]
    /\ stray' = stray \ {idx}
    /\ Proceed
    /\ Frame
    /\ UNCHANGED <<SPContainer, cms, claims, svc, ingress, pods, count>>

\* Deploy drops the error of CreateOrUpdateDeployment.
DeploymentFails ==
    /\ pc = "deployment"
    /\ Spend("disturbances")
    /\ Proceed
    /\ Frame /\ UNCHANGED <<SPContainer, clusterVars>>

ServiceEnabled == App.ports # <<>>

CreateOrUpdateService ==
    /\ pc = "service"
    /\ IF ServiceEnabled
       THEN /\ svc' = [svc EXCEPT ![idx] = App.ports]
            /\ IF env.AutoCreateIngress THEN Proceed ELSE NextApp
       ELSE NextApp /\ UNCHANGED svc
    /\ Frame
    /\ UNCHANGED <<SPContainer, cms, claims, dep, stray, ingress, pods, count>>

IngressName == "siddhi"

ingressPaths == [k \in DOMAIN App.ports |-> <<idx, App.ports[k]>>]

\* Mutant of pathContains: only the service is compared.
pathContainsService(paths, path) == \E k \in DOMAIN paths : paths[k][1] = path[1]

pathContains(paths, path) == \E k \in DOMAIN paths : paths[k] = path

AddPath(paths, path) ==
    IF pathContains(paths, path) THEN paths ELSE Append(paths, path)

\* Mutant of MergeRules: the paths of the rule are replaced.
MergeRulesReplace(rules, paths) ==
    SelectSeq(rules, LAMBDA r : r.host # IngressName)
        \o <<[host |-> IngressName, paths |-> paths]>>

\* IngressMutateFunc: the paths are added to the rule of the host "siddhi",
\* every other rule stays as it is.
MergeRules(rules, paths) ==
    IF \E k \in DOMAIN rules : rules[k].host = IngressName
    THEN [k \in DOMAIN rules |->
             IF rules[k].host = IngressName
             THEN [rules[k] EXCEPT !.paths = FoldLeft(AddPath, @, paths)]
             ELSE rules[k]]
    ELSE Append(rules, [host |-> IngressName, paths |-> paths])

CreateOrUpdateIngress ==
    /\ pc = "ingress"
    /\ ingress' = [tls |-> env.TLS,
                   rules |-> MergeRules(IF ingress = None THEN <<>>
                                        ELSE ingress.rules, ingressPaths)]
    /\ NextApp
    /\ Frame
    /\ UNCHANGED <<SPContainer, cms, claims, dep, stray, svc, pods, count>>

\* Any other write fails: Error status, and on to the next application.
WriteFails ==
    /\ \/ pc = "claim" /\ UsesClaim /\ idx \notin claims
       \/ pc = "depyml" /\ DepYAML # {}
       \/ pc = "service" /\ ServiceEnabled
       \/ pc \in {"apps", "ingress"}
    /\ Spend("disturbances")
    /\ NextApp
    /\ Frame /\ UNCHANGED <<SPContainer, clusterVars>>

\* Mutant of Synced: off by one.
SyncedBehind(o) == [o EXCEPT !.prev = o.cur - 1]

Synced(o) == [o EXCEPT !.prev = o.cur]

\* SyncVersion, also after errors; the end of the pass.
SyncVersion ==
    /\ pc = "sync"
    /\ IF fresh
       THEN /\ obj' = Synced(copy)
            /\ cached' = [cur |-> obj'.cur, prev |-> obj'.prev]
       ELSE UNCHANGED <<obj, cached>>
    /\ pc' = "idle" /\ Forget
    /\ UNCHANGED <<todo, SPContainer, opcm, clusterVars, overtaken, count>>

---------------------------------------------------------------------------
Worker ==
    \/ BeginPass \/ SetStateAndParse
    \/ DeleteDeployment \/ DeleteService \/ DeletePVC \/ DeleteConfigMap
    \/ DeletionSkipped \/ CleanFails \/ StoreApps
    \/ CreateClaim \/ CreateDepYAML \/ CreateAppsCM
    \/ CreateOrUpdateDeployment \/ DeploymentFails
    \/ CreateOrUpdateService \/ CreateOrUpdateIngress \/ WriteFails
    \/ SyncVersion

Next ==
    \/ \E s \in Specs : UserUpdate(s)
    \/ \E c \in OperatorConfigs : EditOperatorConfig(c)
    \/ Stop \/ Restart
    \/ \E i \in Apps : RollOut(i) \/ PodRestart(i)
    \/ Worker

Spec == Init /\ [][Next]_vars

\* The operator comes back and its worker goes on; the deployment controller
\* acts on what it can.  Pods need not crash.
FairSpec ==
    /\ Spec
    /\ WF_vars(Worker) /\ WF_vars(Restart)
    /\ \A i \in Apps : WF_vars(RollOut(i))

---------------------------------------------------------------------------
(* Properties.                                                             *)

\* Deploy returns no error of its own.
Deployable(s) ==
    \/ s.PVC = "empty"
    \/ s.PVC = "granted" /\ s.SiddhiConfig # "malformed"

Undisturbed == count["disturbances"] = 0

\* The last pass is over, has seen the current spec, and had no failed call
\* and no skipped deletion.
PassComplete ==
    /\ pc = "idle" /\ ~todo /\ SPContainer # None
    /\ Undisturbed
    /\ Deployable(obj.spec)

\* A pod can start again: whatever call fails, whenever the operator stops,
\* every config map and claim that a deployment mounts exists, because
\* Deploy writes them first and CleanArtifacts deletes them last.  The one
\* exception is a deployment whose own deletion was skipped: CleanArtifacts
\* goes on to its claim and config map, and it stays without them until
\* Deploy writes it again.
MountsExist ==
    \A i \in Apps \ stray : dep[i] # None => Mountable(dep[i])

\* After a pass the cluster has what the new list needs: a deployment with
\* the code and the ports of each application, a service where there are
\* ports, one image for all; and of the applications that the list no
\* longer has, no deployment, service or claim is left.
Converged ==
    PassComplete =>
        /\ SPContainer \in obj.spec.answers
        /\ \A i \in DOMAIN SPContainer :
               /\ dep[i] # None
               /\ CodeOf(dep[i]) = SPContainer[i].code
               /\ dep[i].ports = Append(SPContainer[i].ports, HealthPort)
               /\ dep[i].image = dep[1].image
               /\ SPContainer[i].ports # <<>> => svc[i] = SPContainer[i].ports
        /\ obj.spec.Image # "" => dep[1].image = obj.spec.Image
        /\ \A i \in Apps \ DOMAIN SPContainer :
               dep[i] = None /\ svc[i] = None /\ i \notin claims

\* Pods never run old code behind a new template: once the deployment
\* controller has nothing left to do after a pass, the pods run the code of
\* the current list.  It rests on a new version, and so a new config map
\* name, for each spec.  An update that comes between the read of a pass
\* and its first status write makes the next pass use the version again.
PodsRunCurrentApp ==
    (PassComplete /\ ~overtaken) =>
        \A i \in DOMAIN SPContainer :
            (pods[i] # None /\ pods[i].template = dep[i])
                => pods[i].code = SPContainer[i].code

Rules == IF ingress = None THEN <<>> ELSE ingress.rules

\* The Ingress is shared: no write of this process takes a path from it,
\* its own or another's, changes the rule of another host, or adds a path
\* that is already there.
IngressKept ==
    [][ /\ Len(Rules') >= Len(Rules)
        /\ \A k \in DOMAIN Rules :
               /\ IsPrefix(Rules[k].paths, Rules'[k].paths)
               /\ Rules[k].host # IngressName => Rules'[k] = Rules[k]
        /\ \A k \in DOMAIN Rules' :
               (k \in DOMAIN Rules => IsInjective(Rules[k].paths))
                   => IsInjective(Rules'[k].paths)
      ]_vars

\* With automatic ingress creation, every port of every application can be
\* reached through the Ingress after a pass.
IngressComplete ==
    (PassComplete /\ count["edits"] = 0
        /\ Setting("autoIngressCreation", "true") = "true")
        => \A i \in DOMAIN SPContainer :
               \A p \in Range(SPContainer[i].ports) :
                   \E r \in Range(Rules) : /\ r.host = IngressName
                                           /\ <<i, p>> \in Range(r.paths)

PodsRun(list) ==
    \A i \in DOMAIN list : pods[i] # None /\ pods[i].code = list[i].code

\* An update reaches the pods: if nothing fails and no update overtakes a
\* pass, the pods end up running the applications of the user's last spec.
UpdateRolledOut ==
    <>[](\/ overtaken \/ ~Undisturbed \/ ~Deployable(obj.spec)
         \/ \E l \in obj.spec.answers : PodsRun(l))

\* "When user change stateful siddhi process to stateless the unwanted
\* artifacts will be deleted": after a pass for a list without stateful
\* applications, no claim and no configuration of one is left.
UnwantedDeleted ==
    (PassComplete /\ ~\E i \in DOMAIN SPContainer : SPContainer[i].persistent)
        => /\ claims = {}
           /\ \A i \in Apps : cms[<<"depyml", i>>] = None
===========================================================================
