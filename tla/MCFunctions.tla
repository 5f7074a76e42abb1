---------------------------- MODULE MCFunctions ----------------------------
(***************************************************************************)
(* TLC instances of the pure parts of the operator, each evaluated in      *)
(* every state that its inputs reach: the verdict of Availability while    *)
(* deployments appear, disappear, gain and lose replicas; Equals of        *)
(* SpecEquality while a user edits a spec part by part and the operator    *)
(* observes it; the conversions of ParserOutput while the parser's answer  *)
(* and the version grow.  One behaviour exercises one part.                *)
(***************************************************************************)
EXTENDS Integers, Sequences, Availability, SpecEquality

CONSTANTS
    MaxApps,        \* applications of the process
    MaxReplicas,    \* replicas an application asks for
    Surge,          \* available replicas beyond the wanted ones
    MaxLength,      \* of the lists in a spec
    MaxEdits,       \* edits of the user
    Base,           \* of the numerals in names
    MaxSources,     \* sources in an answer of the parser
    MaxAppConfigs,  \* apps in an answer of the parser
    MaxVersion      \* of a process

ASSUME BoundsAssumption ==
    /\ MaxApps \in Nat /\ MaxReplicas \in Nat /\ MaxLength \in Nat
    /\ Base \in Nat /\ Base > 1 /\ MaxVersion \in Nat

P == INSTANCE ParserOutput

VARIABLES
    part,               \* the part that this behaviour exercises
    apps, found, avail, \* the deployments of one process
    old, new, edits,    \* the observed and the current spec
    answer,             \* the parser's answer
    number, version     \* of an application and of the process

deploymentVars == <<apps, found, avail>>
specVars == <<old, new, edits>>
nameVars == <<number, version>>
vars == <<part, deploymentVars, specVars, answer, nameVars>>

Lists(S) == UNION {[1 .. n -> S] : n \in 0 .. MaxLength}

EnvVars == [name : {"A", "B"}, value : {"1", "2"}]

SpecOf(a, e) ==
    [apps |-> a, config |-> "", container |-> [image |-> "i1", env |-> e],
     messaging |-> [type |-> "nats", clusterID |-> "",
                    servers |-> <<"n1", "n2">>],
     pvc |-> [volumeMode |-> "nil", storageClass |-> "nil",
              resources |-> "1Gi", accessModes |-> <<"RWO">>],
     secret |-> ""]

Init ==
    /\ found = {} /\ edits = 0 /\ answer = <<>> /\ number = 0 /\ version = 0
    /\ \/ /\ part = "availability"
          /\ apps \in UNION {[1 .. n -> [replicas : 0 .. MaxReplicas,
                                         persistent : BOOLEAN]]
                                : n \in 0 .. MaxApps}
          /\ old = SpecOf(<<>>, <<>>)
       \/ /\ part = "equality"
          /\ apps = <<>>
          /\ \E a \in Lists({"a", "b"}), e \in Lists(EnvVars) :
                 old = SpecOf(a, e)
       \/ /\ part \in {"parser", "names"}
          /\ apps = <<>> /\ old = SpecOf(<<>>, <<>>)
    /\ avail = [i \in DOMAIN apps |-> 0]
    /\ new = old

---------------------------------------------------------------------------
DeploymentCreated(i) ==
    /\ i \notin found
    /\ found' = found \cup {i}
    /\ UNCHANGED avail

DeploymentDeleted(i) ==
    /\ i \in found
    /\ found' = found \ {i}
    /\ avail' = [avail EXCEPT ![i] = 0]

ReplicaUp(i) ==
    /\ i \in found
    /\ avail[i] < apps[i].replicas + Surge
    /\ avail' = [avail EXCEPT ![i] = @ + 1]
    /\ UNCHANGED found

ReplicaDown(i) ==
    /\ i \in found
    /\ avail[i] > 0
    /\ avail' = [avail EXCEPT ![i] = @ - 1]
    /\ UNCHANGED found

ClusterChanges ==
    /\ part = "availability"
    /\ \E i \in DOMAIN apps : \/ DeploymentCreated(i) \/ DeploymentDeleted(i)
                              \/ ReplicaUp(i) \/ ReplicaDown(i)
    /\ UNCHANGED <<part, apps, specVars, answer, nameVars>>

---------------------------------------------------------------------------
Containers == [image : {"i1", "i2"}, env : Lists(EnvVars)]

MessagingSystems ==
    [type : {"", "nats"}, clusterID : {"", "c1"}, servers : Lists({"n1", "n2"})]

Claims == [volumeMode : {"nil", "Block"}, storageClass : {"nil"},
           resources : {"1Gi"}, accessModes : Lists({"RWO", "RWX"})]

Edited(spec) ==
    /\ edits < MaxEdits
    /\ spec # new
    /\ new' = spec
    /\ edits' = edits + 1
    /\ UNCHANGED old

EditApps == \E a \in Lists({"a", "b"}) : Edited([new EXCEPT !.apps = a])
EditConfig == \E c \in {"", "c1"} : Edited([new EXCEPT !.config = c])
EditContainer == \E c \in Containers : Edited([new EXCEPT !.container = c])
EditMessaging == \E m \in MessagingSystems : Edited([new EXCEPT !.messaging = m])
EditPVC == \E c \in Claims : Edited([new EXCEPT !.pvc = c])
EditSecret == \E s \in {"", "s1"} : Edited([new EXCEPT !.secret = s])

\* The update event reaches the predicate: new becomes the cached spec.
Observe ==
    /\ old # new
    /\ old' = new
    /\ UNCHANGED <<new, edits>>

SpecChanges ==
    /\ part = "equality"
    /\ \/ EditApps \/ EditConfig \/ EditContainer \/ EditMessaging
       \/ EditPVC \/ EditSecret \/ Observe
    /\ UNCHANGED <<part, deploymentVars, answer, nameVars>>

---------------------------------------------------------------------------
Sources == [port : {8080, 9443}, protocol : {"TCP", "UDP"}, pulling : BOOLEAN]

AddAppConfig(name) ==
    /\ Len(answer) < MaxAppConfigs
    /\ answer' = Append(answer, [name |-> name, sources |-> <<>>])

SourcesIn(list) == UNION {{i} \X DOMAIN list[i].sources : i \in DOMAIN list}

AddSource(source) ==
    /\ answer # <<>> /\ Cardinality(SourcesIn(answer)) < MaxSources
    /\ answer' = [answer EXCEPT ![Len(answer)].sources = Append(@, source)]

AnswerGrows ==
    /\ part = "parser"
    /\ \/ \E name \in {"", "app"} : AddAppConfig(name)
       \/ \E source \in Sources : AddSource(source)
    /\ UNCHANGED <<part, deploymentVars, specVars, nameVars>>

NextName ==
    /\ part = "names"
    /\ \/ version < MaxVersion /\ version' = version + 1 /\ UNCHANGED number
       \/ number < Base /\ number' = number + 1 /\ UNCHANGED version
    /\ UNCHANGED <<part, deploymentVars, specVars, answer>>

Next == ClusterChanges \/ SpecChanges \/ AnswerGrows \/ NextName

Spec == Init /\ [][Next]_vars

---------------------------------------------------------------------------
\* Polling stops only when it may: outside a surge, the "all" verdict of
\* CheckAvailableDeployments means that every wanted replica of every
\* application is available, although the code compares only the two totals.
TerminateMeansAllUp ==
    (NoSurge(apps, found, avail) /\ Verdict(apps, found, avail) = "all")
        => FullyAvailable(apps, found, avail, DOMAIN apps)

\* Status Ready is honest about state: outside a surge, every stateful
\* application is complete whenever CheckAvailableDeployments sets Ready.
ReadyMeansStatefulUp ==
    (NoSurge(apps, found, avail) /\ Verdict(apps, found, avail) # "notReady")
        => FullyAvailable(apps, found, avail, Stateful(apps))

\* Reordering apps, environment entries or servers is not an update: Equals
\* holds for reordered specs, and no rollout is started.
ReorderingIsNoUpdate == Reordered(old, new) => Equals(old, new)

\* Equals misses a change in three cases only: an environment entry was
\* added, the old environment gives one name two values (whose order decides
\* which one populateUserEnvs keeps), or the old spec lists the same app
\* twice.  Every other edit that changes what the spec asks for is an update.
OnlyThreeBlindSpots ==
    ( /\ Equals(old, new)
      /\ Elements(new.container.env) \subseteq Elements(old.container.env)
      /\ Unambiguous(old.container.env)
      /\ Distinct(old.apps) )
        => SameMeaning(old, new)

\* The loops of Parse, which drop pulling sources and repeated ports as they
\* go, expose every port that some source listens on once, with the protocol
\* of the first such source; an application has a service if and only if a
\* source listens; and no application without a name, or after one, is
\* returned.
PortsExposed ==
    LET applications == P!ParseResult(answer).applications
    IN  \A i \in DOMAIN answer :
            IF \E k \in 1 .. i : answer[k].name = ""
            THEN i \notin DOMAIN applications /\ P!ParseResult(answer).failed
            ELSE /\ P!PortsOf(answer[i].sources, applications[i].ContainerPorts)
                 /\ applications[i].ServiceEnabled
                      = (P!Exposed(answer[i].sources) # {})

\* Deploy appends the version to the name of the application without a
\* separator.  Up to Base + 1 applications this gives different config maps
\* different names: no write for one application changes the files of another.
NamesDistinct ==
    part = "names" =>
        \A i \in 0 .. Base, v \in 0 .. MaxVersion :
            P!AppsCMSuffix(i, v) = P!AppsCMSuffix(number, version)
                => i = number /\ v = version
===========================================================================
