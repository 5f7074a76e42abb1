-------------------------- MODULE FunctionsProofs --------------------------
(***************************************************************************)
(* The comparison of specs for lists of any length: reordering is no       *)
(* update, and a change of meaning is missed in three situations only. And *)
(* what the parts of MCFunctions promise, for every value of the bounds.   *)
(***************************************************************************)
EXTENDS MCFunctions, AvailabilityProofs, FoldTheorems

---------------------------------------------------------------------------
(* Lists.                                                                  *)

\* The positions of x in a list.
Positions(s, x) == {i \in DOMAIN s : s[i] = x}

LEMMA ListFinite ==
    ASSUME NEW V, NEW s \in Seq(V)
    PROVE  /\ IsFiniteSet(DOMAIN s) /\ Cardinality(DOMAIN s) = Len(s)
           /\ Len(s) \in Nat /\ DOMAIN s = 1 .. Len(s)
           /\ \A x : IsFiniteSet(Positions(s, x))
<1>1. Len(s) \in Nat /\ DOMAIN s = 1 .. Len(s)
  OBVIOUS
<1>2. IsFiniteSet(1 .. Len(s)) /\ Cardinality(1 .. Len(s)) = Len(s)
  BY <1>1, FS_Interval
<1>3. ASSUME NEW x PROVE IsFiniteSet(Positions(s, x))
  BY <1>1, <1>2, FS_Subset DEF Positions
<1> QED BY <1>1, <1>2, <1>3

\* An element occurs at least once.
LEMMA OccursSometimes ==
    ASSUME NEW V, NEW s \in Seq(V), NEW x
    PROVE  x \in Elements(s) <=> Occurrences(s, x) # 0
<1>1. IsFiniteSet(Positions(s, x))
  BY ListFinite
<1>2. Cardinality(Positions(s, x)) # 0 <=> Positions(s, x) # {}
  BY <1>1, FS_EmptySet
<1> QED BY <1>2 DEF Positions, Occurrences, Elements

LEMMA SameElementsSameSet ==
    ASSUME NEW V, NEW p \in Seq(V), NEW q \in Seq(V), SameElements(p, q)
    PROVE  Elements(p) = Elements(q)
BY OccursSometimes DEF SameElements

\* Lists with the same elements as often have a one-to-one matching of their
\* positions, hence the same length.
LEMMA SameElementsSameLength ==
    ASSUME NEW V, NEW p \in Seq(V), NEW q \in Seq(V), SameElements(p, q)
    PROVE  Len(p) = Len(q)
<1> DEFINE match(x) == CHOOSE f : f \in Bijection(Positions(p, x), Positions(q, x))
           g == [i \in DOMAIN p |-> match(p[i])[i]]
<1>1. Elements(p) = Elements(q)
  BY SameElementsSameSet
<1>2. ASSUME NEW x \in Elements(p)
      PROVE  match(x) \in Bijection(Positions(p, x), Positions(q, x))
  <2>1. IsFiniteSet(Positions(p, x)) /\ IsFiniteSet(Positions(q, x))
    BY ListFinite
  <2>2. Cardinality(Positions(p, x)) = Cardinality(Positions(q, x))
    BY DEF SameElements, Occurrences, Positions
  <2>3. ExistsBijection(Positions(p, x), Positions(q, x))
    BY <2>1, <2>2, FS_SameCardinalityBij
  <2> QED BY <2>3 DEF ExistsBijection
<1>3. ASSUME NEW x \in Elements(p)
      PROVE  /\ \A i \in Positions(p, x) : match(x)[i] \in Positions(q, x)
             /\ \A i, j \in Positions(p, x) : match(x)[i] = match(x)[j] => i = j
             /\ \A k \in Positions(q, x) : \E i \in Positions(p, x) : match(x)[i] = k
  <2> HIDE DEF match
  <2> QED BY <1>2, <1>3 DEF Bijection, Injection, Surjection, IsInjective
<1>4. ASSUME NEW i \in DOMAIN p
      PROVE  g[i] \in DOMAIN q /\ q[g[i]] = p[i] /\ g[i] = match(p[i])[i]
  <2>1. p[i] \in Elements(p) /\ i \in Positions(p, p[i])
    BY <1>4 DEF Elements, Positions
  <2>2. match(p[i])[i] \in Positions(q, p[i])
    BY <1>3, <2>1
  <2>3. g[i] = match(p[i])[i]
    BY <1>4
  <2> QED BY <2>2, <2>3 DEF Positions
<1>5. ASSUME NEW i \in DOMAIN p, NEW j \in DOMAIN p, g[i] = g[j] PROVE i = j
  <2>1. p[i] = p[j]
    BY <1>4, <1>5
  <2>2. p[i] \in Elements(p) /\ i \in Positions(p, p[i]) /\ j \in Positions(p, p[i])
    BY <1>5, <2>1 DEF Elements, Positions
  <2>3. match(p[i])[i] = match(p[i])[j]
    BY <1>4, <1>5, <2>1
  <2> QED BY <1>3, <2>2, <2>3
<1>6. ASSUME NEW k \in DOMAIN q PROVE \E i \in DOMAIN p : g[i] = k
  <2>1. q[k] \in Elements(p) /\ k \in Positions(q, q[k])
    BY <1>1, <1>6 DEF Elements, Positions
  <2>2. PICK i \in Positions(p, q[k]) : match(q[k])[i] = k
    BY <1>3, <2>1
  <2>3. i \in DOMAIN p /\ p[i] = q[k]
    BY <2>2 DEF Positions
  <2> QED BY <1>4, <2>2, <2>3
<1>7. g \in Bijection(DOMAIN p, DOMAIN q)
  <2>1. g \in [DOMAIN p -> DOMAIN q]
    BY <1>4
  <2> HIDE DEF g
  <2> QED BY <1>5, <1>6, <2>1 DEF Bijection, Injection, Surjection, IsInjective
<1>8. ExistsBijection(DOMAIN p, DOMAIN q)
  BY <1>7 DEF ExistsBijection
<1> QED BY <1>8, ListFinite, FS_Bijection

\* Lists without repetitions and with the same set of elements.
LEMMA DistinctSameElements ==
    ASSUME NEW p, NEW q, Distinct(p), Distinct(q), Elements(p) = Elements(q)
    PROVE  SameElements(p, q)
<1>1. ASSUME NEW s, Distinct(s), NEW x \in Elements(s)
      PROVE  Occurrences(s, x) = 1
  <2>1. PICK i \in DOMAIN s : s[i] = x
    BY <1>1 DEF Elements
  <2>2. {j \in DOMAIN s : s[j] = x} = {i}
    BY <1>1, <2>1 DEF Distinct
  <2> QED BY <2>2, FS_Singleton DEF Occurrences
<1> QED BY <1>1 DEF SameElements

\* The "contained" loops with the test of the lengths: a list without
\* repetitions fills the other one.
LEMMA ContainedFills ==
    ASSUME NEW V, NEW p \in Seq(V), NEW q \in Seq(V), Distinct(p),
           Len(p) = Len(q), Contained(p, q)
    PROVE  SameElements(p, q)
<1> DEFINE f == [i \in DOMAIN p |-> CHOOSE j \in DOMAIN q : p[i] = q[j]]
<1>1. ASSUME NEW i \in DOMAIN p PROVE f[i] \in DOMAIN q /\ p[i] = q[f[i]]
  BY <1>1 DEF Contained
<1>2. f \in Injection(DOMAIN p, DOMAIN q)
  <2>1. f \in [DOMAIN p -> DOMAIN q]
    BY <1>1
  <2>2. \A i, j \in DOMAIN p : f[i] = f[j] => i = j
    BY <1>1 DEF Distinct
  <2> HIDE DEF f
  <2> QED BY <2>1, <2>2 DEF Injection, IsInjective
<1>3. f \in Surjection(DOMAIN p, DOMAIN q)
  <2> HIDE DEF f
  <2> QED BY <1>2, ListFinite, FS_Injection
<1>4. \A k \in DOMAIN q : \E i \in DOMAIN p : f[i] = k
  <2> HIDE DEF f
  <2> QED BY <1>3 DEF Surjection
<1>5. Elements(p) = Elements(q)
  <2> HIDE DEF f
  <2> QED BY <1>1, <1>4 DEF Elements
<1>6. Distinct(q)
  <2> HIDE DEF f
  <2> SUFFICES ASSUME NEW j \in DOMAIN q, NEW k \in DOMAIN q, q[j] = q[k]
               PROVE  j = k
    BY DEF Distinct
  <2>1. PICK a \in DOMAIN p : f[a] = j
    BY <1>4
  <2>2. PICK b \in DOMAIN p : f[b] = k
    BY <1>4
  <2>3. p[a] = p[b]
    BY <1>1, <2>1, <2>2
  <2> QED BY <2>1, <2>2, <2>3 DEF Distinct
<1> QED BY <1>5, <1>6, DistinctSameElements

---------------------------------------------------------------------------
(* Specs whose leaves are any values.                                      *)

EnvShape(V) == [name : V, value : V]

ContainerShape(V) == [image : V, env : Seq(EnvShape(V))]

MessagingShape(V) == [type : V, clusterID : V, servers : Seq(V)]

PVCShape(V) == [volumeMode : V, storageClass : V, resources : V, accessModes : Seq(V)]

SpecShape(V) ==
    [apps : Seq(V), config : V, container : ContainerShape(V),
     messaging : MessagingShape(V), pvc : PVCShape(V), secret : V]

LEMMA SpecParts ==
    ASSUME NEW V, NEW a \in Seq(V), NEW g \in V, NEW c \in ContainerShape(V),
           NEW m \in MessagingShape(V), NEW v \in PVCShape(V), NEW s \in V
    PROVE  [apps |-> a, config |-> g, container |-> c, messaging |-> m,
            pvc |-> v, secret |-> s] \in SpecShape(V)
BY DEF SpecShape

LEMMA ShapeFacts ==
    ASSUME NEW V, NEW p \in SpecShape(V)
    PROVE  /\ p.apps \in Seq(V) /\ p.container.env \in Seq(EnvShape(V))
           /\ p.messaging.servers \in Seq(V)
           /\ p.pvc \in PVCShape(V) /\ p.pvc.accessModes \in Seq(V)
BY DEF SpecShape, ContainerShape, MessagingShape, PVCShape

\* The loops with the "contained" flag succeed on lists with the same
\* elements.
LEMMA SameElementsContained ==
    ASSUME NEW V, NEW p \in Seq(V), NEW q \in Seq(V), SameElements(p, q)
    PROVE  Contained(p, q)
<1>1. Elements(p) = Elements(q)
  BY SameElementsSameSet
<1> QED BY <1>1 DEF Contained, Elements

\* Specs with lists of any length that differ only in the order of apps,
\* environment entries and servers are equal to Equals: no update event.
THEOREM ReorderingAccepted ==
    ASSUME NEW V, NEW p \in SpecShape(V), NEW q \in SpecShape(V),
           Reordered(p, q)
    PROVE  Equals(p, q)
<1>1. EqualApps(p.apps, q.apps)
  BY ShapeFacts, SameElementsContained, SameElementsSameLength
     DEF EqualApps, Reordered, SameButEnv
<1>2. EqualContainers(p.container, q.container)
  BY ShapeFacts, SameElementsContained DEF EqualContainers, Reordered, SameButEnv
<1>3. EqualMessaging(p.messaging, q.messaging)
  <2>1. SameElements(p.messaging.servers, q.messaging.servers)
    BY DEF Reordered, SameButEnv
  <2>2. Len(p.messaging.servers) = Len(q.messaging.servers)
    BY <2>1, ShapeFacts, SameElementsSameLength
  <2> QED BY <2>1, <2>2 DEF EqualMessaging, Reordered, SameButEnv,
                               SameElements
<1>4. EqualsPVCSpec(p.pvc, q.pvc)
  BY DEF EqualsPVCSpec, Reordered, SameButEnv
<1> QED BY <1>1, <1>2, <1>3, <1>4 DEF Equals, Reordered, SameButEnv

LEMMA EqualLists ==
    ASSUME NEW V, NEW s \in Seq(V), NEW t \in Seq(V), Len(s) = Len(t),
           \A i \in DOMAIN s : s[i] = t[i]
    PROVE  s = t
OBVIOUS

\* Without a name that has two values, the order and the repetition of
\* entries do not matter to the map.
LEMMA SameEntriesSameMap ==
    ASSUME NEW V, NEW p \in Seq(EnvShape(V)), NEW q \in Seq(EnvShape(V)),
           Elements(p) \subseteq Elements(q), Unambiguous(q)
    PROVE  populateUserEnvs(p) \subseteq populateUserEnvs(q)
<1> SUFFICES ASSUME NEW x \in populateUserEnvs(p)
             PROVE  x \in populateUserEnvs(q)
  OBVIOUS
<1>1. x \in Elements(q)
  BY DEF populateUserEnvs, Elements
<1>2. PICK k \in DOMAIN q : q[k] = x
  BY <1>1 DEF Elements
<1> DEFINE ofName == {i \in DOMAIN q : q[i].name = x.name}
<1>3. Len(q) \in Nat /\ DOMAIN q = 1 .. Len(q)
  OBVIOUS
<1>4. ofName \in SUBSET (0 .. Len(q)) /\ ofName # {}
  BY <1>2, <1>3
<1>5. PICK last \in ofName : \A i \in ofName : i <= last
  <2> HIDE DEF ofName
  <2> QED BY <1>3, <1>4, GreatestNumber
<1>6. last \in DOMAIN q /\ q[last] = x
  BY <1>2, <1>5 DEF Unambiguous
<1>7. ASSUME NEW j \in last + 1 .. Len(q) PROVE q[j].name # q[last].name
  <2>1. last \in Nat /\ j \in DOMAIN q /\ ~(j <= last)
    BY <1>3, <1>6
  <2> QED BY <1>5, <1>6, <2>1
<1> QED BY <1>6, <1>7 DEF populateUserEnvs

\* Equals misses a change of meaning in three situations only, for lists of
\* any length, repeated environment entries included: an environment entry
\* was added, the first spec gives one name two values, or it has the same
\* app twice.
THEOREM ChangesRecognised ==
    ASSUME NEW V, NEW p \in SpecShape(V), NEW q \in SpecShape(V),
           Equals(p, q), Distinct(p.apps), Unambiguous(p.container.env),
           Elements(q.container.env) \subseteq Elements(p.container.env)
    PROVE  SameMeaning(p, q)
<1>1. SameElements(p.apps, q.apps)
  BY ShapeFacts, ContainedFills DEF Equals, EqualApps
<1>2. populateUserEnvs(p.container.env) = populateUserEnvs(q.container.env)
  <2>1. Elements(p.container.env) \subseteq Elements(q.container.env)
    BY DEF Equals, EqualContainers, Contained, Elements
  <2>2. Unambiguous(q.container.env)
    <3> SUFFICES ASSUME NEW i \in DOMAIN q.container.env,
                        NEW j \in DOMAIN q.container.env,
                        q.container.env[i].name = q.container.env[j].name
                 PROVE  q.container.env[i] = q.container.env[j]
      BY DEF Unambiguous
    <3>1. /\ q.container.env[i] \in Elements(p.container.env)
          /\ q.container.env[j] \in Elements(p.container.env)
      BY DEF Elements
    <3> QED BY <3>1 DEF Elements, Unambiguous
  <2>3. /\ p.container.env \in Seq(EnvShape(V))
        /\ q.container.env \in Seq(EnvShape(V))
    BY ShapeFacts
  <2>4. populateUserEnvs(p.container.env) \subseteq populateUserEnvs(q.container.env)
    BY <2>1, <2>2, <2>3, SameEntriesSameMap
  <2>5. populateUserEnvs(q.container.env) \subseteq populateUserEnvs(p.container.env)
    BY <2>3, SameEntriesSameMap
  <2> QED BY <2>4, <2>5
<1>3. SameElements(p.messaging.servers, q.messaging.servers)
  BY DEF Equals, EqualMessaging, SameElements
<1>4. p.pvc = q.pvc
  <2>1. p.pvc.accessModes = q.pvc.accessModes
    BY ShapeFacts, EqualLists DEF Equals, EqualsPVCSpec
  <2>2. /\ p.pvc.volumeMode = q.pvc.volumeMode
        /\ p.pvc.storageClass = q.pvc.storageClass
        /\ p.pvc.resources = q.pvc.resources
    BY DEF Equals, EqualsPVCSpec
  <2>3. ASSUME NEW c \in PVCShape(V)
        PROVE  c = [volumeMode |-> c.volumeMode, storageClass |-> c.storageClass,
                    resources |-> c.resources, accessModes |-> c.accessModes]
    BY DEF PVCShape
  <2>4. p.pvc = [volumeMode |-> p.pvc.volumeMode, storageClass |-> p.pvc.storageClass,
                 resources |-> p.pvc.resources, accessModes |-> p.pvc.accessModes]
    BY <2>3, ShapeFacts
  <2>5. q.pvc = [volumeMode |-> q.pvc.volumeMode, storageClass |-> q.pvc.storageClass,
                 resources |-> q.pvc.resources, accessModes |-> q.pvc.accessModes]
    BY <2>3, ShapeFacts
  <2> QED BY <2>1, <2>2, <2>4, <2>5
<1> QED BY <1>1, <1>2, <1>3, <1>4
        DEF SameMeaning, SameButEnv, Equals, EqualContainers, EqualMessaging

---------------------------------------------------------------------------
(* The states of MCFunctions.                                              *)

Apps == [replicas : 0 .. MaxReplicas, persistent : BOOLEAN]

\* What CheckAvailableDeployments reads of the deployments.
DeploymentInv ==
    /\ apps \in Seq(Apps)
    /\ found \subseteq DOMAIN apps
    /\ avail \in [DOMAIN apps -> Nat]

\* The leaves of the specs that users write.
Values == {"", "a", "b", "c1", "i1", "i2", "A", "B", "1", "2", "nats", "n1",
           "n2", "nil", "Block", "1Gi", "RWO", "RWX", "s1"}

IsSpec(s) == s \in SpecShape(Values)

LEMMA ListsAreSequences ==
    ASSUME NEW S, NEW V, S \subseteq V
    PROVE  Lists(S) \subseteq Seq(V)
<1> SUFFICES ASSUME NEW s \in Lists(S) PROVE s \in Seq(V)
  OBVIOUS
<1>1. PICK n \in 0 .. MaxLength : s \in [1 .. n -> S]
  BY DEF Lists
<1>2. n \in Nat /\ s \in [1 .. n -> V]
  BY <1>1, BoundsAssumption
<1> QED BY <1>2

LEMMA EnvironmentsShape == Lists(EnvVars) \subseteq Seq(EnvShape(Values))
<1>1. {"A", "B"} \subseteq Values /\ {"1", "2"} \subseteq Values
  BY DEF Values
<1>2. EnvVars \subseteq EnvShape(Values)
  BY <1>1 DEF EnvVars, EnvShape
<1> QED BY <1>2, ListsAreSequences

LEMMA ContainersShape == Containers \subseteq ContainerShape(Values)
<1>1. {"i1", "i2"} \subseteq Values
  BY DEF Values
<1> QED BY <1>1, EnvironmentsShape DEF Containers, ContainerShape

LEMMA MessagingSystemsShape ==
    MessagingSystems \subseteq MessagingShape(Values)
<1>1. /\ {"", "nats"} \subseteq Values /\ {"", "c1"} \subseteq Values
      /\ {"n1", "n2"} \subseteq Values
  BY DEF Values
<1>2. Lists({"n1", "n2"}) \subseteq Seq(Values)
  BY <1>1, ListsAreSequences
<1> QED BY <1>1, <1>2 DEF MessagingSystems, MessagingShape

LEMMA ClaimsShape ==
    Claims \subseteq PVCShape(Values)
<1>1. /\ {"nil", "Block"} \subseteq Values /\ {"nil"} \subseteq Values
      /\ {"1Gi"} \subseteq Values /\ {"RWO", "RWX"} \subseteq Values
  BY DEF Values
<1>2. Lists({"RWO", "RWX"}) \subseteq Seq(Values)
  BY <1>1, ListsAreSequences
<1> QED BY <1>1, <1>2 DEF Claims, PVCShape

LEMMA ShortLists ==
    ASSUME NEW V, NEW x \in V, NEW y \in V
    PROVE  <<x, y>> \in Seq(V) /\ <<x>> \in Seq(V)
OBVIOUS

LEMMA SpecOfShape ==
    ASSUME NEW a \in Seq(Values), NEW e \in Seq(EnvShape(Values))
    PROVE  IsSpec(SpecOf(a, e))
<1>1. /\ "" \in Values /\ "i1" \in Values /\ "nats" \in Values /\ "n1" \in Values
      /\ "n2" \in Values /\ "nil" \in Values /\ "1Gi" \in Values /\ "RWO" \in Values
  BY DEF Values
<1>2. <<"n1", "n2">> \in Seq(Values) /\ <<"RWO">> \in Seq(Values)
  BY <1>1, ShortLists
<1>3. SpecOf(a, e) \in SpecShape(Values)
  <2> DEFINE c == [image |-> "i1", env |-> e]
             m == [type |-> "nats", clusterID |-> "", servers |-> <<"n1", "n2">>]
             v == [volumeMode |-> "nil", storageClass |-> "nil",
                   resources |-> "1Gi", accessModes |-> <<"RWO">>]
  <2>1. c \in ContainerShape(Values)
    BY <1>1 DEF ContainerShape
  <2>2. m \in MessagingShape(Values)
    BY <1>1, <1>2 DEF MessagingShape
  <2>3. v \in PVCShape(Values)
    BY <1>1, <1>2 DEF PVCShape
  <2>4. SpecOf(a, e) = [apps |-> a, config |-> "", container |-> c,
                        messaging |-> m, pvc |-> v, secret |-> ""]
    BY DEF SpecOf
  <2> HIDE DEF c, m, v
  <2> QED BY <1>1, <2>1, <2>2, <2>3, <2>4, SpecParts
<1> QED BY <1>3 DEF IsSpec

FunctionsInv == DeploymentInv /\ IsSpec(old) /\ IsSpec(new)

LEMMA FunctionsInit == Init => FunctionsInv
<1> SUFFICES ASSUME Init PROVE FunctionsInv
  OBVIOUS
<1>1. apps \in Seq(Apps)
  <2>1. CASE apps = <<>>
    BY <2>1
  <2>2. ASSUME NEW n \in 0 .. MaxApps, apps \in [1 .. n -> Apps]
        PROVE  apps \in Seq(Apps)
    <3>1. n \in Nat
      BY BoundsAssumption
    <3> QED BY <2>2, <3>1
  <2> QED BY <2>1, <2>2 DEF Init, Apps
<1>2. DeploymentInv
  BY <1>1 DEF Init, DeploymentInv
<1>3. \E a \in Seq(Values), e \in Seq(EnvShape(Values)) : old = SpecOf(a, e)
  <2>1. <<>> \in Seq(Values) /\ <<>> \in Seq(EnvShape(Values))
    OBVIOUS
  <2>2. ASSUME NEW a \in Lists({"a", "b"}), NEW e \in Lists(EnvVars)
        PROVE  a \in Seq(Values) /\ e \in Seq(EnvShape(Values))
    <3>1. {"a", "b"} \subseteq Values
      BY DEF Values
    <3> QED BY <3>1, ListsAreSequences, EnvironmentsShape
  <2> QED BY <2>1, <2>2 DEF Init
<1>4. IsSpec(old)
  BY <1>3, SpecOfShape
<1>5. new = old
  BY DEF Init
<1> QED BY <1>2, <1>4, <1>5 DEF FunctionsInv

\* An edit of one part leaves a spec.
LEMMA EditedShape ==
    ASSUME IsSpec(new)
    PROVE  /\ \A a \in Seq(Values) : IsSpec([new EXCEPT !.apps = a])
           /\ \A g \in Values : IsSpec([new EXCEPT !.config = g])
           /\ \A c \in ContainerShape(Values) : IsSpec([new EXCEPT !.container = c])
           /\ \A m \in MessagingShape(Values) : IsSpec([new EXCEPT !.messaging = m])
           /\ \A v \in PVCShape(Values) : IsSpec([new EXCEPT !.pvc = v])
           /\ \A s \in Values : IsSpec([new EXCEPT !.secret = s])
BY DEF IsSpec, SpecShape

LEMMA FunctionsNext ==
    ASSUME FunctionsInv, [Next]_vars
    PROVE  FunctionsInv'
<1>0. DeploymentInv /\ IsSpec(old) /\ IsSpec(new)
  BY DEF FunctionsInv
<1>1. CASE ClusterChanges
  <2>1. UNCHANGED <<apps, old, new>>
    BY <1>1 DEF ClusterChanges, specVars
  <2>2. PICK i \in DOMAIN apps :
            \/ DeploymentCreated(i) \/ DeploymentDeleted(i)
            \/ ReplicaUp(i) \/ ReplicaDown(i)
    BY <1>1 DEF ClusterChanges
  <2>3. found' \subseteq DOMAIN apps /\ avail' \in [DOMAIN apps -> Nat]
    BY <1>0, <2>2 DEF DeploymentInv, DeploymentCreated, DeploymentDeleted,
                      ReplicaUp, ReplicaDown
  <2> QED BY <1>0, <2>1, <2>3 DEF FunctionsInv, DeploymentInv
<1>2. CASE SpecChanges
  <2>1. UNCHANGED <<apps, found, avail>>
    BY <1>2 DEF SpecChanges, deploymentVars
  <2>2. /\ {"", "c1"} \subseteq Values /\ {"", "s1"} \subseteq Values
        /\ {"a", "b"} \subseteq Values
    BY DEF Values
  <2>3. Lists({"a", "b"}) \subseteq Seq(Values)
    BY <2>2, ListsAreSequences
  <2>4. /\ EditApps => IsSpec(new') /\ old' = old
        /\ EditConfig => IsSpec(new') /\ old' = old
        /\ EditSecret => IsSpec(new') /\ old' = old
    BY <1>0, <2>2, <2>3, EditedShape DEF EditApps, EditConfig, EditSecret, Edited
  <2>5. /\ EditContainer => IsSpec(new') /\ old' = old
        /\ EditMessaging => IsSpec(new') /\ old' = old
        /\ EditPVC => IsSpec(new') /\ old' = old
    BY <1>0, EditedShape, ContainersShape, MessagingSystemsShape, ClaimsShape
       DEF EditContainer, EditMessaging, EditPVC, Edited
  <2>6. IsSpec(old') /\ IsSpec(new')
    BY <1>0, <1>2, <2>4, <2>5 DEF SpecChanges, Observe
  <2> QED BY <1>0, <2>1, <2>6 DEF FunctionsInv, DeploymentInv, IsSpec
<1>3. CASE AnswerGrows \/ NextName \/ UNCHANGED vars
  BY <1>0, <1>3 DEF AnswerGrows, NextName, vars, deploymentVars, specVars,
                    FunctionsInv, DeploymentInv, IsSpec
<1> QED BY <1>1, <1>2, <1>3 DEF Next

LEMMA InvReading == FunctionsInv => Reading(apps, found, avail)
<1> SUFFICES ASSUME FunctionsInv PROVE Reading(apps, found, avail)
  OBVIOUS
<1>1. Apps \subseteq Application
  BY BoundsAssumption DEF Apps, Application
<1>2. apps \in Seq(Application)
  BY <1>1 DEF FunctionsInv, DeploymentInv
<1> QED BY <1>2 DEF FunctionsInv, DeploymentInv, Reading

LEMMA FunctionsInvariant == Spec => []FunctionsInv
BY FunctionsInit, FunctionsNext, PTL DEF Spec

\* Polling stops only when every wanted replica is available, for any number
\* of applications and replicas and however deployments come and go.
THEOREM TerminateInvariant == Spec => []TerminateMeansAllUp
<1>1. FunctionsInv => TerminateMeansAllUp
  BY InvReading, TerminateSound DEF TerminateMeansAllUp
<1> QED BY <1>1, FunctionsInvariant, PTL

\* CheckAvailableDeployments sets Ready only when the stateful applications
\* are complete, for any number of applications and replicas.
THEOREM ReadyInvariant == Spec => []ReadyMeansStatefulUp
<1>1. FunctionsInv => ReadyMeansStatefulUp
  BY InvReading, ReadySound DEF ReadyMeansStatefulUp
<1> QED BY <1>1, FunctionsInvariant, PTL

\* Whatever the user edits, with lists of any length, a reordering is not
\* taken for an update by spPredicate.UpdateFunc.
THEOREM ReorderingInvariant == Spec => []ReorderingIsNoUpdate
<1>1. FunctionsInv => ReorderingIsNoUpdate
  BY ReorderingAccepted DEF FunctionsInv, IsSpec, ReorderingIsNoUpdate
<1> QED BY <1>1, FunctionsInvariant, PTL

\* Whatever the user edits, with lists of any length, Equals has no blind
\* spot but the three: an added environment entry, a name with two values
\* and a repeated app.
THEOREM BlindSpotsInvariant == Spec => []OnlyThreeBlindSpots
<1>1. FunctionsInv => OnlyThreeBlindSpots
  BY ChangesRecognised DEF FunctionsInv, IsSpec, OnlyThreeBlindSpots
<1> QED BY <1>1, FunctionsInvariant, PTL

---------------------------------------------------------------------------
(* The loops of Parse.                                                     *)

SourceShape(V) == [port : Nat, protocol : V, pulling : BOOLEAN]

PortShape(V) == [port : Nat, protocol : V]

\* The loop over the sources, turn by turn.
LEMMA ContainerPortsSteps ==
    ASSUME NEW V, NEW sources \in Seq(SourceShape(V))
    PROVE  \E h : /\ h[0] = <<>>
                  /\ \A k \in 1 .. Len(sources) :
                         h[k] = P!AddPort(h[k - 1], sources[k])
                  /\ P!ContainerPorts(sources) = h[Len(sources)]
<1> DEFINE n == Len(sources)
           A == Seq(PortShape(V))
           step == [p \in A \X (1 .. n) |-> P!AddPort(p[1], sources[p[2]])]
           Equation(f) ==
               [s \in SUBSET (1 .. n) |->
                   IF s = {} THEN <<>>
                   ELSE P!AddPort(f[s \ {Max(s)}], sources[Max(s)])]
           F == CHOOSE f : f = Equation(f)
<1>1. n \in Nat /\ DOMAIN sources = 1 .. n
  OBVIOUS
<1>2. P!ContainerPorts(sources) = F[1 .. n]
  BY <1>1 DEF P!ContainerPorts, P!FoldLeft, P!MapThenFoldSet, P!Max, Max
<1>3. step \in [A \X (1 .. n) -> A]
  <2>1. ASSUME NEW ports \in A, NEW k \in 1 .. n
        PROVE  P!AddPort(ports, sources[k]) \in A
    <3>1. sources[k] \in SourceShape(V)
      BY <1>1
    <3>2. [port |-> sources[k].port, protocol |-> sources[k].protocol] \in PortShape(V)
      BY <3>1 DEF SourceShape, PortShape
    <3> QED BY <3>2 DEF P!AddPort
  <2> QED BY <2>1
<1>4. \E f : f = Equation(f)
  <2>1. <<>> \in A
    OBVIOUS
  <2>2. PICK g \in [SUBSET (1 .. n) -> A] : Solves(g, n, <<>>, step)
    <3> HIDE DEF A, step, n
    <3> QED BY <1>1, <1>3, <2>1, FoldExists
  <2>3. ASSUME NEW s \in SUBSET (1 .. n), s # {}
        PROVE  step[<<g[s \ {Max(s)}], Max(s)>>]
                   = P!AddPort(g[s \ {Max(s)}], sources[Max(s)])
    <3>1. Max(s) \in 1 .. n
      BY <1>1, <2>3, MaxIn
    <3>2. g[s \ {Max(s)}] \in A
      <4> HIDE DEF A
      <4> QED BY <2>2, <2>3
    <3> QED BY <3>1, <3>2
  <2>4. g = Equation(g)
    <3> HIDE DEF step, A
    <3> QED BY <2>2, <2>3 DEF Solves
  <2> QED BY <2>4
<1>5. F = Equation(F)
  <2> HIDE DEF Equation
  <2> QED BY <1>4, Zenon
<1> DEFINE h == [k \in 0 .. n |-> F[1 .. k]]
<1>6. h[0] = <<>>
  <2>1. 1 .. 0 = {} /\ 0 \in 0 .. n
    BY <1>1
  <2>2. F[{}] = <<>>
    <3> HIDE DEF F
    <3> QED BY <1>5
  <2> HIDE DEF F
  <2> QED BY <2>1, <2>2
<1>7. ASSUME NEW k \in 1 .. n PROVE h[k] = P!AddPort(h[k - 1], sources[k])
  <2>1. /\ 1 .. k \in SUBSET (1 .. n) /\ k \in 1 .. k
        /\ (1 .. k) \ {k} = 1 .. k - 1 /\ k - 1 \in 0 .. n /\ k \in 0 .. n /\ k \in Nat
    BY <1>1
  <2>2. Max(1 .. k) = k
    BY <2>1, MaxOfPrefix
  <2>3. F[1 .. k] = P!AddPort(F[1 .. k - 1], sources[k])
    <3> HIDE DEF F, n
    <3> QED BY <1>5, <2>1, <2>2
  <2> HIDE DEF F, n
  <2> QED BY <2>1, <2>3
<1>8. P!ContainerPorts(sources) = h[n]
  <2> HIDE DEF F, n
  <2> QED BY <1>1, <1>2
<1> HIDE DEF h
<1> QED BY <1>6, <1>7, <1>8

\* The sources among the first k whose port is exposed.
ExposedUpTo(sources, k) == {j \in P!Exposed(sources) : j <= k}

PortOf(source) == [port |-> source.port, protocol |-> source.protocol]

\* What the loop has after k turns: the ports of the exposed sources among
\* the first k, each at its rank, and no other.
AfterTurns(sources, k, ports, V) ==
    /\ ports \in Seq(PortShape(V))
    /\ Len(ports) = Cardinality(ExposedUpTo(sources, k))
    /\ \A j \in ExposedUpTo(sources, k) :
           ports[Cardinality(ExposedUpTo(sources, j))] = PortOf(sources[j])
    /\ \A p : P!ContainsInt(ports, p)
                  <=> \E j \in 1 .. k : ~sources[j].pulling /\ sources[j].port = p

LEMMA ExposedFinite ==
    ASSUME NEW V, NEW sources \in Seq(SourceShape(V)), NEW k \in Nat
    PROVE  /\ IsFiniteSet(ExposedUpTo(sources, k))
           /\ Cardinality(ExposedUpTo(sources, k)) \in Nat
           /\ \A j \in ExposedUpTo(sources, k) :
                  /\ j \in 1 .. k /\ j \in DOMAIN sources
                  /\ Cardinality(ExposedUpTo(sources, j))
                         \in 1 .. Cardinality(ExposedUpTo(sources, k))
<1>1. DOMAIN sources = 1 .. Len(sources) /\ Len(sources) \in Nat
  OBVIOUS
<1>2. P!Exposed(sources) \subseteq 1 .. Len(sources)
  BY <1>1 DEF P!Exposed
<1>3. IsFiniteSet(1 .. Len(sources))
  BY <1>1, FS_Interval
<1>4. \A i : ExposedUpTo(sources, i) \subseteq 1 .. Len(sources)
  BY <1>2 DEF ExposedUpTo
<1>5. \A i : /\ IsFiniteSet(ExposedUpTo(sources, i))
             /\ Cardinality(ExposedUpTo(sources, i)) \in Nat
  BY <1>3, <1>4, FS_Subset, FS_CardinalityType
<1>6. ASSUME NEW j \in ExposedUpTo(sources, k)
      PROVE  /\ j \in 1 .. k /\ j \in DOMAIN sources
             /\ Cardinality(ExposedUpTo(sources, j))
                    \in 1 .. Cardinality(ExposedUpTo(sources, k))
  <2>1. j \in 1 .. Len(sources) /\ j <= k /\ j \in P!Exposed(sources)
    BY <1>2 DEF ExposedUpTo
  <2>2. j \in ExposedUpTo(sources, j)
    BY <2>1 DEF ExposedUpTo
  <2>3. ExposedUpTo(sources, j) \subseteq ExposedUpTo(sources, k)
    BY <1>2, <2>1 DEF ExposedUpTo
  <2>4. Cardinality(ExposedUpTo(sources, j)) # 0
    BY <1>5, <2>2, FS_EmptySet
  <2>5. Cardinality(ExposedUpTo(sources, j)) <= Cardinality(ExposedUpTo(sources, k))
    BY <1>5, <2>3, FS_Subset
  <2> QED BY <1>1, <1>5, <2>1, <2>4, <2>5
<1> QED BY <1>5, <1>6

LEMMA OneTurn ==
    ASSUME NEW V, NEW sources \in Seq(SourceShape(V)), NEW k \in 1 .. Len(sources),
           NEW ports, AfterTurns(sources, k - 1, ports, V)
    PROVE  AfterTurns(sources, k, P!AddPort(ports, sources[k]), V)
<1> DEFINE E(i) == ExposedUpTo(sources, i)
           s == sources[k]
           taken == s.pulling \/ P!ContainsInt(ports, s.port)
<1>0. /\ k \in Nat /\ k - 1 \in Nat /\ k \in DOMAIN sources /\ s \in SourceShape(V)
      /\ ports \in Seq(PortShape(V)) /\ Len(ports) = Cardinality(E(k - 1))
      /\ \A j \in E(k - 1) : ports[Cardinality(E(j))] = PortOf(sources[j])
  BY DEF AfterTurns
<1>1. \A p : P!ContainsInt(ports, p)
                 <=> \E j \in 1 .. k - 1 : ~sources[j].pulling /\ sources[j].port = p
  BY DEF AfterTurns
<1>2. k \in P!Exposed(sources) <=> ~taken
  BY <1>0, <1>1 DEF P!Exposed
<1>3. CASE taken
  <2>1. P!AddPort(ports, s) = ports
    BY <1>3 DEF P!AddPort
  <2>2. E(k) = E(k - 1)
    <3>1. P!Exposed(sources) \subseteq Nat
      BY DEF P!Exposed
    <3> QED BY <1>0, <1>2, <1>3, <3>1 DEF ExposedUpTo
  <2>3. ASSUME NEW p
        PROVE  P!ContainsInt(ports, p)
                   <=> \E j \in 1 .. k : ~sources[j].pulling /\ sources[j].port = p
    <3>1. 1 .. k = (1 .. k - 1) \cup {k}
      BY <1>0
    <3>2. s.pulling \in BOOLEAN
      BY <1>0 DEF SourceShape
    <3> QED BY <1>1, <1>3, <3>1, <3>2
  <2> HIDE DEF E, taken, s
  <2>4. E(k) = ExposedUpTo(sources, k) /\ \A j : E(j) = ExposedUpTo(sources, j)
    BY DEF E
  <2> QED BY <1>0, <2>1, <2>2, <2>3, <2>4 DEF AfterTurns, s
<1>4. CASE ~taken
  <2> DEFINE new1 == Append(ports, PortOf(s))
  <2>1. P!AddPort(ports, s) = new1
    BY <1>4 DEF P!AddPort, PortOf
  <2>2. PortOf(s) \in PortShape(V) /\ PortOf(s).port = s.port
    BY <1>0 DEF PortOf, PortShape, SourceShape
  <2>3. /\ new1 \in Seq(PortShape(V)) /\ Len(new1) = Len(ports) + 1
        /\ new1[Len(ports) + 1] = PortOf(s)
        /\ \A i \in 1 .. Len(ports) : new1[i] = ports[i]
        /\ DOMAIN new1 = 1 .. Len(ports) + 1 /\ DOMAIN ports = 1 .. Len(ports)
        /\ Len(ports) \in Nat
    BY <1>0, <2>2
  <2>4. E(k) = E(k - 1) \cup {k} /\ k \notin E(k - 1)
    <3>1. P!Exposed(sources) \subseteq Nat
      BY DEF P!Exposed
    <3> QED BY <1>0, <1>2, <1>4, <3>1 DEF ExposedUpTo
  <2>5. Cardinality(E(k)) = Cardinality(E(k - 1)) + 1
    <3>1. IsFiniteSet(E(k - 1))
      BY <1>0, ExposedFinite
    <3> HIDE DEF E
    <3> QED BY <2>4, <3>1, FS_AddElement
  <2>6. ASSUME NEW j \in E(k)
        PROVE  new1[Cardinality(E(j))] = PortOf(sources[j])
    <3>1. CASE j = k
      BY <1>0, <2>3, <2>5, <3>1
    <3>2. CASE j \in E(k - 1)
      <4>1. Cardinality(E(j)) \in 1 .. Cardinality(E(k - 1))
        BY <1>0, <3>2, ExposedFinite
      <4> HIDE DEF new1, E
      <4> QED BY <1>0, <2>3, <3>2, <4>1
    <3> QED BY <2>4, <3>1, <3>2
  <2>7. ASSUME NEW p
        PROVE  P!ContainsInt(new1, p)
                   <=> \E j \in 1 .. k : ~sources[j].pulling /\ sources[j].port = p
    <3>1. 1 .. k = (1 .. k - 1) \cup {k}
      BY <1>0
    <3>2. P!ContainsInt(new1, p) <=> P!ContainsInt(ports, p) \/ p = s.port
      <4> HIDE DEF new1
      <4> QED BY <2>2, <2>3 DEF P!ContainsInt
    <3> QED BY <1>1, <1>4, <3>1, <3>2
  <2> HIDE DEF E, taken, new1
  <2>8. \A j : E(j) = ExposedUpTo(sources, j)
    BY DEF E
  <2> QED BY <1>0, <2>1, <2>3, <2>5, <2>6, <2>7, <2>8 DEF AfterTurns
<1> QED BY <1>3, <1>4

\* The loop of Parse over the sources of an app, for any number of sources:
\* every port that a source listens on is exposed once, in the order of the
\* first such sources.
THEOREM PortsListed ==
    ASSUME NEW V, NEW sources \in Seq(SourceShape(V))
    PROVE  /\ P!PortsOf(sources, P!ContainerPorts(sources))
           /\ P!ContainerPorts(sources) # <<>> <=> P!Exposed(sources) # {}
<1>1. PICK h : /\ h[0] = <<>>
               /\ \A k \in 1 .. Len(sources) : h[k] = P!AddPort(h[k - 1], sources[k])
               /\ P!ContainerPorts(sources) = h[Len(sources)]
  BY ContainerPortsSteps
<1> DEFINE n == Len(sources)
           S == {k \in 0 .. n : AfterTurns(sources, k, h[k], V)}
<1>2. n \in Nat /\ DOMAIN sources = 1 .. n
  OBVIOUS
<1>3. 0 \in S
  <2>1. ExposedUpTo(sources, 0) = {}
    BY <1>2 DEF ExposedUpTo, P!Exposed
  <2>2. Cardinality({}) = 0
    BY FS_EmptySet
  <2>3. <<>> \in Seq(PortShape(V)) /\ Len(<<>>) = 0
    OBVIOUS
  <2>4. \A p : ~P!ContainsInt(<<>>, p)
    BY DEF P!ContainsInt
  <2>5. AfterTurns(sources, 0, <<>>, V)
    <3>1. 1 .. 0 = {}
      OBVIOUS
    <3> DEFINE none == <<>>
    <3> HIDE DEF none
    <3>2. none \in Seq(PortShape(V)) /\ Len(none) = 0 /\ \A p : ~P!ContainsInt(none, p)
      BY <2>3, <2>4 DEF none
    <3>3. AfterTurns(sources, 0, none, V)
      BY <2>1, <2>2, <3>1, <3>2 DEF AfterTurns
    <3> QED BY <3>3 DEF none
  <2> QED BY <1>1, <1>2, <2>5
<1>4. ASSUME NEW k \in 0 .. n - 1, k \in S PROVE k + 1 \in S
  <2>1. k + 1 \in 1 .. Len(sources) /\ (k + 1) - 1 = k
    BY <1>2
  <2>2. AfterTurns(sources, k, h[k], V)
    BY <1>4
  <2>3. AfterTurns(sources, k + 1, P!AddPort(h[k], sources[k + 1]), V)
    BY <2>1, <2>2, OneTurn
  <2> QED BY <1>1, <2>1, <2>3
<1>5. AfterTurns(sources, n, h[n], V)
  <2>1. n \in S
    <3> HIDE DEF S, n
    <3> QED BY <1>2, <1>3, <1>4, Induction
  <2> QED BY <2>1
<1>6. \A k \in P!Exposed(sources) : k \in 1 .. n
  BY <1>2 DEF P!Exposed
<1>7. ExposedUpTo(sources, n) = P!Exposed(sources)
  BY <1>2, <1>6 DEF ExposedUpTo
<1>8. P!PortsOf(sources, P!ContainerPorts(sources))
  <2>1. \A T : P!Cardinality(T) = Cardinality(T)
    BY DEF P!Cardinality, Cardinality
  <2> QED BY <1>1, <1>5, <1>7, <2>1 DEF P!PortsOf, AfterTurns, PortOf, ExposedUpTo
<1>9. P!ContainerPorts(sources) # <<>> <=> P!Exposed(sources) # {}
  <2>1. IsFiniteSet(P!Exposed(sources))
    BY <1>2, <1>7, ExposedFinite
  <2>2. Cardinality(P!Exposed(sources)) = 0 <=> P!Exposed(sources) = {}
    BY <2>1, FS_EmptySet
  <2>3. h[n] \in Seq(PortShape(V)) /\ Len(h[n]) = Cardinality(P!Exposed(sources))
    BY <1>5, <1>7 DEF AfterTurns
  <2> QED BY <1>1, <2>2, <2>3
<1> QED BY <1>8, <1>9

AppConfigShape(V) == [name : V, sources : Seq(SourceShape(V))]

Nameless(configs) == {k \in DOMAIN configs : configs[k].name = ""}

\* The loop of Parse over the apps ends before the first one without a name.
LEMMA NamedPrefix ==
    ASSUME NEW V, NEW configs \in Seq(V)
    PROVE  \E n \in 0 .. Len(configs) :
               /\ P!ParseResult(configs).applications
                    = [k \in 1 .. n |-> P!Application(configs[k])]
               /\ P!ParseResult(configs).failed = (n < Len(configs))
               /\ \A i \in DOMAIN configs :
                      i \in 1 .. n <=> (1 .. i) \cap Nameless(configs) = {}
<1> DEFINE N == P!Named(configs)
           n == CHOOSE x \in N : \A k \in N : k <= x
<1>1. Len(configs) \in Nat /\ DOMAIN configs = 1 .. Len(configs)
  OBVIOUS
<1>2. ASSUME NEW x PROVE x \in N <=> /\ x \in 0 .. Len(configs)
                                     /\ (1 .. x) \cap Nameless(configs) = {}
  <2>1. ASSUME NEW y \in 0 .. Len(configs)
        PROVE  /\ 1 .. y \subseteq DOMAIN configs
               /\ (\A k \in 1 .. y : configs[k].name # "")
                     <=> (1 .. y) \cap Nameless(configs) = {}
    <3>1. 1 .. y \subseteq DOMAIN configs
      BY <1>1
    <3> QED BY <3>1, Zenon DEF Nameless
  <2> QED BY <2>1, Zenon DEF P!Named
<1>3. N \in SUBSET (0 .. Len(configs)) /\ 0 \in N
  <2>1. 1 .. 0 = {} /\ 0 \in 0 .. Len(configs)
    BY <1>1
  <2> HIDE DEF N
  <2> QED BY <1>2, <2>1
<1>4. \E x \in N : \A k \in N : k <= x
  <2> HIDE DEF N
  <2> QED BY <1>1, <1>3, GreatestNumber
<1>5. n \in N /\ \A k \in N : k <= n
  <2> HIDE DEF N
  <2> QED BY <1>4, Zenon
<1>6. /\ P!ParseResult(configs).applications
           = [k \in 1 .. n |-> P!Application(configs[k])]
      /\ P!ParseResult(configs).failed = (n < Len(configs))
  BY DEF P!ParseResult
<1> HIDE DEF n, N
<1>7. ASSUME NEW i \in DOMAIN configs
      PROVE  i \in 1 .. n <=> (1 .. i) \cap Nameless(configs) = {}
  <2>1. i \in 1 .. n => (1 .. i) \cap Nameless(configs) = {}
    <3>1. i \in 1 .. n => 1 .. i \subseteq 1 .. n
      BY <1>1, <1>2, <1>5
    <3> QED BY <1>2, <1>5, <3>1
  <2>2. (1 .. i) \cap Nameless(configs) = {} => i \in 1 .. n
    BY <1>1, <1>2, <1>5
  <2> QED BY <2>1, <2>2
<1> QED BY <1>2, <1>5, <1>6, <1>7

\* What Parse returns for an answer of the parser with any number of apps
\* and sources: PortsExposed, of the answer and not of a state.
THEOREM AnswerParsed ==
    ASSUME NEW V, NEW configs \in Seq(AppConfigShape(V)), NEW i \in DOMAIN configs
    PROVE  IF \E k \in 1 .. i : configs[k].name = ""
           THEN /\ i \notin DOMAIN P!ParseResult(configs).applications
                /\ P!ParseResult(configs).failed
           ELSE /\ P!PortsOf(configs[i].sources,
                       P!ParseResult(configs).applications[i].ContainerPorts)
                /\ P!ParseResult(configs).applications[i].ServiceEnabled
                     = (P!Exposed(configs[i].sources) # {})
<1>1. PICK n \in 0 .. Len(configs) :
               /\ P!ParseResult(configs).applications
                    = [k \in 1 .. n |-> P!Application(configs[k])]
               /\ P!ParseResult(configs).failed = (n < Len(configs))
               /\ \A j \in DOMAIN configs :
                      j \in 1 .. n <=> (1 .. j) \cap Nameless(configs) = {}
  BY NamedPrefix
<1>2. Len(configs) \in Nat /\ DOMAIN configs = 1 .. Len(configs)
      /\ configs[i] \in AppConfigShape(V)
  OBVIOUS
<1>3. (\E k \in 1 .. i : configs[k].name = "")
          <=> (1 .. i) \cap Nameless(configs) # {}
  <2>1. 1 .. i \subseteq DOMAIN configs
    BY <1>2
  <2> QED BY <2>1, Zenon DEF Nameless
<1>4. CASE (1 .. i) \cap Nameless(configs) # {}
  <2>1. i \notin 1 .. n
    BY <1>1, <1>4
  <2>2. n < Len(configs)
    BY <1>1, <1>2, <2>1
  <2>3. i \notin DOMAIN P!ParseResult(configs).applications
    BY <1>1, <2>1
  <2>4. P!ParseResult(configs).failed
    BY <1>1, <2>2
  <2> QED BY <1>3, <1>4, <2>3, <2>4, Zenon
<1>5. CASE (1 .. i) \cap Nameless(configs) = {}
  <2>1. i \in 1 .. n
    BY <1>1, <1>5
  <2>2. P!ParseResult(configs).applications[i] = P!Application(configs[i])
    BY <1>1, <2>1
  <2>3. \A c \in AppConfigShape(V) : c.sources \in Seq(SourceShape(V))
    BY DEF AppConfigShape
  <2>4. configs[i].sources \in Seq(SourceShape(V))
    BY <1>2, <2>3
  <2>5. \A c : /\ P!Application(c).ContainerPorts = P!ContainerPorts(c.sources)
               /\ P!Application(c).ServiceEnabled
                    = (P!ContainerPorts(c.sources) # <<>>)
    BY DEF P!Application
  <2>6. /\ P!PortsOf(configs[i].sources, P!ContainerPorts(configs[i].sources))
        /\ (P!ContainerPorts(configs[i].sources) # <<>>)
             = (P!Exposed(configs[i].sources) # {})
    BY <2>4, PortsListed
  <2>7. P!PortsOf(configs[i].sources,
            P!ParseResult(configs).applications[i].ContainerPorts)
    BY <2>2, <2>5, <2>6, Zenon
  <2>8. P!ParseResult(configs).applications[i].ServiceEnabled
            = (P!Exposed(configs[i].sources) # {})
    BY <2>2, <2>5, <2>6, Zenon
  <2> QED BY <1>3, <1>5, <2>7, <2>8, Zenon
<1> QED BY <1>4, <1>5

\* The parser's answers in MCFunctions.
AnswerValues == {"", "app", "TCP", "UDP"}

AnswerInv == answer \in Seq(AppConfigShape(AnswerValues))

LEMMA SourcesShape == Sources \subseteq SourceShape(AnswerValues)
<1>1. {8080, 9443} \subseteq Nat /\ {"TCP", "UDP"} \subseteq AnswerValues
  BY DEF AnswerValues
<1> QED BY <1>1 DEF Sources, SourceShape

LEMMA AnswerParts ==
    ASSUME NEW V
    PROVE  /\ \A n \in V : [name |-> n, sources |-> <<>>] \in AppConfigShape(V)
           /\ \A c \in AppConfigShape(V), s \in SourceShape(V) :
                  [c EXCEPT !.sources = Append(@, s)] \in AppConfigShape(V)
<1>1. \A n \in V : [name |-> n, sources |-> <<>>] \in AppConfigShape(V)
  BY DEF AppConfigShape
<1>2. ASSUME NEW c \in AppConfigShape(V), NEW s \in SourceShape(V)
      PROVE  [c EXCEPT !.sources = Append(@, s)] \in AppConfigShape(V)
  <2>1. c.sources \in Seq(SourceShape(V))
    BY DEF AppConfigShape
  <2>2. Append(c.sources, s) \in Seq(SourceShape(V))
    BY <2>1
  <2> QED BY <2>2 DEF AppConfigShape
<1> QED BY <1>1, <1>2

LEMMA AppendIn ==
    ASSUME NEW V, NEW c \in V
    PROVE  \A s \in Seq(V) : Append(s, c) \in Seq(V)
OBVIOUS

LEMMA AnswerInvariant == Spec => []AnswerInv
<1>1. Init => AnswerInv
  BY DEF Init, AnswerInv
<1>2. ASSUME AnswerInv, [Next]_vars PROVE AnswerInv'
  <2>1. ASSUME NEW name \in {"", "app"}, AddAppConfig(name) PROVE AnswerInv'
    <3> DEFINE c == [name |-> name, sources |-> <<>>]
    <3>1. name \in AnswerValues
      BY DEF AnswerValues
    <3>2. c \in AppConfigShape(AnswerValues)
      BY <3>1, AnswerParts
    <3>3. answer' = Append(answer, c)
      BY <2>1 DEF AddAppConfig
    <3>4. \A s \in Seq(AppConfigShape(AnswerValues)) :
              Append(s, c) \in Seq(AppConfigShape(AnswerValues))
      BY <3>2, AppendIn, Zenon
    <3> HIDE DEF c
    <3> QED BY <1>2, <3>3, <3>4, Zenon DEF AnswerInv
  <2>2. ASSUME NEW source \in Sources, AddSource(source) PROVE AnswerInv'
    <3> DEFINE n == Len(answer)
               c == answer[n]
               d == [c EXCEPT !.sources = Append(@, source)]
    <3>1. source \in SourceShape(AnswerValues)
      BY SourcesShape
    <3>2. answer # <<>>
      BY <2>2 DEF AddSource
    <3>3. n \in 1 .. Len(answer) /\ c \in AppConfigShape(AnswerValues)
      BY <1>2, <3>2 DEF AnswerInv
    <3>4. d \in AppConfigShape(AnswerValues)
      BY <3>1, <3>3, AnswerParts
    <3>5. answer' = [answer EXCEPT ![n] = d]
      BY <2>2 DEF AddSource
    <3> HIDE DEF c, d
    <3> QED BY <1>2, <3>3, <3>4, <3>5 DEF AnswerInv
  <2>3. CASE AnswerGrows
    BY <2>1, <2>2, <2>3 DEF AnswerGrows
  <2>4. CASE ClusterChanges \/ SpecChanges \/ NextName \/ UNCHANGED vars
    <3>1. answer' = answer
      BY <2>4 DEF ClusterChanges, SpecChanges, NextName, vars
    <3> QED BY <1>2, <3>1 DEF AnswerInv
  <2> QED BY <1>2, <2>3, <2>4 DEF Next
<1> QED BY <1>1, <1>2, PTL DEF Spec

\* The loops of Parse expose every port that a source listens on once, and
\* return no application without a name or after one, whatever the parser
\* answers.
THEOREM PortsInvariant == Spec => []PortsExposed
<1>1. AnswerInv => PortsExposed
  BY AnswerParsed, Zenon DEF AnswerInv, PortsExposed
<1> QED BY <1>1, AnswerInvariant, PTL

---------------------------------------------------------------------------
(* Names.                                                                  *)

LEMMA Division ==
    ASSUME NEW n \in Nat, n >= Base, NEW q, q = n \div Base, NEW r, r = n % Base
    PROVE  q \in Nat /\ q >= 1 /\ q < n /\ r \in 0 .. Base - 1
<1>1. Base \in Nat /\ Base > 1
  BY BoundsAssumption
<1>2. q \in Int /\ r \in Int
  BY <1>1
<1>3. r \in 0 .. Base - 1
  BY <1>1
<1>4. n = Base * q + r
  BY <1>1, <1>2, SMT
<1>5. q >= 1
  <2>1. \A b \in Nat, x \in Int : x <= 0 => b * x <= 0
    OBVIOUS
  <2>2. q <= 0 => Base * q <= 0
    BY <1>1, <1>2, <2>1
  <2>3. Base * q \in Int
    BY <1>1, <1>2
  <2> QED BY <1>1, <1>2, <1>3, <1>4, <2>2, <2>3
<1>6. q < n
  <2>1. \A b \in Nat, x \in Int : b > 1 /\ x >= 1 => b * x > x
    OBVIOUS
  <2>2. Base * q > q /\ Base * q \in Int
    BY <1>1, <1>2, <1>5, <2>1
  <2> QED BY <1>1, <1>2, <1>3, <1>4, <2>2
<1> QED BY <1>2, <1>3, <1>5, <1>6

LEMMA DivisionFacts ==
    ASSUME NEW n \in Nat, n >= Base
    PROVE  /\ n \div Base \in 0 .. n - 1 /\ n \div Base >= 1
           /\ n \div Base \in Nat /\ n % Base \in 0 .. Base - 1 /\ n % Base \in Nat
<1>1. ASSUME NEW q, q = n \div Base, NEW r, r = n % Base
      PROVE  q \in 0 .. n - 1 /\ q >= 1 /\ q \in Nat /\ r \in 0 .. Base - 1 /\ r \in Nat
  <2>1. q \in Nat /\ q >= 1 /\ q < n /\ r \in 0 .. Base - 1
    BY <1>1, Division
  <2> QED BY <2>1, BoundsAssumption
<1> QED BY <1>1, Zenon

LEMMA DivisionInjective ==
    ASSUME NEW n \in Nat, NEW m \in Nat, n \div Base = m \div Base, n % Base = m % Base
    PROVE  n = m
BY BoundsAssumption, SMT

LEMMA OneDigit ==
    ASSUME NEW n \in Nat
    PROVE  <<n>> \in Seq(Nat) /\ Len(<<n>>) = 1 /\ <<n>>[1] = n
OBVIOUS

\* The body of Itoa.
Numeral(g, n) == IF n < Base THEN <<n>> ELSE Append(g[n \div Base], n % Base)

IsItoa(g, m) ==
    /\ g \in [0 .. m -> Seq(Nat)]
    /\ \A n \in 0 .. m : g[n] = Numeral(g, n)

LEMMA ItoaUpTo ==
    ASSUME NEW m \in Nat
    PROVE  \E g : IsItoa(g, m)
<1> DEFINE S == {k \in 0 .. m : \E g : IsItoa(g, k)}
<1>0. Base \in Nat /\ Base > 1
  BY BoundsAssumption
<1>1. 0 \in S
  <2> DEFINE g == [n \in 0 .. 0 |-> <<n>>]
  <2>1. g \in [0 .. 0 -> Seq(Nat)]
    OBVIOUS
  <2>2. \A n \in 0 .. 0 : n < Base /\ g[n] = <<n>>
    BY <1>0
  <2>3. IsItoa(g, 0)
    <3> HIDE DEF g
    <3> QED BY <2>1, <2>2 DEF IsItoa, Numeral
  <2> QED BY <2>3
<1>2. ASSUME NEW k \in 0 .. m - 1, k \in S PROVE k + 1 \in S
  <2>1. PICK g : IsItoa(g, k)
    BY <1>2
  <2> DEFINE h == [n \in 0 .. k + 1 |-> IF n <= k THEN g[n] ELSE Numeral(g, n)]
  <2>2. ASSUME NEW n \in 0 .. k + 1, n >= Base
        PROVE  n \div Base \in 0 .. k /\ n % Base \in Nat
    <3>1. n \in Nat
      OBVIOUS
    <3>2. n \div Base \in 0 .. n - 1 /\ n % Base \in Nat
      BY <2>2, <3>1, DivisionFacts
    <3>3. \A q \in 0 .. n - 1 : q \in 0 .. k
      OBVIOUS
    <3> QED BY <3>2, <3>3, Zenon
  <2>3. ASSUME NEW n \in 0 .. k + 1 PROVE h[n] = Numeral(h, n)
    <3>1. h[n] = Numeral(g, n)
      BY <2>1 DEF IsItoa
    <3>2. n >= Base => h[n \div Base] = g[n \div Base]
      BY <2>2
    <3>3. n < Base \/ n >= Base
      BY <1>0
    <3> HIDE DEF h
    <3> QED BY <3>1, <3>2, <3>3, Zenon DEF Numeral
  <2>4. ASSUME NEW n \in 0 .. k + 1 PROVE h[n] \in Seq(Nat)
    <3>1. CASE n < Base
      <4>1. n \in Nat
        OBVIOUS
      <4>2. <<n>> \in Seq(Nat)
        BY <4>1, OneDigit, Zenon
      <4> HIDE DEF h
      <4>3. h[n] = <<n>>
        BY <2>3, <3>1, Zenon DEF Numeral
      <4> QED BY <4>2, <4>3, Zenon
    <3>2. CASE n >= Base
      <4>1. g[n \div Base] \in Seq(Nat) /\ n % Base \in Nat
        BY <2>1, <2>2, <3>2, Zenon DEF IsItoa
      <4>2. Append(g[n \div Base], n % Base) \in Seq(Nat)
        BY <4>1, AppendIn
      <4>3. h[n \div Base] = g[n \div Base]
        BY <2>2, <3>2
      <4>4. ~(n < Base)
        BY <1>0, <3>2
      <4> HIDE DEF h
      <4> QED BY <2>3, <4>2, <4>3, <4>4, Zenon DEF Numeral
    <3> QED BY <1>0, <3>1, <3>2
  <2>5. IsItoa(h, k + 1)
    <3>1. h \in [0 .. k + 1 -> Seq(Nat)]
      BY <2>4
    <3> HIDE DEF h
    <3> QED BY <2>3, <3>1 DEF IsItoa
  <2> HIDE DEF h
  <2> QED BY <2>5
<1>3. m \in S
  <2> HIDE DEF S
  <2> QED BY <1>1, <1>2, Induction
<1> QED BY <1>3

LEMMA ItoaUnique ==
    ASSUME NEW m \in Nat, NEW k \in Nat, NEW g, NEW h, IsItoa(g, m), IsItoa(h, k),
           NEW n \in Nat, n <= m, n <= k
    PROVE  g[n] = h[n]
<1> DEFINE T == {x \in Nat : x <= m /\ x <= k /\ g[x] # h[x]}
<1> SUFFICES ASSUME T # {} PROVE FALSE
  OBVIOUS
<1>1. PICK x \in T : \A y \in T : x <= y
  <2>1. T \subseteq Nat
    OBVIOUS
  <2> HIDE DEF T
  <2> QED BY <2>1, LeastNumber
<1>2. g[x] = Numeral(g, x) /\ h[x] = Numeral(h, x)
  BY <1>1 DEF IsItoa
<1>3. x >= Base => g[x \div Base] = h[x \div Base]
  <2>1. ASSUME NEW q \in 0 .. x - 1 PROVE g[q] = h[q]
    BY <1>1
  <2> QED BY <1>1, <2>1, DivisionFacts
<1>4. x < Base \/ x >= Base
  BY <1>1, BoundsAssumption
<1>5. g[x] = h[x]
  BY <1>2, <1>3, <1>4, Zenon DEF Numeral
<1> QED BY <1>1, <1>5

\* Itoa satisfies the equation that defines it.
LEMMA ItoaEquation ==
    /\ P!Itoa \in [Nat -> Seq(Nat)]
    /\ \A n \in Nat : P!Itoa[n] = Numeral(P!Itoa, n)
<1> DEFINE G(n) == CHOOSE g : IsItoa(g, n)
           f == [n \in Nat |-> G(n)[n]]
<1>1. \A n \in Nat : IsItoa(G(n), n)
  BY ItoaUpTo, Zenon
<1> HIDE DEF G
<1>2. ASSUME NEW n \in Nat PROVE f[n] = Numeral(f, n)
  <2>1. f[n] = Numeral(G(n), n)
    BY <1>1 DEF IsItoa
  <2>2. ASSUME n >= Base PROVE f[n \div Base] = G(n)[n \div Base]
    <3>1. ASSUME NEW q \in 0 .. n - 1 PROVE f[q] = G(n)[q]
      <4>1. q \in Nat /\ q <= n /\ q <= q
        OBVIOUS
      <4>2. G(q)[q] = G(n)[q]
        BY <1>1, <4>1, ItoaUnique
      <4> QED BY <4>1, <4>2
    <3> HIDE DEF f
    <3> QED BY <2>2, <3>1, DivisionFacts, Zenon
  <2>3. n < Base \/ n >= Base
    BY BoundsAssumption
  <2> HIDE DEF f
  <2> QED BY <2>1, <2>2, <2>3, Zenon DEF Numeral
<1>3. f = [n \in Nat |-> Numeral(f, n)]
  <2> DEFINE e == [n \in Nat |-> Numeral(f, n)]
  <2>1. \A n \in Nat : e[n] = f[n]
    <3> HIDE DEF f
    <3> QED BY <1>2
  <2> QED BY <2>1
<1>4. P!Itoa = CHOOSE g : g = [n \in Nat |-> Numeral(g, n)]
  BY DEF P!Itoa, Numeral
<1>5. P!Itoa = [n \in Nat |-> Numeral(P!Itoa, n)]
  <2> HIDE DEF f
  <2> QED BY <1>3, <1>4, Zenon
<1>6. \A n \in Nat : P!Itoa[n] = Numeral(P!Itoa, n)
  BY <1>5, Zenon
<1>7. DOMAIN P!Itoa = Nat
  BY <1>5, Zenon
<1>8. \A n \in Nat : P!Itoa[n] \in Seq(Nat)
  <2> DEFINE T == {n \in Nat : P!Itoa[n] \notin Seq(Nat)}
  <2> SUFFICES ASSUME T # {} PROVE FALSE
    OBVIOUS
  <2>1. PICK n \in T : \A y \in T : n <= y
    <3>1. T \subseteq Nat
      OBVIOUS
    <3> HIDE DEF T
    <3> QED BY <3>1, LeastNumber
  <2>2. n \in Nat /\ P!Itoa[n] = Numeral(P!Itoa, n)
    BY <1>6, <2>1
  <2>3. CASE n < Base
    <3>1. P!Itoa[n] = <<n>>
      BY <2>2, <2>3, Zenon DEF Numeral
    <3>2. P!Itoa[n] \in Seq(Nat)
      BY <2>2, <3>1, OneDigit, Zenon
    <3> QED BY <2>1, <3>2
  <2>4. CASE n >= Base
    <3>1. \A q \in 0 .. n - 1 : P!Itoa[q] \in Seq(Nat)
      BY <2>1
    <3>2. P!Itoa[n \div Base] \in Seq(Nat) /\ n % Base \in Nat
      BY <2>2, <2>4, <3>1, DivisionFacts, Zenon
    <3>3. Append(P!Itoa[n \div Base], n % Base) \in Seq(Nat)
      BY <3>2, AppendIn, Zenon
    <3>4. ~(n < Base)
      BY <2>2, <2>4, BoundsAssumption
    <3>5. P!Itoa[n] \in Seq(Nat)
      BY <2>2, <3>3, <3>4, Zenon DEF Numeral
    <3> QED BY <2>1, <3>5
  <2> QED BY <2>2, <2>3, <2>4, BoundsAssumption
<1> QED BY <1>5, <1>6, <1>7, <1>8

\* A numeral is one digit, or the numeral of the quotient and a last digit.
LEMMA ItoaCases ==
    ASSUME NEW n \in Nat
    PROVE  /\ P!Itoa[n] \in Seq(Nat)
           /\ n < Base => P!Itoa[n] = <<n>>
           /\ n >= Base =>
                  /\ P!Itoa[n] = Append(P!Itoa[n \div Base], n % Base)
                  /\ P!Itoa[n \div Base] \in Seq(Nat) /\ n % Base \in Nat
<1>1. P!Itoa[n] = Numeral(P!Itoa, n) /\ P!Itoa[n] \in Seq(Nat)
  BY ItoaEquation
<1>2. n >= Base => ~(n < Base)
  BY BoundsAssumption
<1>3. n >= Base => P!Itoa[n \div Base] \in Seq(Nat) /\ n % Base \in Nat
  BY ItoaEquation, DivisionFacts, Zenon
<1> QED BY <1>1, <1>2, <1>3, Zenon DEF Numeral

\* The quotient and the last digit by name.
LEMMA LastDigit ==
    ASSUME NEW n \in Nat, n >= Base
    PROVE  \E q \in 0 .. n - 1, d \in Nat :
               /\ q >= 1 /\ q = n \div Base /\ d = n % Base
               /\ P!Itoa[n] = Append(P!Itoa[q], d)
<1>1. n \div Base \in 0 .. n - 1 /\ n \div Base >= 1 /\ n % Base \in Nat
  BY DivisionFacts
<1>2. P!Itoa[n] = Append(P!Itoa[n \div Base], n % Base)
  BY ItoaCases
<1> QED BY <1>1, <1>2, Zenon

LEMMA AppendFacts ==
    ASSUME NEW s \in Seq(Nat), NEW d \in Nat, NEW u, u = Append(s, d)
    PROVE  /\ Len(u) = Len(s) + 1 /\ u[Len(s) + 1] = d /\ Len(s) \in Nat
           /\ \A i \in 1 .. Len(s) : u[i] = s[i]
OBVIOUS

LEMMA AppendInjective ==
    ASSUME NEW s \in Seq(Nat), NEW t \in Seq(Nat), NEW d \in Nat, NEW e \in Nat, NEW u
    PROVE  u = Append(s, d) /\ u = Append(t, e) => s = t /\ d = e
<1>1. u = Append(s, d) => /\ Len(u) = Len(s) + 1 /\ u[Len(s) + 1] = d
                          /\ Len(s) \in Nat /\ \A i \in 1 .. Len(s) : u[i] = s[i]
  BY AppendFacts
<1>2. u = Append(t, e) => /\ Len(u) = Len(t) + 1 /\ u[Len(t) + 1] = e
                          /\ Len(t) \in Nat /\ \A i \in 1 .. Len(t) : u[i] = t[i]
  BY AppendFacts
<1>3. ASSUME Len(u) = Len(s) + 1, u[Len(s) + 1] = d, Len(s) \in Nat,
             \A i \in 1 .. Len(s) : u[i] = s[i],
             Len(u) = Len(t) + 1, u[Len(t) + 1] = e, Len(t) \in Nat,
             \A i \in 1 .. Len(t) : u[i] = t[i]
      PROVE  s = t /\ d = e
  <2>1. Len(s) = Len(t)
    BY <1>3
  <2>2. d = e
    BY <1>3, <2>1
  <2>3. \A i \in DOMAIN s : s[i] = t[i]
    BY <1>3, <2>1
  <2> QED BY <2>1, <2>2, <2>3, EqualLists
<1> QED BY <1>1, <1>2, <1>3, Zenon

LEMMA Ordered ==
    ASSUME NEW n \in Nat
    PROVE  n < Base <=> ~(n >= Base)
BY BoundsAssumption

\* No leading zero: only 0 itself begins with one.
LEMMA LeadingDigit ==
    ASSUME NEW n \in Nat
    PROVE  /\ Len(P!Itoa[n]) >= 1
           /\ P!Itoa[n][1] = 0 => n = 0
<1> DEFINE Good(x) == Len(P!Itoa[x]) >= 1 /\ (P!Itoa[x][1] = 0 => x = 0)
           T == {x \in Nat : ~Good(x)}
<1> SUFFICES ASSUME T # {} PROVE FALSE
  OBVIOUS
<1>1. PICK x \in T : \A y \in T : x <= y
  <2>1. T \subseteq Nat
    OBVIOUS
  <2> HIDE DEF T
  <2> QED BY <2>1, LeastNumber
<1>2. x \in Nat /\ ~Good(x)
  BY <1>1
<1>3. CASE x < Base
  <2>1. P!Itoa[x] = <<x>>
    BY <1>2, <1>3, ItoaCases
  <2>2. Len(P!Itoa[x]) = 1 /\ P!Itoa[x][1] = x
    BY <1>2, <2>1, OneDigit
  <2> QED BY <1>2, <2>2
<1>4. CASE x >= Base
  <2>1. \A q \in 0 .. x - 1 : Good(q)
    <3> HIDE DEF Good
    <3> QED BY <1>1
  <2>2. PICK q \in 0 .. x - 1, d \in Nat : q >= 1 /\ P!Itoa[x] = Append(P!Itoa[q], d)
    BY <1>2, <1>4, LastDigit, Zenon
  <2>3. q \in Nat /\ q # 0 /\ P!Itoa[q] \in Seq(Nat)
    BY <1>2, <2>2, ItoaCases
  <2>4. Len(P!Itoa[q]) >= 1 /\ P!Itoa[q][1] # 0
    BY <2>1, <2>3
  <2>5. /\ Len(P!Itoa[x]) = Len(P!Itoa[q]) + 1 /\ Len(P!Itoa[q]) \in Nat
        /\ \A i \in 1 .. Len(P!Itoa[q]) : P!Itoa[x][i] = P!Itoa[q][i]
    BY <2>2, <2>3, AppendFacts
  <2>6. Len(P!Itoa[x]) >= 1 /\ P!Itoa[x][1] # 0
    BY <2>4, <2>5
  <2> QED BY <1>2, <2>6
<1> QED BY <1>2, <1>3, <1>4, Ordered

\* Different numbers have different numerals.
LEMMA ItoaInjective ==
    ASSUME NEW n \in Nat, NEW m \in Nat, P!Itoa[n] = P!Itoa[m]
    PROVE  n = m
<1> DEFINE T == {x \in Nat : \E y \in Nat : P!Itoa[x] = P!Itoa[y] /\ x # y}
<1> SUFFICES ASSUME T # {} PROVE FALSE
  OBVIOUS
<1>1. PICK x \in T : \A y \in T : x <= y
  <2>1. T \subseteq Nat
    OBVIOUS
  <2> HIDE DEF T
  <2> QED BY <2>1, LeastNumber
<1>2. PICK y \in Nat : P!Itoa[x] = P!Itoa[y] /\ x # y
  BY <1>1
<1>3. x \in Nat /\ \A q \in 0 .. x - 1, z \in Nat : P!Itoa[q] = P!Itoa[z] => q = z
  BY <1>1
<1> HIDE DEF T
<1>4. ASSUME NEW z \in Nat, z < Base PROVE Len(P!Itoa[z]) = 1 /\ P!Itoa[z][1] = z
  <2>1. P!Itoa[z] = <<z>>
    BY <1>4, ItoaCases
  <2> QED BY <2>1, OneDigit
<1>5. ASSUME NEW z \in Nat, z >= Base PROVE Len(P!Itoa[z]) # 1
  <2>1. PICK q \in 0 .. z - 1, d \in Nat : P!Itoa[z] = Append(P!Itoa[q], d)
    BY <1>5, LastDigit, Zenon
  <2>2. q \in Nat /\ P!Itoa[q] \in Seq(Nat) /\ Len(P!Itoa[q]) >= 1
    BY <2>1, ItoaCases, LeadingDigit
  <2>3. Len(P!Itoa[z]) = Len(P!Itoa[q]) + 1 /\ Len(P!Itoa[q]) \in Nat
    BY <2>1, <2>2, AppendFacts
  <2> QED BY <2>2, <2>3
<1>6. CASE x < Base
  <2>1. Len(P!Itoa[y]) = 1 /\ P!Itoa[y][1] = x
    BY <1>2, <1>3, <1>4, <1>6
  <2>2. y < Base
    BY <1>5, <2>1, Ordered, Zenon
  <2> QED BY <1>2, <1>4, <2>1, <2>2, Zenon
<1>7. CASE x >= Base
  <2>1. Len(P!Itoa[y]) # 1
    BY <1>2, <1>3, <1>5, <1>7
  <2>2. y >= Base
    BY <1>4, <2>1, Ordered, Zenon
  <2>3. PICK q \in 0 .. x - 1, d \in Nat :
            q = x \div Base /\ d = x % Base /\ P!Itoa[x] = Append(P!Itoa[q], d)
    BY <1>3, <1>7, LastDigit, Zenon
  <2>4. PICK r \in 0 .. y - 1, e \in Nat :
            r = y \div Base /\ e = y % Base /\ P!Itoa[y] = Append(P!Itoa[r], e)
    BY <2>2, LastDigit, Zenon
  <2>5. q \in Nat /\ r \in Nat
    BY <1>3, <2>3, <2>4
  <2>6. P!Itoa[q] \in Seq(Nat) /\ P!Itoa[r] \in Seq(Nat)
    BY <2>5, ItoaCases
  <2>7. P!Itoa[q] = P!Itoa[r] /\ d = e
    <3>1. P!Itoa[x] = Append(P!Itoa[q], d)
      BY <2>3
    <3>2. P!Itoa[x] = Append(P!Itoa[r], e)
      BY <1>2, <2>4
    <3> DEFINE u == P!Itoa[x]
               s == P!Itoa[q]
               v == P!Itoa[r]
    <3>3. u = Append(s, d) /\ u = Append(v, e) => s = v /\ d = e
      <4> HIDE DEF u, s, v
      <4>1. s \in Seq(Nat) /\ v \in Seq(Nat)
        BY <2>6 DEF s, v
      <4> QED BY <4>1, AppendInjective, Zenon
    <3> QED BY <3>1, <3>2, <3>3, Zenon
  <2>8. q = r
    BY <1>3, <2>5, <2>7, Zenon
  <2>9. x = y
    BY <1>3, <2>3, <2>4, <2>7, <2>8, DivisionInjective, Zenon
  <2> QED BY <1>2, <2>9
<1> QED BY <1>3, <1>6, <1>7, Ordered

LEMMA TwoDigits ==
    ASSUME NEW a \in Nat, NEW b \in Nat
    PROVE  Append(<<a>>, b) = <<a, b>>
<1>1. <<a>> \in Seq(Nat) /\ Len(<<a>>) = 1 /\ <<a>>[1] = a
  BY OneDigit
<1>2. ASSUME NEW s \in Seq(Nat), Len(s) = 1, s[1] = a
      PROVE  /\ Append(s, b) \in Seq(Nat) /\ Len(Append(s, b)) = 2
             /\ Append(s, b)[1] = a /\ Append(s, b)[2] = b
  <2>1. \A u : u = Append(s, b) => u \in Seq(Nat) /\ Len(u) = 2 /\ u[1] = a /\ u[2] = b
    <3>1. ASSUME NEW u, u = Append(s, b)
          PROVE  /\ Len(u) = Len(s) + 1 /\ u[Len(s) + 1] = b
                 /\ \A i \in 1 .. Len(s) : u[i] = s[i]
      BY <3>1, AppendFacts
    <3>2. ASSUME NEW u, Len(u) = Len(s) + 1, u[Len(s) + 1] = b,
                 \A i \in 1 .. Len(s) : u[i] = s[i]
          PROVE  Len(u) = 2 /\ u[1] = a /\ u[2] = b
      BY <1>2, <3>2
    <3> QED BY <3>1, <3>2, AppendIn, Zenon
  <2> QED BY <2>1, Zenon
<1>3. /\ Append(<<a>>, b) \in Seq(Nat) /\ Len(Append(<<a>>, b)) = 2
      /\ Append(<<a>>, b)[1] = a /\ Append(<<a>>, b)[2] = b
  BY <1>1, <1>2, Zenon
<1>4. /\ <<a, b>> \in Seq(Nat) /\ Len(<<a, b>>) = 2
      /\ <<a, b>>[1] = a /\ <<a, b>>[2] = b
  OBVIOUS
<1>5. ASSUME NEW s \in Seq(Nat), NEW t \in Seq(Nat), Len(s) = 2, Len(t) = 2,
             s[1] = t[1], s[2] = t[2]
      PROVE  s = t
  BY <1>5, EqualLists
<1> QED BY <1>3, <1>4, <1>5, Zenon

LEMMA ItoaBase == P!Itoa[Base] = <<1, 0>>
<1>1. Base \in Nat /\ Base >= Base /\ 1 < Base /\ 1 \in Nat /\ 0 \in Nat
  BY BoundsAssumption
<1>2. ASSUME NEW q \in Nat, NEW d \in Nat, q = Base \div Base, d = Base % Base
      PROVE  q = 1 /\ d = 0
  BY <1>1, <1>2, SMT
<1>3. PICK q \in 0 .. Base - 1, d \in Nat :
          q = Base \div Base /\ d = Base % Base /\ P!Itoa[Base] = Append(P!Itoa[q], d)
  BY <1>1, LastDigit, Zenon
<1>4. q \in Nat
  BY <1>1, <1>3
<1>5. q = 1 /\ d = 0
  BY <1>2, <1>3, <1>4, Zenon
<1>6. P!Itoa[1] = <<1>>
  BY <1>1, ItoaCases
<1>7. P!Itoa[Base] = Append(<<1>>, 0)
  BY <1>3, <1>5, <1>6, Zenon
<1>8. Append(<<1>>, 0) = <<1, 0>>
  BY <1>1, TwoDigits
<1> QED BY <1>7, <1>8, Zenon

\* s is what follows the first k digits of u.
Rest(u, s, k) ==
    Len(u) = Len(s) + k /\ \A i \in 1 .. Len(s) : u[i + k] = s[i]

\* A sequence after one digit, and after two.
LEMMA AfterDigit ==
    ASSUME NEW s \in Seq(Nat), NEW a \in Nat
    PROVE  \A u : u = <<a>> \o s =>
                      Rest(u, s, 1) /\ u[1] = a
BY DEF Rest

LEMMA AfterOneZero ==
    ASSUME NEW s \in Seq(Nat)
    PROVE  \A u : u = <<1, 0>> \o s => Rest(u, s, 2) /\ u[1] = 1 /\ u[2] = 0
BY DEF Rest

LEMMA SameRest ==
    ASSUME NEW s \in Seq(Nat), NEW t \in Seq(Nat), NEW u, NEW k \in {1, 2},
           Rest(u, s, k), Rest(u, t, k)
    PROVE  s = t
<1>1. Len(s) \in Nat /\ Len(t) \in Nat /\ DOMAIN s = 1 .. Len(s) /\ k \in Nat
  OBVIOUS
<1>2. Len(s) = Len(t)
  BY <1>1 DEF Rest
<1>3. \A i \in DOMAIN s : s[i] = t[i]
  BY <1>1, <1>2 DEF Rest
<1> QED BY <1>2, <1>3, EqualLists

LEMMA NumeralSequence ==
    ASSUME NEW n \in Nat
    PROVE  /\ P!Itoa[n] \in Seq(Nat) /\ Len(P!Itoa[n]) >= 1
           /\ P!Itoa[n][1] = 0 => Len(P!Itoa[n]) = 1
<1>1. P!Itoa[n] \in Seq(Nat) /\ Len(P!Itoa[n]) >= 1 /\ (P!Itoa[n][1] = 0 => n = 0)
  BY ItoaCases, LeadingDigit
<1>2. 0 \in Nat /\ 0 < Base
  BY BoundsAssumption
<1>3. P!Itoa[0] = <<0>>
  BY <1>2, ItoaCases
<1>4. Len(P!Itoa[0]) = 1
  BY <1>2, <1>3, OneDigit
<1> QED BY <1>1, <1>4, Zenon

\* Deploy writes the number of the application and the version next to each
\* other: up to Base + 1 applications, the name of a config map still tells
\* both, whatever the versions.
THEOREM NamesUnique ==
    ASSUME NEW i \in 0 .. Base, NEW j \in 0 .. Base, NEW v \in Nat, NEW w \in Nat,
           P!AppsCMSuffix(i, v) = P!AppsCMSuffix(j, w)
    PROVE  i = j /\ v = w
<1>0. Base \in Nat /\ 1 \in Nat /\ 0 \in Nat /\ i \in Nat /\ j \in Nat
  BY BoundsAssumption
<1>00. 1 \in {1, 2} /\ 2 \in {1, 2}
  OBVIOUS
<1> DEFINE u == P!AppsCMSuffix(i, v)
<1>1. /\ P!Itoa[v] \in Seq(Nat) /\ P!Itoa[w] \in Seq(Nat)
      /\ Len(P!Itoa[v]) \in Nat /\ Len(P!Itoa[w]) \in Nat
  <2>1. P!Itoa[v] \in Seq(Nat) /\ P!Itoa[w] \in Seq(Nat)
    BY NumeralSequence
  <2> QED BY <2>1
<1>2. ASSUME NEW k \in Nat, k < Base, NEW x \in Nat, u = P!Itoa[k] \o P!Itoa[x]
      PROVE  Rest(u, P!Itoa[x], 1) /\ u[1] = k
  <2>1. P!Itoa[k] = <<k>>
    BY <1>2, ItoaCases
  <2>2. u = <<k>> \o P!Itoa[x]
    BY <1>2, <2>1, Zenon
  <2> HIDE DEF u
  <2> QED BY <2>2, NumeralSequence, AfterDigit, Zenon
<1>3. ASSUME NEW x \in Nat, u = P!Itoa[Base] \o P!Itoa[x]
      PROVE  Rest(u, P!Itoa[x], 2) /\ u[1] = 1 /\ u[2] = 0
  <2>1. u = <<1, 0>> \o P!Itoa[x]
    BY <1>3, ItoaBase, Zenon
  <2>2. P!Itoa[x] \in Seq(Nat)
    BY NumeralSequence
  <2> HIDE DEF u
  <2> QED BY <2>1, <2>2, AfterOneZero, Zenon
<1>4. u = P!Itoa[i] \o P!Itoa[v] /\ u = P!Itoa[j] \o P!Itoa[w]
  BY DEF P!AppsCMSuffix
<1> HIDE DEF u
\* a number below Base beside the number Base
<1>5. ASSUME NEW k \in Nat, k < Base, NEW x \in Nat, NEW y \in Nat,
             u = P!Itoa[k] \o P!Itoa[x], u = P!Itoa[Base] \o P!Itoa[y]
      PROVE  FALSE
  <2> DEFINE s == P!Itoa[x]
             t == P!Itoa[y]
  <2>1. Len(u) = Len(s) + 1 /\ \A n \in 1 .. Len(s) : u[n + 1] = s[n]
    BY <1>2, <1>5 DEF Rest
  <2>2. Len(u) = Len(t) + 2 /\ u[2] = 0
    BY <1>3, <1>5 DEF Rest
  <2>3. /\ s \in Seq(Nat) /\ t \in Seq(Nat) /\ Len(s) >= 1 /\ Len(t) >= 1
        /\ s[1] = 0 => Len(s) = 1
    BY NumeralSequence
  <2> HIDE DEF s, t
  <2>4. Len(s) \in Nat /\ Len(t) \in Nat
    BY <2>3
  <2>5. s[1] = 0
    BY <2>1, <2>2, <2>3, <2>4
  <2>6. Len(s) = 1
    BY <2>3, <2>5, Zenon
  <2>7. \A l \in Nat, m \in Nat : l = 1 /\ l + 1 = m + 2 => ~(m >= 1)
    OBVIOUS
  <2>8. Len(s) + 1 = Len(t) + 2
    BY <2>1, <2>2, Zenon
  <2> QED BY <2>3, <2>4, <2>6, <2>7, <2>8, Zenon
<1>6. CASE i < Base /\ j < Base
  <2>1. i = j
    BY <1>0, <1>2, <1>4, <1>6
  <2>2. P!Itoa[v] = P!Itoa[w]
    <3> DEFINE s == P!Itoa[v]
               t == P!Itoa[w]
    <3>1. Rest(u, s, 1) /\ Rest(u, t, 1)
      BY <1>0, <1>2, <1>4, <1>6
    <3>2. s \in Seq(Nat) /\ t \in Seq(Nat)
      BY <1>1
    <3> HIDE DEF s, t
    <3>3. s = t
      BY <1>00, <3>1, <3>2, SameRest, Zenon
    <3> QED BY <3>3 DEF s, t
  <2> QED BY <2>1, <2>2, ItoaInjective
<1>7. CASE i = Base /\ j = Base
  <2>1. P!Itoa[v] = P!Itoa[w]
    <3> DEFINE s == P!Itoa[v]
               t == P!Itoa[w]
    <3>1. Rest(u, s, 2) /\ Rest(u, t, 2)
      BY <1>3, <1>4, <1>7
    <3>2. s \in Seq(Nat) /\ t \in Seq(Nat)
      BY <1>1
    <3> HIDE DEF s, t
    <3>3. s = t
      BY <1>00, <3>1, <3>2, SameRest, Zenon
    <3> QED BY <3>3 DEF s, t
  <2> QED BY <1>7, <2>1, ItoaInjective
<1>8. CASE i < Base /\ j = Base
  BY <1>0, <1>4, <1>5, <1>8
<1>9. CASE i = Base /\ j < Base
  BY <1>0, <1>4, <1>5, <1>9
<1>10. (i < Base \/ i = Base) /\ (j < Base \/ j = Base)
  BY <1>0
<1> QED BY <1>6, <1>7, <1>8, <1>9, <1>10

NameInv == number \in 0 .. Base /\ version \in Nat

\* No write for one application changes the files of another: the names that
\* Deploy gives to config maps are distinct, for every base of the numerals
\* and whatever the bound on the versions.
THEOREM NamesInvariant == Spec => []NamesDistinct
<1>1. Init => NameInv
  BY BoundsAssumption DEF Init, NameInv
<1>2. ASSUME NameInv, [Next]_vars PROVE NameInv'
  <2>1. CASE NextName
    BY <1>2, <2>1, BoundsAssumption DEF NextName, NameInv
  <2>2. CASE ClusterChanges \/ SpecChanges \/ AnswerGrows \/ UNCHANGED vars
    <3>1. number' = number /\ version' = version
      BY <2>2 DEF ClusterChanges, SpecChanges, AnswerGrows, vars, nameVars
    <3> QED BY <1>2, <3>1 DEF NameInv
  <2> QED BY <1>2, <2>1, <2>2 DEF Next
<1>3. NameInv => NamesDistinct
  <2>1. \A v \in 0 .. MaxVersion : v \in Nat
    BY BoundsAssumption
  <2> QED BY <2>1, NamesUnique, Zenon DEF NameInv, NamesDistinct
<1> QED BY <1>1, <1>2, <1>3, PTL DEF Spec
===========================================================================
