--------------------------- MODULE SpecEquality ---------------------------
(***************************************************************************)
(* SiddhiProcessSpec.Equals, the comparison by which the update predicate  *)
(* decides whether an event is a change of the spec or a status write, and *)
(* the reference it is compared with.                                      *)
(*                                                                         *)
(* A spec is a record [apps, config, container, messaging, pvc, secret]    *)
(* whose lists are sequences and whose leaves are opaque values; an entry  *)
(* of an environment is a record [name, value].                            *)
(***************************************************************************)
EXTENDS Naturals, Sequences, FiniteSets

Elements(s) == {s[i] : i \in DOMAIN s}

Distinct(s) == \A i, j \in DOMAIN s : s[i] = s[j] => i = j

Occurrences(s, x) == Cardinality({i \in DOMAIN s : s[i] = x})

\* Every element of p is found somewhere in q: the nested loops with the
\* "contained" flag.
Contained(p, q) == \A i \in DOMAIN p : \E j \in DOMAIN q : p[i] = q[j]

---------------------------------------------------------------------------
(* Mutants of EqualApps: the length test dropped, the lists compared in    *)
(* their order.                                                            *)

EqualAppsAnyLength(p, q) == Contained(p, q)

EqualAppsOrdered(p, q) == p = q

---------------------------------------------------------------------------
EqualApps(p, q) == Len(p) = Len(q) /\ Contained(p, q)

\* The loop runs over the environment of the first container only.
EqualContainers(p, q) == p.image = q.image /\ Contained(p.env, q.env)

\* MessagingSystem.Equals: the servers are sorted before they are compared
\* position by position, which compares them as multisets.
EqualMessaging(p, q) ==
    /\ p.type = q.type
    /\ p.clusterID = q.clusterID
    /\ Len(p.servers) = Len(q.servers)
    /\ \A x \in Elements(p.servers) \cup Elements(q.servers) :
           Occurrences(p.servers, x) = Occurrences(q.servers, x)

\* The pointers VolumeMode and StorageClassName are equal when both are nil
\* or both point to the same value; the access modes are compared in order.
EqualsPVCSpec(p, q) ==
    /\ p.volumeMode = q.volumeMode
    /\ p.storageClass = q.storageClass
    /\ p.resources = q.resources
    /\ Len(p.accessModes) = Len(q.accessModes)
    /\ \A i \in DOMAIN p.accessModes : p.accessModes[i] = q.accessModes[i]

Equals(p, q) ==
    /\ EqualApps(p.apps, q.apps)
    /\ p.config = q.config
    /\ EqualContainers(p.container, q.container)
    /\ EqualMessaging(p.messaging, q.messaging)
    /\ EqualsPVCSpec(p.pvc, q.pvc)
    /\ p.secret = q.secret

---------------------------------------------------------------------------
(* What specs ask for.                                                     *)

\* The map that populateUserEnvs makes of an environment, as the set of its
\* entries: a later entry of a name replaces an earlier one.
populateUserEnvs(env) ==
    {env[i] : i \in {i \in DOMAIN env :
                        \A j \in i + 1 .. Len(env) : env[j].name # env[i].name}}

\* No name has two values.
Unambiguous(env) ==
    \A i, j \in DOMAIN env : env[i].name = env[j].name => env[i] = env[j]

SameElements(p, q) ==
    \A x \in Elements(p) \cup Elements(q) : Occurrences(p, x) = Occurrences(q, x)

SameButEnv(p, q) ==
    /\ SameElements(p.apps, q.apps)
    /\ p.config = q.config
    /\ p.container.image = q.container.image
    /\ p.messaging.type = q.messaging.type
    /\ p.messaging.clusterID = q.messaging.clusterID
    /\ SameElements(p.messaging.servers, q.messaging.servers)
    /\ p.pvc = q.pvc
    /\ p.secret = q.secret

\* They differ at most in the order of apps, environment entries, servers.
Reordered(p, q) ==
    SameButEnv(p, q) /\ SameElements(p.container.env, q.container.env)

\* They ask for the same thing.
SameMeaning(p, q) ==
    /\ SameButEnv(p, q)
    /\ populateUserEnvs(p.container.env) = populateUserEnvs(q.container.env)
===========================================================================
