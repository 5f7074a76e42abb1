---------------------------- MODULE MCArtifacts ----------------------------
(***************************************************************************)
(* Instance of Artifacts for TLC.  The specs are those of a process that   *)
(* goes from stateful to stateless and back: "failover" is a stateless     *)
(* receiver and a stateful application with a claim, "shuffled" two        *)
(* applications from a ConfigMap, in either order, "single" one stateless  *)
(* application, "broken" a stateful one whose claim is refused.            *)
(***************************************************************************)
EXTENDS Artifacts

Receiver == [code |-> "receiver", ports |-> <<8080, 9443>>, persistent |-> FALSE]
Stateful == [code |-> "stateful", ports |-> <<>>, persistent |-> TRUE]
Single == [code |-> "single", ports |-> <<8080>>, persistent |-> FALSE]

Failover == [answers |-> {<<Receiver, Stateful>>}, PVC |-> "granted",
             SiddhiConfig |-> "empty", Image |-> ""]
Shuffled == [answers |-> {<<Receiver, Single>>, <<Single, Receiver>>},
             PVC |-> "empty", SiddhiConfig |-> "yaml", Image |-> "custom"]
Stateless == [answers |-> {<<Single>>}, PVC |-> "empty",
              SiddhiConfig |-> "malformed", Image |-> ""]
Broken == [answers |-> {<<Receiver, Stateful>>}, PVC |-> "restricted",
           SiddhiConfig |-> "empty", Image |-> ""]

AllSpecs == {Failover, Shuffled, Stateless, Broken}

EmptyConfig == [k \in {} |-> ""]
ConfigsSeen == {EmptyConfig, [autoIngressCreation |-> "false"],
                [siddhiImage |-> "configured", ingressTLS |-> "cert"]}

OtherHost == [host |-> "other", paths |-> <<<<0, 80>>>>]
Shared == [host |-> IngressName, paths |-> <<<<0, 8080>>>>]
IngressSeen == {[tls |-> "", rules |-> <<OtherHost>>],
                [tls |-> "", rules |-> <<OtherHost, Shared>>]}
===========================================================================
