--------------------------- MODULE ParserOutput ---------------------------
(***************************************************************************)
(* What Parse makes of the answer of the parser, and the names that the    *)
(* resulting applications give to their config maps.                       *)
(*                                                                         *)
(* An AppConfig of the answer is a record [name, sources]: the name that   *)
(* the text of the app declares ("" when neither regular expression of     *)
(* getAppName matches) and its DeploymentConfigs, records                  *)
(* [port, protocol, pulling].                                              *)
(***************************************************************************)
EXTENDS Integers, Sequences, FiniteSets, SequencesExt

CONSTANT Base       \* of the numerals that strconv.Itoa writes

---------------------------------------------------------------------------
(* The answer.                                                             *)

ContainsInt(slice, value) == \E k \in DOMAIN slice : slice[k].port = value

\* Mutant of AddPort: pulling sources are exposed too.
AddPortAlways(ports, source) ==
    IF ContainsInt(ports, source.port) THEN ports
    ELSE Append(ports, [port |-> source.port, protocol |-> source.protocol])

\* One turn of the loop over the sources of an app.
AddPort(ports, source) ==
    IF source.pulling \/ ContainsInt(ports, source.port) THEN ports
    ELSE Append(ports, [port |-> source.port, protocol |-> source.protocol])

ContainerPorts(sources) == FoldLeft(AddPort, <<>>, sources)

Application(appConfig) ==
    [Apps |-> {appConfig.name},
     ContainerPorts |-> ContainerPorts(appConfig.sources),
     ServiceEnabled |-> ContainerPorts(appConfig.sources) # <<>>]

\* The loop of Parse ends at the first app without a name: Parse returns
\* what it has so far, and the error, and does not remove the parser.
Named(appConfigs) ==
    {n \in 0 .. Len(appConfigs) : \A k \in 1 .. n : appConfigs[k].name # ""}

ParseResult(appConfigs) ==
    LET n == CHOOSE n \in Named(appConfigs) : \A k \in Named(appConfigs) : k <= n
    IN  [applications |-> [i \in 1 .. n |-> Application(appConfigs[i])],
         failed |-> n < Len(appConfigs)]

---------------------------------------------------------------------------
(* Names.  All are the name of the process and a dash, followed by:        *)

\* strconv.Itoa, as the sequence of the digits.
Itoa[n \in Nat] ==
    IF n < Base THEN <<n>> ELSE Append(Itoa[n \div Base], n % Base)

\* Mutant of AppsCMSuffix: the version comes first.
AppsCMSuffixSwapped(i, version) == Itoa[version] \o Itoa[i]

\* the number of the application and, with nothing in between, the version.
AppsCMSuffix(i, version) == Itoa[i] \o Itoa[version]

---------------------------------------------------------------------------
(* References.                                                             *)

\* The sources whose port is exposed: not pulling, and the first such.
Exposed(sources) ==
    {k \in DOMAIN sources :
        /\ ~sources[k].pulling
        /\ \A j \in 1 .. k - 1 :
               sources[j].pulling \/ sources[j].port # sources[k].port}

\* The ports are those of the exposed sources, in their order.
PortsOf(sources, ports) ==
    /\ Len(ports) = Cardinality(Exposed(sources))
    /\ \A k \in Exposed(sources) :
           ports[Cardinality({j \in Exposed(sources) : j <= k})]
               = [port |-> sources[k].port, protocol |-> sources[k].protocol]
===========================================================================
