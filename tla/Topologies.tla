----------------------------- MODULE Topologies -----------------------------
(***************************************************************************)
(* The topologies of a model (CheckTopologyInstances, CheckTopologyDefs,     *)
(* resolve_topology).  A topology is resolved after those it imports: it     *)
(* takes over their instances and connections, turns the ports of topologies *)
(* in its own connections into the ports of components they stand for, adds  *)
(* the connections of its patterns, and numbers the ports.                   *)
(*                                                                         *)
(* Any error ends the resolution of a topology.  It is entered as it is, and *)
(* those that import it are resolved against that.                           *)
(***************************************************************************)
EXTENDS PortNumbering

CONSTANTS
    Instances,   \* component instances
    TopologyOf,  \* the topology an endpoint is a port of, unless one of Ports
    PortsOfKind  \* the ports of an instance that a pattern takes for a role

VARIABLES
    design,      \* the definitions of the topologies
    tops,        \* topology_map
    top,         \* the topology under construction
    erred     \* an error was emitted

topVars == <<design, tops, top, erred>>

(* No topology is under construction.                                         *)
NoTop == [name |-> NoNumber]
Names == DOMAIN design
Def(t) == design[t]

InstanceAt(e) == IF e \in Ports THEN InstanceOf[e] ELSE TopologyOf[e]

(* Faulty: what imported topologies import is left out.                       *)
TransitiveImports_Direct(t) == Def(t).imports

(* The topologies a topology has among its instances, also those that are     *)
(* imported through others.                                                   *)
TransitiveImports(t) ==
    Def(t).imports \cup UNION {tops[s].imported : s \in Def(t).imports}

OwnInstances(t)      == Def(t).instances \cup Def(t).imports
AllInstances(t)      == OwnInstances(t) \cup UNION {tops[s].instances : s \in Def(t).imports}

(* A port can be named if it is of a component, or of a topology that has been *)
(* resolved and has it (PortInstanceIdentifier::from_node).                   *)
Known(e) ==
    e \in Ports \/ (TopologyOf[e] \in DOMAIN tops /\ e \in DOMAIN tops[TopologyOf[e]].ports)
KnownPorts(t) ==
    LET named == {a \in DOMAIN Def(t).ports : Known(Def(t).ports[a])}
    IN  [a \in named |-> Def(t).ports[a]]
KnownLinks(t) == {c \in Def(t).connections : \A s \in Sides : Known(c.end[s])}

(* get_underlying_endpoint follows the ports of topologies down to one of a   *)
(* component, or to one that is not there.  The way down from a port does not *)
(* change once its topology is entered, and is kept with the topology.        *)
Underlying(e) ==
    IF e \in Ports \/ ~Known(e) THEN e ELSE tops[TopologyOf[e]].under[e]
FlatLink(c) == [c EXCEPT !.end = [s \in Sides |-> Underlying(c.end[s])]]

(* The connections of the topologies that t has among its instances, between  *)
(* instances of t.                                                            *)
ImportedLinks ==
    {c \in UNION {tops[s].local : s \in top.imported} :
        \A s \in Sides : InstanceAt(c.end[s]) \in top.instances}

-----------------------------------------------------------------------------
(* Patterns.                                                                  *)
Components(is) == is \cap Instances

(* The connections each kind of pattern makes: from and to which part's port  *)
(* of which kind.                                                             *)
Pipe(fp, f, tp, t) == [fromPart |-> fp, from |-> f, toPart |-> tp, to |-> t]
Wires ==
    [command   |-> {Pipe("target", "command reg", "source", "command reg in"),
                    Pipe("source", "command send", "target", "command recv"),
                    Pipe("target", "command resp", "source", "command resp in")},
     event     |-> {Pipe("target", "event", "source", "event in")},
     telemetry |-> {Pipe("target", "telemetry", "source", "telemetry in")},
     textEvent |-> {Pipe("target", "text event", "source", "text event in")},
     time      |-> {Pipe("target", "time get", "source", "time get in")},
     health    |-> {Pipe("source", "ping out", "target", "ping in"),
                    Pipe("target", "ping out", "source", "ping in")},
     param     |-> {Pipe("target", "param get", "source", "param get in"),
                    Pipe("target", "param set", "source", "param set in")}]

(* A role of a pattern is taken by the one port of its kind.                  *)
Plays(i, role) == Cardinality(PortsOfKind[i][role]) = 1
Playing(i, role) == CHOOSE p \in PortsOfKind[i][role] : TRUE
CanBe(i, part, kind) ==
    \A w \in Wires[kind] : /\ w.fromPart = part => Plays(i, w.from)
                           /\ w.toPart = part => Plays(i, w.to)

(* Without explicit targets, all the instances that can be one.               *)
Targets(p, is) ==
    IF p.targets # {} THEN p.targets
    ELSE {i \in Components(is) : CanBe(i, "target", p.kind)}

(* Its instances are in the topology and have the ports.                      *)
PatternFits(p) ==
    /\ {p.source} \cup p.targets \subseteq top.instances
    /\ CanBe(p.source, "source", p.kind)
    /\ \A i \in p.targets : CanBe(i, "target", p.kind)

Wire(p, i, w) ==
    [end |-> [s \in Sides |->
                 IF s = "from"
                 THEN Playing(IF w.fromPart = "source" THEN p.source ELSE i, w.from)
                 ELSE Playing(IF w.toPart = "source" THEN p.source ELSE i, w.to)],
     explicit |-> [s \in Sides |-> NoNumber],
     unmatched |-> FALSE,
     loc |-> p.loc]

(* Health does not ping itself.                                               *)
Wired(p, is) ==
    {Wire(p, w[1], w[2]) :
        w \in {v \in Targets(p, is) \X Wires[p.kind] : p.kind = "health" => v[1] # p.source}}

Connected(c) == \E d \in top.links : d.end = c.end

(* What is known of a model before its topologies are resolved.  The port of a *)
(* kind is one of the instance, and an output or an input as the kind says.    *)
ASSUME TopologyAssumption ==
    /\ IsFiniteSet(Instances)
    /\ \A p \in Ports : InstanceOf[p] \in Instances
    /\ \A i \in Instances, kind \in DOMAIN Wires : \A w \in Wires[kind] :
          /\ PortsOfKind[i][w.from]
                \subseteq {p \in Ports : InstanceOf[p] = i /\ SideOf[p] = "from"}
          /\ PortsOfKind[i][w.to]
                \subseteq {p \in Ports : InstanceOf[p] = i /\ SideOf[p] = "to"}

(* A connection as it is written (Connection::from_ast).                       *)
Connections ==
    {c \in [end : [Sides -> Endpoints], explicit : [Sides -> NumberOption],
            unmatched : BOOLEAN, loc : Nat] : LegalLink(c)}

(* A port of a topology has the direction and the size of the port it is for;  *)
(* patterns name component instances, and no two definitions are at one place, *)
(* for a place in an included file includes that of the include               *)
(* (PortInstance::topology, ConnectionPattern::from_spec_connection_graph,     *)
(* Span::compare).                                                            *)
LegalPorts(t, ps) ==
    \A a \in DOMAIN ps :
        /\ a \in Endpoints \ Ports /\ TopologyOf[a] = t
        /\ ps[a] \in Endpoints
        /\ SideOf[a] = SideOf[ps[a]] /\ SizeOf[a] <= SizeOf[ps[a]]
LegalPattern(p) ==
    /\ p.kind \in DOMAIN Wires /\ p.loc \in Nat
    /\ p.source \in Instances /\ p.targets \subseteq Instances
LegalDesign(d) ==
    /\ IsFiniteSet(DOMAIN d) /\ DOMAIN d \cap Instances = {}
    /\ \A t \in DOMAIN d :
          /\ d[t].imports \subseteq DOMAIN d /\ d[t].instances \subseteq Instances
          /\ IsFiniteSet(d[t].connections) /\ d[t].connections \subseteq Connections
          /\ LegalPorts(t, d[t].ports)
          /\ \A p \in d[t].patterns :
                /\ LegalPattern(p)
                /\ \A s \in DOMAIN d :
                      /\ \A c \in d[s].connections : c.loc # p.loc
                      /\ s # t => \A q \in d[s].patterns : q.loc # p.loc

-----------------------------------------------------------------------------
TopologiesStart(d) ==
    /\ design = d
    /\ tops = [t \in {} |-> NoTop]
    /\ top = NoTop
    /\ erred = FALSE
    /\ NumberingInit

Idle == top = NoTop /\ stage = "idle"

(* The topology is entered as it is.                                          *)
EnterAs(t, err) ==
    /\ tops' = [s \in DOMAIN tops \cup {t.name} |-> IF s = t.name THEN t ELSE tops[s]]
    /\ top' = NoTop
    /\ erred' = (erred \/ err)

(* def_topology visits the members of a topology, whose imports are entered:   *)
(* a connection that names a port that is not known is left out.              *)
Begin(t) ==
    /\ Idle
    /\ t \in Names \ DOMAIN tops
    /\ Def(t).imports \subseteq DOMAIN tops
    /\ UNCHANGED <<design, pnVars>>
LinkError(t) == KnownLinks(t) # Def(t).connections
Fresh(t, imported, is, ps) ==
    [name      |-> t,
     next      |-> "check",
     imported  |-> imported,
     instances |-> is,
     ports     |-> ps,
     under     |-> [a \in DOMAIN ps |-> Underlying(ps[a])],
     local     |-> KnownLinks(t),
     links     |-> KnownLinks(t),
     patterns  |-> Def(t).patterns,
     unconnected |-> {}]

(* Its instances and imports are put together.                                *)
EnterTopology(t) ==
    /\ Begin(t)
    /\ KnownPorts(t) = Def(t).ports
    /\ top' = Fresh(t, TransitiveImports(t), AllInstances(t), Def(t).ports)
    /\ erred' = (erred \/ LinkError(t))
    /\ UNCHANGED tops

(* A port for one that is not known ends the resolution before the imports;   *)
(* only the ports written before it are there.                                *)
RefusePorts(t) ==
    /\ Begin(t)
    /\ KnownPorts(t) # Def(t).ports
    /\ \E before \in SUBSET DOMAIN KnownPorts(t) :
          EnterAs(Fresh(t, {}, OwnInstances(t), [a \in before |-> Def(t).ports[a]]), TRUE)

(* check_port_instances and check_connection_instances                        *)
InstancesFit ==
    /\ \A a \in DOMAIN top.ports : InstanceAt(top.ports[a]) \in top.instances
    /\ \A c \in top.local, s \in Sides : InstanceAt(c.end[s]) \in top.instances

RefuseTopology ==
    /\ top # NoTop /\ top.next = "check"
    /\ ~InstancesFit
    /\ EnterAs(top, TRUE)
    /\ UNCHANGED <<design, pnVars>>

(* resolve_interfaces_to_component_instances, resolve_imported_connections     *)
FlattenAndImport ==
    /\ top # NoTop /\ top.next = "check"
    /\ InstancesFit
    /\ LET flat == {FlatLink(c) : c \in top.local}
       IN  top' = [top EXCEPT !.next = "patterns",
                              !.local = flat,
                              !.links = flat \cup ImportedLinks]
    /\ UNCHANGED <<design, tops, erred, pnVars>>

(* Faulty: a pattern connects what is connected.                              *)
ResolvePattern_Again(p) ==
    /\ top # NoTop /\ top.next = "patterns"
    /\ p \in top.patterns
    /\ IF PatternFits(p)
       THEN /\ top' = [top EXCEPT !.patterns = @ \ {p},
                                  !.local = @ \cup Wired(p, top.instances),
                                  !.links = @ \cup Wired(p, top.instances)]
            /\ UNCHANGED <<tops, erred>>
       ELSE EnterAs(top, TRUE)
    /\ UNCHANGED <<design, pnVars>>

(* A pattern adds its connections where there is none between the two ports.  *)
ResolvePattern(p) ==
    /\ top # NoTop /\ top.next = "patterns"
    /\ p \in top.patterns
    /\ IF PatternFits(p)
       THEN LET new == {c \in Wired(p, top.instances) : ~Connected(c)}
            IN  /\ top' = [top EXCEPT !.patterns = @ \ {p},
                                      !.local = @ \cup new,
                                      !.links = @ \cup new]
                /\ UNCHANGED <<tops, erred>>
       ELSE EnterAs(top, TRUE)
    /\ UNCHANGED <<design, pnVars>>

NumberTopology ==
    /\ top # NoTop /\ top.next = "patterns"
    /\ top.patterns = {}
    /\ stage = "idle"
    /\ BeginNumbering(top.links, Components(top.instances))
    /\ UNCHANGED topVars

(* The numbering is over; resolve_unconnected_ports.  The check against the   *)
(* interfaces that the topology implements, which follows, is left out: it    *)
(* could add an error to a topology that is complete, and leaves it as it is. *)
Unconnected ==
    {p \in Ports : InstanceOf[p] \in instances /\ At(p) = {}}
LeaveTopology ==
    /\ top # NoTop
    /\ stage \in {"numbered", "refused"}
    /\ EnterAs([top EXCEPT !.next = stage,
                           !.unconnected = IF stage = "numbered" THEN Unconnected ELSE {}],
               stage = "refused")
    /\ EndNumbering
    /\ UNCHANGED design

TopologyStep ==
    \/ \E t \in Names : EnterTopology(t) \/ RefusePorts(t)
    \/ RefuseTopology
    \/ FlattenAndImport
    \/ top # NoTop /\ \E p \in top.patterns : ResolvePattern(p)
    \/ NumberTopology
    \/ NumberingStep /\ UNCHANGED topVars
    \/ LeaveTopology

TopologiesDone == Idle /\ DOMAIN tops = Names

(* The topologies of any model.                                               *)
TopologiesInit == \E d : LegalDesign(d) /\ TopologiesStart(d)
TopologiesSpec == TopologiesInit /\ [][TopologyStep]_<<topVars, pnVars>>

-----------------------------------------------------------------------------
(* The topologies that take part in t, read off the definitions.              *)
Within(t) ==
    {s \in Names : \A S \in SUBSET Names :
        t \in S /\ (\A u \in S : Def(u).imports \subseteq S) => s \in S}

(* As long as there was no error, a topology goes to numbering with all the   *)
(* connections written in it and in those that take part in it, and connected *)
(* as all their patterns say; every end of a connection is a port of one of   *)
(* its component instances, however many topologies it was named through, and *)
(* suits it.                                                                  *)
EverythingArrives ==
    stage = "checks" /\ ~erred =>
        /\ \A s \in Within(top.name) :
              /\ {FlatLink(c) : c \in Def(s).connections} \subseteq links
              /\ \A p \in Def(s).patterns :
                    \A w \in Wired(p, IF s = top.name THEN top.instances ELSE tops[s].instances) :
                        \E c \in links : c.end = w.end
        /\ \A c \in links : LegalLink(c) /\ \A s \in Sides : Inside(c, s)

(* A connection made for a pattern of the topology is the only one between    *)
(* its two ports: no imported or written connection was there already.        *)
PatternsConnectOnce ==
    stage = "checks" =>
        \A p \in Def(top.name).patterns : \A c, d \in links :
            c.loc = p.loc /\ c.end = d.end => c = d
=============================================================================
