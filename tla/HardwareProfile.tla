--------------------------- MODULE HardwareProfile ----------------------------
(* NightMare/HardwareProfile: the description of a device's hardware, its      *)
(* validation, and the electrical nets that follow from its connections.  A    *)
(* profile is a record of nested sequences; a path is a sequence of the ids    *)
(* that slashes separate.  Of the texts that describe an item one stands for   *)
(* all.  A diagnostic is its code alone: a profile is valid when it has none,  *)
(* so neither their number nor their places matter.  An array that is null is  *)
(* not distinguished from an empty one.                                        *)
EXTENDS FiniteSets, Graphs, Documents

CONSTANTS
    MaxGraphAssemblies,
    MaxGraphEndpoints,
    MaxGraphEdges

ASSUME HardwareAssumption ==
    MaxGraphAssemblies \in Nat /\ MaxGraphEndpoints \in Nat /\ MaxGraphEdges \in Nat

AssemblyKinds == <<"custom_board", "market_board", "module", "sensor_probe", "panel",
                   "enclosure", "external", "generic">>
ConnectorKinds == <<"header", "screw_terminal", "jst", "usb", "terminal", "direct_pin",
                    "direct_wire", "generic">>
EndpointKinds == <<"device_terminal", "connector_contact">>
CanonicalNets == <<"", "GND", "VCC", "+3V3", "+5V", "AC_PHASE", "AC_NEUTRAL", "PE">>

NetNone   == 0
DeviceTerminal   == 0
ConnectorContact == 1
Generic   == 7

\* "?" stands for a text with a reserved character.
Present(text) == text # ""
ValidId(id) == Present(id) /\ id # "?"
ValidPath(path, emptyAllowed) ==
    IF path = <<>> THEN emptyAllowed ELSE \A i \in DOMAIN path : ValidId(path[i])

AssemblyMembers(assemblies, devices, connectors, connections) ==
    [assemblies |-> assemblies, devices |-> devices,
     connectors |-> connectors, connections |-> connections]
NoMembers == AssemblyMembers(<<>>, <<>>, <<>>, <<>>)

-------------------------------------------------------------------------------
(* The assemblies of a profile with what their definitions give them.          *)

\* The definition of that id; no definition is one without an id.
FindDefinition(p, id) ==
    LET named == SelectSeq(p.definitions, LAMBDA d : Present(id) /\ d.id = id)
    IN  IF named = <<>> THEN [id |-> "", members |-> NoMembers] ELSE named[1]

\* What an assembly consists of: what its definition has, then its own.
Effective(p, a) ==
    LET d == FindDefinition(p, a.definition).members
    IN  AssemblyMembers(d.assemblies \o a.members.assemblies, d.devices \o a.members.devices,
                        d.connectors \o a.members.connectors,
                        d.connections \o a.members.connections)

\* An assembly and the ones in it, each with its path, from the outside in.
RECURSIVE Walk(_, _, _)
Walk(p, a, path) ==
    LET m == Effective(p, a)
    IN  <<[path |-> path, members |-> m, assembly |-> a]>> \o
        FlattenSeq([i \in DOMAIN m.assemblies |->
            Walk(p, m.assemblies[i], Append(path, m.assemblies[i].id))])

Expansion(p, roots) == FlattenSeq([i \in DOMAIN roots |-> Walk(p, roots[i], <<roots[i].id>>)])

\* findAssembly(): the first of each name on the way down; none is an empty sequence.
RECURSIVE Descend(_, _, _)
Descend(p, candidates, path) ==
    LET named == SelectSeq(candidates, LAMBDA a : a.id = path[1])
    IN  IF path = <<>> \/ named = <<>> THEN <<>>
        ELSE IF Len(path) = 1 THEN <<named[1]>>
        ELSE Descend(p, Effective(p, named[1]).assemblies, Tail(path))

FindAssembly(p, path) == Descend(p, p.roots, path)

AssemblyModel(p, path) ==
    LET found == FindAssembly(p, path)
        models == IF found = <<>> THEN <<>>
                  ELSE <<found[1].text, FindDefinition(p, found[1].definition).text>>
        given == SelectSeq(models, Present)
    IN  IF given = <<>> THEN "unspecified" ELSE given[1]

-------------------------------------------------------------------------------
(* The shape of a profile, before anything in it is looked up.                 *)

ValidateIds(items) ==
    {"INVALID_ID" : i \in {j \in DOMAIN items : ~ValidId(items[j].id)}}
    \cup {"DUPLICATE_ID" : i \in {j \in DOMAIN items :
              \E k \in 1 .. j - 1 : Present(items[j].id) /\ items[k].id = items[j].id}}

ValidEnum(names, values) == IF values \subseteq Numbers(names) THEN {} ELSE {"INVALID_VALUE"}

ValidEndpoint(e, emptyAllowed) ==
    /\ ValidPath(e.assembly, emptyAllowed) /\ ValidId(e.owner) /\ ValidId(e.endpoint)
    /\ e.kind \in Numbers(EndpointKinds)

ValidateConnections(connections, emptyAllowed) ==
    IF \A c \in Range(connections) :
           ValidEndpoint(c.a, emptyAllowed) /\ ValidEndpoint(c.b, emptyAllowed)
    THEN {} ELSE {"INVALID_VALUE"}

ValidatePoints(points) ==
    ValidateIds(points) \cup ValidEnum(CanonicalNets, {t.net : t \in Range(points)})

RECURSIVE ValidateMemberShape(_, _)
ValidateMemberShape(m, depth) ==
    IF depth > MaxGraphEndpoints THEN {"CAPACITY_EXCEEDED"}
    ELSE ValidateIds(m.assemblies) \cup ValidateIds(m.devices) \cup ValidateIds(m.connectors)
         \cup UNION {ValidatePoints(d.terminals) : d \in Range(m.devices)}
         \cup UNION {ValidatePoints(c.contacts) : c \in Range(m.connectors)}
         \cup ValidEnum(ConnectorKinds, {c.kind : c \in Range(m.connectors)})
         \cup ValidEnum(AssemblyKinds, {a.kind : a \in Range(m.assemblies)})
         \cup ValidateConnections(m.connections, TRUE)
         \cup UNION {ValidateMemberShape(a.members, depth + 1) : a \in Range(m.assemblies)}

Shape(p) ==
    LET tops == Range(p.definitions) \cup Range(p.roots)
    IN  ValidateIds(p.definitions) \cup ValidateIds(p.roots)
        \cup (IF p.roots = <<>> THEN {"INVALID_PROFILE"} ELSE {})
        \cup ValidEnum(AssemblyKinds, {a.kind : a \in tops})
        \cup UNION {ValidateMemberShape(a.members, 0) : a \in tops}
        \cup (IF ValidPath(p.host, FALSE) THEN {} ELSE {"INVALID_VALUE"})
        \cup ValidateConnections(p.connections, FALSE)

\* Whether the definition is needed to expand itself.  A cycle that it only leads
\* to is met when the depth runs out.
RECURSIVE DefinitionCycleFrom(_, _, _, _)
DefinitionCycleFrom(p, start, m, depth) ==
    depth > MaxGraphEndpoints \/
    \E a \in Range(m.assemblies) :
        \/ Present(a.definition) /\
               (a.definition = start
                \/ DefinitionCycleFrom(p, start, FindDefinition(p, a.definition).members, depth + 1))
        \/ DefinitionCycleFrom(p, start, a.members, depth + 1)

Cycles(p) ==
    {"DEFINITION_CYCLE" : d \in {e \in Range(p.definitions) :
                                    DefinitionCycleFrom(p, e.id, e.members, 0)}}

\* A member of an assembly and one of its definition may not have the same id.
Ids(items) == {i.id : i \in Range(items)}
Overlap(p, a) ==
    LET d == FindDefinition(p, a.definition).members
    IN  \/ Ids(a.members.assemblies) \cap Ids(d.assemblies) # {}
        \/ Ids(a.members.devices) \cap Ids(d.devices) # {}
        \/ Ids(a.members.connectors) \cap Ids(d.connectors) # {}

ValidateInstanceDefinitions(p, a) ==
    LET places == Range(Walk(p, a, <<>>))
        Unknown(b) == Present(b.definition) /\ ~Present(FindDefinition(p, b.definition).id)
    IN  {"UNKNOWN_DEFINITION" : w \in {v \in places : Unknown(v.assembly)}}
        \cup {"DUPLICATE_MEMBER" : w \in {v \in places : Overlap(p, v.assembly)}}
        \cup {"CAPACITY_EXCEEDED" : w \in {v \in places : Len(v.path) > MaxGraphEndpoints}}

-------------------------------------------------------------------------------
(* The graph: every terminal and contact of the expansion, and what joins them. *)

NoGraph == [assemblies |-> <<>>, nodes |-> <<>>, edges |-> <<>>, codes |-> {}]
Report(g, code) == [g EXCEPT !.codes = @ \cup {code}]

Endpoint(path, kind, owner, endpoint) ==
    [assembly |-> path, kind |-> kind, owner |-> owner, endpoint |-> endpoint]

\* Where the graph has that endpoint; 0 if it has not.
FindNode(g, e) == LET at == {i \in DOMAIN g.nodes : g.nodes[i].at = e}
                  IN  IF at = {} THEN 0 ELSE CHOOSE i \in at : TRUE

AddNode(g, n) ==
    IF FindNode(g, n.at) # 0 THEN Report(g, "DUPLICATE_MEMBER")
    ELSE IF Len(g.nodes) >= MaxGraphEndpoints THEN Report(g, "CAPACITY_EXCEEDED")
    ELSE [g EXCEPT !.nodes = Append(@, n)]

\* The terminals and contacts of an assembly.
PointsOf(w) ==
    LET Points(kind, owner, points) ==
            [i \in DOMAIN points |->
                [at |-> Endpoint(w.path, kind, owner, points[i].id), net |-> points[i].net]]
        d == w.members.devices
        c == w.members.connectors
    IN  FlattenSeq([i \in DOMAIN d |-> Points(DeviceTerminal, d[i].id, d[i].terminals)]) \o
        FlattenSeq([i \in DOMAIN c |-> Points(ConnectorContact, c[i].id, c[i].contacts)])

AddAssembly(g, w) ==
    IF Contains(g.assemblies, w.path) THEN g
    ELSE IF Len(g.assemblies) >= MaxGraphAssemblies THEN Report(g, "CAPACITY_EXCEEDED")
    ELSE [g EXCEPT !.assemblies = Append(@, w.path)]

CollectNodes(g, w) ==
    LET added == AddAssembly(g, w)
    IN  IF Contains(added.assemblies, w.path) THEN FoldLeft(AddNode, added, PointsOf(w)) ELSE added

MissingEndpointCode(p, e) ==
    LET found == FindAssembly(p, e.assembly)
        m == Effective(p, found[1])
    IN  IF found = <<>> THEN "ASSEMBLY_NOT_FOUND"
        ELSE IF e.kind = DeviceTerminal
             THEN IF e.owner \in Ids(m.devices) THEN "TERMINAL_NOT_FOUND" ELSE "DEVICE_NOT_FOUND"
        ELSE IF e.owner \in Ids(m.connectors) THEN "CONTACT_NOT_FOUND" ELSE "CONNECTOR_NOT_FOUND"

\* A connection whose paths are relative to base.
AddConnection(p, g, base, c) ==
    LET Absolute(e) == [e EXCEPT !.assembly = base \o @]
        a == FindNode(g, Absolute(c.a))
        b == FindNode(g, Absolute(c.b))
        crossing == g.nodes[a].at.assembly # g.nodes[b].at.assembly
    IN  IF a = 0 THEN Report(g, MissingEndpointCode(p, Absolute(c.a)))
        ELSE IF b = 0 THEN Report(g, MissingEndpointCode(p, Absolute(c.b)))
        ELSE IF a = b THEN Report(g, "SELF_CONNECTION")
        ELSE IF crossing /\ ~(c.a.kind = ConnectorContact /\ c.b.kind = ConnectorContact)
             THEN Report(g, "CROSS_ASSEMBLY_DEVICE_CONNECTION")
        ELSE IF Contains(g.edges, <<a, b>>) \/ Contains(g.edges, <<b, a>>)
             THEN Report(g, "DUPLICATE_CONNECTION")
        ELSE IF Len(g.edges) >= MaxGraphEdges THEN Report(g, "CAPACITY_EXCEEDED")
        ELSE [g EXCEPT !.edges = Append(@, <<a, b>>)]

AddConnections(p, g, base, connections) ==
    FoldLeft(LAMBDA h, c : AddConnection(p, h, base, c), g, connections)

\* Each stage needs the one before it to have gone well.
BuildTopologyGraph(p) ==
    LET places == Expansion(p, p.roots)
        nodes == FoldLeft(CollectNodes, NoGraph, places)
        inner == FoldLeft(LAMBDA g, w : AddConnections(p, g, w.path, w.members.connections),
                          nodes, places)
    IN  IF nodes.codes # {} THEN nodes
        ELSE IF inner.codes # {} THEN inner
        ELSE AddConnections(p, inner, <<>>, p.connections)

-------------------------------------------------------------------------------
(* The nets: a forest of nodes, joined at the roots.                            *)

RECURSIVE Root(_, _)
Root(parent, i) == IF parent[i] = i THEN i ELSE Root(parent, parent[i])

\* Mutant: what is joined is the node, not the tree it belongs to.
JoinLeaf(parent, edge) ==
    LET a == Root(parent, edge[1])
    IN  IF a = Root(parent, edge[2]) THEN parent ELSE [parent EXCEPT ![edge[2]] = a]

Join(parent, edge) ==
    LET a == Root(parent, edge[1])
        b == Root(parent, edge[2])
    IN  IF a = b THEN parent ELSE [parent EXCEPT ![b] = a]

\* The net of each node, named by its root, and what nets declare two identities.
InferNets(g) ==
    LET parent == FoldLeft(Join, [i \in DOMAIN g.nodes |-> i], g.edges)
        netOf == [i \in DOMAIN g.nodes |-> Root(parent, i)]
        Declared(net) == {g.nodes[i].net : i \in {j \in DOMAIN netOf : netOf[j] = net}} \ {NetNone}
    IN  [netByNode |-> netOf,
         conflicts |-> {net \in Range(netOf) : Cardinality(Declared(net)) > 1}]

Topology(p) ==
    LET g == BuildTopologyGraph(p)
    IN  g.codes \cup {"CANONICAL_NET_CONFLICT" : net \in InferNets(g).conflicts}

\* A definition on its own, as validation expands it.
DefinitionRoot(d) == [id |-> "definition_root", definition |-> d.id, text |-> "",
                      kind |-> Generic, members |-> NoMembers]
DefinitionProfile(p, d) ==
    [p EXCEPT !.host = <<"definition_root">>, !.roots = <<DefinitionRoot(d)>>, !.connections = <<>>]

\* Mutant: a definition that the device does not use is not expanded.
ValidateDeployed(p) ==
    LET instances == UNION {ValidateInstanceDefinitions(p, a) : a \in Range(p.roots)}
    IN  IF Shape(p) # {} THEN Shape(p)
        ELSE IF Cycles(p) # {} THEN Cycles(p)
        ELSE IF instances # {} THEN instances
        ELSE Topology(p) \cup (IF FindAssembly(p, p.host) = <<>> THEN {"ASSEMBLY_NOT_FOUND"} ELSE {})

\* validateHwConfig(): a stage whose expansion the one before it makes unsafe is
\* not reached.
Validate(p) ==
    LET alone == {DefinitionRoot(d) : d \in Range(p.definitions)}
        instances == UNION {ValidateInstanceDefinitions(p, a) : a \in Range(p.roots) \cup alone}
    IN  IF Shape(p) # {} THEN Shape(p)
        ELSE IF Cycles(p) # {} THEN Cycles(p)
        ELSE IF instances # {} THEN instances
        ELSE UNION {Topology(DefinitionProfile(p, d)) : d \in Range(p.definitions)}
             \cup Topology(p)
             \cup (IF FindAssembly(p, p.host) = <<>> THEN {"ASSEMBLY_NOT_FOUND"} ELSE {})

-------------------------------------------------------------------------------
(* What a profile must be, said of the hardware it describes rather than of    *)
(* the steps of its validation: the reference for the operators above.         *)

\* The definitions that a description refers to, at any depth of it.
RECURSIVE Mentions(_)
Mentions(m) == UNION {{a.definition} \cup Mentions(a.members) : a \in Range(m.assemblies)} \ {""}

\* Every reference has a definition, and none needs itself.
Grounded(p) ==
    LET ids == Ids(p.definitions)
        needs == [node |-> ids,
                  edge |-> {<<d.id, id>> : d \in Range(p.definitions), id \in ids} \cap
                           UNION {{d.id} \X Mentions(d.members) : d \in Range(p.definitions)}]
        rooted == [NoMembers EXCEPT !.assemblies = p.roots]
    IN  /\ Mentions(rooted) \cup UNION {Mentions(d.members) : d \in Range(p.definitions)} \subseteq ids
        /\ \A e \in needs.edge : ~ConnectionsIn(needs)[e[2], e[1]]

Distinct(s) == \A i, j \in DOMAIN s : s[i] = s[j] => i = j
IdsOf(items) == [i \in DOMAIN items |-> items[i].id]

\* The connections of an expansion, each a pair of absolute endpoints.
Joins(places, connections) ==
    LET Absolute(base, e) == [e EXCEPT !.assembly = base \o @]
        Pairs(base, cs) == [i \in DOMAIN cs |-> <<Absolute(base, cs[i].a), Absolute(base, cs[i].b)>>]
    IN  FlattenSeq([i \in DOMAIN places |-> Pairs(places[i].path, places[i].members.connections)])
        \o Pairs(<<>>, connections)

\* The points that a set of pairs makes one, as a graph.
Wiring(joins, points) ==
    [node |-> points, edge |-> Range(joins) \cup {<<j[2], j[1]>> : j \in Range(joins)}]

\* A deployment that can be built: names are unambiguous, every connection joins
\* two points that exist and no pair is joined twice, assemblies meet at contacts
\* only, no net is two things at once, and all of it fits.
Buildable(p) ==
    LET places == Expansion(p, p.roots)
        listed == FlattenSeq([i \in DOMAIN places |-> PointsOf(places[i])])
        points == {n.at : n \in Range(listed)}
        joins  == Joins(places, p.connections)
        linked == ConnectionsIn(Wiring(joins, points))
    IN  /\ \A w \in Range(places) :
               /\ Distinct(IdsOf(w.members.assemblies)) /\ Distinct(IdsOf(w.members.devices))
               /\ Distinct(IdsOf(w.members.connectors))
        /\ Len(places) <= MaxGraphAssemblies
        /\ Len(listed) <= MaxGraphEndpoints
        /\ Len(joins) <= MaxGraphEdges
        /\ \A j \in Range(joins) :
               /\ {j[1], j[2]} \subseteq points /\ j[1] # j[2]
               /\ j[1].assembly # j[2].assembly =>
                      j[1].kind = ConnectorContact /\ j[2].kind = ConnectorContact
        /\ \A i, k \in DOMAIN joins : {joins[i][1], joins[i][2]} = {joins[k][1], joins[k][2]} => i = k
        /\ \A m, n \in Range(listed) :
               m.net # NetNone /\ n.net # NetNone /\ linked[m.at, n.at] => m.net = n.net

WellFormed(p) ==
    /\ Shape(p) = {}
    /\ Grounded(p)
    /\ \A d \in Range(p.definitions) : Buildable(DefinitionProfile(p, d))
    /\ Buildable(p)
    /\ \E w \in Range(Expansion(p, p.roots)) : w.path = p.host

\* Two points are in one net when a path of connections leads from one to the other.
NetsOfComponents(g) ==
    LET linked == ConnectionsIn([node |-> DOMAIN g.nodes,
                                 edge |-> Range(g.edges) \cup {<<e[2], e[1]>> : e \in Range(g.edges)}])
        nets == InferNets(g).netByNode
    IN  \A i, j \in DOMAIN g.nodes : nets[i] = nets[j] <=> linked[i, j]
===============================================================================
