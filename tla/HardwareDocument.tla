--------------------------- MODULE HardwareDocument ---------------------------
(* The two documents a profile is published as (Telemetry.cpp): one of arrays  *)
(* by position, packed, and one of objects by name.  The texts that describe   *)
(* an item, all optional and treated alike, are one; so are those of a wire.   *)
EXTENDS HardwareProfile

CONSTANT LaterFields    \* what encoders of later versions add to each kind of object

VARIABLE hw             \* the profile of the device and what became of its documents

ObjectKinds == {"hardware", "definition", "assembly", "members", "device", "connector",
                "point", "endpoint", "connection", "wire"}
HardwareEncodingVersion == 1
HwConfigVersion == 2

\* A path as the text it is written as.
PathText(path) == FoldLeft(LAMBDA t, id : IF t = "" THEN id ELSE t \o "/" \o id, "", path)

-------------------------------------------------------------------------------
(* The packed document.  more[kind] is what an encoder of a later version adds  *)
(* to every object of a kind; this one adds nothing.                            *)

NothingMore == [kind \in ObjectKinds |-> <<>>]

PackEndpoint(more, e) ==
    Items(<<Text(PathText(e.assembly)), Number(e.kind), Text(e.owner), Text(e.endpoint)>>
          \o more["endpoint"])

BareWire(w) == w.label = "" /\ w.length = 0

PackConnection(more, c) ==
    LET wire == IF BareWire(c.wire) THEN Null
                ELSE Items(<<AddOptional(c.wire.label), Number(c.wire.length)>> \o more["wire"])
    IN  Items(<<PackEndpoint(more, c.a), PackEndpoint(more, c.b), wire>> \o more["connection"])

PackPoint(more, t) == Items(<<Text(t.id), Number(t.net), AddOptional(t.text)>> \o more["point"])

PackDevice(more, d) ==
    Items(<<Text(d.id), AddOptional(d.text), Each(LAMBDA t : PackPoint(more, t), d.terminals)>>
          \o more["device"])

PackConnector(more, c) ==
    Items(<<Text(c.id), AddOptional(c.text), Number(c.kind),
            Each(LAMBDA t : PackPoint(more, t), c.contacts)>> \o more["connector"])

RECURSIVE PackAssembly(_, _)
PackMembers(more, m) ==
    Items(<<Each(LAMBDA a : PackAssembly(more, a), m.assemblies),
            Each(LAMBDA d : PackDevice(more, d), m.devices),
            Each(LAMBDA c : PackConnector(more, c), m.connectors),
            Each(LAMBDA c : PackConnection(more, c), m.connections)>> \o more["members"])

PackAssembly(more, a) ==
    Items(<<Text(a.id), AddOptional(a.definition), Number(a.kind), AddOptional(a.text),
            PackMembers(more, a.members)>> \o more["assembly"])

PackDefinition(more, d) ==
    Items(<<Text(d.id), Number(d.kind), AddOptional(d.text), PackMembers(more, d.members)>>
          \o more["definition"])

\* buildPositionalHardware()
Pack(more, p) ==
    Items(<<Number(HardwareEncodingVersion), Number(HwConfigVersion), Text(PathText(p.host)),
            Each(LAMBDA d : PackDefinition(more, d), p.definitions),
            Each(LAMBDA a : PackAssembly(more, a), p.roots),
            Each(LAMBDA c : PackConnection(more, c), p.connections)>> \o more["hardware"])

-------------------------------------------------------------------------------
(* The named document.                                                          *)

NetField(net) == IF net = NetNone THEN Nothing ELSE "canonical_net" :> NameOf(CanonicalNets, net, "")

NameEndpoint(e) ==
    [assembly |-> PathText(e.assembly), owner |-> e.owner, endpoint |-> e.endpoint,
     kind |-> IF e.kind = DeviceTerminal THEN EndpointKinds[1] ELSE EndpointKinds[2]]

NameWire(label, length) ==
    Optional("label", label) @@ (IF length = 0 THEN Nothing ELSE "length_mm" :> length)

NameConnection(c) ==
    [a |-> NameEndpoint(c.a), b |-> NameEndpoint(c.b)]
    @@ (IF BareWire(c.wire) THEN Nothing ELSE "wire" :> NameWire(c.wire.label, c.wire.length))

NamePoint(t) == ("id" :> t.id) @@ Optional("text", t.text) @@ NetField(t.net)

NameDevice(d) ==
    [id |-> d.id, terminals |-> NameEach(NamePoint, d.terminals)] @@ Optional("text", d.text)

NameConnector(c) ==
    [id |-> c.id, kind |-> NameOf(ConnectorKinds, c.kind, "generic"),
     contacts |-> NameEach(NamePoint, c.contacts)] @@ Optional("text", c.text)

RECURSIVE NameAssembly(_)
NameMembers(m) ==
    [assemblies |-> NameEach(NameAssembly, m.assemblies), devices |-> NameEach(NameDevice, m.devices),
     connectors |-> NameEach(NameConnector, m.connectors),
     connections |-> NameEach(NameConnection, m.connections)]

\* The kind of an instance is given unless it is generic and there is a
\* definition, whose kind it has.
NameAssembly(a) ==
    ("id" :> a.id) @@ Optional("definition", a.definition) @@ Optional("text", a.text)
    @@ (IF a.definition = "" \/ a.kind # Generic
        THEN "kind" :> NameOf(AssemblyKinds, a.kind, "generic") ELSE Nothing)
    @@ NameMembers(a.members)

NameDefinition(d) ==
    [id |-> d.id, kind |-> NameOf(AssemblyKinds, d.kind, "generic")]
    @@ Optional("text", d.text) @@ NameMembers(d.members)

\* buildNamedHardware()
Named(p) ==
    [version |-> HwConfigVersion, host_assembly |-> PathText(p.host),
     definitions |-> NameEach(NameDefinition, p.definitions),
     roots |-> NameEach(NameAssembly, p.roots),
     connections |-> NameEach(NameConnection, p.connections)]

-------------------------------------------------------------------------------
(* Decoding: the packed document to the named one.                              *)

DecodeEndpoint(v) ==
    IF ~Fields(v, 4, LAMBDA f : IsText(f[1]) /\ IsByte(f[2]) /\ IsText(f[3]) /\ IsText(f[4])) THEN {}
    ELSE LET f == v.items
         IN  IF f[2].number \notin Numbers(EndpointKinds) THEN {}
             ELSE {[assembly |-> f[1].text, kind |-> EndpointKinds[f[2].number + 1],
                    owner |-> f[3].text, endpoint |-> f[4].text]}

DecodeWire(v) ==
    IF IsNull(v) THEN {Nothing}
    ELSE IF ~Fields(v, 2, LAMBDA f : IsNumber(f[2])) THEN {}
    ELSE LET n == v.items[2].number
         IN  {"wire" :> (label @@ (IF n = 0 THEN Nothing ELSE "length_mm" :> n)) :
                  label \in CopyOptional("label", v.items[1])}

DecodeConnection(v) ==
    IF ~Fields(v, 3, LAMBDA f : TRUE) THEN {}
    ELSE {[a |-> x, b |-> y] @@ w : x \in DecodeEndpoint(v.items[1]),
                                    y \in DecodeEndpoint(v.items[2]), w \in DecodeWire(v.items[3])}

\* Mutant: the number of a net is looked up without a look at its range.
UncheckedPoint(v) ==
    IF ~Fields(v, 3, LAMBDA f : IsText(f[1]) /\ IsByte(f[2])) THEN {}
    ELSE {("id" :> v.items[1].text) @@ text @@ NetField(v.items[2].number) :
              text \in CopyOptional("text", v.items[3])}

DecodePoint(v) ==
    IF ~Fields(v, 3, LAMBDA f : IsText(f[1]) /\ IsByte(f[2])) THEN {}
    ELSE IF v.items[2].number \notin Numbers(CanonicalNets) THEN {}
    ELSE {("id" :> v.items[1].text) @@ text @@ NetField(v.items[2].number) :
              text \in CopyOptional("text", v.items[3])}

DecodeDevice(v) ==
    IF ~Fields(v, 3, LAMBDA f : IsText(f[1]) /\ IsItems(f[3])) THEN {}
    ELSE {[id |-> v.items[1].text, terminals |-> points] @@ text :
              text \in CopyOptional("text", v.items[2]), points \in DecodeEach(DecodePoint, v.items[3])}

DecodeConnector(v) ==
    IF ~Fields(v, 4, LAMBDA f : IsText(f[1]) /\ IsByte(f[3]) /\ IsItems(f[4])) THEN {}
    ELSE IF v.items[3].number \notin Numbers(ConnectorKinds) THEN {}
    ELSE {[id |-> v.items[1].text, kind |-> ConnectorKinds[v.items[3].number + 1],
           contacts |-> points] @@ text :
              text \in CopyOptional("text", v.items[2]), points \in DecodeEach(DecodePoint, v.items[4])}

RECURSIVE DecodeAssembly(_)
DecodeMembers(v) ==
    IF ~Fields(v, 4, LAMBDA f : \A i \in 1 .. 4 : IsItems(f[i])) THEN {}
    ELSE {[assemblies |-> as, devices |-> ds, connectors |-> cs, connections |-> js] :
              as \in DecodeEach(DecodeAssembly, v.items[1]), ds \in DecodeEach(DecodeDevice, v.items[2]),
              cs \in DecodeEach(DecodeConnector, v.items[3]), js \in DecodeEach(DecodeConnection, v.items[4])}

DecodeAssembly(v) ==
    IF ~Fields(v, 5, LAMBDA f : IsText(f[1]) /\ IsByte(f[3]) /\ IsItems(f[5])) THEN {}
    ELSE LET f == v.items
             kind == f[3].number
             shown == IF IsNull(f[2]) \/ kind # Generic
                      THEN "kind" :> NameOf(AssemblyKinds, kind, "generic") ELSE Nothing
         IN  IF kind \notin Numbers(AssemblyKinds) THEN {}
             ELSE {("id" :> f[1].text) @@ definition @@ text @@ shown @@ members :
                       definition \in CopyOptional("definition", f[2]),
                       text \in CopyOptional("text", f[4]), members \in DecodeMembers(f[5])}

DecodeDefinition(v) ==
    IF ~Fields(v, 4, LAMBDA f : IsText(f[1]) /\ IsByte(f[2]) /\ IsItems(f[4])) THEN {}
    ELSE IF v.items[2].number \notin Numbers(AssemblyKinds) THEN {}
    ELSE {[id |-> v.items[1].text, kind |-> AssemblyKinds[v.items[2].number + 1]] @@ text @@ members :
              text \in CopyOptional("text", v.items[3]), members \in DecodeMembers(v.items[4])}

\* decodeHardware()
Decode(v) ==
    IF ~Fields(v, 6, LAMBDA f : /\ f[1] = Number(HardwareEncodingVersion)
                                /\ f[2] = Number(HwConfigVersion)
                                /\ IsText(f[3]) /\ \A i \in 4 .. 6 : IsItems(f[i])) THEN {}
    ELSE LET f == v.items
         IN  {[version |-> f[2].number, host_assembly |-> f[3].text, definitions |-> ds,
               roots |-> rs, connections |-> cs] :
                  ds \in DecodeEach(DecodeDefinition, f[4]), rs \in DecodeEach(DecodeAssembly, f[5]),
                  cs \in DecodeEach(DecodeConnection, f[6])}

-------------------------------------------------------------------------------
(* Damage, and what a document that was decoded may hold.                       *)

\* The fields that an object has, and those it may have.
HasFields(o, needed, allowed) == needed \subseteq DOMAIN o /\ DOMAIN o \subseteq needed \cup allowed

LegalConnection(o) ==
    /\ HasFields(o, {"a", "b"}, {"wire"})
    /\ \A side \in {"a", "b"} : o[side].kind \in Range(EndpointKinds)
    /\ "wire" \in DOMAIN o => HasFields(o.wire, {}, {"label", "length_mm"})

LegalPoint(o) ==
    /\ HasFields(o, {"id"}, {"text", "canonical_net"})
    /\ "canonical_net" \in DOMAIN o => o.canonical_net \in Range(Tail(CanonicalNets))

MemberFields == {"assemblies", "devices", "connectors", "connections"}
RECURSIVE LegalMembers(_)
LegalMembers(o) ==
    /\ \A d \in Range(o.devices) :
           /\ HasFields(d, {"id", "terminals"}, {"text"})
           /\ \A t \in Range(d.terminals) : LegalPoint(t)
    /\ \A c \in Range(o.connectors) :
           /\ HasFields(c, {"id", "kind", "contacts"}, {"text"}) /\ c.kind \in Range(ConnectorKinds)
           /\ \A t \in Range(c.contacts) : LegalPoint(t)
    /\ \A c \in Range(o.connections) : LegalConnection(c)
    /\ \A a \in Range(o.assemblies) : 
           /\ HasFields(a, MemberFields \cup {"id"}, {"definition", "text", "kind"})
           /\ {"definition", "kind"} \cap DOMAIN a # {}
           /\ "kind" \in DOMAIN a => a.kind \in Range(AssemblyKinds)
           /\ LegalMembers(a)

LegalDocument(o) ==
    /\ \A d \in Range(o.definitions) :
           /\ HasFields(d, MemberFields \cup {"id", "kind"}, {"text"})
           /\ d.kind \in Range(AssemblyKinds) /\ LegalMembers(d)
    /\ LegalMembers([NoMembers EXCEPT !.assemblies = o.roots, !.connections = o.connections])

-------------------------------------------------------------------------------
(* Their publication: packed, and by name beside it.                           *)

Unpublished(p) == [profile |-> p, form |-> "none", packed |-> Null, json |-> {}]

\* publishHardware(): nothing of a profile that is not valid; the document by name
\* may fail after the other was sent.
PublishHardware ==
    /\ hw.form = "none" /\ Validate(hw.profile) = {}
    /\ \E json \in {{}, {Named(hw.profile)}} :
           hw' = [hw EXCEPT !.form = "sent", !.packed = Pack(NothingMore, hw.profile), !.json = json]

\* What a firmware with a later encoding publishes of the same hardware.
PublishLater ==
    /\ hw.form = "none" /\ Validate(hw.profile) = {}
    /\ \E more \in LaterFields :
           hw' = [hw EXCEPT !.form = "sent", !.packed = Pack(more, hw.profile),
                            !.json = {Named(hw.profile)}]

\* Something else is in the topic: a document that differs in one place.
Damage(samples) ==
    /\ hw.form = "sent" /\ hw.profile \in samples /\ hw.packed = Pack(NothingMore, hw.profile)
    /\ \E v \in Damaged(hw.packed) \ {hw.packed} : 
           hw' = [hw EXCEPT !.form = "damaged", !.packed = v, !.json = {}]

\* The two documents of publishHardware() say the same, and go on doing so when
\* the encoding grows as HardwareProfile.h has it, by fields at the end: what the
\* packed one decodes to is the one by name.
DocumentsAgree ==
    hw.form = "sent" => Decode(hw.packed) = {Named(hw.profile)} /\ hw.json \subseteq Decode(hw.packed)

\* Whatever arrives, decodeHardware() refuses it or makes a document of it whose
\* objects have the fields of the schema, with names of the enumerations.
LegalOrRejected == hw.form = "damaged" => \A doc \in Decode(hw.packed) : LegalDocument(doc)

\* validateHwConfig() has no diagnostic exactly for the profiles that describe
\* something that can be built: references that end, names that are unambiguous,
\* connections that join two points once, nets with one identity, within capacity.
AcceptsWellFormed == hw.form = "none" => (Validate(hw.profile) = {} <=> WellFormed(hw.profile))

\* inferNets() puts two endpoints into one net exactly when connections lead from
\* one to the other, in whatever order the connections are met.
NetsAreComponents ==
    hw.form = "none" /\ Shape(hw.profile) = {} /\ Grounded(hw.profile) =>
        NetsOfComponents(BuildTopologyGraph(hw.profile))
===============================================================================
