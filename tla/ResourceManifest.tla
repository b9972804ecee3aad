--------------------------- MODULE ResourceManifest ---------------------------
(* The documents in which a device declares its Resources (ResourcesManager):  *)
(* the manifest of those it implements and the consume manifest of those it    *)
(* uses of others, each packed by position and, beside it, by name; and what   *)
(* two readers make of a packed manifest: the one that spells it out, and the  *)
(* one that compares it with what it uses of that device.                      *)
EXTENDS Documents, FiniteSets

CONSTANT LaterParts       \* what encoders of later versions add to each kind of array

VARIABLE manifests        \* the Resources of a device, and its documents

ManifestEncodingVersion == 3
ResourceManifestVersion == 6
ConsumeManifestEncodingVersion == 3
ConsumeManifestVersion == 4

ResourceKinds == <<"value", "action", "event">>
ValueTypes == <<"string", "boolean", "integer", "float", "struct", "time", "colour">>
AccessPolicies == <<"read", "read_write">>
IsValue(n) == n = 0
IsEvent(n) == n = 2
ReadWrite == 1

KindName(n) == NameOf(ResourceKinds, n, "action")
AccessName(n) == NameOf(AccessPolicies, n, "read")
ValueTypeName(n) == NameOf(ValueTypes, n, "string")

\* What as<>() makes of a value of another type, and an array of fields that may
\* be shorter than what is asked of it.
Unnamed == "null"
AsByte(v) == IF IsByte(v) THEN v.number ELSE IF IsFlag(v) /\ v.flag THEN 1 ELSE 0
AsName(v) == IF IsText(v) THEN v.text ELSE Unnamed
AsFlag(v) == IF IsFlag(v) THEN v.flag ELSE IF IsNumber(v) THEN v.number # 0 ELSE ~IsNull(v)
AsItems(v) == IF IsItems(v) THEN v.items ELSE <<>>
At(f, i, Is(_)) == i \in DOMAIN f /\ Is(f[i])
ByteAt(f, i) == IF i \in DOMAIN f THEN AsByte(f[i]) ELSE 0

-------------------------------------------------------------------------------
(* Packed.  more[part] is what an encoder of a later version adds.             *)

ManifestParts == {"manifest", "value", "action", "event", "argument", "hardware", "consume", "remote"}
NoMore == [part \in ManifestParts |-> <<>>]

PackArgument(more, a) == Items(<<Text(a.name), Number(a.type), Flag(a.required)>> \o more["argument"])
PackArguments(more, r) == Each(LAMBDA a : PackArgument(more, a), r.arguments)

\* As short as it can be, unless there is something to say behind it.
PackHardware(more, h) ==
    LET connected == IF h.reports THEN Flag(h.connected) ELSE Null
        rest == IF more["hardware"] # <<>> THEN <<connected, AddOptional(h.note)>> \o more["hardware"]
                ELSE IF h.note # "" THEN <<connected, Text(h.note)>>
                ELSE IF h.reports THEN <<connected>> ELSE <<>>
    IN  Items(<<Number(h.poll), Number(h.flags)>> \o rest)

PackResource(more, r) ==
    Items(<<Number(r.kind), Text(r.name)>> \o
          (IF IsValue(r.kind)
           THEN <<Number(r.access), Number(r.type), AddOptional(r.mirrors), Number(r.advertise),
                  IF r.hardware = <<>> THEN Null ELSE PackHardware(more, r.hardware[1])>> \o more["value"]
           ELSE IF IsEvent(r.kind) THEN <<Number(r.type)>> \o more["event"]
           ELSE <<PackArguments(more, r)>> \o more["action"]))

\* buildPositionalManifest()
PackManifest(more, owned) ==
    Items(<<Number(ManifestEncodingVersion), Number(ResourceManifestVersion),
            Each(LAMBDA r : PackResource(more, r), owned)>> \o more["manifest"])

PackRemote(more, r) ==
    Items(<<Number(r.kind), Text(r.name), Flag(r.device # ""), Text(r.device), Text(r.resource)>> \o
          (IF IsValue(r.kind) THEN <<Number(r.access), Number(r.type)>>
           ELSE IF IsEvent(r.kind) THEN <<Number(r.type)>> ELSE <<PackArguments(more, r)>>)
          \o more["remote"])

\* buildPositionalConsumeManifest()
PackConsume(more, remotes) ==
    Items(<<Number(ConsumeManifestEncodingVersion), Number(ConsumeManifestVersion),
            Each(LAMBDA r : PackRemote(more, r), remotes)>> \o more["consume"])

-------------------------------------------------------------------------------
(* By name.                                                                    *)

NameArgument(a) == [name |-> a.name, type |-> ValueTypeName(a.type), required |-> a.required]

NameHardware(h) ==
    [poll_ms |-> h.poll, flags |-> h.flags] @@ Optional("note", h.note)
    @@ (IF h.reports THEN "connected" :> h.connected ELSE Nothing)

TypeOf(r) ==
    IF IsValue(r.kind) THEN [access |-> AccessName(r.access), type |-> ValueTypeName(r.type)]
    ELSE IF IsEvent(r.kind) THEN [type |-> ValueTypeName(r.type)]
    ELSE [arguments |-> NameEach(NameArgument, r.arguments)]

NameResource(r) ==
    [name |-> r.name, kind |-> KindName(r.kind)] @@ TypeOf(r)
    @@ (IF ~IsValue(r.kind) THEN Nothing
        ELSE ("advertise_ms" :> r.advertise) @@ Optional("depends_on", r.mirrors)
             @@ (IF r.hardware = <<>> THEN Nothing ELSE "hardware" :> NameHardware(r.hardware[1])))

\* buildNamedManifest()
NamedManifest(owned) == [version |-> ResourceManifestVersion, resources |-> NameEach(NameResource, owned)]

NameRemote(r) ==
    [name |-> r.name, bound |-> r.device # "", device |-> r.device, resource |-> r.resource,
     kind |-> KindName(r.kind)] @@ TypeOf(r)

\* buildNamedConsumeManifest()
NamedConsume(remotes) == [version |-> ConsumeManifestVersion, remotes |-> NameEach(NameRemote, remotes)]

-------------------------------------------------------------------------------
(* The first reader: decodeManifest() makes the document by name of a packed   *)
(* one, leaving out what is too short; decodeConsumeManifest() all or nothing. *)

Given(key, f, i, Is(_), Value(_)) == IF At(f, i, Is) THEN key :> Value(f[i]) ELSE Nothing
ItsText(v) == v.text
ItsNumber(v) == v.number
ItsFlag(v) == v.flag

DecodeHardware(v) ==
    IF ~Fields(v, 2, LAMBDA h : IsNumber(h[1]) /\ IsByte(h[2])) THEN Nothing
    ELSE LET h == v.items
         IN  "hardware" :> ([poll_ms |-> h[1].number, flags |-> h[2].number]
                            @@ Given("connected", h, 3, IsFlag, ItsFlag)
                            @@ Given("note", h, 4, IsText, ItsText))

DecodeValue(f) ==
    IF Len(f) < 4 THEN Nothing
    ELSE [access |-> AccessName(AsByte(f[3])), type |-> ValueTypeName(AsByte(f[4]))]
         @@ Given("depends_on", f, 5, IsText, ItsText)
         @@ Given("advertise_ms", f, 6, IsNumber, ItsNumber)
         @@ (IF 7 \in DOMAIN f THEN DecodeHardware(f[7]) ELSE Nothing)

DecodeArguments(f) ==
    LET whole == SelectSeq(AsItems(f), LAMBDA a : Len(AsItems(a)) >= 3)
    IN  NameEach(LAMBDA a : [name |-> AsName(a.items[1]), type |-> ValueTypeName(AsByte(a.items[2])),
                             required |-> AsFlag(a.items[3])], whole)

DecodeResource(f) ==
    LET kind == AsByte(f[1])
    IN  [name |-> AsName(f[2]), kind |-> KindName(kind)] @@
        (IF IsValue(kind) THEN DecodeValue(f)
         ELSE IF IsEvent(kind)
         THEN Given("type", f, 3, LAMBDA v : TRUE, LAMBDA v : ValueTypeName(AsByte(v)))
         ELSE [arguments |-> IF Len(f) < 3 THEN <<>> ELSE DecodeArguments(f[3])])

\* The encoding decides whether a document is read at all.
Readable(v) == Fields(v, 3, LAMBDA f : AsByte(f[1]) = ManifestEncodingVersion)
Entries(v) == LET all == AsItems(v.items[3])
              IN  NameEach(LAMBDA e : e.items, SelectSeq(all, LAMBDA e : Len(AsItems(e)) >= 2))

DecodeManifest(v) ==
    IF ~Readable(v) THEN {}
    ELSE {[version |-> IF IsNumber(v.items[2]) THEN v.items[2].number ELSE 0,
           resources |-> NameEach(DecodeResource, Entries(v))]}

DecodeArgument(v) ==
    IF ~Fields(v, 3, LAMBDA a : IsText(a[1]) /\ IsByte(a[2]) /\ IsFlag(a[3])) THEN {}
    ELSE {[name |-> v.items[1].text, type |-> ValueTypeName(v.items[2].number),
           required |-> v.items[3].flag]}

DecodeUse(f) ==
    IF IsValue(f[1].number)
    THEN IF At(f, 6, IsByte) /\ At(f, 7, IsByte)
         THEN {[access |-> AccessName(f[6].number), type |-> ValueTypeName(f[7].number)]} ELSE {}
    ELSE IF IsEvent(f[1].number)
    THEN IF At(f, 6, IsByte) THEN {[type |-> ValueTypeName(f[6].number)]} ELSE {}
    ELSE IF At(f, 6, IsItems) THEN {[arguments |-> as] : as \in DecodeEach(DecodeArgument, f[6])} ELSE {}

DecodeRemote(v) ==
    IF ~Fields(v, 5, LAMBDA f : /\ IsByte(f[1]) /\ f[1].number \in Numbers(ResourceKinds)
                                /\ IsText(f[2]) /\ IsFlag(f[3]) /\ IsText(f[4]) /\ IsText(f[5])) THEN {}
    ELSE LET f == v.items
         IN  {[name |-> f[2].text, bound |-> f[3].flag, device |-> f[4].text, resource |-> f[5].text,
               kind |-> KindName(f[1].number)] @@ use : use \in DecodeUse(f)}

DecodeConsume(v) ==
    IF ~Fields(v, 3, LAMBDA f : /\ f[1] = Number(ConsumeManifestEncodingVersion)
                                /\ IsByte(f[2]) /\ IsItems(f[3])) THEN {}
    ELSE {[version |-> v.items[2].number, remotes |-> rs] : rs \in DecodeEach(DecodeRemote, v.items[3])}

-------------------------------------------------------------------------------
(* The second reader: applyEncodedManifest(), for each remote Resource that    *)
(* has its source at the device the manifest is of.                            *)

FirstOf(s, Fits(_)) == LET at == {i \in DOMAIN s : Fits(s[i])}
                       IN  IF at = {} THEN <<>> ELSE s[CHOOSE i \in at : \A j \in at : i <= j]

\* applyAdvertisementMetadata(): the period its owner gives a value, if any.
Advertisement(entries, r) ==
    LET Fits(f) == Len(f) >= 6 /\ IsText(f[2]) /\ f[2].text = r.resource
                   /\ IsValue(AsByte(f[1])) /\ IsNumber(f[6])
        f == FirstOf(entries, Fits)
    IN  IF f = <<>> THEN {} ELSE {f[6].number}

VerifyArguments(f, r) ==
    LET theirs == IF Len(f) >= 3 THEN AsItems(f[3]) ELSE <<>>
        Its(name) == FirstOf(theirs, LAMBDA a : Len(AsItems(a)) >= 2 /\ a.items[1] = Text(name))
        mine == {a.name : a \in Range(r.arguments)}
    IN  {<<"not declared", a.name>> : a \in {a \in Range(r.arguments) : Its(a.name) = <<>>}}
        \cup {<<"other type", a.name>> : a \in {a \in Range(r.arguments) :
                 Its(a.name) # <<>> /\ AsByte(Its(a.name).items[2]) # a.type}}
        \cup {<<"not known here", a.items[1].text>> : a \in {a \in Range(theirs) :
                 At(AsItems(a), 1, IsText) /\ a.items[1].text \notin mine
                 /\ (Len(a.items) >= 3 => AsFlag(a.items[3]))}}

\* Mutant: the access is to be the same, though reading what may be written is fine.
SymmetricVerify(entries, r) ==
    LET f == FirstOf(entries, LAMBDA e : e[2] = Text(r.resource))
    IN  IF f = <<>> \/ ByteAt(f, 1) # r.kind THEN {<<"incompatible", r.name>>}
        ELSE IF IsValue(r.kind)
        THEN IF Len(f) >= 4 /\ AsByte(f[4]) = r.type /\ AsByte(f[3]) = r.access THEN {}
             ELSE {<<"incompatible", r.name>>}
        ELSE IF IsEvent(r.kind) THEN IF Len(f) >= 3 /\ AsByte(f[3]) = r.type THEN {}
             ELSE {<<"incompatible", r.name>>}
        ELSE IF r.arguments = <<>> THEN {} ELSE VerifyArguments(f, r)

\* verifyAgainstManifest(): what it complains of.
Verify(entries, r) ==
    LET f == FirstOf(entries, LAMBDA e : e[2] = Text(r.resource))
        declared == f # <<>> /\ AsByte(f[1]) = r.kind
        compatible ==
            IF IsValue(r.kind)
            THEN declared /\ Len(f) >= 4 /\ AsByte(f[4]) = r.type
                 /\ (r.access = ReadWrite => AsByte(f[3]) = ReadWrite)
            ELSE declared /\ (IsEvent(r.kind) => Len(f) >= 3 /\ AsByte(f[3]) = r.type)
    IN  IF ~compatible THEN {<<"incompatible", r.name>>}
        ELSE IF r.kind = 1 /\ r.arguments # <<>> THEN VerifyArguments(f, r) ELSE {}

-------------------------------------------------------------------------------
Undeclared(owned, remotes) ==
    [owned |-> owned, remotes |-> remotes, form |-> "none", packed |-> Null, consume |-> Null]

\* publishManifest() and publishConsumeManifest(), of this version or a later one.
Declare(more) ==
    /\ manifests.form = "none"
    /\ manifests' = [manifests EXCEPT !.form = "sent", !.packed = PackManifest(more, manifests.owned),
                                      !.consume = PackConsume(more, manifests.remotes)]

DeclareNow == Declare(NoMore)
DeclareLater == \E more \in LaterParts : Declare(more)

\* Something else is in the topic: a document that differs in one place.
DamageManifest(samples) ==
    /\ manifests.form = "sent" /\ manifests.owned \in samples
    /\ manifests.packed = PackManifest(NoMore, manifests.owned)
    /\ \E v \in Damaged(manifests.packed) \ {manifests.packed} :
           manifests' = [manifests EXCEPT !.form = "damaged", !.packed = v]

\* The declaration of a Resource in a list of declarations by name.
DeclarationOf(declarations, r) == FirstOf(declarations, LAMBDA d : d.name = r.resource)

\* What a user of r has to object to in a declaration, said of names alone.
Objections(d, r) ==
    LET incompatible == {<<"incompatible", r.name>>}
    IN  IF d = <<>> THEN incompatible
        ELSE IF d.kind # KindName(r.kind) THEN incompatible
        ELSE IF "arguments" \in DOMAIN d
        THEN IF r.arguments = <<>> THEN {}
             ELSE LET Its(s, name) == {a \in Range(s) : a.name = name}
                  IN  {<<"not declared", a.name>> : a \in
                           {a \in Range(r.arguments) : Its(d.arguments, a.name) = {}}}
                      \cup {<<"other type", a.name>> : a \in {a \in Range(r.arguments) :
                               \E b \in Its(d.arguments, a.name) : b.type # ValueTypeName(a.type)}}
                      \cup {<<"not known here", b.name>> : b \in {b \in Range(d.arguments) :
                               Its(r.arguments, b.name) = {} /\ b.required}}
        ELSE IF "type" \notin DOMAIN d THEN incompatible
        ELSE IF d.type # ValueTypeName(r.type) THEN incompatible
        ELSE IF IsValue(r.kind) /\ r.access = ReadWrite /\ d.access # "read_write" THEN incompatible
        ELSE {}

\* The two forms of each manifest say the same, and go on doing so when the encoding
\* grows by NetResources.h's rule 2, by fields at the end; and a user of these
\* Resources objects to the packed one exactly as to the declarations themselves.
ManifestsAgree ==
    manifests.form = "sent" =>
        /\ DecodeManifest(manifests.packed) = {NamedManifest(manifests.owned)}
        /\ DecodeConsume(manifests.consume) = {NamedConsume(manifests.remotes)}
        /\ \A r \in Range(manifests.remotes) :
               Verify(Entries(manifests.packed), r) =
                   Objections(DeclarationOf(NamedManifest(manifests.owned).resources, r), r)

\* Numbers of the enumerations only, in what is declared of values and events.
OnlyKnown(v) ==
    \A f \in Range(Entries(v)) :
        LET kind == AsByte(f[1])
        IN  /\ kind \in Numbers(ResourceKinds)
            /\ IsValue(kind) /\ Len(f) >= 4 =>
                   AsByte(f[4]) \in Numbers(ValueTypes) /\ AsByte(f[3]) \in Numbers(AccessPolicies)
            /\ IsEvent(kind) /\ Len(f) >= 3 => AsByte(f[3]) \in Numbers(ValueTypes)

\* However a manifest was damaged, the two readers of it agree: applyEncodedManifest()
\* takes from it the advertisement that decodeManifest() shows, and objects to a value
\* or an event as a comparison with what decodeManifest() shows would.
ReadersAgree ==
    manifests.form = "damaged" => \A doc \in DecodeManifest(manifests.packed) :
        \A r \in Range(manifests.remotes) :
            LET d == DeclarationOf(doc.resources, r)
                entries == Entries(manifests.packed)
            IN  /\ IsValue(r.kind) =>
                       Advertisement(entries, r) =
                           IF d = <<>> THEN {}
                           ELSE IF "advertise_ms" \in DOMAIN d THEN {d.advertise_ms} ELSE {}
                /\ OnlyKnown(manifests.packed) /\ r.kind # 1 => Verify(entries, r) = Objections(d, r)

\* A manifest means one thing to all that read it.
ManifestsReadAlike == ManifestsAgree /\ ReadersAgree
===============================================================================
