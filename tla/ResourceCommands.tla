--------------------------- MODULE ResourceCommands ---------------------------
(* How a text reaches a Resource (ResourcesManager): the commands that name    *)
(* one and the topics that address one, over a registry that is bound, given   *)
(* other sources, dropped and renamed.  A text is a sequence of words and      *)
(* separators; the words that have a slash in them are looked up in Slashed.   *)
(* Upper and lower case of verbs, and the two JSON forms of a source, are not  *)
(* distinguished.                                                              *)
EXTENDS Naturals, Sequences, SequencesExt, FiniteSets

CONSTANTS
    Catalogue,        \* local name -> the declaration of each Resource, by name
    DeclaredOrder,    \* their names in the order in which a start binds them
    Unset,            \* no source
    DeviceNames,      \* what this device may be called
    Slashed,          \* word -> the owner and the name, or a wrong number of parts
    TopicWords,       \* word -> <<device, name, operation>>
    Objects,          \* payload -> what the arguments in it are, if it is an object
    Expressions,      \* what follows `>` in the commands that are tried
    MaxResources

VARIABLE registry     \* what is bound, the sources, those stored, and the own name

Space == " "
Names == DOMAIN Catalogue
IsOwned(r) == Catalogue[r].owned

\* resolveResourceOwner() and the name a Resource has there.
Address(w, r) == IF IsOwned(r) THEN <<w.me, r>> ELSE w.source[r]
HasAddress(w, r) == IsOwned(r) \/ w.source[r] # Unset
Bound_(w) == Range(w.bound)

FirstBound(w, Fits(_)) ==
    LET at == {i \in DOMAIN w.bound : Fits(w.bound[i])}
    IN  IF at = {} THEN {} ELSE {w.bound[CHOOSE i \in at : \A j \in at : i <= j]}

FindResource(w, a) == FirstBound(w, LAMBDA r : HasAddress(w, r) /\ Address(w, r) = a)
FindByName(w, name) == {r \in Bound_(w) : r = name}

-------------------------------------------------------------------------------
(* The registry.                                                               *)

AddressTaken(w, r, a) == \E x \in Bound_(w) \ {r} : HasAddress(w, x) /\ Address(w, x) = a

\* bindResource(): a managed one fixes the name of the device for this run.
BindResource(w, r) ==
    IF \/ r \in Bound_(w) \/ Len(w.bound) >= MaxResources
       \/ ~IsOwned(r) /\ w.source[r] # Unset /\ w.source[r][1] = w.me
       \/ HasAddress(w, r) /\ FindResource(w, Address(w, r)) # {}
    THEN [w EXCEPT !.locked = @ \/ (IsOwned(r) /\ r \notin Bound_(w) /\ Len(w.bound) < MaxResources)]
    ELSE [w EXCEPT !.bound = Append(@, r), !.locked = @ \/ IsOwned(r)]

UnbindResource(w, r) ==
    [w EXCEPT !.bound = SelectSeq(@, LAMBDA x : x # r),
              !.stored = IF IsOwned(r) THEN @ ELSE [@ EXCEPT ![r] = Unset]]

MayHave(w, r, a) ==
    ~IsOwned(r) /\ (a # Unset => a[1] # w.me /\ ~AddressTaken(w, r, a))

\* configureRemoteSource(), with and without the file.
ConfigureRemoteSource(w, r, a) ==
    IF MayHave(w, r, a) THEN [w EXCEPT !.source[r] = a, !.stored[r] = a] ELSE w
LoadRemoteSource(w, r) ==
    IF r \in Bound_(w) /\ w.stored[r] # Unset /\ MayHave(w, r, w.stored[r])
    THEN [w EXCEPT !.source[r] = w.stored[r]] ELSE w

RemoteNames == {r \in Names : ~IsOwned(r)}
DeclaredSources == [r \in RemoteNames |-> Catalogue[r].source]

\* bindEnlisted() and loadRemoteSources(), which leaves the file as the sources are.
StartRegistry(w) ==
    LET fresh == [w EXCEPT !.bound = <<>>, !.source = DeclaredSources, !.me = w.next, !.locked = FALSE]
        bound == FoldLeft(BindResource, fresh, DeclaredOrder)
        loaded == FoldLeft(LAMBDA u, r : IF IsOwned(r) THEN u ELSE LoadRemoteSource(u, r), bound, DeclaredOrder)
    IN  [loaded EXCEPT !.stored = [r \in RemoteNames |->
             IF r \in Bound_(loaded) THEN loaded.source[r] ELSE Unset]]

\* beginAdoption(): at once, or with the next start when the name is in use.
Adopt(w, name) == [w EXCEPT !.next = name, !.me = IF w.locked THEN @ ELSE name]

-------------------------------------------------------------------------------
(* Messages.                                                                   *)

\* ingressTopicFor(): what the device subscribes to for a Resource, if anything.
IngressTopic(w, r) ==
    IF ~HasAddress(w, r) THEN {}
    ELSE LET d == Catalogue[r]
             Topic(operation) == {Append(Address(w, r), operation)}
         IN  IF d.kind = "value" /\ ~d.owned THEN Topic("state")
             ELSE IF d.kind = "value" THEN IF d.access = "read_write" THEN Topic("set") ELSE {}
             ELSE IF d.kind = "event" THEN IF d.owned THEN {} ELSE Topic("event")
             ELSE IF d.owned THEN Topic("invoke") ELSE {}

Effect(did, on, with) == [did |-> did, on |-> on, with |-> with]
Refused == Effect("refused", "", <<>>)
Answered == Effect("answered", "", <<>>)

\* assertActionPayload(): an object with what is required, each of its type.
Accepts(r, payload) ==
    LET given == IF payload = <<>> THEN <<>> ELSE Objects[payload]
    IN  /\ payload = <<>> \/ payload \in DOMAIN Objects
        /\ \A a \in Range(Catalogue[r].arguments) :
               IF a.name \in DOMAIN given THEN given[a.name] = a.type ELSE ~a.required

ExecuteAction(r, payload) ==
    IF Accepts(r, payload) THEN {Effect("executed", r, payload)} ELSE {Refused}

\* invoke(): the schema is only looked at when the caller has declared one.
Invoke(w, r, payload) ==
    IF HasAddress(w, r) /\ (Catalogue[r].arguments # <<>> => Accepts(r, payload))
    THEN {Effect("asked to invoke", r, payload), Refused} ELSE {Refused}

\* applyManagedWrite(): the codec or the application may refuse it.
ManagedWrite(r, payload) ==
    IF Catalogue[r].access = "read_write" THEN {Effect("written", r, payload), Refused} ELSE {Refused}

\* handleIngressMessage() of a topic of the resource subtree.
HandleIngressMessage(w, topic, payload, retained) ==
    UNION {LET d == Catalogue[r] IN
           CASE topic[3] = "state" /\ d.kind = "value" /\ ~d.owned -> {Effect("learned", r, payload)}
             [] topic[3] = "event" /\ d.kind = "event" /\ ~d.owned ->
                    IF retained \/ payload = <<>> THEN {Answered} ELSE {Effect("occurred", r, payload)}
             [] topic[3] = "set" /\ d.kind = "value" /\ d.owned -> ManagedWrite(r, payload)
             [] topic[3] = "invoke" /\ d.kind = "action" /\ d.owned -> ExecuteAction(r, payload)
             [] OTHER -> {Refused}
           : r \in FindResource(w, SubSeq(topic, 1, 2))}

-------------------------------------------------------------------------------
(* Commands.                                                                   *)

\* The position of the next word, from position p on; and what follows a word and
\* exactly one separator.
NextWord(e, p) == LET at == {i \in p .. Len(e) : e[i] # Space}
                  IN  IF at = {} THEN Len(e) + 1 ELSE CHOOSE i \in at : \A j \in at : i <= j
WordAt(e, p) == IF p <= Len(e) THEN e[p] ELSE ""

\* Mutant: what follows a word without the separators in front of it.
StrippedAfter(e, p) == SubSeq(e, NextWord(e, p + 1), Len(e))

After(e, p) == SubSeq(e, p + 2, Len(e))

Trim(e) == LET at == {i \in DOMAIN e : e[i] # Space}
           IN  IF at = {} THEN <<>>
               ELSE SubSeq(e, CHOOSE i \in at : \A j \in at : i <= j, CHOOSE i \in at : \A j \in at : i >= j)

\* The words of a text, however they are separated.
Words(e) == SelectSeq(e, LAMBDA x : x # Space)

\* parseCommand(): a separator after `>` addresses a Resource, anything else the manager.
ParseCommand(e) ==
    LET first == NextWord(e, 1)
        second == NextWord(e, first + 1)
        internal == e[1] # Space
        raw == internal /\ e[first] = "raw"
    IN  [internal |-> internal,
         action |-> IF internal THEN e[first] ELSE "",
         target |-> IF ~internal THEN WordAt(e, first) ELSE IF raw THEN WordAt(e, second) ELSE "",
         verb |-> IF internal THEN "" ELSE WordAt(e, second),
         payload |-> IF internal /\ ~raw THEN After(e, first) ELSE After(e, second)]

\* findCommandResource(): a name alone is local, an address is compared whole.
FindTarget(w, word) ==
    IF word \notin DOMAIN Slashed THEN FindByName(w, word)
    ELSE IF Len(Slashed[word]) # 2 THEN {} ELSE FindResource(w, Slashed[word])

InvokeAction(w, r, payload) ==
    IF IsOwned(r) THEN ExecuteAction(r, payload) ELSE Invoke(w, r, payload)

\* A payload that is a word: `clear`, an address, or nothing that can be a source.
SourceOf(payload) ==
    IF payload = <<"clear">> THEN {Unset}
    ELSE IF Len(payload) = 1 /\ payload[1] \in DOMAIN Slashed /\ Len(Slashed[payload[1]]) = 2
    THEN {Slashed[payload[1]]} ELSE {}

\* The verbs, for a Resource that was found.
Verb(w, r, verb, payload) ==
    LET d == Catalogue[r]
        trimmed == Trim(payload)
    IN  CASE verb = "" -> IF d.kind = "action" THEN InvokeAction(w, r, <<>>) ELSE {Answered}
          [] verb = "get" -> IF d.kind = "value" /\ trimmed = <<>> THEN {Answered} ELSE {Refused}
          [] verb = "source" ->
                 IF d.owned THEN {Refused}
                 ELSE IF trimmed = <<>> THEN {Answered}
                 ELSE IF SourceOf(trimmed) = {} THEN {Refused}
                 ELSE {IF MayHave(w, r, a) THEN Effect("sourced", r, a) ELSE Refused : a \in SourceOf(trimmed)}
          [] verb \in {"advertise", "poll"} ->
                 IF ~(d.kind = "value" /\ d.owned /\ (verb = "poll" => d.polled)) THEN {Refused}
                 ELSE IF trimmed = <<>> THEN {Answered} ELSE {Effect(verb, r, trimmed), Refused}
          [] verb = "set" ->
                 IF d.kind # "value" \/ payload = <<>> THEN {Refused}
                 ELSE IF d.owned THEN ManagedWrite(r, payload)
                 ELSE IF d.access = "read_write" /\ HasAddress(w, r)
                 THEN {Effect("asked to set", r, payload), Refused} ELSE {Refused}
          [] verb = "invoke" -> IF d.kind = "action" THEN InvokeAction(w, r, payload) ELSE {Refused}
          [] OTHER -> {Refused}

\* executeCommand()
ExecuteCommand(w, e) ==
    LET c == ParseCommand(e)
        target == IF c.internal /\ c.action = "drop" THEN WordAt(Trim(c.payload), 1) ELSE c.target
        found == FindTarget(w, target)
    IN  IF e = <<>> THEN {Refused}
        ELSE IF ~c.internal
        THEN IF found = {} THEN {Refused} ELSE UNION {Verb(w, r, c.verb, c.payload) : r \in found}
        ELSE CASE c.action = "list" -> IF Trim(c.payload) = <<>> THEN {Answered} ELSE {Refused}
               [] c.action = "manifest" ->
                      IF Words(c.payload) \in {<<>>, <<"msgpack">>, <<"publish">>,
                                               <<"publish", "json">>, <<"publish", "msgpack">>}
                      THEN {Effect("published", "", <<>>), Refused}
                      ELSE IF Words(c.payload) = <<"json">> THEN {Answered} ELSE {Refused}
               [] c.action = "drop" ->
                      IF Len(Trim(c.payload)) # 1 THEN {Refused}
                      ELSE IF found = {} THEN {Refused} ELSE {Effect("dropped", r, <<>>) : r \in found}
               [] c.action = "raw" ->
                      IF target \notin DOMAIN TopicWords THEN {Refused}
                      ELSE IF FindResource(w, SubSeq(TopicWords[target], 1, 2)) = {} THEN {Refused}
                      ELSE HandleIngressMessage(w, TopicWords[target], c.payload, FALSE)
               [] OTHER -> {Refused}

\* What an effect leaves of the registry.
Done(w, x) ==
    IF x.did = "dropped" THEN UnbindResource(w, x.on)
    ELSE IF x.did = "sourced" THEN ConfigureRemoteSource(w, x.on, x.with) ELSE w

-------------------------------------------------------------------------------
RegistryInit ==
    registry \in {StartRegistry([bound |-> <<>>, source |-> DeclaredSources, stored |-> [r \in RemoteNames |-> Unset],
                        me |-> name, next |-> name, locked |-> FALSE]) : name \in DeviceNames}

Command(e) == \E x \in ExecuteCommand(registry, e) : registry' = Done(registry, x)
BindAgain(r) == r \notin Bound_(registry) /\ registry' = BindResource(registry, r)
Rename(name) == registry' = Adopt(registry, name)
StartAgain == registry' = StartRegistry(registry)

RegistryNext ==
    \/ \E e \in Expressions : Command(e)
    \/ \E r \in Names : BindAgain(r)
    \/ \E name \in DeviceNames : Rename(name)
    \/ StartAgain

\* Whatever was bound, sourced, dropped or renamed before, a message on a topic that
\* ingressTopicFor() subscribes to for a Resource reaches this Resource and no other.
TopicsReachTheirResource ==
    \A r \in Bound_(registry) : \A t \in IngressTopic(registry, r) :
        FindResource(registry, SubSeq(t, 1, 2)) = {r} /\
        \E payload \in DOMAIN Objects : \E x \in HandleIngressMessage(registry, t, payload, FALSE) : x.on = r

\* The Resource that a target denotes: the only one of this name, or at this address.
Denotes(word, r) ==
    IF word \in DOMAIN Slashed
    THEN {x \in Bound_(registry) : HasAddress(registry, x) /\ Address(registry, x) = Slashed[word]} = {r}
    ELSE r = word /\ r \in Bound_(registry)

\* What a Resource lets be done to it.
Allowed(r, did) ==
    LET d == Catalogue[r] IN
    CASE did = "written" -> d.kind = "value" /\ d.owned /\ d.access = "read_write"
      [] did = "asked to set" -> d.kind = "value" /\ ~d.owned /\ d.access = "read_write"
      [] did = "executed" -> d.kind = "action" /\ d.owned
      [] did = "asked to invoke" -> d.kind = "action" /\ ~d.owned
      [] did \in {"advertise", "poll"} -> d.kind = "value" /\ d.owned
      [] did \in {"sourced", "learned", "occurred"} -> ~d.owned
      [] OTHER -> TRUE

\* The text after the first two words and one separator.
OpaquePart(e, payload) ==
    \E n \in 2 .. Len(e) :
        /\ payload = SubSeq(e, n + 1, Len(e)) /\ e[n] = Space /\ e[n - 1] # Space
        /\ Len(Words(SubSeq(e, 1, n))) = 2

\* docs/protocols/commands.md: a command acts on the Resource its target denotes, as
\* its role allows, and hands `set` and `invoke` the rest of the text unchanged.
CommandsAreFaithful ==
    \A e \in Expressions : \A x \in ExecuteCommand(registry, e) :
        x.on # "" =>
            /\ Allowed(x.on, x.did)
            /\ e[1] = Space => Denotes(ParseCommand(e).target, x.on)
            /\ x.did \in {"written", "asked to set", "executed", "asked to invoke"} =>
                   x.with = <<>> \/ OpaquePart(e, x.with)
===============================================================================
