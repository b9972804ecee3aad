---------------------------- MODULE RemoteResources ----------------------------
(* Core/ResourcesManager on the device that uses a value another one owns: the  *)
(* source of it, which is changed while the device runs and is kept in a file, *)
(* the subscriptions that follow the sources, and what comes in on them.       *)
EXTENDS ManagedResources, Sequences, SequencesExt

CONSTANTS
    Addresses,       \* <<owner, name>>: what a source may be
    Declared,        \* the source each of Remote has in the firmware, or None
    States,          \* those of Remote that are RemoteState: written from here
    Depth            \* messages on their way at most

\* No two values have one source: bindResource() refuses the second.
ASSUME RemoteAssumption ==
    /\ IsFiniteSet(Remote) /\ None \notin Addresses /\ Declared \in [Remote -> Addresses \cup {None}]
    /\ \A r, q \in Remote : Declared[r] = Declared[q] => Declared[r] = None \/ r = q

Deleted == "deleted"     \* an empty payload

Unlearned == [value |-> None, avail |-> FALSE, fresh |-> "unknown", period |-> None, wish |-> None]

Sourced(w) == {r \in w.bound \cap Remote : w.src[r] # None}

StateTopic(a) == <<"state", a>>
ManifestTopic(owner) == <<"manifest", owner>>

\* What the device hears, in the order the broker sends it; a new subscription is
\* answered with what is retained.
Hear(w, topic, body) == [w EXCEPT !.inbox = Append(@, [topic |-> topic, body |-> body])]

Retained(w, topics) ==
    LET told == SetToSeq({t \in topics : w.theirs[t] # None})
    IN  [i \in DOMAIN told |-> [topic |-> told[i], body |-> w.theirs[told[i]]]]

Join(w, topics) == [w EXCEPT !.subs = @ \cup topics, !.inbox = @ \o Retained(w, topics)]

Subscribe(w, topics) == IF online THEN Join(w, topics) ELSE w

Unsubscribe(w, topics) == IF online THEN [w EXCEPT !.subs = @ \ topics] ELSE w

Ingress(a) == IF a = None THEN {} ELSE {StateTopic(a)}

\* Mutant: the manifest of an owner is given up while another resource uses it.
GreedyOwnerInUse(w, owner, exclude) == FALSE

OwnerInUse(w, owner, exclude) == \E r \in Sourced(w) \ exclude : w.src[r][1] = owner

\* The manifest topic of an owner, when nobody else among the bound ones uses it.
LastOf(w, a, exclude) ==
    IF a = None \/ OwnerInUse(w, a[1], exclude) THEN {} ELSE {ManifestTopic(a[1])}

OwnerChanged(a, b) == a = None \/ b = None \/ a[1] # b[1]

\* The topics of a that go or come with it.
Concerned(w, a, changed, exclude) == Ingress(a) \cup IF changed THEN LastOf(w, a, exclude) ELSE {}

\* r was of old and has the source it has now.
Resubscribed(w, r, old) ==
    LET changed == OwnerChanged(old, w.src[r])
        less    == Unsubscribe(w, Concerned(w, old, changed, {}))
    IN  Subscribe(less, Concerned(less, w.src[r], changed, {r}))

NotifySourceChanged(w, r, old) ==
    IF ~Bound(w, r) THEN {w} ELSE {Resubscribed(u, r, old) : u \in WithdrawFromDependents(w, r)}

WithSource(w, r, a) == [w EXCEPT !.src[r] = a, !.remote[r] = Unlearned]

-------------------------------------------------------------------------------
(* The file of the sources: an object, whose members keep the order in which   *)
(* they were first written.  kept is a history of it: "all" the sources in use *)
(* were written to it, "some" of them were lost, or it is "unknown" whether it *)
(* has others than those.                                                      *)

Members(file, r) == {i \in DOMAIN file : file[i][1] = r}

Binding(file, r) ==
    IF Members(file, r) = {} THEN None ELSE file[CHOOSE i \in Members(file, r) : TRUE][2]

Filed(file, r, a) ==
    IF Members(file, r) = {} THEN IF a = None THEN file ELSE Append(file, <<r, a>>)
    ELSE LET at == CHOOSE i \in Members(file, r) : TRUE
         IN  IF a = None THEN RemoveAt(file, at) ELSE ReplaceAt(file, at, <<r, a>>)

\* What a read of it finds, which is nothing when it cannot be read.  A file that is not
\* there, one that was cut off and one without members are read alike: all are <<>>.
Found(w) == {w.sources} \cup {<<>> : able \in Able("sources") \ {TRUE}}

\* It is written in place: when that fails it is as it was, if it could not be opened,
\* and is removed, if it could.
Write(w, file, kept) ==
    {[w EXCEPT !.sources = file, !.kept = kept, !.ok = TRUE]}
    \cup UNION {{[w EXCEPT !.ok = FALSE], [w EXCEPT !.sources = <<>>, !.kept = "some", !.ok = FALSE]}
                : able \in Able("sources") \ {TRUE}}

\* A file that cannot be read is begun anew.
Persist(w, r, a) ==
    UNION {Write(w, Filed(found, r, a), IF found = w.sources THEN w.kept ELSE "some") : found \in Found(w)}

\* A write the failure of which nobody looks at: the file may be of sources that were.
Unheeded(us) ==
    {IF u.ok THEN u
     ELSE [u EXCEPT !.ok = TRUE, !.kept = IF u.sources = <<>> THEN "some" ELSE "unknown"] : u \in us}

\* removePersistedRemoteSource(), which leaves a file alone that it cannot read.
ForgetSource(w, r) ==
    IF Members(w.sources, r) = {} THEN {w} ELSE Unheeded(Write(w, Filed(w.sources, r, None), w.kept))

TakenByOther(w, r, a) == a # None /\ \E x \in Sourced(w) \ {r} : w.src[x] = a

\* Mutant: the source that could not be stored stays in force.
FaultyRollBack(w, r, old) == {w}

RollBack(w, r, old) == NotifySourceChanged(WithSource(w, r, old), r, w.src[r])

ConfigureSource(w, r, a) ==
    IF TakenByOther(w, r, a) THEN {w}
    ELSE IF w.src[r] = a THEN {[u EXCEPT !.ok = TRUE] : u \in Persist(w, r, a)}
    ELSE UNION {IF u.ok THEN {u} ELSE RollBack([u EXCEPT !.ok = TRUE], r, w.src[r])
                : u \in UNION {Persist(v, r, a)
                               : v \in NotifySourceChanged(WithSource(w, r, a), r, w.src[r])}}

\* The sources once a member of the file is read.
Accepted(w, src, r, a) ==
    IF TakenByOther([w EXCEPT !.src = src], r, a) THEN src ELSE [src EXCEPT ![r] = a]

\* loadRemoteSources(), when nothing can be published and this is found in the file: the
\* members in their order, and the file as the sources then are when one was refused,
\* one is missing from it or it could not be read.
LoadFound(w, found) ==
    LET now[n \in 0 .. Len(found)] ==
            IF n = 0 THEN w.src ELSE Accepted(w, now[n - 1], found[n][1], found[n][2])
        src     == now[Len(found)]
        moved   == {r \in Remote : src[r] # w.src[r]}
        mirrors == UNION {Dependents(w, r) : r \in moved}
        read    == [w EXCEPT !.src = src,
                             !.remote = [r \in Remote |-> IF r \in moved THEN Unlearned ELSE @[r]],
                             !.own = OnOwn(w, mirrors, LAMBDA m :
                                 [w.own[m] EXCEPT !.avail = FALSE, !.pending = TRUE])]
        inUse   == SetToSeq(Sourced(read))
        anew    == [i \in DOMAIN inUse |-> <<inUse[i], src[inUse[i]]>>]
        kept    == IF found = w.sources THEN "all" ELSE "some"
    IN  IF found = w.sources /\ \A r \in w.bound \cap Remote : Binding(found, r) = src[r]
        THEN {[read EXCEPT !.kept = kept]}
        ELSE Unheeded(Write(read, anew, kept))

LoadSources(w) == UNION {LoadFound(w, found) : found \in Found(w)}

-------------------------------------------------------------------------------
BindRemote(w, r) ==
    LET u == [w EXCEPT !.bound = @ \cup {r}]
    IN  IF TakenByOther(w, r, w.src[r]) THEN {w}
        ELSE {Subscribe(u, Ingress(w.src[r]) \cup LastOf(w, w.src[r], {r}))}

UnbindRemote(w, r) ==
    UNION {LET v == [u EXCEPT !.bound = @ \ {r}]
           IN  ForgetSource(Unsubscribe(v, Ingress(v.src[r]) \cup LastOf(v, v.src[r], {r})), r)
           : u \in WithdrawFromDependents(w, r)}

\* Everything again, with a new connection.
SubscribeAll(w) ==
    Join(w, {StateTopic(w.src[r]) : r \in Sourced(w)}
            \cup {ManifestTopic(w.src[r][1]) : r \in Sourced(w)})

\* The value the application is shown.
Effective(v) == IF v.wish # None THEN v.wish ELSE v.value

ApplyRemoteState(w, r, body) ==
    IF body = Deleted THEN WithdrawFromDependents([w EXCEPT !.remote[r].avail = FALSE], r)
    ELSE LET u == [w EXCEPT !.remote[r].value = body, !.remote[r].avail = TRUE, !.remote[r].fresh = "fresh"]
         IN  Propagate(u, r, Effective(u.remote[r]))

ApplyManifest(w, owner, body) ==
    [w EXCEPT !.remote = [r \in Remote |->
        IF r \in Sourced(w) /\ w.src[r][1] = owner THEN [@[r] EXCEPT !.period = IF body = Deleted THEN None ELSE body] ELSE @[r]]]

NamedBy(w, topic) == {r \in Sourced(w) : StateTopic(w.src[r]) = topic}

\* What is heard is for the resource whose source it names now.
HandleIngress(w) ==
    LET topic == Head(w.inbox).topic
        body  == Head(w.inbox).body
        u     == [w EXCEPT !.inbox = Tail(@)]
    IN  IF topic[1] = "manifest" THEN {ApplyManifest(u, topic[2], body)}
        ELSE IF NamedBy(w, topic) = {} THEN {u}
        ELSE ApplyRemoteState(u, CHOOSE r \in NamedBy(w, topic) : TRUE, body)

\* A RemoteState shows for a while what it has asked its owner for.
RequestValue(w, r, v) ==
    {IF ok THEN [w EXCEPT !.remote[r].wish = v] ELSE w : ok \in Taken}

Age(w, r) ==
    IF w.remote[r].avail /\ w.remote[r].value # None /\ w.remote[r].period = "often"
    THEN [w EXCEPT !.remote[r].fresh = "stale"] ELSE w
===============================================================================
