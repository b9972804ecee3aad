------------------------------- MODULE Resources -------------------------------
(* The Resources of a device from its start to its next one: the managed and   *)
(* the remote values over a connection that comes and goes, the publications   *)
(* asked for at each connection, and the owners of the remote values.          *)
EXTENDS RemoteResources

CONSTANTS
    Requests,        \* SystemRequest: what the main loop may be asked to publish
    Firmwares,       \* those of which one runs: its values, the addresses there are,
                     \* those that change, the requests it makes, and whether a
                     \* connection refuses publications
    Toggled,         \* those of Managed that the application makes unavailable
    Dropped,         \* those that are unbound and bound again
    Versions,        \* the values their owners give the remote ones
    Restarts         \* BOOLEAN: whether the device restarts

\* The application leaves a mirror alone: it is no mirror of a mirror, which
\* propagateToDependents() asks for, nor of a value that is written from here before its
\* owner has taken it; it is not made unavailable, bound again or given a policy of its own.
ASSUME MirrorAssumption ==
    \A m \in Managed : Mirrors[m] # None =>
        /\ m \notin Toggled \cup Dropped \cup Tuned
        /\ Mirrors[m] \notin States
        /\ Mirrors[m] \in Managed => Mirrors[Mirrors[m]] = None

Bodies(t) == IF t[1] = "state" THEN {<<t[2], d>> : d \in Versions} ELSE {"often"}

Topics == {StateTopic(a) : a \in Addresses} \cup {ManifestTopic(a[1]) : a \in Addresses}

ASSUME FirmwareAssumption ==
    /\ \A fw \in Firmwares : fw.addresses \subseteq Addresses /\ fw.changing \subseteq Topics
    /\ \A t \in Topics : Bodies(t) # {} /\ {None, Deleted} \cap Bodies(t) = {}

VARIABLES
    requested,       \* requests_: asked for and not yet taken
    retries,         \* requestRetries: those that failed and wait to be tried again
    firmware,        \* the one that runs
    up               \* whether the device has started

requestVars == <<requested, retries>>
vars == <<net, online, refuses, requestVars, firmware, up>>
others == <<online, refuses, requestVars, firmware, up>>

-----------------------------------------------------------------------------
(* Core/SystemState: the publications that any task asks for and the main loop *)
(* makes (processOneSystemRequest in NightMareESP.cpp), one in a turn, again   *)
(* after a delay when one fails.  A request made while its publication is      *)
(* under way is a new one.                                                     *)

RequestInit == requested = {} /\ retries = {}

Request(rs) == requested' = requested \cup rs /\ UNCHANGED retries

\* A turn of the loop for one of them; done is how its publication ended.
Serve(r, done) ==
    /\ r \in requested \cup retries
    /\ requested' = requested \ {r}
    /\ retries' = IF done THEN retries \ {r} ELSE retries \cup {r}

NothingRequested == requested \cup retries = {}

-----------------------------------------------------------------------------
declared == firmware.values

\* What a start does not find again is lost; the files and the broker stay.
Started(w) ==
    [w EXCEPT !.bound = {}, !.own = [m \in Managed |-> New], !.dirty = FALSE, !.loaded = FALSE,
              !.src = Declared, !.remote = [r \in Remote |-> Unlearned], !.subs = {}, !.inbox = <<>>]

Init ==
    /\ firmware \in Firmwares
    /\ net = [bound |-> {}, own |-> [m \in Managed |-> New], dirty |-> FALSE, loaded |-> FALSE,
              ok |-> TRUE, src |-> Declared, remote |-> [r \in Remote |-> Unlearned],
              policy |-> NoPolicy, sources |-> <<>>, kept |-> "all",
              retained |-> [m \in Managed |-> None], manifest |-> <<>>,
              theirs |-> [t \in Topics |-> IF t \in firmware.changing THEN None ELSE CHOOSE b \in Bodies(t) : TRUE],
              subs |-> {}, inbox |-> <<>>]
    /\ refuses = firmware.refuses /\ online = FALSE /\ up = FALSE /\ RequestInit

\* startNightMareESP(): everything is bound, the files are read, and the connection,
\* which takes nothing yet, is told of it all.
Boot ==
    /\ ~up /\ up' = TRUE
    /\ \E w \in LoadSettings([Started(net) EXCEPT !.bound = declared]) :
         \E u \in LoadSources(w) : net' = [u EXCEPT !.dirty = TRUE]
    /\ UNCHANGED <<online, refuses, requestVars, firmware>>

\* The device stops while it writes the file of the sources, as it may whenever it has
\* remote values: what is left of it cannot be read.
CutOff(w) ==
    {[w EXCEPT !.sources = <<>>, !.kept = "some"]
     : able \in IF w.bound \cap Remote = {} THEN {} ELSE Able("sources") \ {TRUE}}

Restart ==
    /\ Restarts /\ up /\ up' = FALSE /\ online' = FALSE
    /\ \E w \in {net} \cup CutOff(net) : net' = Started(w)
    /\ requested' = {} /\ retries' = {} /\ UNCHANGED <<refuses, firmware>>

\* notifyConnectedOwners(): new subscriptions, and the requests of the router.
Connect ==
    /\ up /\ ~online /\ online' = TRUE
    /\ net' = SubscribeAll(net)
    /\ Request(firmware.requests) /\ UNCHANGED <<refuses, firmware, up>>

Disconnect ==
    /\ online /\ online' = FALSE
    /\ net' = [net EXCEPT !.subs = {}, !.inbox = <<>>]
    /\ UNCHANGED <<refuses, requestVars, firmware, up>>

\* A call of the application or of a command.
Call(ws) == up /\ net' \in ws /\ Len(net'.inbox) <= Depth /\ UNCHANGED others

\* Whether all that is offered has been taken.
AllPublished(w) == \A m \in w.bound \cap Managed : Offered(w.own[m]) => ~w.own[m].retry

ServeManifest ==
    /\ online
    /\ \E w \in PublishManifest(net) : net' = w /\ Serve("manifest", ~w.dirty)
    /\ UNCHANGED <<online, refuses, firmware, up>>

ServeStates ==
    /\ online
    /\ \E w \in PublishResourceStates(net) : net' = w /\ Serve("states", AllPublished(w))
    /\ UNCHANGED <<online, refuses, firmware, up>>

RetryManifest == net.dirty /\ Call(PublishManifest(net))

TickManaged(m) == m \in net.bound /\ ~net.dirty /\ Call(Inspect(net, m))

TickRemote(r) == r \in net.bound /\ ~net.dirty /\ Call({Age(net, r)})

Bind(x) ==
    /\ x \in declared \ net.bound
    /\ Call(IF x \in Managed THEN BindManaged(net, x) ELSE BindRemote(net, x))

Unbind(x) ==
    /\ x \in Dropped \cap net.bound
    /\ Call(IF x \in Managed THEN UnbindManaged(net, x) ELSE UnbindRemote(net, x))

\* The application writes what mirrors nothing.
Set(m, v) == m \in declared /\ Mirrors[m] = None /\ Call(SetValue(net, m, v))
MakeAvailable(m, a) == m \in declared \cap Toggled /\ Call(SetAvailable(net, m, a))
Advertise(m, p) == m \in net.bound \cap Tuned /\ Call(SetAdvertisementPolicy(net, m, p))
Poll(m, q) == m \in net.bound \cap Tuned /\ Call(SetPoll(net, m, q))

SetSource(r, a) == r \in net.bound /\ Call(ConfigureSource(net, r, a))
Wish(r, v) == r \in Sourced(net) \cap States /\ Call(RequestValue(net, r, v))
WindowEnds(r) == net.remote[r].wish # None /\ Call({[net EXCEPT !.remote[r].wish = None]})
Receive == net.inbox # <<>> /\ Call(HandleIngress(net))

\* External: the owner of a remote value.
OwnerPublishes(t, body) ==
    /\ net.theirs[t] # body
    /\ net' = LET u == [net EXCEPT !.theirs[t] = body]
              IN  IF t \in net.subs THEN Hear(u, t, IF body = None THEN Deleted ELSE body) ELSE u
    /\ Len(net'.inbox) <= Depth
    /\ UNCHANGED others

Next ==
    \/ Boot \/ Restart \/ Connect \/ Disconnect
    \/ ServeManifest \/ ServeStates \/ RetryManifest
    \/ \E m \in Managed : TickManaged(m)
    \/ \E r \in Remote : TickRemote(r)
    \/ \E x \in Managed \cup Remote : Bind(x) \/ Unbind(x)
    \/ \E m \in Managed, v \in Data : Set(m, v)
    \/ \E m \in Managed, a \in BOOLEAN : MakeAvailable(m, a)
    \/ \E m \in Managed, p \in Periods : Advertise(m, p)
    \/ \E m \in Managed, q \in {"default", "override"} : Poll(m, q)
    \/ \E r \in Remote, a \in firmware.addresses \cup {None} : SetSource(r, a)
    \/ \E r \in Sourced(net), d \in Versions : Wish(r, <<net.src[r], d>>)
    \/ \E r \in Remote : WindowEnds(r)
    \/ Receive
    \/ \E t \in firmware.changing : \E b \in Bodies(t) \cup {None} : OwnerPublishes(t, b)

Spec == Init /\ [][Next]_vars
-------------------------------------------------------------------------------
\* Nothing is on its way and nothing waits to be tried again.
AtRest ==
    /\ online /\ ~net.dirty /\ NothingRequested /\ net.inbox = <<>>
    /\ \A m \in net.bound \cap Managed : ~net.own[m].pending /\ ~net.own[m].retry

\* While connected the device is subscribed to the state of each source in use and
\* to the manifest of each owner in use, and to nothing else, however sources were
\* changed, refused and taken back.
SubscriptionsMatch ==
    online => net.subs = {StateTopic(net.src[r]) : r \in Sourced(net)}
                         \cup {ManifestTopic(net.src[r][1]) : r \in Sourced(net)}

\* A mirror that is available and has a value has the value of its source, which is
\* available too: withdrawn, deleted, retargeted or unbound, a source takes its
\* mirrors with it (NetValueResource::setDependency).
MirrorAgrees ==
    \A d \in net.bound \cap Managed :
        LET s == Mirrors[d] IN
        s # None /\ net.own[d].avail /\ net.own[d].value # None =>
            /\ s \in net.bound
            /\ s \in Managed => net.own[s].avail /\ net.own[s].value = net.own[d].value
            /\ s \in Remote => net.remote[s].avail /\ net.remote[s].value = net.own[d].value

\* At rest the broker retains what the device offers and nothing that it withdrew,
\* and describes the device as it is; a remote value is the one its owner retains.
Converged ==
    AtRest =>
        /\ net.manifest = Manifest(net)
        /\ \A m \in net.bound \cap Managed :
             /\ Mirrors[m] = None /\ Offered(net.own[m]) => net.retained[m] = net.own[m].value
             /\ ~net.own[m].avail \/ net.own[m].period = "off" => net.retained[m] = None
        /\ \A r \in Sourced(net) :
             /\ net.remote[r].value # None => net.remote[r].value[1] = net.src[r]
             /\ net.theirs[StateTopic(net.src[r])] # None =>
                  net.remote[r].value = net.theirs[StateTopic(net.src[r])] /\ net.remote[r].avail

\* When the device stops, the file gives no remote value another source than it has,
\* although sources were refused, taken back and written in part; and it has the source
\* of every one, unless the file was lost in a failed write, or could not be read.  A
\* start that could read it gives each the source the file has for it.  Not so after a
\* removal or a correction of the file that failed: nobody looks at those.  A value that
\* was unbound and bound again is not in the file.
SourcesSurvive ==
    [][/\ up /\ ~up' =>
            /\ net.kept # "unknown" =>
                 \A r \in net.bound \cap Remote : Binding(net.sources, r) \in {None, net.src[r]}
            /\ net.kept = "all" =>
                 \A r \in (net.bound \cap Remote) \ Dropped : Binding(net.sources, r) = net.src[r]
       /\ ~up /\ up' /\ net.kept # "unknown" /\ net'.kept = "all" =>
            \A r \in declared \cap Remote :
                Binding(net.sources, r) # None => net'.src[r] = Binding(net.sources, r)]_vars

===============================================================================
