--------------------------- MODULE ManagedResources ---------------------------
(* Core/ResourcesManager and NetResources on the device that owns a value: what *)
(* is retained of it at the broker, the policy that says whether it is         *)
(* advertised, its mirrors, the manifest and the retries of tick().            *)
(*                                                                             *)
(* A call makes several publications, each of which the network takes or       *)
(* refuses, so an operation yields the set of the states it may leave: of the  *)
(* device, its files and the broker, as one record.                            *)
EXTENDS Naturals, FiniteSets

CONSTANTS
    Managed, Remote,    \* the declared values: implemented here, or elsewhere
    Mirrors,            \* dependsOn(): the value each managed one mirrors, or None
    Tuned,              \* those of Managed whose policy is changed by command
    Data, None,         \* encoded values, and no value
    Faults              \* of "settings" and "sources", the files that are not always
                        \* read and written

ASSUME ManagedAssumption ==
    /\ Managed \cap Remote = {} /\ None \notin Managed \cup Remote /\ Tuned \subseteq Managed
    /\ Mirrors \in [Managed -> Managed \cup Remote \cup {None}]

Periods == {"off", "once", "often"}    \* advertise_ms below, at and above zero

VARIABLES
    net,       \* the device, its files and the broker
    online,    \* whether there is a connection
    refuses    \* whether it refuses publications now and then

New == [value |-> None, avail |-> TRUE, period |-> "often", poll |-> "default",
        pending |-> FALSE, retry |-> FALSE]

NoPolicy == [m \in Tuned |-> None]

Taken == IF ~online THEN {FALSE} ELSE IF refuses THEN BOOLEAN ELSE {TRUE}

Able(file) == IF file \in Faults THEN BOOLEAN ELSE {TRUE}

\* Those of S the network takes, each one asked for on its own.
TakenOf(S) == IF ~online THEN {{}} ELSE IF refuses THEN SUBSET S ELSE {S}

Bound(w, m) == m \in w.bound

Manifest(w) == [m \in w.bound \cap Managed |-> <<w.own[m].period, w.own[m].poll>>]

PublishManifest(w) ==
    {IF ok THEN [w EXCEPT !.dirty = FALSE, !.manifest = Manifest(w)]
           ELSE [w EXCEPT !.dirty = TRUE] : ok \in Taken}

Offered(v) == v.value # None /\ v.avail /\ v.period # "off"

\* The own values of S, made what Op makes of each.
OnOwn(w, S, Op(_)) == [m \in Managed |-> IF m \in S THEN Op(m) ELSE w.own[m]]

PublishStates(w, S) ==
    LET told == {m \in S : Offered(w.own[m])}
    IN  {[w EXCEPT !.retained = [m \in Managed |-> IF m \in ok THEN w.own[m].value ELSE @[m]],
                   !.own = OnOwn(w, told, LAMBDA m : [w.own[m] EXCEPT !.retry = m \notin ok])]
         : ok \in TakenOf(told)}

PublishState(w, m) == PublishStates(w, {m})

\* Mutant: a withdrawal that was refused is not tried again.
FaultyWithdrawStates(w, S) ==
    {[w EXCEPT !.retained = [m \in Managed |-> IF m \in ok THEN None ELSE @[m]],
               !.own = OnOwn(w, S, LAMBDA m : [w.own[m] EXCEPT !.pending = FALSE])]
     : ok \in TakenOf(S)}

WithdrawStates(w, S) ==
    {[w EXCEPT !.retained = [m \in Managed |-> IF m \in ok THEN None ELSE @[m]],
               !.own = OnOwn(w, S, LAMBDA m : [w.own[m] EXCEPT !.pending = m \notin ok,
                                                               !.retry = m \notin ok])]
     : ok \in TakenOf(S)}

WithdrawState(w, m) == WithdrawStates(w, {m})

Dependents(w, x) == {d \in w.bound \cap Managed : Mirrors[d] = x}

Propagate(w, x, v) ==
    LET told(d) == [w.own[d] EXCEPT !.avail = TRUE, !.value = v]
    IN  PublishStates([w EXCEPT !.own = OnOwn(w, Dependents(w, x), told)], Dependents(w, x))

\* Mutant: the mirrors of a source that has lost its value keep it.
FaultyWithdrawFromDependents(w, x) == {w}

WithdrawFromDependents(w, x) ==
    LET lost(d) == [w.own[d] EXCEPT !.avail = FALSE]
    IN  WithdrawStates([w EXCEPT !.own = OnOwn(w, Dependents(w, x), lost)], Dependents(w, x))

\* A new value of a source, told to the broker and to its mirrors.
Tell(w, m) ==
    IF ~w.own[m].avail THEN {w}
    ELSE UNION {Propagate(u, m, u.own[m].value) : u \in PublishState(w, m)}

-------------------------------------------------------------------------------
(* The policies that are stored, the file of which is replaced as a whole.     *)

\* restoreResourceSettings(), and what loadResourceSettings() does: the values of S.
Restored(w, S) ==
    LET period(m) == IF w.policy[m].period = None THEN "often" ELSE w.policy[m].period
        poll(m)   == IF w.policy[m].poll = None THEN w.own[m].poll ELSE w.policy[m].poll
        kept      == {m \in S \cap Tuned : w.policy[m] # None}
    IN  [w EXCEPT !.own = OnOwn(w, kept, LAMBDA m :
            [w.own[m] EXCEPT !.period = period(m), !.poll = poll(m), !.pending = (period(m) = "off")])]

\* A record of a poll override alone is given the period in force.
Corrected(w, S) ==
    [w EXCEPT !.policy = [m \in Tuned |->
        IF m \in S /\ @[m] # None THEN [@[m] EXCEPT !.period = w.own[m].period] ELSE @[m]]]

\* Read, not read though it is there, or read and not written when it had to be corrected.
Restore(w, S) ==
    LET read == Restored(w, S)
    IN  {[Corrected(read, S) EXCEPT !.ok = TRUE]}
        \cup (IF "settings" \notin Faults \/ w.policy = NoPolicy THEN {}
              ELSE {[w EXCEPT !.ok = FALSE]}
                   \cup (IF Corrected(read, S) = read THEN {} ELSE {[read EXCEPT !.ok = FALSE]}))

LoadSettings(w) ==
    {[u EXCEPT !.loaded = u.ok, !.ok = TRUE] : u \in Restore(w, w.bound \cap Managed)}

Recorded(w, m) == IF w.policy[m] = None THEN [period |-> None, poll |-> None] ELSE w.policy[m]

\* Stored first: a policy that is not in the file is not in force.
SetAdvertisementPolicy(w, m, p) ==
    LET stored == [w EXCEPT !.policy[m] = [Recorded(w, m) EXCEPT !.period = p]]
        told(u) == IF p = "off" THEN WithdrawState(u, m)
                   ELSE LET v == [u EXCEPT !.own[m].pending = FALSE]
                        IN  IF w.own[m].period = "off" THEN PublishState(v, m) ELSE {v}
    IN  {w : able \in Able("settings") \ {TRUE}}
        \cup UNION {told(u) : u \in PublishManifest([stored EXCEPT !.own[m].period = p])}

SetPoll(w, m, q) ==
    LET stored == IF q = "default"
                  THEN [w EXCEPT !.policy[m] = IF @ = None THEN @ ELSE [@ EXCEPT !.poll = None]]
                  ELSE [w EXCEPT !.policy[m] = [Recorded(w, m) EXCEPT !.poll = q]]
    IN  {w : able \in Able("settings") \ {TRUE}}
        \cup PublishManifest([stored EXCEPT !.own[m].poll = q])

-------------------------------------------------------------------------------
(* The calls.                                                                  *)

\* A value whose policy cannot be read is not bound, unless there is no storage.
BindManaged(w, m) ==
    LET bind(u) == UNION {PublishState(v, m) : v \in PublishManifest([u EXCEPT !.bound = @ \cup {m}])}
    IN  IF ~w.loaded THEN bind(w)
        ELSE UNION {IF u.ok THEN bind(u) ELSE {[u EXCEPT !.ok = TRUE]} \cup bind([u EXCEPT !.ok = TRUE])
                    : u \in Restore(w, {m})}

\* What is retained is deleted if the network takes it; there is no retry.
UnbindManaged(w, m) ==
    UNION {PublishManifest([v EXCEPT !.bound = @ \ {m}])
           : v \in UNION {IF u.own[m].value = None THEN {u}
                          ELSE {[u EXCEPT !.retained[m] = IF ok THEN None ELSE @] : ok \in Taken}
                          : u \in WithdrawFromDependents(w, m)}}

\* setValue(), and an accepted /set.
SetValue(w, m, v) ==
    LET set == [w EXCEPT !.own[m].value = v]
    IN  IF Bound(w, m) THEN Tell(set, m) ELSE {set}

SetAvailable(w, m, a) ==
    LET set == [w EXCEPT !.own[m].avail = a]
    IN  IF ~Bound(w, m) THEN {[set EXCEPT !.own[m].pending = ~a]}
        ELSE IF w.own[m].avail = a THEN {w}
        ELSE IF ~a THEN UNION {WithdrawFromDependents(u, m) : u \in WithdrawState(set, m)}
        ELSE LET back == [set EXCEPT !.own[m].pending = FALSE]
             IN  IF back.own[m].value = None THEN {back} ELSE Tell(back, m)

\* tick() at one value: a withdrawal before anything else.
Inspect(w, m) ==
    IF w.own[m].pending THEN WithdrawState(w, m)
    ELSE IF Offered(w.own[m]) /\ (w.own[m].retry \/ w.own[m].period = "often")
    THEN PublishState(w, m) ELSE {w}

PublishResourceStates(w) == PublishStates(w, w.bound \cap Managed)
===============================================================================
