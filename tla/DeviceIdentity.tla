---------------------------- MODULE DeviceIdentity ----------------------------
(* Core/DeviceIdentity and Network/IdentityCleanup over the settings: the name  *)
(* of the device, its adoption of another one, and the removal of what the     *)
(* former name left retained at the broker.  The file and the broker outlive a *)
(* power loss, which may come inside any of these calls.                       *)
EXTENDS StateStore

CONSTANTS
    Names,        \* device names, DefaultName the one made from the hardware
    DefaultName,
    Zones,        \* timezones, DefaultZone the one of the build
    DefaultZone,
    Bad           \* a stored value that is not accepted

ASSUME IdentityAssumption ==
    {"name", "zone", "record"} \subseteq Keys /\ DefaultName \in Names /\ DefaultZone \in Zones

Parts == {"resources", "status"}        \* CLEANUP_RESOURCES, CLEANUP_STATUS

Records == [old : Names, parts : (SUBSET Parts) \ {{}}]

VARIABLES
    identity,     \* what DeviceIdentity has in memory, and whether the job waits
    retained      \* <<name, part>> that the broker retains of this device

Unborn == [begun |-> FALSE, name |-> DefaultName, zone |-> DefaultZone, old |-> None,
           parts |-> {}, locked |-> FALSE, job |-> FALSE]

\* The effect of a call: the settings, the identity, the broker and the answer.
Effect(s, id, ret, ans) == [s |-> s, id |-> id, ret |-> ret, ans |-> ans]

\* Power lost in a call leaves the file and the broker.
Done(e) ==
    /\ store' = Settled(e.s)
    /\ identity' = IF e.s.dead THEN Unborn ELSE e.id
    /\ retained' = e.ret

Or(v, valid, default) == IF v \in valid THEN v ELSE default

Corrected(s, k, v) == IF s.dead \/ s.mem[k] = v THEN {s} ELSE Set(s, k, v)

\* A record is for the former name only if it is not the name of this boot.
Actionable(rec, name) == rec \in Records /\ rec.old # name

LoadPending(s, id) ==
    IF s.dead \/ ~Has(s, "record") THEN {Effect(s, id, retained, TRUE)}
    ELSE IF Actionable(s.mem["record"], id.name)
    THEN {Effect(s, [id EXCEPT !.old = s.mem["record"].old,
                               !.parts = s.mem["record"].parts], retained, TRUE)}
    ELSE {Effect(t, id, retained, TRUE) : t \in RemoveKey(s, "record")}

\* begin(): what is stored if it is acceptable, and the correction of what is not.
IdentityBegin(s) ==
    UNION {LET named == [Unborn EXCEPT !.begun = TRUE,
                             !.name = Or(t.mem["name"], Names, DefaultName),
                             !.zone = Or(t.mem["zone"], Zones, DefaultZone)]
           IN  IF t.dead \/ ~t.ok THEN {Effect(t, named, retained, TRUE)}
               ELSE UNION {UNION {LoadPending(v, named)
                                  : v \in Corrected(u, "zone", named.zone)}
                           : u \in Corrected(t, "name", named.name)} : t \in Begin(s)}

PersistPending(s, id) ==
    IF id.parts # {} THEN Set(s, "record", [old |-> id.old, parts |-> id.parts])
    ELSE IF Has(s, "record") THEN RemoveKey(s, "record")
    ELSE {[s EXCEPT !.ok = TRUE]}

NoPending(id) == [id EXCEPT !.old = None, !.parts = {}]

\* The second write of an adoption.
Rename(t, id, n) ==
    UNION {IF u.ok THEN {Effect(u, IF id.locked THEN id ELSE [id EXCEPT !.name = n],
                                retained, TRUE)}
           ELSE {Effect(v, NoPending(id), retained, FALSE)
                 : v \in IF u.dead THEN {u} ELSE PersistPending(u, NoPending(id))}
           : u \in Set(t, "name", n)}

\* beginAdoption(): the record of the former name first, then the new name.
BeginAdoption(n) ==
    LET id == [identity EXCEPT !.old = identity.name, !.parts = Parts]
    IN  IF identity.parts # {} \/ n = identity.name
        THEN {Effect(store, identity, retained, identity.parts = {})}
        ELSE UNION {IF t.ok /\ ~t.dead THEN Rename(t, id, n)
                    ELSE {Effect(t, identity, retained, FALSE)}
                    : t \in PersistPending(store, id)}

\* markIdentityCleanupComplete() of one part, undone if it is not recorded.
MarkComplete(e, part) ==
    LET left == [e.id EXCEPT !.parts = @ \ {part},
                             !.old = IF e.id.parts \ {part} = {} THEN None ELSE @]
    IN  IF e.s.dead \/ part \notin e.id.parts THEN {e}
        ELSE {Effect(s, IF s.ok THEN left ELSE e.id, e.ret, e.ans)
              : s \in PersistPending(e.s, left)}

\* A part is withdrawn from the broker or, refused, still there; a status that is
\* not deleted may have been published again.
Withdrawn(e, old, part) ==
    {[e EXCEPT !.ret = @ \ {<<old, part>>}, !.ans = TRUE], [e EXCEPT !.ans = FALSE]}
    \cup (IF part = "status" THEN {[e EXCEPT !.ret = @ \cup {<<old, part>>}, !.ans = FALSE]}
                             ELSE {})

\* Mutant: a part is done once it was tried.
FaultyCleanPart(e, due, old, part) ==
    IF e.s.dead \/ part \notin due THEN {e}
    ELSE UNION {MarkComplete(f, part) : f \in Withdrawn(e, old, part)}

CleanPart(e, due, old, part) ==
    IF e.s.dead \/ part \notin due THEN {e}
    ELSE UNION {IF f.ans THEN MarkComplete(f, part) ELSE {f} : f \in Withdrawn(e, old, part)}

\* Mutants: the name of this boot is cleaned as well; the status never is.
LiveCleanupDue(id) == id.parts

ResourcesDue(id) == IF id.old = id.name THEN {} ELSE id.parts \ {"status"}

\* getPendingIdentityCleanup(): not while this boot still has the former name.
CleanupDue(id) == IF id.old = id.name THEN {} ELSE id.parts

\* processPendingIdentityCleanup(), the parts and the name as they were asked for.
ProcessCleanup ==
    UNION {CleanPart(e, CleanupDue(identity), identity.old, "status")
           : e \in CleanPart(Effect(store, identity, retained, TRUE),
                             CleanupDue(identity), identity.old, "resources")}

\* setTimezone(), which sets the former one again when it could not be stored.
SetZone(z) ==
    UNION {IF s.ok \/ s.dead THEN {Effect(s, [identity EXCEPT !.zone = z], retained, TRUE)}
           ELSE {Effect(t, identity, retained, FALSE) : t \in Set(s, "zone", identity.zone)}
           : s \in Set(store, "zone", z)}
-------------------------------------------------------------------------------
IdentityInit == identity = Unborn /\ retained = {}

IdentityStart ==
    /\ ~identity.begun /\ ~store.dead
    /\ \E e \in IdentityBegin(store) : Done(e)

\* A service or an owned resource uses the name; the cleanup gets its job.
LockAddress ==
    /\ identity.begun /\ ~identity.locked
    /\ identity' = [identity EXCEPT !.locked = TRUE, !.job = identity.parts # {}]
    /\ UNCHANGED <<store, retained>>

Adopt(n) ==
    /\ identity.begun
    /\ \E e \in BeginAdoption(n) : Done(e)

\* The job, gone once nothing is pending, or a call by hand.
Cleanup ==
    /\ identity.locked
    /\ \E e \in ProcessCleanup : Done([e EXCEPT !.id.job = @ /\ e.id.parts # {}])

Publish(part) ==
    /\ identity.locked
    /\ retained' = retained \cup {<<identity.name, part>>}
    /\ UNCHANGED <<store, identity>>

SetTimezone(z) ==
    /\ identity.begun /\ z # identity.zone
    /\ \E e \in SetZone(z) : Done(e)

PowerLoss ==
    /\ "power" \in Faults /\ ~store.dead
    /\ store' = Off(store.file) /\ identity' = Unborn
    /\ UNCHANGED retained
===============================================================================
