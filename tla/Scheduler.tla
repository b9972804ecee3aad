------------------------------- MODULE Scheduler -------------------------------
(* Core/Scheduler: a table of jobs, the file that keeps those of them that a    *)
(* restart survives, and tick(), which lets go of the table's lock while a job  *)
(* runs.  The file is written in place (Storage with atomic = FALSE), so a      *)
(* write that fails, or a power loss that cuts it, can leave it spoilt.         *)
EXTENDS Naturals

CONSTANTS
    Requests,    \* what callers ask for: [scope, label, clock, once, target]
    MaxJobs,     \* Scheduler::MaxJobs
    MaxId,       \* INT32_MAX
    MaxFaults,   \* how many writes may fail
    NoJob,
    Unreadable   \* no file, or one cut off, which load() takes for no jobs alike

Slots == 1 .. MaxJobs
Job == [id : 1 .. MaxId, of : Requests, due : {"unset", "later", "now"}]

ASSUME SchedulerAssumption ==
    /\ Requests \subseteq [scope : {"managed", "user"}, label : STRING, clock : {"wall", "monotonic"},
                           once : BOOLEAN, target : {"command", "callback"}]
    /\ MaxJobs \in Nat \ {0} /\ MaxId \in Nat \ {0} /\ MaxFaults \in Nat
    /\ NoJob \notin Job /\ Unreadable \notin [Slots -> Job \cup {NoJob}]

VARIABLES
    mem,         \* [slots, nextId, ready]: jobs_, nextId_, storageReady_
    file,        \* /jobs.json: the jobs in it, each at the slot it had, or Unreadable
    wall,        \* whether the wall clock is valid
    tick,        \* [phase, slot, last, wall]: where tick() is, and the locals it keeps
    ran,         \* how often each one-shot job was started
    live,        \* accepted requests that were neither removed nor, if one-shot, started
    faults,      \* writes that failed so far
    harmed       \* whether a write that failed or was cut, or a load that missed a
                 \* job, could have lost one

sched == <<mem, file, wall, tick, ran, live, faults, harmed>>

Persists(r) == r.clock = "wall" /\ r.target = "command"
Active(m) == {i \in Slots : m.slots[i] # NoJob}
Idle == [phase |-> "idle", slot |-> 0, last |-> 0, wall |-> FALSE]
Restarted == [slots |-> [i \in Slots |-> NoJob], nextId |-> 1, ready |-> FALSE]

SchedulerInit ==
    /\ mem = Restarted /\ file = Unreadable /\ wall = FALSE /\ tick = Idle
    /\ ran = [r \in Requests |-> 0] /\ live = {} /\ faults = 0 /\ harmed = FALSE

-------------------------------------------------------------------------------

(* The table and its file                                                      *)

Named(m, r) == \E i \in Active(m) : m.slots[i].of.scope = r.scope /\ m.slots[i].of.label = r.label
Free(m) == Slots \ Active(m)
FirstFree(m) == CHOOSE i \in Free(m) : \A j \in Free(m) : i <= j

\* What writeJobs() writes, leaving out one scope when there is one to omit.
Contents(slots, omit) ==
    [i \in Slots |-> IF slots[i] # NoJob /\ Persists(slots[i].of) /\ slots[i].of.scope \notin omit
                     THEN slots[i] ELSE NoJob]

\* The id of a loaded entry, unless a job that was added before has it.
LoadId(m, id) == IF \E i \in Active(m) : m.slots[i].id = id THEN m.nextId ELSE id
LoadJob(m, entry) ==
    LET id == LoadId(m, entry.id)
    IN  IF Named(m, entry.of) \/ id > MaxId \/ Free(m) = {} THEN m
        ELSE [m EXCEPT !.slots[FirstFree(m)] = [entry EXCEPT !.id = id],
                       !.nextId = IF m.nextId <= id THEN id + 1 ELSE @]
\* The table after the first n entries of the file, in the order of their slots.
Ready == [mem EXCEPT !.ready = TRUE]
Loading[n \in 0 .. MaxJobs] ==
    IF n = 0 THEN Ready
    ELSE IF file[n] = NoJob THEN Loading[n - 1] ELSE LoadJob(Loading[n - 1], file[n])
Loaded == IF file = Unreadable THEN Ready ELSE Loading[MaxJobs]

\* ensureInitialized(): storage that was not there is tried again, and a file that
\* cannot be read is taken for one without jobs.
Ensured == IF mem.ready THEN {mem} ELSE {mem, Loaded, Ready}
Of(m, I) == {m.slots[i].of : i \in I}
Stored == IF file = Unreadable THEN {} ELSE {file[i].of : i \in {j \in Slots : file[j] # NoJob}}
\* A stored job that was not loaded, as when another job has its name or its place.
Missed(m) == m.ready /\ ~mem.ready /\ ~(Stored \subseteq Of(m, Active(m)))

\* A clock that a restart does not stop is as one that is set again at once.
Restart == mem' = Restarted /\ tick' = Idle /\ wall' = FALSE
           /\ live' = {r \in live : Persists(r)}

\* The three ways a write of the file ends; the first two let the caller go on.
Saved(m, contents) == file' = contents /\ UNCHANGED faults /\ harmed' = (harmed \/ Missed(m))
NotSaved(contents) ==
    /\ faults < MaxFaults /\ faults' = faults + 1
    /\ file' \in {file, Unreadable, contents} /\ harmed' = TRUE
CutShort(contents) ==
    /\ file' \in {Unreadable, contents} /\ harmed' = TRUE
    /\ Restart /\ UNCHANGED <<ran, faults>>
NoWrite(m) == UNCHANGED <<file, faults>> /\ harmed' = (harmed \/ Missed(m))

-------------------------------------------------------------------------------

(* The calls of other tasks, and of jobs that run                              *)

Unlocked == tick.phase # "scan"

FirstDue(r) == IF r.clock = "wall" /\ ~r.once /\ ~wall THEN "unset" ELSE "later"

\* add(), whichever call asks for it; a request is made until it is accepted.
Wanted(r) == r \notin live /\ ran[r] = 0

Refused(m, r) ==
    \/ Persists(r) /\ ~m.ready
    \/ m.nextId > MaxId \/ Named(m, r) \/ Free(m) = {}
Added(m, r) ==
    [m EXCEPT !.slots[FirstFree(m)] = [id |-> m.nextId, of |-> r, due |-> FirstDue(r)],
              !.nextId = @ + 1]
Add(r) ==
    /\ Unlocked /\ Wanted(r) /\ UNCHANGED <<wall, tick, ran>>
    /\ \E m \in Ensured :
        \/ Refused(m, r) /\ mem' = m /\ NoWrite(m) /\ UNCHANGED live
        \/ /\ ~Refused(m, r) /\ mem' = Added(m, r) /\ live' = live \cup {r}
           /\ IF Persists(r) THEN Saved(m, Contents(mem'.slots, {})) ELSE NoWrite(m)
        \/ /\ ~Refused(m, r) /\ Persists(r) /\ NotSaved(Contents(Added(m, r).slots, {}))
           /\ mem' = m /\ UNCHANGED live
AddCut(r) ==
    /\ Unlocked /\ Wanted(r) /\ Persists(r)
    /\ \E m \in Ensured : ~Refused(m, r) /\ CutShort(Contents(Added(m, r).slots, {}))

Emptied(m, gone) == [m EXCEPT !.slots = [i \in Slots |-> IF i \in gone THEN NoJob ELSE @[i]]]

\* remove(), by id or by label, of a job of the caller's scope.
Remove ==
    /\ Unlocked /\ UNCHANGED <<wall, tick, ran>>
    /\ \E m \in Ensured : \E i \in Active(m) :
        LET r == m.slots[i].of
            contents == Contents(Emptied(m, {i}).slots, {})
        IN  \/ /\ mem' = Emptied(m, {i}) /\ live' = live \ {r}
               /\ IF Persists(r) THEN Saved(m, contents) ELSE NoWrite(m)
            \/ Persists(r) /\ NotSaved(contents) /\ mem' = m /\ UNCHANGED live
RemoveCut ==
    /\ Unlocked
    /\ \E m \in Ensured : \E i \in Active(m) :
        Persists(m.slots[i].of) /\ CutShort(Contents(Emptied(m, {i}).slots, {}))

\* clear(): the file is rewritten first and memory follows if that worked.
Scope(m, scope) == {i \in Active(m) : m.slots[i].of.scope = scope}
Clear(scope) ==
    /\ Unlocked /\ UNCHANGED <<wall, tick, ran>>
    /\ \E m \in Ensured :
        LET gone == Scope(m, scope)
        IN  /\ mem' = Emptied(m, gone) /\ live' = live \ Of(m, gone)
            /\ IF \E r \in Of(m, gone) : Persists(r)
                   THEN Saved(m, Contents(m.slots, {scope})) ELSE NoWrite(m)
ClearFails(scope) ==
    /\ Unlocked /\ UNCHANGED <<wall, tick, ran, live>>
    /\ \E m \in Ensured :
        /\ \E r \in Of(m, Scope(m, scope)) : Persists(r)
        /\ NotSaved(Contents(m.slots, {scope})) /\ mem' = m
ClearCut(scope) ==
    /\ Unlocked
    /\ \E m \in Ensured :
        /\ \E r \in Of(m, Scope(m, scope)) : Persists(r)
        /\ CutShort(Contents(m.slots, {scope}))

-------------------------------------------------------------------------------

(* tick()                                                                      *)

TickStart ==
    /\ tick.phase = "idle"
    /\ \E m \in Ensured :
        /\ mem' = m /\ NoWrite(m)
        /\ tick' = [phase |-> "scan", slot |-> 1, last |-> m.nextId - 1, wall |-> wall]
    /\ UNCHANGED <<wall, ran, live>>

Here == mem.slots[tick.slot]
NextSlot == tick' = IF tick.slot = MaxJobs THEN Idle
                    ELSE [tick EXCEPT !.phase = "scan", !.slot = @ + 1]
\* Faulty: counts the last job that was there among those added since.
NewOrLast == Here.id >= tick.last
New == Here.id > tick.last
Passed ==
    \/ Here = NoJob
    \/ Here # NoJob /\ (New \/ Here.due = "later" \/ (Here.of.clock = "wall" /\ ~tick.wall))
Scanning == tick.phase = "scan" /\ UNCHANGED wall

Skip == Scanning /\ Passed /\ NextSlot /\ UNCHANGED <<mem, file, ran, live, faults, harmed>>
\* A wall interval that was asked for before the clock was valid starts now.
Establish ==
    /\ Scanning /\ ~Passed /\ Here.due = "unset"
    /\ mem' = [mem EXCEPT !.slots[tick.slot].due = "later"]
    /\ NextSlot /\ UNCHANGED <<file, ran, live, faults, harmed>>

Taken == IF Here.of.once THEN Emptied(mem, {tick.slot})
         ELSE [mem EXCEPT !.slots[tick.slot].due = "later"]
Due == Scanning /\ ~Passed /\ Here.due = "now"
\* Faulty: a job that was started stays in the file.
NothingToSave == FALSE
PersistRemoval == Persists(Here.of) /\ Here.of.once
\* The job is called once the lock is released; a restart in between counts as a start.
Start ==
    /\ mem' = Taken /\ tick' = [tick EXCEPT !.phase = "run"]
    /\ IF Here.of.once THEN ran' = [ran EXCEPT ![Here.of] = @ + 1] /\ live' = live \ {Here.of}
                       ELSE UNCHANGED <<ran, live>>
Dispatch ==
    /\ Due /\ Start
    /\ IF PersistRemoval THEN Saved(mem, Contents(mem'.slots, {})) ELSE NoWrite(mem)
\* Faulty: starts the job all the same.
RetryNever == Due /\ PersistRemoval /\ NotSaved(Contents(Taken.slots, {})) /\ Start
Retry ==
    /\ Due /\ PersistRemoval /\ NotSaved(Contents(Taken.slots, {}))
    /\ NextSlot /\ UNCHANGED <<mem, ran, live>>
DispatchCut == tick.phase = "scan" /\ ~Passed /\ Here.due = "now" /\ PersistRemoval
               /\ CutShort(Contents(Taken.slots, {}))

\* The job has run, and the lock is taken again.
Return == tick.phase = "run" /\ NextSlot /\ UNCHANGED <<mem, file, wall, ran, live, faults, harmed>>

-------------------------------------------------------------------------------

\* Deadlines pass; tick() reads the clocks once, when it starts.
Elapse ==
    /\ tick.phase = "idle"
    /\ \E i \in Active(mem) : mem.slots[i].due = "later" /\ mem' = [mem EXCEPT !.slots[i].due = "now"]
    /\ UNCHANGED <<file, wall, tick, ran, live, faults, harmed>>
ClockValid == ~wall /\ wall' = TRUE /\ UNCHANGED <<mem, file, tick, ran, live, faults, harmed>>
\* While tick() scans all that is lost are its locals, as before or after it.
PowerLoss == Unlocked /\ Restart /\ UNCHANGED <<file, ran, faults, harmed>>

Tick == TickStart \/ Skip \/ Establish \/ Dispatch \/ Retry \/ Return
SchedulerNext ==
    \/ \E r \in Requests : Add(r) \/ AddCut(r)
    \/ Remove \/ RemoveCut
    \/ \E scope \in {"managed", "user"} : Clear(scope) \/ ClearFails(scope) \/ ClearCut(scope)
    \/ Tick \/ DispatchCut
    \/ Elapse \/ ClockValid \/ PowerLoss

\* The scheduler's task polls, a job returns, and the clock is set at last.
SchedulerSpec == SchedulerInit /\ [][SchedulerNext]_sched /\ WF_sched(Tick) /\ WF_sched(ClockValid)

-------------------------------------------------------------------------------

SchedulerTypeOK ==
    /\ mem \in [slots : [Slots -> Job \cup {NoJob}], nextId : 1 .. MaxId + 1, ready : BOOLEAN]
    /\ file \in [Slots -> Job \cup {NoJob}] \cup {Unreadable}
    /\ wall \in BOOLEAN
    /\ tick \in [phase : {"idle", "scan", "run"}, slot : 0 .. MaxJobs, last : 0 .. MaxId,
                 wall : BOOLEAN]
    /\ ran \in [Requests -> Nat] /\ live \subseteq Requests
    /\ faults \in 0 .. MaxFaults /\ harmed \in BOOLEAN

\* No two jobs have one id, or one label in one scope, and ids yet to be given are
\* free, though jobs are loaded late, among others added before, and though an add
\* that is not saved takes its id back (add(), load()).
UniqueJobs ==
    \A i, j \in Active(mem) :
        LET a == mem.slots[i]
            b == mem.slots[j]
        IN  /\ a.id < mem.nextId
            /\ i # j => /\ a.id # b.id
                       /\ <<a.of.scope, a.of.label>> # <<b.of.scope, b.of.label>>

\* A one-shot job is started once at the most, wherever the device restarts and
\* whatever happened to its file (tick(), persistRemoval).
AtMostOnce == \A r \in Requests : ran[r] <= 1

\* Until a fault meets the file, it holds the jobs that were accepted and neither
\* removed nor started, and no other, across restarts.
NothingLost == ~harmed => Stored = {r \in live : Persists(r)}

\* The table and the file hold the jobs that were accepted, each of them once.
TableIsSound == SchedulerTypeOK /\ UniqueJobs /\ NothingLost

\* A job in the table that is due is started or removed in the end, also when it
\* must be saved first and that fails for a while.
DueJobsRun ==
    \A i \in Slots :
        LET due == i \in Active(mem) /\ mem.slots[i].due = "now"
        IN  due ~> ~due

\* "a failure leaves both exactly as they were" (clear()).
FailedClearChangesNothing ==
    [][\A scope \in {"managed", "user"} : ClearFails(scope) => UNCHANGED <<mem, file>>]_sched
===============================================================================
