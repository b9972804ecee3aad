---------------------------- MODULE Scheduler_proofs ----------------------------
(* That the table of jobs is sound and that no one-shot job is started twice,   *)
(* for any requests, any size of the table and any number of faults.            *)
EXTENDS Scheduler, WellFoundedInduction, TLAPS

-------------------------------------------------------------------------------
(* The inductive invariant.                                                     *)

Memory == [slots : [Slots -> Job \cup {NoJob}], nextId : 1 .. MaxId + 1, ready : BOOLEAN]
File == [Slots -> Job \cup {NoJob}]

Distinct(m) ==
    \A i, j \in Active(m) :
        /\ m.slots[i].id < m.nextId
        /\ i # j => /\ m.slots[i].id # m.slots[j].id
                    /\ <<m.slots[i].of.scope, m.slots[i].of.label>>
                         # <<m.slots[j].of.scope, m.slots[j].of.label>>
Unstarted(r) == r.once => ran[r] = 0
Startable(m) == \A i \in Active(m) : Unstarted(m.slots[i].of)
Lasting(m) == {r \in Of(m, Active(m)) : Persists(r)}
Survivors == {r \in live : Persists(r)}
FileOK(f) == f # Unreadable => \A i \in Slots :
                f[i] # NoJob => Persists(f[i].of) /\ Unstarted(f[i].of)

StoredIn(f) == IF f = Unreadable THEN {} ELSE {f[i].of : i \in {j \in Slots : f[j] # NoJob}}
MemoryOK(m) == m \in Memory /\ Distinct(m) /\ Startable(m) /\ (~m.ready => Lasting(m) = {})
FileFits(f) == f \in File \cup {Unreadable} /\ FileOK(f)
Ticks == [phase : {"idle", "scan", "run"}, slot : 0 .. MaxJobs, last : 0 .. MaxId, wall : BOOLEAN]
TickOK(t) == t \in Ticks /\ (t.phase # "idle" => t.slot \in Slots)

\* What the table, its file and the requests that were accepted owe each other.
SchedulerInv ==
    /\ MemoryOK(mem) /\ FileFits(file) /\ wall \in BOOLEAN /\ TickOK(tick)
    /\ ran \in [Requests -> Nat] /\ AtMostOnce
    /\ live \subseteq Requests /\ faults \in 0 .. MaxFaults /\ harmed \in BOOLEAN
    /\ ~harmed => Stored = Survivors
    /\ ~harmed /\ mem.ready => Lasting(mem) = Survivors

LEMMA Constants ==
    /\ MaxJobs \in Nat /\ MaxJobs >= 1 /\ MaxId \in Nat /\ MaxId >= 1 /\ MaxFaults \in Nat
    /\ NoJob \notin Job /\ Unreadable \notin File
BY SchedulerAssumption DEF File

-------------------------------------------------------------------------------
(* Induction over the slots, and the recursion that load() is.                  *)

\* A set of numbers that is not empty has a least one.
LEMMA LeastNumber ==
    ASSUME NEW T, T \subseteq Nat, T # {}
    PROVE  \E x \in T : \A y \in T : x <= y
<1>1. IsWellFoundedOn(OpToRel(<, Nat), Nat)
  BY NatLessThanWellFounded
<1>2. PICK x \in T : \A y \in T : ~(<<y, x>> \in OpToRel(<, Nat))
  BY <1>1, WFMin
<1>3. \A y \in T : ~(y < x)
  BY <1>2 DEF OpToRel
<1> QED
  BY <1>3

\* What holds of 0 and, if it holds of k < n, of k + 1, holds of all of 0 .. n.
LEMMA UpTo ==
    ASSUME NEW T, NEW n \in Nat, 0 \in T, \A k \in 0 .. n - 1 : k \in T => k + 1 \in T
    PROVE  0 .. n \subseteq T
<1> DEFINE Out == {k \in 0 .. n : k \notin T}
<1>1. SUFFICES ASSUME Out # {} PROVE FALSE
  OBVIOUS
<1>2. Out \subseteq Nat
  OBVIOUS
<1>3. PICK x \in Out : \A y \in Out : x <= y
  <2> HIDE DEF Out
  <2> QED BY <1>1, <1>2, LeastNumber
<1>4. x # 0 /\ x - 1 \in 0 .. n - 1
  BY <1>3
<1>5. x - 1 \in T
  BY <1>3, <1>4
<1> QED
  BY <1>3, <1>4, <1>5

\* The first n entries of the file, for one n.
Entry(n, previous) == IF file[n] = NoJob THEN previous ELSE LoadJob(previous, file[n])
Prefix(k, L) == L = [n \in 0 .. k |-> IF n = 0 THEN Ready ELSE Entry(n, L[n - 1])]

LEMMA PrefixExists == \E L : Prefix(MaxJobs, L)
<1> DEFINE T == {k \in Nat : \E L : Prefix(k, L)}
<1>1. 0 \in T
  <2> DEFINE L == [n \in 0 .. 0 |-> Ready]
  <2>1. Prefix(0, L)
    BY DEF Prefix
  <2> QED BY <2>1
<1>2. ASSUME NEW k \in 0 .. MaxJobs - 1, k \in T PROVE k + 1 \in T
  <2>1. PICK L : Prefix(k, L)
    BY <1>2
  <2> DEFINE M == [n \in 0 .. k + 1 |-> IF n = k + 1 THEN Entry(k + 1, L[k]) ELSE L[n]]
  <2>2. \A n \in 0 .. k : M[n] = L[n]
    BY Constants
  <2>3. \A n \in 0 .. k : n # 0 => L[n] = Entry(n, L[n - 1])
    BY <2>1 DEF Prefix
  <2>4. L[0] = Ready
    BY <2>1, Constants DEF Prefix
  <2>5. \A n \in 0 .. k + 1 : M[n] = IF n = 0 THEN Ready ELSE Entry(n, M[n - 1])
    BY <2>2, <2>3, <2>4, Constants
  <2>6. Prefix(k + 1, M)
    BY <2>5, Constants DEF Prefix
  <2> QED BY <2>6, Constants
<1>3. 0 .. MaxJobs \subseteq T
  BY <1>1, <1>2, Constants, UpTo
<1> QED
  BY <1>3, Constants

LEMMA LoadingDef ==
    Loading = [n \in 0 .. MaxJobs |-> IF n = 0 THEN Ready ELSE Entry(n, Loading[n - 1])]
BY PrefixExists DEF Loading, Prefix, Entry

\* What every entry leaves true is true of the table once the file is loaded.
LEMMA LoadedKeeps ==
    ASSUME NEW S, Ready \in S,
           \A m \in S, i \in Slots : file # Unreadable /\ file[i] # NoJob => LoadJob(m, file[i]) \in S
    PROVE  Loaded \in S
<1>1. CASE file = Unreadable
  BY <1>1 DEF Loaded
<1>2. CASE file # Unreadable
  <2> DEFINE T == {n \in 0 .. MaxJobs : Loading[n] \in S}
  <2>1. 0 \in T
    BY LoadingDef, Constants
  <2>2. ASSUME NEW k \in 0 .. MaxJobs - 1, k \in T PROVE k + 1 \in T
    <3>1. Loading[k + 1] = Entry(k + 1, Loading[k])
      BY LoadingDef, Constants
    <3>2. k + 1 \in Slots
      BY Constants DEF Slots
    <3> QED BY <1>2, <2>2, <3>1, <3>2, Constants DEF Entry
  <2>3. 0 .. MaxJobs \subseteq T
    <3> HIDE DEF T
    <3> QED BY <2>1, <2>2, Constants, UpTo
  <2> QED BY <1>2, <2>3, Constants DEF Loaded
<1> QED BY <1>1, <1>2

-------------------------------------------------------------------------------
(* What the operators on the table keep.                                        *)

LEMMA FirstFreeIsFree ==
    ASSUME NEW m, Free(m) # {}
    PROVE  FirstFree(m) \in Free(m)
<1>1. Free(m) \subseteq Nat
  BY DEF Free, Slots
<1>2. \E i \in Free(m) : \A j \in Free(m) : i <= j
  BY <1>1, LeastNumber
<1> QED
  BY <1>2 DEF FirstFree

\* A job is put into a free slot under a new id and a new name.
Placed(m, job, next) == [m EXCEPT !.slots[FirstFree(m)] = job, !.nextId = next]
LEMMA PlacedKeeps ==
    ASSUME NEW m \in Memory, Distinct(m), NEW job \in Job, NEW next \in 1 .. MaxId + 1,
           Free(m) # {}, ~Named(m, job.of), \A i \in Active(m) : m.slots[i].id # job.id,
           job.id < next, m.nextId <= next
    PROVE  /\ Placed(m, job, next) \in Memory
           /\ Distinct(Placed(m, job, next))
           /\ Active(Placed(m, job, next)) = Active(m) \cup {FirstFree(m)}
           /\ Of(Placed(m, job, next), Active(Placed(m, job, next)))
                = Of(m, Active(m)) \cup {job.of}
<1> DEFINE p == Placed(m, job, next)
           f == FirstFree(m)
<1>1. f \in Slots /\ m.slots[f] = NoJob
  BY FirstFreeIsFree DEF Free, Active
<1>2. /\ p \in Memory /\ p.slots = [m.slots EXCEPT ![f] = job] /\ p.nextId = next
      /\ p.ready = m.ready
  BY <1>1 DEF Placed, Memory
<1>3. /\ p.slots[f] = job
      /\ \A i \in Slots \ {f} : p.slots[i] = m.slots[i]
  BY <1>1, <1>2 DEF Memory
<1>4. job # NoJob
  BY Constants
<1>5. Active(p) = Active(m) \cup {f}
  BY <1>1, <1>3, <1>4 DEF Active
<1>6. f \notin Active(m)
  BY <1>1 DEF Active
<1>7. \A i \in Active(m) : i \in Slots /\ p.slots[i] = m.slots[i] /\ m.slots[i] \in Job
  BY <1>3, <1>6 DEF Active, Memory
<1>8. \A i \in Active(m) : m.slots[i].id < next
  <2>1. \A i \in Active(m) : m.slots[i].id < m.nextId
    BY DEF Distinct
  <2> QED BY <2>1, <1>7 DEF Memory, Job
<1>9. \A i \in Active(m) : <<m.slots[i].of.scope, m.slots[i].of.label>>
                             # <<job.of.scope, job.of.label>>
  BY DEF Named
<1>10. Distinct(p)
  <2> SUFFICES ASSUME NEW i \in Active(p), NEW j \in Active(p)
               PROVE  /\ p.slots[i].id < p.nextId
                      /\ i # j => /\ p.slots[i].id # p.slots[j].id
                                  /\ <<p.slots[i].of.scope, p.slots[i].of.label>>
                                       # <<p.slots[j].of.scope, p.slots[j].of.label>>
    BY DEF Distinct
  <2>1. CASE i = f /\ j = f
    BY <2>1, <1>2, <1>3
  <2>2. CASE i = f /\ j \in Active(m)
    BY <2>2, <1>2, <1>3, <1>7, <1>9
  <2>3. CASE i \in Active(m) /\ j = f
    BY <2>3, <1>2, <1>3, <1>7, <1>8, <1>9
  <2>4. CASE i \in Active(m) /\ j \in Active(m)
    BY <2>4, <1>2, <1>7, <1>8 DEF Distinct
  <2> QED BY <1>5, <2>1, <2>2, <2>3, <2>4
<1>11. Of(p, Active(p)) = Of(m, Active(m)) \cup {job.of}
  BY <1>3, <1>5, <1>7 DEF Of
<1> QED
  BY <1>2, <1>5, <1>10, <1>11

LEMMA StartableIs ==
    ASSUME NEW m
    PROVE  Startable(m) <=> \A r \in Of(m, Active(m)) : Unstarted(r)
BY DEF Startable, Of

\* Whatever is loaded came from the file.
Loadable(m) == MemoryOK(m) /\ m.ready /\ Lasting(m) \subseteq Stored
LEMMA LoadJobKeeps ==
    ASSUME NEW m, Loadable(m), NEW job \in Job,
           Persists(job.of), Unstarted(job.of), job.of \in Stored
    PROVE  Loadable(LoadJob(m, job))
<1> DEFINE id == LoadId(m, job.id)
           entry == [job EXCEPT !.id = id]
           next == IF m.nextId <= id THEN id + 1 ELSE m.nextId
<1>1. CASE Named(m, job.of) \/ id > MaxId \/ Free(m) = {}
  BY <1>1 DEF LoadJob
<1>2. CASE ~(Named(m, job.of) \/ id > MaxId \/ Free(m) = {})
  <2>1. m \in Memory /\ Distinct(m) /\ Startable(m) /\ m.ready /\ Lasting(m) \subseteq Stored
    BY DEF Loadable, MemoryOK
  <2>2. id \in 1 .. MaxId
    BY <1>2, <2>1, Constants DEF LoadId, Memory, Job
  <2>3. entry \in Job /\ entry.of = job.of /\ entry.id = id
    BY <2>2 DEF Job
  <2>4. next \in 1 .. MaxId + 1 /\ m.nextId <= next /\ id < next
    BY <2>1, <2>2, Constants DEF Memory
  <2>5. \A i \in Active(m) : m.slots[i].id # id
    <3>1. \A i \in Active(m) : m.slots[i].id < m.nextId /\ m.slots[i] \in Job
      BY <2>1 DEF Distinct, Active, Memory
    <3> QED BY <3>1, <2>1 DEF LoadId, Job, Memory
  <2> DEFINE p == Placed(m, entry, next)
  <2>6. LoadJob(m, job) = p
    BY <1>2 DEF LoadJob, Placed
  <2>7. /\ p \in Memory /\ Distinct(p)
        /\ Of(p, Active(p)) = Of(m, Active(m)) \cup {job.of}
    <3> HIDE DEF entry, next, id
    <3> QED BY <1>2, <2>1, <2>3, <2>4, <2>5, PlacedKeeps DEF Named
  <2>8. p.ready = m.ready
    BY <2>1 DEF Placed, Memory
  <2>9. Startable(p)
    <3> HIDE DEF p
    <3> QED BY <2>1, <2>7, StartableIs
  <2>10. Lasting(p) \subseteq Stored
    <3> HIDE DEF p
    <3> QED BY <2>1, <2>7 DEF Lasting
  <2> QED
    <3> HIDE DEF p, entry, next, id
    <3> QED BY <2>1, <2>6, <2>7, <2>8, <2>9, <2>10 DEF Loadable, MemoryOK
<1> QED BY <1>1, <1>2

\* Whatever ensureInitialized() leaves is sound, and the table it loads is the file's.
LEMMA EnsuredKeeps ==
    ASSUME SchedulerInv, NEW m \in Ensured
    PROVE  /\ MemoryOK(m)
           /\ ~m.ready => m = mem
           /\ ~(harmed \/ Missed(m)) /\ m.ready => Lasting(m) = Survivors
<1>0. /\ mem \in Memory /\ Distinct(mem) /\ Startable(mem) /\ FileOK(file)
      /\ file \in File \cup {Unreadable}
      /\ (~mem.ready => Lasting(mem) = {})
      /\ (~harmed => Stored = Survivors)
      /\ (~harmed /\ mem.ready => Lasting(mem) = Survivors)
  BY DEF SchedulerInv, MemoryOK, FileFits
<1>1. CASE mem.ready
  <2>1. m = mem
    BY <1>1 DEF Ensured
  <2> QED BY <1>0, <1>1, <2>1 DEF MemoryOK
<1>2. CASE ~mem.ready
  <2>1. Ready \in Memory /\ Ready.ready /\ Ready.slots = mem.slots /\ Ready.nextId = mem.nextId
    BY <1>0 DEF Ready, Memory
  <2>2. Active(Ready) = Active(mem) /\ Of(Ready, Active(Ready)) = Of(mem, Active(mem))
    BY <2>1 DEF Active, Of
  <2>3. Distinct(Ready) /\ Startable(Ready) /\ Lasting(Ready) = {}
    BY <1>0, <1>2, <2>1, <2>2 DEF Distinct, Startable, Lasting
  <2>4. Loadable(Ready)
    BY <2>1, <2>3 DEF Loadable, MemoryOK
  <2>5. Loadable(Loaded)
    <3> DEFINE T == {n \in Memory : Loadable(n)}
    <3>1. Ready \in T
      BY <2>1, <2>4
    <3>2. ASSUME NEW n \in T, NEW i \in Slots, file # Unreadable, file[i] # NoJob
          PROVE  LoadJob(n, file[i]) \in T
      <4>1. file[i] \in Job /\ Persists(file[i].of) /\ Unstarted(file[i].of)
        BY <1>0, <3>2 DEF File, FileOK
      <4>2. file[i].of \in Stored
        BY <3>2 DEF Stored
      <4>3. Loadable(LoadJob(n, file[i]))
        BY <4>1, <4>2, LoadJobKeeps
      <4> QED BY <4>3 DEF Loadable, MemoryOK
    <3>3. Loaded \in T
      <4> HIDE DEF T
      <4> QED BY <3>1, <3>2, LoadedKeeps
    <3> QED BY <3>3
  <2>6. m = mem \/ Loadable(m)
    BY <1>2, <2>4, <2>5 DEF Ensured
  <2>7. ASSUME Loadable(m), ~(harmed \/ Missed(m)) PROVE Lasting(m) = Survivors
    <3>1. Stored \subseteq Of(m, Active(m)) /\ Lasting(m) \subseteq Stored
      BY <1>2, <2>7 DEF Missed, Loadable
    <3>2. Stored = Survivors
      BY <1>0, <2>7
    <3>3. Stored \subseteq Lasting(m)
      BY <3>1, <3>2 DEF Survivors, Lasting
    <3> QED BY <3>1, <3>2, <3>3
  <2> QED
    BY <1>0, <1>2, <2>6, <2>7 DEF MemoryOK, Loadable
<1> QED BY <1>1, <1>2

\* Jobs are taken out of their slots.
LEMMA EmptiedKeeps ==
    ASSUME NEW m \in Memory, Distinct(m), NEW gone \in SUBSET Active(m)
    PROVE  /\ Emptied(m, gone) \in Memory /\ Distinct(Emptied(m, gone))
           /\ Emptied(m, gone).ready = m.ready
           /\ Of(Emptied(m, gone), Active(Emptied(m, gone)))
                = Of(m, Active(m)) \ Of(m, gone)
<1> DEFINE e == Emptied(m, gone)
<1>1. e \in Memory /\ e.nextId = m.nextId /\ e.ready = m.ready
  BY DEF Emptied, Memory
<1>2. \A i \in Slots : e.slots[i] = IF i \in gone THEN NoJob ELSE m.slots[i]
  BY DEF Emptied, Memory
<1>3. Active(e) = Active(m) \ gone
  BY <1>2 DEF Active
<1>4. \A i \in Active(e) : i \in Active(m) /\ e.slots[i] = m.slots[i]
  BY <1>2, <1>3 DEF Active
<1>5. Distinct(e)
  BY <1>1, <1>4 DEF Distinct
<1>6. ASSUME NEW i \in Active(m) \ gone, NEW j \in gone
      PROVE  m.slots[i].of # m.slots[j].of
  BY <1>6 DEF Distinct
<1>7. Of(e, Active(e)) = Of(m, Active(m)) \ Of(m, gone)
  BY <1>3, <1>4, <1>6 DEF Of
<1> QED
  BY <1>1, <1>5, <1>7

\* Other deadlines, and nothing else.
SameJobs(m, n) ==
    /\ n \in Memory /\ n.nextId = m.nextId /\ n.ready = m.ready /\ Active(n) = Active(m)
    /\ \A i \in Active(m) : n.slots[i].id = m.slots[i].id /\ n.slots[i].of = m.slots[i].of
LEMMA SameJobsKeep ==
    ASSUME NEW m \in Memory, Distinct(m), NEW n, SameJobs(m, n)
    PROVE  /\ Distinct(n) /\ Of(n, Active(n)) = Of(m, Active(m)) /\ Lasting(n) = Lasting(m)
<1>1. Distinct(n)
  BY DEF SameJobs, Distinct
<1>2. Of(n, Active(n)) = Of(m, Active(m))
  BY DEF SameJobs, Of
<1> QED
  BY <1>1, <1>2 DEF Lasting

LEMMA DueKeeps ==
    ASSUME NEW m \in Memory, NEW i \in Active(m), NEW due \in {"unset", "later", "now"}
    PROVE  SameJobs(m, [m EXCEPT !.slots[i].due = due])
<1> DEFINE n == [m EXCEPT !.slots[i].due = due]
<1>1. i \in Slots /\ m.slots[i] \in Job /\ m.slots[i] # NoJob
  BY DEF Active, Memory
<1>2. [m.slots[i] EXCEPT !.due = due] \in Job
  BY <1>1 DEF Job
<1>3. n.slots = [m.slots EXCEPT ![i] = [m.slots[i] EXCEPT !.due = due]]
  BY DEF Memory
<1>4. n \in Memory /\ n.nextId = m.nextId /\ n.ready = m.ready
  BY <1>1, <1>2, <1>3 DEF Memory
<1>5. \A j \in Slots : n.slots[j] = IF j = i THEN [m.slots[i] EXCEPT !.due = due] ELSE m.slots[j]
  BY <1>1, <1>3 DEF Memory
<1>6. [m.slots[i] EXCEPT !.due = due] # NoJob
  BY <1>2, Constants
<1>7. Active(n) = Active(m)
  BY <1>1, <1>5, <1>6 DEF Active
<1>8. \A j \in Active(m) : n.slots[j].id = m.slots[j].id /\ n.slots[j].of = m.slots[j].of
  BY <1>1, <1>5 DEF Active, Job
<1> QED
  BY <1>4, <1>7, <1>8 DEF SameJobs

\* What is written holds the persistent jobs of the table, less a scope that is omitted.
LEMMA ContentsAre ==
    ASSUME NEW m \in Memory, NEW omit
    PROVE  /\ Contents(m.slots, omit) \in File
           /\ \A i \in Slots : Contents(m.slots, omit)[i] # NoJob =>
                 /\ i \in Active(m) /\ Contents(m.slots, omit)[i] = m.slots[i]
                 /\ Persists(m.slots[i].of)
           /\ StoredIn(Contents(m.slots, omit)) = {r \in Lasting(m) : r.scope \notin omit}
<1> DEFINE c == Contents(m.slots, omit)
<1>1. c \in File
  BY DEF Contents, File, Memory
<1>2. \A i \in Slots :
          c[i] = IF m.slots[i] # NoJob /\ Persists(m.slots[i].of) /\ m.slots[i].of.scope \notin omit
                   THEN m.slots[i] ELSE NoJob
  BY DEF Contents
<1>3. c # Unreadable
  BY <1>1, Constants
<1>4. StoredIn(c) = {r \in Lasting(m) : r.scope \notin omit}
  <2> HIDE DEF c
  <2>1. StoredIn(c) = {c[i].of : i \in {j \in Slots : c[j] # NoJob}}
    BY <1>3 DEF StoredIn
  <2>2. \A r : r \in StoredIn(c) <=> \E i \in Active(m) :
            r = m.slots[i].of /\ Persists(r) /\ r.scope \notin omit
    BY <1>2, <2>1 DEF Active
  <2> QED BY <2>2 DEF Lasting, Of
<1>5. \A i \in Slots : c[i] # NoJob => i \in Active(m) /\ c[i] = m.slots[i] /\ Persists(m.slots[i].of)
  BY <1>2 DEF Active
<1> QED
  BY <1>1, <1>4, <1>5

LEMMA ContentsFit ==
    ASSUME NEW m \in Memory, Startable(m), NEW omit
    PROVE  FileFits(Contents(m.slots, omit))
BY ContentsAre DEF FileFits, FileOK, Startable

LEMMA AllContents ==
    ASSUME NEW m \in Memory, Startable(m)
    PROVE  FileFits(Contents(m.slots, {})) /\ StoredIn(Contents(m.slots, {})) = Lasting(m)
<1>1. StoredIn(Contents(m.slots, {})) = {r \in Lasting(m) : r.scope \notin {}}
  BY ContentsAre
<1> QED
  BY <1>1, ContentsFit

-------------------------------------------------------------------------------
(* The calls.                                                                   *)

\* A call that is done, saved if it had to be.
LEMMA AfterCall ==
    ASSUME SchedulerInv, UNCHANGED <<wall, tick, ran>>, NEW m \in Ensured,
           MemoryOK(mem'), mem'.ready = m.ready, live' \subseteq Requests,
           m.ready /\ Lasting(m) = Survivors => Lasting(mem') = {r \in live' : Persists(r)},
           \/ \E c : /\ m.ready /\ Saved(m, c) /\ FileFits(c) /\ StoredIn(c) = Lasting(mem')
           \/ NoWrite(m) /\ {r \in live' : Persists(r)} = Survivors
    PROVE  SchedulerInv'
<1>1. /\ MemoryOK(m) /\ (~m.ready => m = mem)
      /\ (~(harmed \/ Missed(m)) /\ m.ready => Lasting(m) = Survivors)
  BY EnsuredKeeps
<1>2. harmed' = (harmed \/ Missed(m)) /\ UNCHANGED faults
  BY DEF Saved, NoWrite
<1>3. harmed \in BOOLEAN
  BY DEF SchedulerInv
<1>4. FileFits(file')
  BY DEF SchedulerInv, Saved, NoWrite
<1>5. Survivors' = {r \in live' : Persists(r)}
  BY DEF Survivors
<1>6. ~harmed' /\ mem'.ready => Lasting(mem') = Survivors'
  BY <1>1, <1>2, <1>5
<1>7. Stored' = StoredIn(file') /\ Stored = StoredIn(file)
  BY DEF Stored, StoredIn
<1>8. ~harmed' => Stored' = Survivors'
  <2>1. CASE \E c : m.ready /\ Saved(m, c) /\ FileFits(c) /\ StoredIn(c) = Lasting(mem')
    BY <2>1, <1>6, <1>7 DEF Saved
  <2>2. CASE NoWrite(m) /\ {r \in live' : Persists(r)} = Survivors
    <3>1. ~harmed => Stored = Survivors
      BY DEF SchedulerInv
    <3> QED BY <2>2, <3>1, <1>2, <1>5, <1>7 DEF NoWrite
  <2> QED BY <2>1, <2>2
<1>9. MemoryOK(mem)' /\ FileFits(file)'
  BY <1>4 DEF MemoryOK, Startable, Unstarted, FileFits, FileOK, Distinct, Active, Lasting, Of
<1>10. AtMostOnce'
  BY DEF SchedulerInv, AtMostOnce
<1>11. Lasting(mem)' = Lasting(mem')
  BY DEF Lasting, Of, Active
<1>12. harmed' \in BOOLEAN
  BY <1>2, <1>3
<1>13. TickOK(tick)'
  BY DEF SchedulerInv, TickOK
<1> QED
  BY <1>2, <1>6, <1>8, <1>9, <1>10, <1>11, <1>12, <1>13 DEF SchedulerInv

\* A call whose write failed, which leaves the table as it was.
LEMMA AfterFailure ==
    ASSUME SchedulerInv, UNCHANGED <<wall, tick, ran, live>>, NEW m \in Ensured, mem' = m,
           NEW c, NotSaved(c), FileFits(c)
    PROVE  SchedulerInv'
<1>1. MemoryOK(m)
  BY EnsuredKeeps
<1>2. FileFits(file') /\ faults' \in 0 .. MaxFaults /\ harmed' = TRUE
  BY Constants DEF SchedulerInv, NotSaved, FileFits, FileOK
<1>3. MemoryOK(mem)' /\ FileFits(file)'
  BY <1>1, <1>2 DEF MemoryOK, Startable, Unstarted, FileFits, FileOK, Distinct, Active, Lasting, Of
<1>4. AtMostOnce' /\ TickOK(tick)' /\ wall' \in BOOLEAN /\ ran' \in [Requests -> Nat]
      /\ live' \subseteq Requests
  BY DEF SchedulerInv, AtMostOnce, TickOK
<1> QED
  BY <1>2, <1>3, <1>4 DEF SchedulerInv

\* The device restarts: the table is empty, and only what the file can hold is awaited.
LEMMA AfterRestart ==
    ASSUME SchedulerInv, Restart, UNCHANGED <<ran, faults>>, FileFits(file'),
           harmed' \in BOOLEAN, ~harmed' => ~harmed /\ file' = file
    PROVE  SchedulerInv'
<1>1. Restarted \in Memory /\ Active(Restarted) = {}
  BY Constants DEF Restarted, Memory, Active
<1>2. MemoryOK(Restarted)
  BY <1>1 DEF MemoryOK, Distinct, Startable, Lasting, Of
<1>3. MemoryOK(mem)' /\ FileFits(file)'
  BY <1>2 DEF Restart, MemoryOK, Startable, Unstarted, FileFits, FileOK, Distinct, Active,
     Lasting, Of
<1>4. TickOK(tick)'
  BY Constants DEF Restart, TickOK, Ticks, Idle
<1>5. ~mem'.ready
  BY DEF Restart, Restarted
<1>6. Survivors' = Survivors
  BY DEF Restart, Survivors
<1>7. ~harmed' => Stored' = Survivors'
  BY <1>6 DEF SchedulerInv, Stored
<1> QED
  BY <1>3, <1>4, <1>5, <1>7 DEF SchedulerInv, AtMostOnce, Restart

LEMMA AfterCut ==
    ASSUME SchedulerInv, NEW c, CutShort(c), FileFits(c)
    PROVE  SchedulerInv'
<1>1. FileFits(file')
  BY DEF CutShort, FileFits, FileOK
<1> QED
  BY <1>1, AfterRestart DEF CutShort

\* The table with a request added.
LEMMA AddedKeeps ==
    ASSUME SchedulerInv, NEW m \in Ensured, NEW r \in Requests, Wanted(r), ~Refused(m, r)
    PROVE  /\ MemoryOK(Added(m, r)) /\ Added(m, r).ready = m.ready
           /\ Of(Added(m, r), Active(Added(m, r))) = Of(m, Active(m)) \cup {r}
<1> DEFINE job == [id |-> m.nextId, of |-> r, due |-> FirstDue(r)]
           n == Placed(m, job, m.nextId + 1)
<1>1. MemoryOK(m)
  BY EnsuredKeeps
<1>2. m \in Memory /\ Distinct(m) /\ m.nextId \in 1 .. MaxId
  BY <1>1, Constants DEF MemoryOK, Memory, Refused
<1>3. job \in Job /\ job.of = r /\ job.id = m.nextId
  BY <1>2 DEF Job, FirstDue
<1>4. Added(m, r) = n
  BY <1>2 DEF Added, Placed, Memory
<1>5. \A i \in Active(m) : m.slots[i].id # job.id
  BY <1>2, <1>3 DEF Distinct, Active, Memory, Job
<1>6. n \in Memory /\ Distinct(n) /\ Of(n, Active(n)) = Of(m, Active(m)) \cup {r}
  <2> HIDE DEF job
  <2>1. Free(m) # {} /\ ~Named(m, job.of)
    BY <1>3 DEF Refused
  <2>2. m.nextId + 1 \in 1 .. MaxId + 1 /\ job.id < m.nextId + 1 /\ m.nextId <= m.nextId + 1
    BY <1>2, <1>3, Constants
  <2> QED BY <1>2, <1>3, <1>5, <2>1, <2>2, PlacedKeeps
<1>7. n.ready = m.ready
  BY <1>2 DEF Placed, Memory
<1>8. Startable(n)
  <2>1. Unstarted(r)
    BY DEF Wanted, Unstarted
  <2> HIDE DEF n
  <2> QED BY <1>1, <1>6, <2>1, StartableIs DEF MemoryOK
<1>9. ~m.ready => Lasting(n) = {}
  <2> HIDE DEF n
  <2>1. ~m.ready => ~Persists(r) /\ Lasting(m) = {}
    BY <1>1 DEF Refused, MemoryOK
  <2> QED BY <2>1, <1>6 DEF Lasting
<1> QED
  <2> HIDE DEF n
  <2> QED BY <1>4, <1>6, <1>7, <1>8, <1>9 DEF MemoryOK

LEMMA AddKeeps ==
    ASSUME SchedulerInv, NEW r \in Requests, Add(r)
    PROVE  SchedulerInv'
<1>1. UNCHANGED <<wall, tick, ran>> /\ Wanted(r)
  BY DEF Add
<1>2. PICK m \in Ensured :
        \/ Refused(m, r) /\ mem' = m /\ NoWrite(m) /\ UNCHANGED live
        \/ /\ ~Refused(m, r) /\ mem' = Added(m, r) /\ live' = live \cup {r}
           /\ IF Persists(r) THEN Saved(m, Contents(mem'.slots, {})) ELSE NoWrite(m)
        \/ /\ ~Refused(m, r) /\ Persists(r) /\ NotSaved(Contents(Added(m, r).slots, {}))
           /\ mem' = m /\ UNCHANGED live
  BY DEF Add
<1>3. MemoryOK(m) /\ live \subseteq Requests
  BY EnsuredKeeps DEF SchedulerInv
<1>4. CASE Refused(m, r) /\ mem' = m /\ NoWrite(m) /\ UNCHANGED live
  BY <1>1, <1>3, <1>4, AfterCall DEF Survivors
<1>5. CASE /\ ~Refused(m, r) /\ mem' = Added(m, r) /\ live' = live \cup {r}
           /\ IF Persists(r) THEN Saved(m, Contents(mem'.slots, {})) ELSE NoWrite(m)
  <2> DEFINE n == Added(m, r)
  <2>1. MemoryOK(n) /\ n.ready = m.ready /\ Of(n, Active(n)) = Of(m, Active(m)) \cup {r}
    BY <1>1, <1>5, AddedKeeps
  <2>2. Lasting(m) = Survivors => Lasting(n) = {q \in live' : Persists(q)}
    <3> HIDE DEF n
    <3> QED BY <1>5, <2>1 DEF Lasting, Survivors
  <2>3. CASE Persists(r)
    <3>1. FileFits(Contents(n.slots, {})) /\ StoredIn(Contents(n.slots, {})) = Lasting(n)
      BY <2>1, AllContents DEF MemoryOK
    <3>2. m.ready
      BY <1>5, <2>3 DEF Refused
    <3> HIDE DEF n
    <3>3. mem' = n /\ Saved(m, Contents(n.slots, {}))
      BY <1>5, <2>3 DEF n
    <3> QED BY <1>1, <1>3, <1>5, <2>1, <2>2, <3>1, <3>2, <3>3, AfterCall
  <2>4. CASE ~Persists(r)
    <3>1. {q \in live' : Persists(q)} = Survivors
      BY <1>5, <2>4 DEF Survivors
    <3> HIDE DEF n
    <3>2. mem' = n /\ NoWrite(m)
      BY <1>5, <2>4 DEF n
    <3> QED BY <1>1, <1>3, <1>5, <2>1, <2>2, <3>1, <3>2, AfterCall
  <2> QED BY <2>3, <2>4
<1>6. CASE /\ ~Refused(m, r) /\ Persists(r) /\ NotSaved(Contents(Added(m, r).slots, {}))
           /\ mem' = m /\ UNCHANGED live
  <2>1. FileFits(Contents(Added(m, r).slots, {}))
    BY <1>1, <1>6, AddedKeeps, ContentsFit DEF MemoryOK
  <2> QED BY <1>1, <1>6, <2>1, AfterFailure
<1> QED BY <1>2, <1>4, <1>5, <1>6

LEMMA AddCutKeeps ==
    ASSUME SchedulerInv, NEW r \in Requests, AddCut(r)
    PROVE  SchedulerInv'
<1>1. PICK m \in Ensured : ~Refused(m, r) /\ CutShort(Contents(Added(m, r).slots, {}))
  BY DEF AddCut
<1>2. FileFits(Contents(Added(m, r).slots, {}))
  BY <1>1, AddedKeeps, ContentsFit DEF MemoryOK, AddCut
<1> QED
  BY <1>1, <1>2, AfterCut

\* The table with jobs taken out of it.
LEMMA TakenOut ==
    ASSUME NEW m, MemoryOK(m), NEW gone \in SUBSET Active(m)
    PROVE  /\ MemoryOK(Emptied(m, gone)) /\ Emptied(m, gone).ready = m.ready
           /\ Of(Emptied(m, gone), Active(Emptied(m, gone))) = Of(m, Active(m)) \ Of(m, gone)
           /\ Lasting(Emptied(m, gone)) = Lasting(m) \ Of(m, gone)
<1> DEFINE e == Emptied(m, gone)
<1>1. /\ e \in Memory /\ Distinct(e) /\ e.ready = m.ready
      /\ Of(e, Active(e)) = Of(m, Active(m)) \ Of(m, gone)
  BY EmptiedKeeps DEF MemoryOK
<1> HIDE DEF e
<1>2. Startable(e)
  BY <1>1, StartableIs DEF MemoryOK
<1>3. Lasting(e) = Lasting(m) \ Of(m, gone)
  BY <1>1 DEF Lasting
<1> QED
  BY <1>1, <1>2, <1>3 DEF MemoryOK, e

RemovedAt(m, i) ==
    \/ /\ mem' = Emptied(m, {i}) /\ live' = live \ {m.slots[i].of}
       /\ IF Persists(m.slots[i].of) THEN Saved(m, Contents(Emptied(m, {i}).slots, {}))
          ELSE NoWrite(m)
    \/ /\ Persists(m.slots[i].of) /\ NotSaved(Contents(Emptied(m, {i}).slots, {}))
       /\ mem' = m /\ UNCHANGED live
LEMMA RemoveKeeps ==
    ASSUME SchedulerInv, Remove
    PROVE  SchedulerInv'
<1>0. PICK m \in Ensured : \E i \in Active(m) : RemovedAt(m, i)
  BY DEF Remove, RemovedAt
<1>1. PICK i \in Active(m) : RemovedAt(m, i)
  BY <1>0
<1> DEFINE n == Emptied(m, {i})
           r == m.slots[i].of
<1>2. MemoryOK(m) /\ live \subseteq Requests /\ UNCHANGED <<wall, tick, ran>>
  BY EnsuredKeeps DEF SchedulerInv, Remove
<1>3. Of(m, {i}) = {r} /\ r \in Of(m, Active(m))
  BY DEF Of
<1>4. MemoryOK(n) /\ n.ready = m.ready /\ Lasting(n) = Lasting(m) \ {r}
  <2>1. {i} \in SUBSET Active(m)
    OBVIOUS
  <2>2. MemoryOK(n) /\ n.ready = m.ready /\ Lasting(n) = Lasting(m) \ Of(m, {i})
    BY <1>2, <2>1, TakenOut
  <2> QED BY <1>3, <2>2
<1>5. FileFits(Contents(n.slots, {})) /\ StoredIn(Contents(n.slots, {})) = Lasting(n)
  BY <1>4, AllContents DEF MemoryOK
<1>6. Persists(r) => m.ready
  BY <1>2, <1>3 DEF MemoryOK, Lasting
<1>7. CASE /\ mem' = n /\ live' = live \ {r}
           /\ IF Persists(r) THEN Saved(m, Contents(n.slots, {})) ELSE NoWrite(m)
  <2>1. Lasting(m) = Survivors => Lasting(n) = {q \in live' : Persists(q)}
    <3> HIDE DEF n, r
    <3> QED BY <1>4, <1>7 DEF Survivors
  <2>2. ~Persists(r) => {q \in live' : Persists(q)} = Survivors
    BY <1>7 DEF Survivors
  <2>3. live' \subseteq Requests
    BY <1>2, <1>7
  <2> HIDE DEF n, r
  <2> QED BY <1>2, <1>4, <1>5, <1>6, <1>7, <2>1, <2>2, <2>3, AfterCall
<1>8. CASE NotSaved(Contents(n.slots, {})) /\ mem' = m /\ UNCHANGED live
  BY <1>2, <1>5, <1>8, AfterFailure
<1> QED BY <1>1, <1>7, <1>8 DEF RemovedAt

LEMMA RemoveCutKeeps ==
    ASSUME SchedulerInv, RemoveCut
    PROVE  SchedulerInv'
<1>0. PICK m \in Ensured : \E i \in Active(m) : CutShort(Contents(Emptied(m, {i}).slots, {}))
  BY DEF RemoveCut
<1>1. PICK i \in Active(m) : CutShort(Contents(Emptied(m, {i}).slots, {}))
  BY <1>0
<1>2. MemoryOK(Emptied(m, {i}))
  BY EnsuredKeeps, TakenOut
<1> QED
  BY <1>1, <1>2, AllContents, AfterCut DEF MemoryOK

LEMMA ClearKeeps ==
    ASSUME SchedulerInv, NEW scope, Clear(scope)
    PROVE  SchedulerInv'
<1>1. PICK m \in Ensured :
        /\ mem' = Emptied(m, Scope(m, scope)) /\ live' = live \ Of(m, Scope(m, scope))
        /\ IF \E r \in Of(m, Scope(m, scope)) : Persists(r)
             THEN Saved(m, Contents(m.slots, {scope})) ELSE NoWrite(m)
  BY DEF Clear
<1> DEFINE gone == Of(m, Scope(m, scope))
           n == Emptied(m, Scope(m, scope))
           c == Contents(m.slots, {scope})
<1>2. MemoryOK(m) /\ live \subseteq Requests /\ UNCHANGED <<wall, tick, ran>>
  BY EnsuredKeeps DEF SchedulerInv, Clear
<1>3. Scope(m, scope) \in SUBSET Active(m)
  BY DEF Scope
<1>4. MemoryOK(n) /\ n.ready = m.ready /\ Lasting(n) = Lasting(m) \ gone
  BY <1>2, <1>3, TakenOut
<1>5. FileFits(c)
  BY <1>2, ContentsFit DEF MemoryOK
<1>6. gone = {r \in Of(m, Active(m)) : r.scope = scope}
  BY DEF Of, Scope
<1>7. StoredIn(c) = Lasting(n)
  <2>1. StoredIn(c) = {r \in Lasting(m) : r.scope \notin {scope}}
    BY <1>2, ContentsAre DEF MemoryOK
  <2> HIDE DEF c, n, gone
  <2> QED BY <1>4, <1>6, <2>1 DEF Lasting
<1>8. (\E r \in gone : Persists(r)) => m.ready
  <2> HIDE DEF gone
  <2> QED BY <1>2, <1>6 DEF MemoryOK, Lasting
<1>9. /\ Lasting(m) = Survivors => Lasting(n) = {q \in live' : Persists(q)}
      /\ ~(\E r \in gone : Persists(r)) => {q \in live' : Persists(q)} = Survivors
      /\ live' \subseteq Requests
  <2> HIDE DEF n
  <2>1. live' = live \ gone
    BY <1>1
  <2> HIDE DEF gone
  <2> QED BY <1>2, <1>4, <2>1 DEF Survivors
<1>10. mem' = n /\ IF \E r \in gone : Persists(r) THEN Saved(m, c) ELSE NoWrite(m)
  BY <1>1
<1> HIDE DEF n, gone, c
<1> QED
  BY <1>2, <1>4, <1>5, <1>7, <1>8, <1>9, <1>10, AfterCall

LEMMA ClearFailsKeeps ==
    ASSUME SchedulerInv, NEW scope, ClearFails(scope)
    PROVE  SchedulerInv'
<1>1. PICK m \in Ensured : NotSaved(Contents(m.slots, {scope})) /\ mem' = m
  BY DEF ClearFails
<1>2. FileFits(Contents(m.slots, {scope}))
  BY EnsuredKeeps, ContentsFit DEF MemoryOK
<1> QED
  BY <1>1, <1>2, AfterFailure DEF ClearFails

LEMMA ClearCutKeeps ==
    ASSUME SchedulerInv, NEW scope, ClearCut(scope)
    PROVE  SchedulerInv'
<1>1. PICK m \in Ensured : CutShort(Contents(m.slots, {scope}))
  BY DEF ClearCut
<1>2. FileFits(Contents(m.slots, {scope}))
  BY EnsuredKeeps, ContentsFit DEF MemoryOK
<1> QED
  BY <1>1, <1>2, AfterCut

-------------------------------------------------------------------------------
(* tick() and the surroundings.                                                 *)

LEMMA NextSlotOK ==
    ASSUME TickOK(tick), tick.phase # "idle", NextSlot
    PROVE  TickOK(tick')
<1>1. tick \in Ticks /\ tick.slot \in Slots
  BY DEF TickOK
<1>2. CASE tick.slot = MaxJobs
  BY <1>2, Constants DEF NextSlot, TickOK, Ticks, Idle
<1>3. CASE tick.slot # MaxJobs
  <2>1. tick' = [tick EXCEPT !.phase = "scan", !.slot = @ + 1]
    BY <1>3 DEF NextSlot
  <2>2. tick.slot + 1 \in Slots
    BY <1>1, <1>3, Constants DEF Slots
  <2>3. tick.slot + 1 \in 0 .. MaxJobs
    BY <2>2, Constants DEF Slots
  <2>4. tick' = [phase |-> "scan", slot |-> tick.slot + 1, last |-> tick.last, wall |-> tick.wall]
    BY <1>1, <2>1 DEF Ticks
  <2> QED BY <1>1, <2>2, <2>3, <2>4 DEF TickOK, Ticks
<1> QED BY <1>2, <1>3

\* A step that leaves the jobs, their file and the requests alone.
LEMMA AfterStep ==
    ASSUME SchedulerInv, UNCHANGED <<file, ran, live, faults, harmed>>,
           mem' = mem \/ SameJobs(mem, mem'), TickOK(tick'), wall' \in BOOLEAN
    PROVE  SchedulerInv'
<1>1. mem \in Memory /\ Distinct(mem) /\ Startable(mem)
  BY DEF SchedulerInv, MemoryOK
<1>2. /\ mem' \in Memory /\ Distinct(mem') /\ mem'.ready = mem.ready
      /\ Of(mem', Active(mem')) = Of(mem, Active(mem)) /\ Lasting(mem') = Lasting(mem)
  BY <1>1, SameJobsKeep DEF SameJobs
<1>3. Startable(mem')
  BY <1>1, <1>2, StartableIs
<1>4. MemoryOK(mem')
  BY <1>2, <1>3 DEF SchedulerInv, MemoryOK
<1>5. MemoryOK(mem)' /\ FileFits(file)'
  BY <1>4 DEF SchedulerInv, MemoryOK, Startable, Unstarted, FileFits, FileOK, Distinct, Active,
     Lasting, Of
<1>6. Lasting(mem)' = Lasting(mem') /\ Survivors' = Survivors /\ Stored' = Stored
  BY DEF Lasting, Of, Active, Survivors, Stored
<1> QED
  BY <1>2, <1>5, <1>6 DEF SchedulerInv, AtMostOnce, TickOK

LEMMA TickStartKeeps ==
    ASSUME SchedulerInv, TickStart
    PROVE  SchedulerInv'
<1>1. PICK m \in Ensured :
        /\ mem' = m /\ NoWrite(m)
        /\ tick' = [phase |-> "scan", slot |-> 1, last |-> m.nextId - 1, wall |-> wall]
  BY DEF TickStart
<1>2. /\ MemoryOK(m) /\ (~m.ready => m = mem)
      /\ (~(harmed \/ Missed(m)) /\ m.ready => Lasting(m) = Survivors)
  BY EnsuredKeeps
<1>3. TickOK(tick')
  BY <1>1, <1>2, Constants DEF TickOK, Ticks, MemoryOK, Memory, SchedulerInv, Slots
<1>4. MemoryOK(mem)' /\ FileFits(file)'
  BY <1>1, <1>2 DEF TickStart, SchedulerInv, NoWrite, MemoryOK, Startable, Unstarted, FileFits,
     FileOK, Distinct, Active, Lasting, Of
<1>5. Lasting(mem)' = Lasting(m) /\ Survivors' = Survivors /\ Stored' = Stored
  BY <1>1 DEF TickStart, NoWrite, Lasting, Of, Active, Survivors, Stored
<1>6. harmed' = (harmed \/ Missed(m)) /\ harmed' \in BOOLEAN
  BY <1>1 DEF NoWrite, SchedulerInv
<1> QED
  BY <1>1, <1>2, <1>3, <1>4, <1>5, <1>6 DEF SchedulerInv, AtMostOnce, TickStart, NoWrite, TickOK

LEMMA SkipKeeps ==
    ASSUME SchedulerInv, Skip
    PROVE  SchedulerInv'
<1>1. TickOK(tick')
  BY NextSlotOK DEF SchedulerInv, Skip, Scanning
<1> QED
  BY <1>1, AfterStep DEF Skip, Scanning, SchedulerInv

LEMMA ReturnKeeps ==
    ASSUME SchedulerInv, Return
    PROVE  SchedulerInv'
<1>1. TickOK(tick')
  BY NextSlotOK DEF SchedulerInv, Return
<1> QED
  BY <1>1, AfterStep DEF Return, SchedulerInv

\* What tick() finds due is a job of the table.
LEMMA HereIsActive ==
    ASSUME SchedulerInv, tick.phase = "scan", ~Passed
    PROVE  tick.slot \in Active(mem) /\ mem \in Memory
BY DEF SchedulerInv, MemoryOK, TickOK, Passed, Here, Active

LEMMA EstablishKeeps ==
    ASSUME SchedulerInv, Establish
    PROVE  SchedulerInv'
<1>1. TickOK(tick')
  BY NextSlotOK DEF SchedulerInv, Establish, Scanning
<1>2. SameJobs(mem, mem')
  BY HereIsActive, DueKeeps DEF Establish, Scanning
<1> QED
  BY <1>1, <1>2, AfterStep DEF Establish, Scanning, SchedulerInv

LEMMA ElapseKeeps ==
    ASSUME SchedulerInv, Elapse
    PROVE  SchedulerInv'
<1>1. PICK i \in Active(mem) : mem' = [mem EXCEPT !.slots[i].due = "now"]
  BY DEF Elapse
<1>2. SameJobs(mem, mem')
  BY <1>1, DueKeeps DEF SchedulerInv, MemoryOK
<1> QED
  BY <1>2, AfterStep DEF Elapse, SchedulerInv

LEMMA ClockValidKeeps ==
    ASSUME SchedulerInv, ClockValid
    PROVE  SchedulerInv'
BY AfterStep DEF ClockValid, SchedulerInv

LEMMA PowerLossKeeps ==
    ASSUME SchedulerInv, PowerLoss
    PROVE  SchedulerInv'
<1>1. FileFits(file')
  BY DEF PowerLoss, SchedulerInv
<1> QED
  BY <1>1, AfterRestart DEF PowerLoss, SchedulerInv

\* The job that is taken to be started.
LEMMA TakenKeeps ==
    ASSUME SchedulerInv, tick.phase = "scan", ~Passed
    PROVE  /\ MemoryOK(Taken) /\ Taken.ready = mem.ready
           /\ Here.of.once => Lasting(Taken) = Lasting(mem) \ {Here.of}
                              /\ Of(Taken, Active(Taken)) = Of(mem, Active(mem)) \ {Here.of}
           /\ ~Here.of.once => SameJobs(mem, Taken)
           /\ Here.of \in Of(mem, Active(mem)) /\ Here.of \in Requests
<1> DEFINE i == tick.slot
<1>1. i \in Active(mem) /\ MemoryOK(mem) /\ mem \in Memory
  BY HereIsActive DEF SchedulerInv
<1>2. Of(mem, {i}) = {Here.of} /\ Here.of \in Of(mem, Active(mem)) /\ Here.of \in Requests
  BY <1>1 DEF Of, Here, Active, Memory, Job
<1>3. CASE Here.of.once
  <2>1. Taken = Emptied(mem, {i})
    BY <1>3 DEF Taken
  <2>2. {i} \in SUBSET Active(mem)
    BY <1>1
  <2>3. /\ MemoryOK(Emptied(mem, {i})) /\ Emptied(mem, {i}).ready = mem.ready
        /\ Of(Emptied(mem, {i}), Active(Emptied(mem, {i}))) = Of(mem, Active(mem)) \ Of(mem, {i})
        /\ Lasting(Emptied(mem, {i})) = Lasting(mem) \ Of(mem, {i})
    BY <1>1, <2>2, TakenOut
  <2> QED BY <1>2, <1>3, <2>1, <2>3
<1>4. CASE ~Here.of.once
  <2>1. Taken = [mem EXCEPT !.slots[i].due = "later"]
    BY <1>4 DEF Taken
  <2>2. SameJobs(mem, Taken)
    BY <1>1, <2>1, DueKeeps
  <2> HIDE DEF i
  <2>3. /\ Taken \in Memory /\ Distinct(Taken) /\ Taken.ready = mem.ready
        /\ Of(Taken, Active(Taken)) = Of(mem, Active(mem)) /\ Lasting(Taken) = Lasting(mem)
    BY <1>1, <2>2, SameJobsKeep DEF SameJobs, MemoryOK
  <2>4. Startable(Taken)
    BY <1>1, <2>3, StartableIs DEF MemoryOK
  <2> QED BY <1>1, <1>2, <1>4, <2>2, <2>3, <2>4 DEF MemoryOK
<1> QED BY <1>3, <1>4

LEMMA DispatchKeeps ==
    ASSUME SchedulerInv, Dispatch
    PROVE  SchedulerInv'
<1> DEFINE r == Here.of
<1>1. /\ tick.phase = "scan" /\ ~Passed /\ mem' = Taken /\ UNCHANGED wall
      /\ tick' = [tick EXCEPT !.phase = "run"]
  BY DEF Dispatch, Due, Scanning, Start
<1>2. TickOK(tick')
  BY <1>1 DEF SchedulerInv, TickOK, Ticks
<1>3. ~Missed(mem)
  BY DEF Missed
<1>4. CASE ~Here.of.once
  <2>1. SameJobs(mem, mem')
    BY <1>1, <1>4, TakenKeeps
  <2>2. UNCHANGED <<file, ran, live, faults, harmed>>
    BY <1>3, <1>4 DEF Dispatch, Start, PersistRemoval, NoWrite, SchedulerInv
  <2> QED BY <1>1, <1>2, <2>1, <2>2, AfterStep DEF SchedulerInv
<1>5. CASE Here.of.once
  <2>1. /\ ran' = [ran EXCEPT ![r] = @ + 1] /\ live' = live \ {r}
        /\ UNCHANGED faults /\ harmed' = harmed
        /\ IF Persists(r) THEN file' = Contents(Taken.slots, {}) ELSE UNCHANGED file
    BY <1>1, <1>3, <1>5 DEF Dispatch, Start, PersistRemoval, Saved, NoWrite, SchedulerInv
  <2>2. /\ MemoryOK(Taken) /\ Taken.ready = mem.ready /\ Lasting(Taken) = Lasting(mem) \ {r}
        /\ Of(Taken, Active(Taken)) = Of(mem, Active(mem)) \ {r}
        /\ r \in Of(mem, Active(mem)) /\ r \in Requests
    BY <1>1, <1>5, TakenKeeps
  <2>3. Startable(mem) /\ ran[r] = 0
    BY <1>5, <2>2, StartableIs DEF SchedulerInv, MemoryOK, Unstarted
  <2>4. ran' \in [Requests -> Nat] /\ ran'[r] = 1 /\ \A q \in Requests \ {r} : ran'[q] = ran[q]
    BY <2>1, <2>2, <2>3 DEF SchedulerInv
  <2>5. AtMostOnce'
    BY <2>4 DEF SchedulerInv, AtMostOnce
  <2>6. \A q \in Requests \ {r} : Unstarted(q) => Unstarted(q)'
    BY <2>4 DEF Unstarted
  <2>7. Of(Taken, Active(Taken)) \subseteq Requests \ {r}
    BY <2>2 DEF MemoryOK, Memory, Job, Of, Active
  <2>8. Startable(mem)'
    <3>1. \A q \in Of(Taken, Active(Taken)) : Unstarted(q)'
      BY <2>2, <2>6, <2>7, StartableIs DEF MemoryOK
    <3> QED BY <1>1, <3>1 DEF Startable, Of, Active
  <2>9. MemoryOK(mem)'
    BY <1>1, <2>2, <2>8 DEF MemoryOK, Memory, Distinct, Lasting, Of, Active
  <2>10. FileFits(Contents(Taken.slots, {})) /\ StoredIn(Contents(Taken.slots, {})) = Lasting(Taken)
    BY <2>2, AllContents DEF MemoryOK
  <2>11. FileFits(file)'
    <3>1. CASE Persists(r)
      <4> DEFINE c == Contents(Taken.slots, {})
      <4>1. file' = c /\ c \in File
        BY <2>1, <2>2, <3>1, ContentsAre DEF MemoryOK
      <4>2. \A i \in Slots : c[i] # NoJob =>
                i \in Active(Taken) /\ c[i] = Taken.slots[i] /\ Persists(c[i].of)
        <5>1. \A i \in Slots : c[i] # NoJob =>
                /\ i \in Active(Taken) /\ c[i] = Taken.slots[i]
                /\ Persists(Taken.slots[i].of)
          BY <2>2, ContentsAre DEF MemoryOK
        <5> QED BY <5>1
      <4>3. \A i \in Active(Taken) : Taken.slots[i].of.once => ran'[Taken.slots[i].of] = 0
        BY <1>1, <2>8 DEF Startable, Active, Unstarted
      <4>4. \A i \in Slots : c[i] # NoJob =>
                Persists(c[i].of) /\ (c[i].of.once => ran'[c[i].of] = 0)
        <5> HIDE DEF c
        <5> QED BY <4>2, <4>3
      <4>5. \A i \in Slots : file'[i] # NoJob =>
                Persists(file'[i].of) /\ (file'[i].of.once => ran'[file'[i].of] = 0)
        BY <4>1, <4>4
      <4>6. file' \in File
        BY <4>1
      <4> QED BY <4>5, <4>6 DEF FileFits, FileOK, Unstarted
    <3>2. CASE ~Persists(r)
      <4>1. file' = file /\ FileFits(file)
        BY <2>1, <3>2 DEF SchedulerInv
      <4>2. \A i \in Slots : file # Unreadable /\ file[i] # NoJob =>
                file[i].of \in Requests \ {r} /\ Persists(file[i].of) /\ Unstarted(file[i].of)
        BY <3>2, <4>1 DEF FileFits, FileOK, File, Job
      <4> QED BY <2>6, <4>1, <4>2 DEF FileFits, FileOK, Unstarted
    <3> QED BY <3>1, <3>2
  <2>12. Survivors' = Survivors \ {r} /\ Lasting(mem)' = Lasting(mem) \ {r}
    <3>1. Lasting(mem)' = Lasting(Taken)
      BY <1>1 DEF Lasting, Of, Active
    <3> QED BY <2>1, <2>2, <3>1 DEF Survivors
  <2>13. ~harmed' => Stored' = Survivors'
    <3>1. CASE Persists(r)
      <4>1. r \in Lasting(mem)
        BY <2>2, <3>1 DEF Lasting
      <4>2. mem.ready
        BY <4>1 DEF SchedulerInv, MemoryOK
      <4>3. Stored' = StoredIn(file')
        BY DEF Stored, StoredIn
      <4>4. Stored' = Lasting(mem) \ {r}
        BY <2>1, <2>2, <2>10, <3>1, <4>3
      <4> QED BY <2>1, <2>12, <4>2, <4>4 DEF SchedulerInv
    <3>2. CASE ~Persists(r)
      <4>1. Survivors' = Survivors
        BY <2>1, <3>2 DEF Survivors
      <4>2. Stored' = Stored
        BY <2>1, <3>2 DEF Stored
      <4> QED BY <2>1, <4>1, <4>2 DEF SchedulerInv
    <3> QED BY <3>1, <3>2
  <2>14. ~harmed' /\ mem'.ready => Lasting(mem)' = Survivors'
    BY <1>1, <2>1, <2>2, <2>12 DEF SchedulerInv
  <2> QED
    BY <1>1, <1>2, <2>1, <2>4, <2>5, <2>9, <2>11, <2>13, <2>14 DEF SchedulerInv, TickOK
<1> QED BY <1>4, <1>5

LEMMA RetryKeeps ==
    ASSUME SchedulerInv, Retry
    PROVE  SchedulerInv'
<1>1. /\ UNCHANGED <<wall, mem, ran, live>> /\ NextSlot /\ tick.phase = "scan" /\ ~Passed
      /\ NotSaved(Contents(Taken.slots, {}))
  BY DEF Retry, Due, Scanning
<1>2. FileFits(Contents(Taken.slots, {}))
  BY <1>1, TakenKeeps, ContentsFit DEF MemoryOK
<1>3. FileFits(file') /\ faults' \in 0 .. MaxFaults /\ harmed' = TRUE
  BY <1>1, <1>2, Constants DEF SchedulerInv, NotSaved, FileFits, FileOK
<1>4. TickOK(tick')
  BY <1>1, NextSlotOK DEF SchedulerInv
<1>5. MemoryOK(mem)' /\ FileFits(file)'
  BY <1>1, <1>3 DEF SchedulerInv, MemoryOK, Startable, Unstarted, FileFits, FileOK, Distinct,
     Active, Lasting, Of
<1> QED
  BY <1>1, <1>3, <1>4, <1>5 DEF SchedulerInv, AtMostOnce, TickOK

LEMMA DispatchCutKeeps ==
    ASSUME SchedulerInv, DispatchCut
    PROVE  SchedulerInv'
<1>1. FileFits(Contents(Taken.slots, {}))
  BY TakenKeeps, ContentsFit DEF MemoryOK, DispatchCut
<1> QED
  BY <1>1, AfterCut DEF DispatchCut

-------------------------------------------------------------------------------
(* The theorems.                                                                *)

LEMMA InitInv == SchedulerInit => SchedulerInv
<1> SUFFICES ASSUME SchedulerInit PROVE SchedulerInv
  OBVIOUS
<1>1. mem \in Memory /\ Active(mem) = {}
  BY Constants DEF SchedulerInit, Restarted, Memory, Active
<1>2. MemoryOK(mem) /\ FileFits(file)
  BY <1>1 DEF SchedulerInit, MemoryOK, Distinct, Startable, Lasting, Of, FileFits, FileOK
<1>3. TickOK(tick)
  BY Constants DEF SchedulerInit, TickOK, Ticks, Idle
<1>4. ran \in [Requests -> Nat] /\ AtMostOnce
  BY DEF SchedulerInit, AtMostOnce
<1>5. Stored = {} /\ Survivors = {} /\ ~mem.ready
  BY DEF SchedulerInit, Stored, Survivors, Restarted
<1>6. wall \in BOOLEAN /\ harmed \in BOOLEAN
  BY DEF SchedulerInit
<1>7. live \subseteq Requests /\ faults \in 0 .. MaxFaults
  BY Constants DEF SchedulerInit
<1> QED
  BY <1>2, <1>3, <1>4, <1>5, <1>6, <1>7 DEF SchedulerInv

LEMMA NextInv == SchedulerInv /\ [SchedulerNext]_sched => SchedulerInv'
<1> SUFFICES ASSUME SchedulerInv, [SchedulerNext]_sched PROVE SchedulerInv'
  OBVIOUS
<1>1. ASSUME NEW r \in Requests, Add(r) \/ AddCut(r) PROVE SchedulerInv'
  BY <1>1, AddKeeps, AddCutKeeps
<1>2. ASSUME Remove \/ RemoveCut PROVE SchedulerInv'
  BY <1>2, RemoveKeeps, RemoveCutKeeps
<1>3. ASSUME NEW scope \in {"managed", "user"}, Clear(scope) \/ ClearFails(scope) \/ ClearCut(scope)
      PROVE  SchedulerInv'
  BY <1>3, ClearKeeps, ClearFailsKeeps, ClearCutKeeps
<1>4. ASSUME Tick \/ DispatchCut PROVE SchedulerInv'
  BY <1>4, TickStartKeeps, SkipKeeps, EstablishKeeps, DispatchKeeps, RetryKeeps, ReturnKeeps,
     DispatchCutKeeps DEF Tick
<1>5. ASSUME Elapse \/ ClockValid \/ PowerLoss PROVE SchedulerInv'
  BY <1>5, ElapseKeeps, ClockValidKeeps, PowerLossKeeps
<1>6. CASE UNCHANGED sched
  BY <1>6, AfterStep DEF sched, SchedulerInv
<1> QED
  BY <1>1, <1>2, <1>3, <1>4, <1>5, <1>6 DEF SchedulerNext

THEOREM SchedulerInvariant == SchedulerSpec => []SchedulerInv
BY InitInv, NextInv, PTL DEF SchedulerSpec

\* The table, the file and the requests that were accepted agree: ids and names are not
\* given twice, and until a fault meets the file it holds what a restart must bring back
\* (add(), load(), removeJob(), clear(), tick()).
THEOREM TableSound == SchedulerSpec => []TableIsSound
<1>1. SchedulerInv => TableIsSound
  BY DEF SchedulerInv, MemoryOK, Memory, FileFits, File, TickOK, Ticks, TableIsSound,
     SchedulerTypeOK, Distinct, UniqueJobs, NothingLost, Survivors
<1> QED
  BY <1>1, SchedulerInvariant, PTL

\* A one-shot job is started once at the most, though its removal is saved before it is
\* started, that may fail or be cut short, and it is loaded again after a restart (tick()).
THEOREM StartedOnce == SchedulerSpec => []AtMostOnce
<1>1. SchedulerInv => AtMostOnce
  BY DEF SchedulerInv
<1> QED
  BY <1>1, SchedulerInvariant, PTL
===============================================================================
