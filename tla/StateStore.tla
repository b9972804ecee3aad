------------------------------ MODULE StateStore ------------------------------
(* Core/StateStore over Core/RuntimeState: the persistent settings.  The values *)
(* are kept in memory and the whole of them is written to one file after each  *)
(* change.  The file is the one Core/Storage promises (StableFile): a write     *)
(* that answers false has changed nothing, one that a power loss cuts short    *)
(* has taken effect or has not.                                                *)
(*                                                                             *)
(* An operation takes the store as it is and yields the set of the stores it   *)
(* may leave: with the answer in ok, and with dead when power is lost in it.   *)
EXTENDS Naturals, FiniteSets, Sequences

CONSTANTS
    Keys,         \* of the settings
    None,         \* no value, no file
    MaxEntries,   \* entries that memory has room for
    Faults        \* those that happen, of "write" and "remove": a value that is set,
                  \* or one that is removed, is not written; "power": it is lost at
                  \* any moment; "mount", "read": the file is not found, not read

ASSUME StateStoreAssumption == MaxEntries \in Nat

VARIABLE store    \* values in memory and in the file, opened and the last answer

Empty == [k \in Keys |-> None]

\* Without power, and with the memory that the next start finds.
Off(file) == [mem |-> Empty, file |-> file, opened |-> FALSE, ok |-> TRUE, dead |-> TRUE]

Settled(s) == IF s.dead THEN Off(s.file) ELSE [s EXCEPT !.ok = TRUE]

Saving(s, able) == IF able THEN [s EXCEPT !.file = s.mem, !.ok = TRUE]
                           ELSE [s EXCEPT !.ok = FALSE]

\* save() of what was set, or of what was removed, as cause says.
SaveOf(s, cause) ==
    IF s.dead THEN {s}
    ELSE {Saving(s, TRUE)}
         \cup (IF cause \in Faults THEN {Saving(s, FALSE)} ELSE {})
         \cup (IF "power" \in Faults
               THEN {[Saving(s, took) EXCEPT !.dead = TRUE] : took \in BOOLEAN}
               ELSE {})

Save(s) == SaveOf(s, "write")

\* What load() puts in memory, a file that is not there being written first.
Load(s) ==
    IF s.file = None
    THEN {[t EXCEPT !.ok = TRUE] : t \in Save([s EXCEPT !.mem = Empty])}
    ELSE {[s EXCEPT !.mem = s.file, !.ok = TRUE]}
         \cup (IF "read" \in Faults THEN {[s EXCEPT !.mem = Empty, !.ok = TRUE]} ELSE {})

Begin(s) ==
    IF s.opened \/ s.dead
    THEN {[s EXCEPT !.ok = s.opened]}
    ELSE {[t EXCEPT !.opened = ~t.dead] : t \in Load(s)}
         \cup (IF "mount" \in Faults THEN {[s EXCEPT !.ok = FALSE]} ELSE {})

Has(s, k) == s.mem[k] # None

Room(s, k) == Has(s, k) \/ Cardinality({i \in Keys : Has(s, i)}) < MaxEntries

Hold(s, k, v) == IF Room(s, k) THEN [s EXCEPT !.mem[k] = v, !.ok = TRUE]
                               ELSE [s EXCEPT !.ok = FALSE]

TakeBack(s, k, v) == IF s.ok \/ s.dead THEN s ELSE [s EXCEPT !.mem[k] = v]

Set(s, k, v) ==
    UNION {IF t.dead \/ ~t.ok \/ ~Hold(t, k, v).ok THEN {[t EXCEPT !.ok = FALSE]}
           ELSE {TakeBack(u, k, t.mem[k]) : u \in Save(Hold(t, k, v))} : t \in Begin(s)}

\* The keys in their order, none of them taken back when one has no room or the
\* file is not written.
SetMany(s, ks, v) ==
    LET held[i \in 0..Len(ks)] ==
            IF i = 0 THEN s
            ELSE IF held[i - 1].ok THEN Hold(held[i - 1], ks[i], v) ELSE held[i - 1]
    IN  IF held[Len(ks)].ok THEN Save(held[Len(ks)]) ELSE {held[Len(ks)]}

RemoveKey(s, k) ==
    UNION {IF t.dead \/ ~t.ok \/ ~Has(t, k) THEN {[t EXCEPT !.ok = FALSE]}
           ELSE SaveOf([t EXCEPT !.mem[k] = None], "remove") : t \in Begin(s)}

GetOrSave(s, k, v) ==
    UNION {IF t.dead \/ ~t.ok \/ Has(t, k) THEN {t} ELSE Set(t, k, v) : t \in Begin(s)}
===============================================================================
