-------------------------------- MODULE Storage --------------------------------
(* One file of Core/Storage: the three names it has on the file system, and     *)
(* write() and remove(), one action per call to the file system, so that the    *)
(* device may crash between any two.  A call fails as it likes when Failing is  *)
(* set; each is atomic, but for the writing of data, which a crash tears.       *)
CONSTANTS
    Data, Absent,
    Torn,        \* the start of some data, or nothing at all
    Modes,       \* the values of write()'s third argument, atomic
    Removing,    \* whether the file is ever removed
    Failing      \* whether calls to the file system may fail

ASSUME StorageAssumption ==
    /\ Absent \notin Data /\ Torn \notin Data /\ Absent # Torn
    /\ Modes \subseteq BOOLEAN /\ Removing \in BOOLEAN /\ Failing \in BOOLEAN

VARIABLES
    files,       \* what each of the names holds: name, .tmp and .bak
    op,          \* the call in progress: its next step, what it puts there,
                 \* its third argument and hadPrevious
    answer       \* what the last call returned, "none" if it has not

storage == <<files, op, answer>>

NoRequest == [at |-> "idle", data |-> Absent, atomic |-> TRUE, had |-> FALSE]

StorageInit ==
    /\ files \in [name : Data \cup {Absent}, tmp : {Absent}, bak : {Absent}]
    /\ op = NoRequest /\ answer = "none"

-------------------------------------------------------------------------------

\* Faulty: prefers what is left of the file before.
KeepBackup(f) == IF f.bak # Absent THEN [f EXCEPT !.name = f.bak, !.bak = Absent] ELSE f
\* recoverPrevious(), which every access runs first and whose failure is ignored.
RecoverPrevious(f) ==
    IF f.name = Absent /\ f.bak # Absent THEN [f EXCEPT !.name = f.bak, !.bak = Absent] ELSE f
Recovered(f) == {RecoverPrevious(f)} \cup (IF Failing THEN {f} ELSE {})

\* A reader's view: what read() returns when nothing fails.
Content(f) == RecoverPrevious(f).name

Return(ok) == op' = NoRequest /\ answer' = (IF ok THEN "true" ELSE "false")
Continue(at) == op' = [op EXCEPT !.at = at] /\ UNCHANGED answer
Call(at, data, atomic) ==
    /\ op = NoRequest /\ answer' = "none"
    /\ op' = [at |-> at, data |-> data, atomic |-> atomic, had |-> FALSE]
\* A call to the file system that fails, and where write() goes then.
Fail(at) == Failing /\ UNCHANGED files /\ Continue(at)

Write(data, atomic) == Call("open", data, atomic) /\ files' \in Recovered(files)

\* What the target holds; fopen(target, "wb") empties it, and it is torn until fclose().
Target(value) == files' = IF op.atomic THEN [files EXCEPT !.tmp = value]
                                       ELSE [files EXCEPT !.name = value]
Open ==
    /\ op.at = "open"
    /\ \/ Target(Torn) /\ Continue("fill")
       \/ Failing /\ UNCHANGED files /\ Return(FALSE)

Fill ==
    /\ op.at = "fill"
    /\ \/ /\ op.atomic /\ Target(op.data)
          /\ op' = [op EXCEPT !.at = IF files.name = Absent THEN "place"
                                      ELSE IF files.bak = Absent THEN "aside" ELSE "clear",
                              !.had = files.name # Absent]
          /\ UNCHANGED answer
       \/ ~op.atomic /\ Target(op.data) /\ Continue("drop")
       \/ Failing /\ (UNCHANGED files \/ Target(op.data)) /\ Continue("discard")

Clear ==
    /\ op.at = "clear"
    /\ \/ files' = [files EXCEPT !.bak = Absent] /\ Continue("aside")
       \/ Fail("discard")

MovedAside(f) == [f EXCEPT !.name = Absent, !.bak = f.name]
Aside ==
    /\ op.at = "aside"
    /\ \/ files' = MovedAside(files) /\ Continue("place")
       \/ Fail("discard")

Place ==
    /\ op.at = "place"
    /\ \/ files' = [files EXCEPT !.name = files.tmp, !.tmp = Absent] /\ Continue("drop")
       \/ Fail(IF op.had THEN "restore" ELSE "discard")

\* The calls that end a write are not checked.
PutBack ==
    /\ op.at = "restore" /\ Continue("discard")
    /\ \/ files' = [files EXCEPT !.name = files.bak, !.bak = Absent]
       \/ Failing /\ UNCHANGED files
Discard ==
    /\ op.at = "discard" /\ Return(FALSE)
    /\ \/ Target(Absent)
       \/ Failing /\ UNCHANGED files
Drop ==
    /\ op.at = "drop" /\ Return(TRUE)
    /\ \/ files' = IF op.had THEN [files EXCEPT !.bak = Absent] ELSE files
       \/ Failing /\ UNCHANGED files

\* remove(), which does not look for a backup to move back first.
RemoveFile == Removing /\ Call("unname", Absent, FALSE) /\ UNCHANGED files
Unname ==
    /\ op.at = "unname"
    /\ \/ /\ files.name # Absent /\ files' = [files EXCEPT !.name = Absent]
          /\ Continue(IF files.bak = Absent THEN "drop" ELSE "unback")
       \/ (Failing \/ files.name = Absent) /\ UNCHANGED files /\ Return(FALSE)
Unback ==
    /\ op.at = "unback"
    /\ \/ files' = [files EXCEPT !.bak = Absent] /\ Continue("drop")
       \/ Failing /\ UNCHANGED files /\ Return(FALSE)

\* exists() and read(), which may move a file as well.
Access == op = NoRequest /\ files' \in Recovered(files) /\ UNCHANGED <<op, answer>>

CallCut == op' = NoRequest /\ answer' = "none" /\ UNCHANGED files

StorageNext ==
    \/ \E data \in Data, atomic \in Modes : Write(data, atomic)
    \/ Open \/ Fill \/ Clear \/ Aside \/ Place \/ PutBack \/ Discard \/ Drop
    \/ RemoveFile \/ Unname \/ Unback
    \/ Access \/ CallCut

StorageSpec == StorageInit /\ [][StorageNext]_storage

-------------------------------------------------------------------------------

Held == Data \cup {Absent, Torn}
Steps == {"idle", "open", "fill", "clear", "aside", "place", "restore", "discard", "drop",
          "unname", "unback"}
StorageTypeOK ==
    /\ files \in [name : Held, tmp : Held, bak : Held]
    /\ op \in [at : Steps, data : Data \cup {Absent}, atomic : BOOLEAN, had : BOOLEAN]
    /\ answer \in {"none", "true", "false"}

\* Between the two renames of an atomic write the file is never without a name: the
\* backup holds it until the new data have taken its place (write(), remove()).
InStep ==
    /\ op.at \in {"open", "fill", "clear", "aside", "place", "restore", "discard"} => op.data \in Data
    /\ op.at \in {"clear", "aside", "place"} => op.atomic /\ files.tmp = op.data
    /\ op.at \in {"clear", "aside"} => files.name # Absent
    /\ op.at = "place" => files.name = Absent
    /\ op.at = "place" /\ op.had => files.bak # Absent
    /\ op.at = "restore" => op.atomic /\ files.name = Absent /\ files.bak # Absent
    /\ op.at = "drop" /\ op.had => files.name # Absent
    /\ op.at \in {"unname", "unback"} => ~op.atomic /\ ~op.had /\ op.data = Absent
    /\ op.at = "unback" => files.name = Absent

Phase == IF op.at = "idle" THEN "idle" ELSE IF op.at = "drop" THEN "taken" ELSE "asked"
Stable == INSTANCE StableFile WITH
    content <- Content(files), phase <- Phase, request <- op.data, rough <- ~op.atomic
\* Whatever fails and wherever the device crashes, a file that is written with
\* atomic set holds the value before or the value written, and the latter exactly
\* if write() returned true; writes in place and removals in between, which may
\* spoil the file until they return, change nothing of that (Storage::write()).
WritesAreStable == Stable!Spec
===============================================================================
