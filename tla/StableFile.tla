------------------------------ MODULE StableFile ------------------------------
(* What the users of Core/Storage rely on: a file is one value, and a request   *)
(* to change it takes effect at one instant.  A request answered true has       *)
(* taken effect and one answered false or cut short by a crash has not, or, if  *)
(* cut short, may have.  Only a rough request, while it has not been answered,  *)
(* may leave anything else behind.                                             *)
CONSTANTS Data, Absent, Torn

VARIABLES
    content,     \* the value a reader finds, Absent if there is no file
    phase,       \* of the request: "idle", "asked" or "taken"
    request,     \* the value that the request in progress puts there
    rough,       \* whether it may spoil what is there
    answer       \* to the last request: "none" when it was not answered

file == <<content, phase, request, rough, answer>>

Init ==
    /\ content \in Data \cup {Absent}
    /\ phase = "idle" /\ request = Absent /\ rough = FALSE /\ answer = "none"

Ask ==
    /\ phase = "idle" /\ phase' = "asked"
    /\ request' \in Data \cup {Absent} /\ rough' \in BOOLEAN /\ answer' = "none"
    /\ UNCHANGED content

Spoil ==
    /\ phase = "asked" /\ rough
    /\ content' \in Data \cup {Absent, Torn}
    /\ UNCHANGED <<phase, request, rough, answer>>

Take ==
    /\ phase = "asked" /\ phase' = "taken"
    /\ content' = request
    /\ UNCHANGED <<request, rough, answer>>

Rest == phase' = "idle" /\ request' = Absent /\ rough' = FALSE

Answer ==
    /\ phase # "idle" /\ Rest
    /\ answer' = IF phase = "taken" THEN "true" ELSE "false"
    /\ \/ UNCHANGED content
       \/ phase = "asked" /\ rough /\ content' \in Data \cup {Absent, Torn}

Crash == Rest /\ answer' = "none" /\ UNCHANGED content

Next == Ask \/ Spoil \/ Take \/ Answer \/ Crash

Spec == Init /\ [][Next]_file
===============================================================================
