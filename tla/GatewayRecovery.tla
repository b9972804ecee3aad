---------------------------- MODULE GatewayRecovery ----------------------------
(* Gateway/GatewayRecovery.cpp: what this gateway knows of another one, from    *)
(* the status and the clients that one retains at the broker.  When both are    *)
(* known of a generation (one per boot) that is offline, the last wills of the  *)
(* clients are due here.                                                        *)
CONSTANT None

Unknown == [generation |-> None, offline |-> None, snapshot |-> None,
            clients |-> None, applied |-> FALSE]

\* Mutant: the status of any generation is that of the known one.
AnyGeneration(e, generation) == TRUE

KnownAs(e, generation) == e.generation \in {None, generation}

Apply(e) == [e EXCEPT !.applied = TRUE]

\* Mutant: clients that are heard of after the end of their gateway make nothing due.
NeverDue(e, generation) == FALSE

\* Whether a message makes the wills due: its topic, generation and, of a status,
\* whether it is online.
DueByClients(e, generation) ==
    e.offline = generation /\ KnownAs(e, generation) /\ ~e.applied

DueByStatus(e, generation, online) ==
    ~online /\ KnownAs(e, generation) /\ e.snapshot = generation /\ ~e.applied

HeardClients(e, generation, clients) ==
    LET known == [e EXCEPT !.snapshot = generation, !.clients = clients]
    IN  IF DueByClients(e, generation) THEN Apply([known EXCEPT !.generation = generation])
        ELSE known

HeardStatus(e, generation, online) ==
    IF online THEN [e EXCEPT !.generation = generation, !.offline = None, !.applied = FALSE]
    ELSE IF ~KnownAs(e, generation) THEN e
    ELSE LET gone == [e EXCEPT !.generation = generation, !.offline = generation]
         IN  IF DueByStatus(e, generation, online) THEN Apply(gone) ELSE gone
===============================================================================
