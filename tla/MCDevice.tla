------------------------------- MODULE MCDevice -------------------------------
(* What one device remembers and what it says of itself: one of its files,     *)
(* step by step; its settings over a file that a power loss outlives; the      *)
(* settings of its heartbeat over the scheduler; and its hardware, over        *)
(* profiles of four kinds: references between definitions, members of the same *)
(* name, connections, and definitions that are used more than once.  A         *)
(* behaviour is about one of the four.                                         *)
EXTENDS Settings, Telemetry, HardwareDocument, Storage

VARIABLE about       \* "file", "settings", "heartbeat" or "hardware"

deviceVars == <<vars, heartbeatVars, hw, storage, about>>

T(id, net) == [id |-> id, net |-> net, text |-> ""]
D(id, terminals) == [id |-> id, terminals |-> terminals, text |-> ""]
C(id, contacts) == [id |-> id, contacts |-> contacts, kind |-> 0, text |-> ""]
Asm(id, definition, m) ==
    [id |-> id, definition |-> definition, text |-> "", kind |-> Generic, members |-> m]
Def(id, m) == [id |-> id, kind |-> 2, text |-> "board", members |-> m]
EP(path, kind, owner, id) == Endpoint(path, kind, owner, id)
Wire(label, length) == [label |-> label, length |-> length]
J(a, b) == [a |-> a, b |-> b, wire |-> Wire("", 0)]
Just(assemblies) == AssemblyMembers(assemblies, <<>>, <<>>, <<>>)
P(host, definitions, roots, connections) ==
    [host |-> host, definitions |-> definitions, roots |-> roots, connections |-> connections]
Main == <<"main">>

\* References, in place or within an assembly that is described in place.
Referring ==
    {Just(<<>>)} \cup {Just(<<Asm("k", e, NoMembers)>>) : e \in {"d1", "d2", "d3", "none"}}
    \cup {Just(<<Asm("k", "", Just(<<Asm("m", e, NoMembers)>>))>>) : e \in {"d1", "d2", "d3"}}
References ==
    {P(Main, <<Def("d1", m1), Def("d2", m2), Def("d3", m3)>>, <<Asm("main", e, NoMembers)>>, <<>>) :
        m1 \in Referring, m2 \in Referring, m3 \in {Just(<<>>), Just(<<Asm("k", "d1", NoMembers)>>)},
        e \in {"", "d1", "none"}}

\* Members of a definition and of its instance.
U(id) == D(id, <<T("1", 0)>>)
K(id) == C(id, <<T("1", 0)>>)
Overlaps ==
    {P(host, <<Def("d1", AssemblyMembers(as, ds, cs, <<>>))>>,
       <<Asm("main", "d1", AssemblyMembers(bs, es, fs, <<>>))>>, <<>>) :
        host \in {Main, <<"main", "k">>, <<>>, <<"main", "">>},
        as \in {<<>>, <<Asm("k", "", NoMembers)>>}, bs \in {<<>>, <<Asm("k", "", NoMembers)>>},
        ds \in {<<>>, <<U("u")>>}, es \in {<<>>, <<U("u")>>, <<U("v"), U("v")>>, <<U("?")>>},
        cs \in {<<>>, <<K("c")>>}, fs \in {<<>>, <<K("c")>>, <<C("d", <<T("1", 9)>>)>>}}

\* A board with a device and two connectors, one of them of an assembly on it.
Board(n1, n2, n3, n4, inner, outer) ==
    P(Main, <<Def("d1", AssemblyMembers(<<>>, <<>>, <<C("c", <<T("1", n4)>>)>>, <<>>))>>,
      <<Asm("main", "", AssemblyMembers(<<Asm("k", "d1", NoMembers)>>, <<D("u", <<T("1", n1), T("2", n2)>>)>>,
                                      <<C("c", <<T("1", n3)>>)>>, inner))>>, outer)
Near == {EP(<<>>, 0, "u", "1"), EP(<<>>, 0, "u", "2"), EP(<<>>, 1, "c", "1"),
         EP(<<"k">>, 1, "c", "1"), EP(<<"k">>, 0, "u", "1"), EP(<<"x">>, 1, "c", "1")}
Some == {J(a, b) : a \in Near, b \in Near}
Few == {J(EP(<<>>, 0, "u", "2"), EP(<<>>, 0, "u", "1")), J(EP(<<"k">>, 1, "c", "1"), EP(<<>>, 1, "c", "1"))}
Misconnected ==
    {Board(0, 0, 0, 0, <<c>>, <<>>) : c \in Some}
    \cup {Board(0, 0, 0, 0, <<c, d>>, <<>>) : c \in Some, d \in Few}
    \cup {Board(0, 0, 0, 0, <<c>>, <<J(EP(a, 1, "c", "1"), EP(Main, 1, "c", "1"))>>) :
              c \in Few, a \in {<<"main", "k">>, Main, <<"k">>, <<>>}}

Ends == <<EP(<<>>, 0, "u", "1"), EP(<<>>, 0, "u", "2"), EP(<<>>, 1, "c", "1"), EP(<<"k">>, 1, "c", "1")>>
Joints == <<J(Ends[1], Ends[2]), J(Ends[4], Ends[3]), J(Ends[2], Ends[3]), J(Ends[1], Ends[3])>>
Nets == {Board(n1, n2, n3, n4, SelectSeq(Joints, LAMBDA j : j \in on), <<>>) :
             n1 \in 0 .. 2, n2 \in 0 .. 1, n3 \in 0 .. 2, n4 \in {0, 2}, on \in SUBSET Range(Joints)}

\* A definition with a connection of its own, used up to three times.
Cell(net, joint) == Def("d1", AssemblyMembers(<<>>, <<D("u", <<T("1", 1), T("2", net)>>)>>, <<>>, joint))
Repeated ==
    {P(Main, <<Cell(net, joint)>>, <<Asm("main", first, Just(SubSeq(<<Asm("a", "d1", NoMembers),
        Asm("b", "d1", NoMembers), Asm("c", "d1", NoMembers)>>, 1, times)))>>, <<>>) :
        net \in 0 .. 2, joint \in {<<>>, <<Joints[1]>>, <<Joints[1], Joints[1]>>},
        first \in {"", "d1"}, times \in 0 .. 3}

\* What the documents are tried with: every kind of object, with and without its
\* optional parts.
Rich ==
    P(Main, <<Def("d1", AssemblyMembers(<<>>, <<>>, <<[C("c", <<T("1", 3)>>) EXCEPT !.text = "J1"]>>, <<>>))>>,
      <<Asm("main", "", AssemblyMembers(<<[Asm("k", "d1", NoMembers) EXCEPT !.text = "left"]>>,
            <<[D("u", <<T("1", 0), [T("2", 2) EXCEPT !.text = "VIN"]>>) EXCEPT !.text = "pump"]>>,
            <<C("c", <<T("1", 0)>>)>>, <<J(Ends[1], Ends[2])>>))>>,
      <<[J(EP(Main, 1, "c", "1"), EP(<<"main", "k">>, 1, "c", "1")) EXCEPT !.wire = Wire("W1", 40)]>>)
Labelled == [Rich EXCEPT !.connections[1].wire = Wire("", 7), !.roots[1].kind = 5,
                         !.roots[1].members.assemblies[1].kind = 1]
Samples == {Rich, Labelled}

\* One kind of object at a time, or all of them, has a field more.
Later == {[NothingMore EXCEPT ![kind] = <<Text("x")>>] : kind \in ObjectKinds}
         \cup {[kind \in ObjectKinds |-> <<Number(1), Null>>]}

Profiles == References \cup Overlaps \cup Misconnected \cup Nets \cup Repeated \cup Samples

About(part, Act, others_) == about = part /\ Act /\ UNCHANGED <<about, others_>>
OfFile(Act)      == About("file", Act, <<vars, heartbeatVars, hw>>)
OfSettings(Act)  == About("settings", Act, <<heartbeatVars, hw, storage>>)
OfHeartbeat(Act) == About("heartbeat", Act, <<vars, hw, storage>>)
OfHardware(Act)  == About("hardware", Act, <<vars, heartbeatVars, storage>>)

DeviceInit ==
    /\ about \in {"file", "settings", "heartbeat", "hardware"}
    /\ StorageInit /\ (about = "file" \/ files.name = Absent)
    /\ IF about = "settings" THEN Init ELSE Init /\ store = Off(None)
    /\ IF about = "heartbeat" THEN HeartbeatInit ELSE HeartbeatInit /\ others = 0 /\ setting.enabled
    /\ hw \in IF about = "hardware" THEN {Unpublished(p) : p \in Profiles}
              ELSE {[Unpublished(Rich) EXCEPT !.form = "left alone"]}

DeviceNext ==
    \/ OfFile(StorageNext)
    \/ OfSettings(Next)
    \/ OfHeartbeat(HeartbeatNext)
    \/ OfHardware(PublishHardware \/ PublishLater \/ Damage(Samples))

\* The fairness of Settings.
DeviceSpec ==
    /\ DeviceInit /\ [][DeviceNext]_deviceVars
    /\ WF_deviceVars(OfSettings(PowerOn))
    /\ WF_deviceVars(OfSettings(OfIdentity(IdentityStart)))
    /\ WF_deviceVars(OfSettings(OfIdentity(LockAddress)))
    /\ SF_deviceVars(OfSettings(CleanupSucceeds))

\* A document that is decoded says what was packed, also with fields of a later
\* encoding at its end; one that is damaged says something legal or is refused.
DecodingIsSound == DocumentsAgree /\ LegalOrRejected
===============================================================================
