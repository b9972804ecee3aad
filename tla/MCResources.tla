----------------------------- MODULE MCResources -----------------------------
(* What a device has to offer and what it takes and gives as text: its         *)
(* Resources over a connection that comes and goes; the commands and topics    *)
(* that reach one of them; the manifests that say which there are; the lines   *)
(* it is sent and what becomes of each; its web server; and the fragments its  *)
(* messages travel in.  A behaviour is about one of the six.                   *)
EXTENDS Resources, ResourceManifest, ResourceCommands, Console, WebServer, Reassembly, Integers

CONSTANT Nowhere

VARIABLES
    about,      \* "resources", "registry", "manifest", "line", "web" or "fragments"
    line

textVars == <<manifests, registry, web, line, air>>
allVars == <<vars, textVars, about>>

-------------------------------------------------------------------------------
(* Resources: the firmwares that have them.                                     *)

A == <<"ac", "door">>
B == <<"hub", "door">>
C == <<"hub", "lamp">>

MCMirrors == [m \in Managed |-> CASE m = "copy" -> "sensor" [] m = "mirror" -> "remote"
                                  [] OTHER -> None]
MCDeclared == [r \in Remote |-> None]
MCAddresses == {A, B, C}

Firmware(v, a, c, r, x) ==
    [values |-> v, addresses |-> a, changing |-> c, requests |-> r, refuses |-> x]

MCFirmwares ==
    {Firmware({"sensor", "copy"}, {}, {}, Requests, TRUE),
     Firmware({"tuned"}, {}, {}, Requests, TRUE),
     Firmware({"remote", "mirror"}, {A, B}, {<<"state", A>>, <<"state", B>>, <<"manifest", "ac">>}, {}, TRUE),
     Firmware({"remote", "state"}, {A, B, C}, {<<"state", B>>}, {}, FALSE)}

-------------------------------------------------------------------------------
(* Lines: every short one, and commands in all their forms.                    *)

ShortTexts == UNION {[1 .. n -> {"a", Blank} \cup Delimiters \cup {Backslash}] : n \in 0 .. 6}

Joined(words) == Tail(FlattenSeq([i \in DOMAIN words |-> <<Blank>> \o words[i]]))
W(words) == Joined([i \in DOMAIN words |-> <<words[i]>>])

Numerals == UNION {[1 .. n -> {"0", "1", "2", "3"}] : n \in 0 .. 3} \cup {<<"1", "x">>, <<"x">>}
Nested ==
    {<<"PING">>, <<Quote, "WS", Blank, Backslash, Quote, "a", Backslash, Quote, Quote>>,
     <<Fence, "WS", Blank, Quote, "a", Quote, Fence>>, <<Quote, "a">>, <<Quote, Quote>>}
JobLines ==
    {Joined(<<<<"JOB">>, <<form>>, <<"t">>, n, c>>) : form \in {"AT", "AFTER"}, n \in Numerals, c \in Nested}
    \cup {Joined(<<<<"JOB">>, <<"EVERY">>, <<"t">>, <<clock>>, n, c>>) :
            clock \in {"WALL", "MONO", "SUN"}, n \in Numerals, c \in {<<"PING">>}}
    \cup {Joined(<<<<"JOB">>, <<"DELETE">>, <<"#">> \o n>>) : n \in Numerals}

Second == {"NAME", "TIMEZONE", "SET", "STATUS", "GET", "PUBLISH", "JSON", "INFO", "BOOT", "READ", "DELETE",
           "FORMAT", "LIST", "CLEAR", "PRIORITY", "RESET", "ENABLE", "WIFI", "ESPNOW", "MQTT", "TRANSPORT", "x"}
Third == {"-p", "SYSTEM", "BUILD", "GET", "IP", "ENABLE", "SET", "CHANGE", "SCAN", "1", "on", "x"}
Commands == BuiltIns \cup {"CHANGE", "CONFIG", "SENSORS"}
CommandLines ==
    {W(<<c>>) : c \in Commands} \cup {W(<<c, s>>) : c \in Commands, s \in Second}
    \cup {W(<<c, s, t>>) : c \in Commands, s \in Second, t \in Third}
    \cup {W(<<"NETWORK", s, a, t>>) : s \in {"WIFI", "MQTT", "TRANSPORT"}, a \in {"CHANGE", "ENABLE", "SET"},
              t \in {"REMOTE", "AUTO", "x"}}
    \cup {<<Blank>> \o W(<<"CONFIG", "SET", "a">>), W(<<"PING", "1", "2", "3", "4", "5", "6">>),
          <<">", Blank, "door">>, <<Blank, ">", "list">>, <<Quote, ">", Quote>>, <<Quote, "PING", Quote, Blank>>}
    \cup {[i \in 1 .. n |-> IF i = 1 THEN c ELSE "a"] : n \in {20, 21}, c \in {"a", ">"}}

Lines == ShortTexts \cup JobLines \cup CommandLines

-------------------------------------------------------------------------------
(* Resources and the texts that are about them.                                *)

Declares(kind, owned, access) ==
    [kind |-> kind, owned |-> owned, access |-> access, polled |-> owned, source |-> Nowhere,
     arguments |-> <<>>]
MCCatalogue ==
    [door |-> Declares("value", TRUE, "read_write"),
     go |-> [Declares("action", TRUE, "read") EXCEPT !.arguments =
                <<[name |-> "x", type |-> "integer", required |-> TRUE]>>],
     far |-> [Declares("value", FALSE, "read_write") EXCEPT !.source = <<"hub", "door">>],
     call |-> [Declares("action", FALSE, "read") EXCEPT !.source = <<"hub", "go">>],
     bell |-> Declares("event", FALSE, "read")]
MCOrder == <<"far", "call", "door", "go", "bell">>
MCSlashed ==
    [word \in {"hub/door", "ac/door", "hub/bell", "a/b/c"} |->
        CASE word = "hub/door" -> <<"hub", "door">> [] word = "ac/door" -> <<"ac", "door">>
          [] word = "hub/bell" -> <<"hub", "bell">> [] OTHER -> <<"a", "b", "c">>]
MCTopics ==
    [word \in {"ac/door/set", "hub/door/state", "ac/go/invoke"} |->
        CASE word = "ac/door/set" -> <<"ac", "door", "set">>
          [] word = "hub/door/state" -> <<"hub", "door", "state">>
          [] OTHER -> <<"ac", "go", "invoke">>]
MCObjects ==
    [payload \in {<<"{}">>, <<"{1}">>, <<"{s}">>} |->
        CASE payload = <<"{}">> -> <<>> [] payload = <<"{1}">> -> [x |-> "integer"]
          [] OTHER -> [x |-> "string"]]
Payloads == {<<>>, <<"x">>, <<" ", "x", " ", "y", " ">>, <<"{1}">>, <<"{s}">>}
MCExpressions ==
    {<<" ", t>> : t \in {"door", "go", "ac/door", "a/b/c"}}
    \cup {<<" ", t, " ", v, " ">> \o p :
            t \in {"door", "go", "far", "call", "hub/door"}, v \in {"set", "invoke", "get"}, p \in Payloads}
    \cup {<<" ", " ", t, " ", "source", " ", " ", a>> :
            t \in {"far", "bell", "hub/door", "door"}, a \in {"hub/door", "ac/door", "hub/bell", "clear"}}
    \cup {<<" ", "door", " ", v, " ", "100">> : v \in {"advertise", "poll", "shout"}}
    \cup {<<"drop", " ", t>> : t \in {"door", "far", "hub/door"}}
    \cup {<<"raw", " ", t, " ">> \o p : t \in DOMAIN MCTopics, p \in Payloads}
    \cup {<<>>, <<"list">>, <<"list", " ", "x">>, <<"manifest">>, <<"manifest", " ", "json">>, <<"halt">>}

-------------------------------------------------------------------------------
(* Manifests: what a device has, what another one uses of it, and what both are. *)

Arg(name, type, required) == [name |-> name, type |-> type, required |-> required]
Has(kind, name, type) ==
    [kind |-> kind, name |-> name, type |-> type, access |-> 0, mirrors |-> "", advertise |-> 15,
     hardware |-> <<>>, arguments |-> <<>>, device |-> "", resource |-> ""]
Hw(reports, connected, note) ==
    [poll |-> 100, flags |-> IF reports THEN 1 ELSE 0, reports |-> reports, connected |-> connected, note |-> note]
Use(kind, name, type, access, arguments) ==
    [Has(kind, "r" \o name, type) EXCEPT !.access = access, !.arguments = arguments,
                                         !.device = "hub", !.resource = name]
Arguments ==
    {<<>>, <<Arg("x", 1, TRUE)>>, <<Arg("y", 2, FALSE)>>, <<Arg("x", 2, TRUE), Arg("z", 1, FALSE)>>}
Implemented(arguments, hw) ==
    <<[Has(0, "a", 1) EXCEPT !.advertise = 0],
      [Has(0, "b", 2) EXCEPT !.access = 1, !.mirrors = "a", !.hardware = hw],
      [Has(1, "go", 0) EXCEPT !.arguments = arguments], Has(2, "ev", 3)>>
Ours ==
    {Implemented(args, hw) : args \in Arguments,
        hw \in {<<>>} \cup {<<Hw(r, c, n)>> : r \in BOOLEAN, c \in BOOLEAN, n \in {"", "n"}}}
Used(type, access, arguments) ==
    <<Use(0, "a", type, access, <<>>), Use(0, "b", 2, access, <<>>), Use(1, "go", 0, 0, arguments),
      Use(2, "ev", type, 0, <<>>), [Use(0, "c", 1, 0, <<>>) EXCEPT !.device = "", !.resource = ""]>>
Theirs ==
    {Used(type, access, args) : type \in {1, 3}, access \in 0 .. 1, args \in Arguments}
    \cup {<<Use(1, "a", 0, 0, <<>>), Use(2, "b", 2, 0, <<>>), Use(0, "go", 0, 0, <<>>), Use(0, "ev", 3, 0, <<>>)>>}
MCSamples == {Implemented(<<Arg("x", 1, TRUE)>>, <<Hw(TRUE, TRUE, "n")>>)}
MCLater ==
    {[NoMore EXCEPT ![part] = <<Text("x")>>] : part \in ManifestParts}
    \cup {[part \in ManifestParts |-> <<Number(1), Null>>]}

-------------------------------------------------------------------------------
(* Fragments: one station to which much happens, one whose messages are short   *)
(* and long, and two that share the slots.                                     *)

Crew(senders, counts, left) == [senders |-> senders, counts |-> counts, left |-> left]
MCCrews == {Crew({"s"}, {2}, 3), Crew({"s"}, {1, 3}, 1), Crew({"s", "t"}, {2}, 1)}

-------------------------------------------------------------------------------
AboutInit ==
    /\ about \in {"resources", "registry", "manifest", "line", "web", "fragments"}
    /\ Init /\ (about = "resources" \/ firmware = CHOOSE fw \in Firmwares : TRUE)
    /\ line \in IF about = "line" THEN Lines ELSE {<<>>}
    /\ IF about = "registry" THEN RegistryInit ELSE registry = <<>>
    /\ manifests \in IF about = "manifest" THEN {Undeclared(o, r) : o \in Ours, r \in Theirs}
                     ELSE {Undeclared(<<>>, <<>>)}
    /\ WebInit
    /\ FragmentsInit /\ (about = "fragments" \/ air.left = 3)

AboutNext ==
    \/ about = "resources" /\ Next /\ UNCHANGED <<textVars, about>>
    \/ about = "registry" /\ RegistryNext /\ UNCHANGED <<manifests, web, line, air, vars, about>>
    \/ /\ about = "manifest" /\ (DeclareNow \/ DeclareLater \/ DamageManifest(MCSamples))
       /\ UNCHANGED <<registry, web, line, air, vars, about>>
    \/ about = "web" /\ WebNext /\ UNCHANGED <<manifests, registry, line, air, vars, about>>
    \/ /\ about = "fragments" /\ FragmentsNext
       /\ UNCHANGED <<manifests, registry, web, line, vars, about>>

AboutSpec == AboutInit /\ [][AboutNext]_allVars

\* The scan takes a line exactly if the grammar gives it a meaning, and gives it this one.
ParsesTheGrammar == about = "line" => MeansWhatIsWritten(line)

\* What a line does, it does by whom and with what is written.
LinesAreFaithful == about = "line" => ReachesItsHandler(line) /\ MakesTheJobWritten(line)

\* A topic reaches the Resource it was subscribed to for, and a command the one it
\* names, whatever was bound, sourced, dropped or renamed before.
RegistryIsFaithful == about = "registry" => TopicsReachTheirResource /\ CommandsAreFaithful
===============================================================================
