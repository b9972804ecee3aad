------------------------------- MODULE Console -------------------------------
(* What becomes of a line that is a command: handleNightMareCommand().  Two raw *)
(* forms go their own way before the line is parsed; what is parsed is handed   *)
(* to a built-in command, and to the application only if there is none.         *)
(*                                                                             *)
(* An effect names who acts and with what.  What the services make of it is in  *)
(* their own modules; here each may take it or not.  Numbers are written in     *)
(* base Base and fit below MaxNumber, for UINT32_MAX.                           *)
EXTENDS CommandLine

CONSTANTS MaxExpression, MaxNumber, Base

Outcome(who, what, with) == [who |-> who, what |-> what, with |-> with, ok |-> TRUE]
Nobody(why) == [Outcome("nobody", why, <<>>) EXCEPT !.ok = FALSE]
Answer == {Outcome("answer", "", <<>>)}
Usage == {Nobody("usage")}
Tried(who, what, with) == {Outcome(who, what, with), [Outcome(who, what, with) EXCEPT !.ok = FALSE]}

ArgumentsOf(m) == Tail(m.tokens)
CountOf(m) == Len(ArgumentsOf(m))
Named(m, n, word) == n <= CountOf(m) /\ ArgumentsOf(m)[n] = <<word>>
ArgumentAt(m, n) == IF n <= CountOf(m) THEN ArgumentsOf(m)[n] ELSE <<>>

-------------------------------------------------------------------------------
(* JOB.                                                                        *)

Digits == 0 .. Base - 1
Numeral(d) == <<"0", "1", "2", "3", "4", "5", "6", "7", "8", "9">>[d + 1]
DigitOf(c) == CHOOSE d \in Digits : Numeral(d) = c
IsDigit(c) == \E d \in Digits : Numeral(d) = c

\* parseJobNumber(): refused as soon as it is too large.
JobNumber(text) ==
    FoldLeft(LAMBDA vs, c : {v * Base + DigitOf(c) : v \in {v \in vs : IsDigit(c) /\ v * Base + DigitOf(c) <= MaxNumber}},
             IF text = <<>> THEN {} ELSE {0}, text)

\* Where the forms that make a job have its command and its time.
JobForms == [AT |-> [time |-> 3, command |-> 4], AFTER |-> [time |-> 3, command |-> 4],
             EVERY |-> [time |-> 4, command |-> 5]]

Job(m) ==
    LET sub == ArgumentAt(m, 1)
        target == ArgumentAt(m, 2)
        Made(form) ==
            {[kind |-> sub[1], label |-> target, clock |-> IF sub = <<"EVERY">> THEN ArgumentAt(m, 3) ELSE <<>>,
              time |-> t, command |-> ArgumentAt(m, JobForms[form].command)] :
             t \in {t \in JobNumber(ArgumentAt(m, JobForms[form].time)) : sub = <<"EVERY">> => t > 0}}
    IN  IF sub = <<"LIST">> THEN Tried("jobs", "list", <<>>)
        ELSE IF sub = <<"CLEAR">> THEN Tried("jobs", "clear", <<>>)
        ELSE IF sub = <<"DELETE">> THEN
             IF target = <<>> THEN Usage
             ELSE IF Head(target) # "#" THEN Tried("jobs", "delete label", target)
             ELSE IF JobNumber(Tail(target)) = {} THEN Usage
             ELSE UNION {Tried("jobs", "delete id", n) : n \in JobNumber(Tail(target))}
        ELSE IF ~\E form \in DOMAIN JobForms : sub = <<form>> THEN Usage
        ELSE IF \/ sub = <<"EVERY">> /\ ArgumentAt(m, 3) \notin {<<"WALL">>, <<"MONO">>}
                \/ Made(sub[1]) = {} \/ target = <<>> \/ ArgumentAt(m, JobForms[sub[1]].command) = <<>> THEN Usage
        ELSE UNION {Tried("jobs", "make", job) : job \in Made(sub[1])}

-------------------------------------------------------------------------------
(* The other built-in commands.                                                *)

Sections == {"INFO", "IDENTITY", "HARDWARE", "BUILD", "BOOT", "SYSTEM", "HEARTBEAT", "NETWORK"}
PublishedSections == {"INFO", "SYSTEM", "NETWORK", "HEARTBEAT"}
\* getInfoType(): nothing is the aggregate.
InfoType(token) == IF token = <<>> THEN {"INFO"} ELSE {s \in Sections : token = <<s>>}

Hardware(m) ==
    IF CountOf(m) > 1 THEN Usage
    ELSE IF Named(m, 1, "PUBLISH") THEN Tried("hardware", "publish", <<>>)
    ELSE IF ArgumentAt(m, 1) \in {<<>>, <<"JSON">>} THEN Tried("hardware", "get", <<>>) ELSE Usage

Info(m) ==
    IF Named(m, 1, "PUBLISH")
    THEN UNION {IF s \in PublishedSections THEN Tried("info", "publish", s) ELSE Usage : s \in InfoType(ArgumentAt(m, 2))}
         \cup (IF InfoType(ArgumentAt(m, 2)) = {} THEN Usage ELSE {})
    ELSE IF InfoType(ArgumentAt(m, 1)) = {} THEN Usage
    ELSE UNION {Tried("info", "get", s) : s \in InfoType(ArgumentAt(m, 1))}

Timezone(m, value, count) == IF CountOf(m) # count THEN Usage ELSE Tried("identity", "timezone", value)
Identity(m) ==
    CASE m.tokens[1] = <<"ADOPT">> ->
             IF CountOf(m) # 1 THEN Usage ELSE Tried("identity", "adopt", ArgumentAt(m, 1))
      [] m.tokens[1] = <<"TIMEZONE">> ->
             IF CountOf(m) = 0 THEN Answer
             ELSE IF Named(m, 1, "SET") THEN Timezone(m, ArgumentAt(m, 2), 2) ELSE Usage
      [] Named(m, 1, "TIMEZONE") -> Timezone(m, ArgumentAt(m, 2), 2)
      [] OTHER -> IF CountOf(m) # 2 THEN Usage ELSE Tried("identity", "adopt", ArgumentAt(m, 2))

Time(m) ==
    IF CountOf(m) > 1 \/ (CountOf(m) = 1 /\ ~Named(m, 1, "STATUS")) THEN Usage ELSE Answer

\* Formatting asks for a word that its own refusal does not name.
Files(m) ==
    IF ArgumentAt(m, 1) \in {<<"READ">>, <<"DELETE">>}
    THEN IF ArgumentAt(m, 2) = <<>> THEN Usage ELSE Tried("files", ArgumentAt(m, 1)[1], ArgumentAt(m, 2))
    ELSE IF Named(m, 1, "FORMAT") THEN IF Named(m, 2, "-p") THEN Tried("files", "format", <<>>) ELSE Usage
    ELSE IF Named(m, 1, "LIST") THEN Tried("files", "list", <<>>)
    ELSE IF Named(m, 1, "STATUS") THEN Answer ELSE Usage

Transports == {"MQTT", "ESP_NOW", "AUTO"}
Actions == [WIFI |-> {"ENABLE", "DISABLE", "TXPOWER", "SCAN", "CHANGE"}, ESPNOW |-> {"ENABLE", "DISABLE"},
            MQTT |-> {"ENABLE", "DISABLE"}, TRANSPORT |-> {"SET"}]
\* What needs something behind it, and of which kind.
Complete(service, action, m) ==
    /\ action = "CHANGE" => ArgumentAt(m, 3) # <<>>
    /\ action = "SET" => \E t \in Transports : Named(m, 3, t)
    /\ service = "MQTT" /\ action = "ENABLE" => ArgumentAt(m, 3) \in {<<>>, <<"REMOTE">>, <<"LOCAL">>}
\* What WIFI says without doing anything.
Asked(m) == Named(m, 2, "IP") \/ (Named(m, 2, "TXPOWER") /\ ArgumentAt(m, 3) = <<>>)
Network(m) ==
    IF Named(m, 1, "GET") /\ CountOf(m) = 1 THEN Answer
    ELSE IF \E service \in DOMAIN Actions : Named(m, 1, service)
    THEN LET service == ArgumentAt(m, 1)[1] IN
         IF Named(m, 2, "GET") \/ (service = "WIFI" /\ Asked(m)) THEN Answer
         ELSE UNION {IF Complete(service, a, m) THEN Tried("network", service, <<<<a>>>> \o SubSeq(ArgumentsOf(m), 3, CountOf(m)))
                     ELSE Usage : a \in {a \in Actions[service] : Named(m, 2, a)}}
              \cup (IF \E a \in Actions[service] : Named(m, 2, a) THEN {} ELSE Usage)
    ELSE Usage

\* Anything that is not understood is another value, and success.
Http(m) ==
    IF Named(m, 1, "PRIORITY") THEN Tried("http", "priority", ArgumentAt(m, 2) \in {<<"1">>, <<"high">>})
    ELSE IF Named(m, 1, "RESET") THEN Tried("http", "priority", FALSE)
    ELSE IF Named(m, 1, "ENABLE")
    THEN {Outcome("http", "enable", ArgumentAt(m, 2) \in {<<"1">>, <<"true">>, <<"on">>})}
    ELSE Answer

Websockets_(m) == IF Named(m, 1, "LIST") THEN Answer ELSE {Outcome("websockets", "broadcast", ArgumentAt(m, 1))}

-------------------------------------------------------------------------------
(* The line.                                                                   *)

Start(text) == LET at == {i \in DOMAIN text : text[i] # Blank} IN IF at = {} THEN 0 ELSE Earliest(at)
Rest(text, i) == SubSeq(text, i + 1, Len(text))

\* The first run of characters that are no blanks, which is looked at before parsing.
FirstRun(text) ==
    IF Start(text) = 0 THEN <<>>
    ELSE LET end == {i \in Start(text) .. Len(text) : text[i] = Blank}
         IN  SubSeq(text, Start(text), IF end = {} THEN Len(text) ELSE Earliest(end) - 1)

BuiltIns ==
    {"JOB", "GATEWAY", "HW", "INFO", "ADOPT", "TIMEZONE", "PING", "STATUS", "REBOOT", "TEST", "TIME",
     "FS", "NETWORK", "HTTPSERVER", "WS"}

BuiltIn(m) ==
    LET word == m.tokens[1]
        Is(name) == word = <<name>>
    IN  CASE Is("JOB") -> Job(m)
          [] Is("GATEWAY") -> Tried("gateway", "command", ArgumentsOf(m))
          [] Is("HW") -> Hardware(m)
          [] Is("INFO") -> Info(m)
          [] Is("ADOPT") \/ Is("TIMEZONE") \/ (Is("CHANGE") /\ (Named(m, 1, "NAME") \/ Named(m, 1, "TIMEZONE"))) -> Identity(m)
          [] Is("PING") \/ Is("STATUS") \/ Is("TEST") -> Answer
          [] Is("REBOOT") -> {Outcome("reboot", "", <<>>)}
          [] Is("TIME") -> Time(m)
          [] Is("FS") -> Files(m)
          [] Is("NETWORK") -> Network(m)
          [] Is("HTTPSERVER") -> Http(m)
          [] Is("WS") -> Websockets_(m)
          [] OTHER -> Tried("application", "command", m.tokens)

\* Mutant: a line that does not parse is dispatched by what was found of it.
UncheckedDispatch(text) ==
    LET s == Scan(text) IN IF s.tokens = <<>> THEN {Nobody("parse")} ELSE BuiltIn(Parsed(s.tokens))
Dispatch(text) == LET m == Parse(text) IN IF m.valid THEN BuiltIn(m) ELSE {Nobody("parse")}

\* handleNightMareCommand()
Handle(text) ==
    LET start == Start(text)
        first == FirstRun(text)
    IN  IF text = <<>> THEN {Nobody("empty")}
        ELSE IF start # 0 /\ text[start] = ">"
        THEN IF Len(Rest(text, start)) > MaxExpression THEN {Nobody("too long")}
             ELSE Tried("resources", "command", Rest(text, start))
        ELSE IF Len(text) > MaxMessage THEN {Nobody("too long")}
        ELSE IF first = <<"CONFIG">>
        THEN LET behind == Rest(text, start)
             IN  Tried("config", "command", IF Start(behind) = 0 THEN <<>> ELSE Rest(behind, Start(behind) - 1))
        ELSE Dispatch(text)

-------------------------------------------------------------------------------
(* Properties of a line.                                                       *)

\* Only the application knows what to do with a command that no built-in one is named
\* as, and it gets the words as written; a malformed line reaches nobody.
ReachesItsHandler(text) ==
    \A e \in Handle(text) :
        /\ e.who \notin {"nobody", "resources", "config"} =>
               Cardinality(Grammar(text)) = 1
        /\ e.who = "application" =>
               {e.with} = Grammar(text) /\ \A name \in BuiltIns : Head(e.with) # <<name>>

\* The value of a numeral.
ValueOf(text) ==
    FoldLeft(LAMBDA sum, i : sum + DigitOf(text[i]) * Base ^ (Len(text) - i), 0, [i \in DOMAIN text |-> i])

\* A job is made for the time that is written, never for another that is left of one
\* that is too large, and its command is the argument as the grammar reads it.
MakesTheJobWritten(text) ==
    \A e \in Handle(text) :
        e.who = "jobs" /\ e.what = "make" =>
            \A words \in Grammar(text) :
                LET form == JobForms[e.with.kind] IN
                /\ e.with.time = ValueOf(words[form.time + 1]) /\ e.with.time <= MaxNumber
                /\ e.with.command = words[form.command + 1] /\ e.with.command # <<>>
                /\ e.with.label = words[3]
===============================================================================
