------------------------------ MODULE MCServices -------------------------------
(* The kinds of events that are let happen together.                            *)
EXTENDS Services

MCStored == Profile("home", "auto")
MCOther == Profile("away", "auto")
MCLong == Profile("long", "auto")

\* How often each kind of event happens, the tasks that take commands, and boot.
Scenario(left, tasks, boot) ==
    [left |-> left, tasks |-> tasks, boot |-> boot, overlap |-> FALSE]

Radio == << <<"radioBegin">> >>
Station == << <<"enable">> >>
EspNow == << <<"espnow", TRUE>> >>
Mqtt == << <<"mqttEnable", "remote">> >>

MCScenarios ==
    { Scenario([scan |-> 2, abort |-> 1], {"app", "remote"}, Radio \o EspNow),
      Scenario([scan |-> 1, station |-> 1, espnow |-> 1], {"app"}, Radio \o EspNow),
      Scenario([station |-> 2], {"app"}, Radio \o Station),
      Scenario([profile |-> 1, drop |-> 1], {"app"}, Radio \o Station),
      Scenario([long |-> 1, refusal |-> 1], {"app"}, Radio \o Station),
      Scenario([radio |-> 2], {"app"}, Radio \o Station \o EspNow),
      Scenario([mqtt |-> 3], {"app"}, Radio \o Station),
      Scenario([drop |-> 1, session |-> 1], {"app"}, Radio \o Station \o Mqtt) }
===============================================================================
