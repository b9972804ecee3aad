----------------------------- MODULE MCScheduler ------------------------------
(* Jobs of both scopes, some of which share a label.                            *)
EXTENDS Scheduler

Asked(scope, label, clock, once, target) ==
    [scope |-> scope, label |-> label, clock |-> clock, once |-> once, target |-> target]
MCRequests ==
    { Asked("user", "a", "wall", TRUE, "command"),
      Asked("managed", "a", "monotonic", TRUE, "callback"),
      Asked("managed", "a", "wall", FALSE, "command") }
===============================================================================
