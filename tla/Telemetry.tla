------------------------------ MODULE Telemetry -------------------------------
(* Core/Telemetry: the jobs it keeps in the scheduler and the settings of the  *)
(* heartbeat, which act on its job.  The scheduler is its table: labels are    *)
(* unique, and its room is shared with the jobs of the application, which come *)
(* and go between any two calls.                                               *)
EXTENDS Naturals, FiniteSets

CONSTANTS
    MaxJobs,          \* NM_SCHEDULER_MAX_JOBS
    Periods,          \* what a heartbeat period may be set to
    ValidPeriods,     \* HeartbeatMinPeriodSeconds .. HeartbeatMaxPeriodSeconds
    DefaultPeriod

ASSUME TelemetryAssumption == DefaultPeriod \in ValidPeriods /\ ValidPeriods \subseteq Periods

VARIABLES
    jobs,             \* of telemetry: label and period
    others,           \* how many jobs the application has
    started,          \* started_ and telemetrySchedulingStarted
    setting,          \* HeartbeatEnabled and HeartbeatPeriod
    call,             \* the call that is under way, and where it is
    astray            \* history: the setting and the job were left different

heartbeatVars == <<jobs, others, started, setting, call, astray>>

SystemJob    == "nm.telemetry.system"
NetworkJob   == "nm.telemetry.network"
HeartbeatJob == "nm.telemetry.heartbeat"

NoCall == [name |-> "none", at |-> "", asked |-> 0]
Idle == call.name = "none"

HeartbeatInit ==
    /\ jobs = {} /\ others \in 0 .. MaxJobs /\ started = FALSE
    /\ setting \in [enabled : BOOLEAN, period : {DefaultPeriod}]
    /\ call = NoCall /\ astray = FALSE

Job(label, period) == [label |-> label, period |-> period]
Scheduled(label) == \E j \in jobs : j.label = label
TableRoom == Cardinality(jobs) + others < MaxJobs

\* everyMonotonic() and remove(), with where the call goes on.
Install(label, period, done, failed) ==
    IF TableRoom /\ ~Scheduled(label)
    THEN jobs' = jobs \cup {Job(label, period)} /\ call' = done
    ELSE jobs' = jobs /\ call' = failed
Uninstall(label, done, failed) ==
    /\ jobs' = {j \in jobs : j.label # label}
    /\ call' = IF Scheduled(label) THEN done ELSE failed

At(where) == [call EXCEPT !.at = where]

\* The application's own jobs.
OtherJob == TableRoom /\ others' = others + 1 /\ UNCHANGED <<jobs, started, setting, call, astray>>
OtherJobEnds ==
    others > 0 /\ others' = others - 1 /\ UNCHANGED <<jobs, started, setting, call, astray>>

-------------------------------------------------------------------------------
(* start(): three jobs or none.                                                *)

Start ==
    /\ Idle /\ ~started
    /\ Install(SystemJob, DefaultPeriod, [NoCall EXCEPT !.name = "start", !.at = "network"], NoCall)
    /\ UNCHANGED <<others, started, setting, astray>>

Begun(where) == call.name = "start" /\ call.at = where

StartNetwork ==
    /\ Begun("network")
    /\ Install(NetworkJob, DefaultPeriod, At("heartbeat"), At("undo system"))
    /\ UNCHANGED <<others, started, setting, astray>>

StartHeartbeat ==
    /\ Begun("heartbeat")
    /\ IF setting.enabled
       THEN Install(HeartbeatJob, setting.period, At("done"), At("undo network"))
       ELSE call' = At("done") /\ UNCHANGED jobs
    /\ UNCHANGED <<others, started, setting, astray>>

StartUndo ==
    /\ \/ Begun("undo network") /\ Uninstall(NetworkJob, At("undo system"), At("undo system"))
       \/ Begun("undo system") /\ Uninstall(SystemJob, NoCall, NoCall)
    /\ UNCHANGED <<others, started, setting, astray>>

StartDone ==
    /\ Begun("done") /\ started' = TRUE /\ call' = NoCall
    /\ UNCHANGED <<jobs, others, setting, astray>>

-------------------------------------------------------------------------------
(* CONFIG SET of the two settings: the handler, then the file, then the value. *)

Asking(name, v) == [name |-> name, at |-> "save", asked |-> v]

\* changeHeartbeatEnabled()
SetEnabled(v) ==
    /\ Idle
    /\ IF ~started \/ v = setting.enabled THEN call' = Asking("enabled", v) /\ UNCHANGED jobs
       ELSE IF v THEN Install(HeartbeatJob, setting.period, Asking("enabled", v), NoCall)
       ELSE Uninstall(HeartbeatJob, Asking("enabled", v), NoCall)
    /\ UNCHANGED <<others, started, setting, astray>>

\* Mutant: an enabled heartbeat gets its new period when it is enabled again.
LazyPeriod(v) ==
    /\ Idle /\ v \in ValidPeriods
    /\ call' = Asking("period", v) /\ UNCHANGED <<jobs, others, started, setting, astray>>

\* changeHeartbeatPeriod(): the job is removed, and one with the period installed.
SetPeriod(v) ==
    /\ Idle /\ v \in ValidPeriods
    /\ IF ~started \/ ~setting.enabled \/ v = setting.period
       THEN call' = Asking("period", v) /\ UNCHANGED jobs
       ELSE Uninstall(HeartbeatJob, [Asking("period", v) EXCEPT !.at = "install"], NoCall)
    /\ UNCHANGED <<others, started, setting, astray>>

InstallPeriod ==
    /\ call.name = "period" /\ call.at = "install"
    /\ Install(HeartbeatJob, call.asked, At("save"), At("reinstall"))
    /\ UNCHANGED <<others, started, setting, astray>>

\* The old period again; the application may have taken the room meanwhile.
ReinstallPeriod ==
    /\ call.name = "period" /\ call.at = "reinstall"
    /\ Install(HeartbeatJob, setting.period, NoCall, NoCall)
    /\ astray' = (astray \/ ~TableRoom)
    /\ UNCHANGED <<others, started, setting>>

\* ConfigManager: the value follows the file, the handler has run by then.
SaveSetting(stored) ==
    /\ call.at = "save" /\ call' = NoCall
    /\ setting' = IF ~stored THEN setting
                  ELSE IF call.name = "enabled" THEN [setting EXCEPT !.enabled = call.asked]
                  ELSE [setting EXCEPT !.period = call.asked]
    /\ astray' = (astray \/ (~stored /\ started))
    /\ UNCHANGED <<jobs, others, started>>

\* The settings are kept, the jobs are not.
Restart ==
    /\ jobs' = {} /\ started' = FALSE /\ call' = NoCall /\ astray' = FALSE
    /\ others' = 0 /\ UNCHANGED setting

HeartbeatNext ==
    \/ Start \/ StartNetwork \/ StartHeartbeat \/ StartUndo \/ StartDone
    \/ \E v \in BOOLEAN : SetEnabled(v)
    \/ \E v \in Periods : SetPeriod(v)
    \/ InstallPeriod \/ ReinstallPeriod
    \/ \E stored \in BOOLEAN : SaveSetting(stored)
    \/ OtherJob \/ OtherJobEnds \/ Restart

\* changeHeartbeatEnabled() and changeHeartbeatPeriod() keep the job what the
\* settings say, whatever is refused on the way: there is a heartbeat job if and
\* only if it is enabled, and it has the period that is set.
JobFollowsSetting ==
    started /\ Idle /\ ~astray =>
        {j \in jobs : j.label = HeartbeatJob} =
            IF setting.enabled THEN {Job(HeartbeatJob, setting.period)} ELSE {}

\* TelemetryService::start() leaves nothing half-installed, however the
\* application fills the table meanwhile: a retry would meet its own label.
StartIsAllOrNothing ==
    Idle => IF started THEN Scheduled(SystemJob) /\ Scheduled(NetworkJob) ELSE jobs = {}

\* The jobs of telemetry are all there or none, and the heartbeat's as set.
JobsFollowSettings == StartIsAllOrNothing /\ JobFollowsSetting

===============================================================================
