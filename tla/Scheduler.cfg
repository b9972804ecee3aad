CONSTANTS
    Requests <- MCRequests
    MaxJobs = 2
    MaxId = 3
    MaxFaults = 1
    NoJob = NoJob
    Unreadable = Unreadable
SPECIFICATION SchedulerSpec
INVARIANT TableIsSound
INVARIANT AtMostOnce
PROPERTY DueJobsRun
