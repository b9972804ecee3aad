CONSTANTS
    Requests <- MCRequests
    MaxJobs = 2
    MaxId = 3
    MaxFaults = 1
    NoJob = NoJob
    Unreadable = Unreadable
SPECIFICATION SchedulerSpec
PROPERTY FailedClearChangesNothing
