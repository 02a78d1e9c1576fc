CONSTANTS
    Tasks = {t1, t2, t3, t4, t5, t6}
    MaxActive = 2
    MaxWaiting = 3
SPECIFICATION FairSpec
INVARIANTS SlotsAccounted
PROPERTIES ArrivalOrder WaiterEventuallyRuns
