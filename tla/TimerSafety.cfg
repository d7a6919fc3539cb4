\* Up to three starts, each stopped, replaced or left to expire at any moment,
\* and requests that come at any moment.
SPECIFICATION CoolDownSpec
CONSTANT MaxStarts = 3
INVARIANTS SpawnIsFree SilentAfterStop RunningMeansAlive RestingIsAnnounced
PROPERTIES FiresOnceForCurrent Ends StopReturns RestingIsSent
