SPECIFICATION FairExecutorSpec
CONSTANTS
    alice = alice
    bob = bob
    Keys = {alice, bob}
    MaxJobs = 6
INVARIANTS
    SerialUnlessReused
    NoLeak
PROPERTIES
    EveryJobRuns
