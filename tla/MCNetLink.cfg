SPECIFICATION FairSpec
CONSTANT Modes = {"100FD", "10HD"}
INVARIANTS TypeOK StateFollowsLink AssignedMeansAddress ClientStopped
PROPERTY EventuallySettled
