SPECIFICATION Spec
CONSTANTS
  Hosts <- AllHosts
  Instances = {"core", "edge"}
  Counts = {0, 1}
  Names = {"unknown", "isis"}
  MaxJobs = 3
INVARIANT InstallsChecked
INVARIANT OneVariant
INVARIANT LostNeighborsWarned
