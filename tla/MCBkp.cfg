CONSTANTS
  a = a  b = b
  Hosts = {a, b}
  Rank <- ARank
  MaxNights = 2  MaxSnapshots = 2  MaxJobs = 4
  Disks = {d1, d2}  NoDisk = root
  Unmounts = TRUE
SYMMETRY DiskSymmetry
SPECIFICATION Spec
INVARIANTS CurrentReached SnapshotWhole CopiesOfSnapshot OneSnapshotPerDisk
