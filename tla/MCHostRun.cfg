CONSTANTS
  sshd = sshd  nginx = nginx  Reboot = reboot
  ssh_conf = ssh_conf  limits = limits  site = site
  c1 = c1  c2 = c2  Absent = absent
  Services <- AServices
  Files <- AFiles
  Images = {}
  ImageOf <- AImageOf
  Contents <- AContents
  Components <- AComponents
  Trees <- ATrees
SPECIFICATION Spec
INVARIANTS OneStartPerRun CompletedRunCoversAll StaleOnlyAfterFailure RebootNotSkipped
PROPERTIES DeferredStartsLast StartsInOrder
