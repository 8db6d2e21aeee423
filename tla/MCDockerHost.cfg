CONSTANTS
  app = app  job = job  Reboot = reboot
  conf = conf  image = image
  c1 = c1  c2 = c2  Absent = absent
  Services <- AServices
  Files = {conf}
  Images = {image}
  ImageOf <- AImageOf
  Contents <- AContents
  Components <- AComponents
  Trees <- ATrees
SPECIFICATION Spec
INVARIANTS IInv FreshOrExcused
