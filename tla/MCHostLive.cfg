CONSTANTS
  app = app  Reboot = reboot
  conf = conf  limits = limits  image = image
  c1 = c1  c2 = c2  Absent = absent
  Services <- AServices
  Files <- AFiles
  Images = {image}
  ImageOf <- AImageOf
  Contents = {c1, c2}
  Components = {"app"}
  Trees <- ATrees
SPECIFICATION FairSpec
PROPERTIES RunEnds EventuallyConverged
