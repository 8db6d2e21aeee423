CONSTANTS
  mail = mail  www = www
  Certs = {mail, www}
  Rank <- ARank
  Rekeyed = {mail}
  MaxKeys = 2
SPECIFICATION Spec
INVARIANTS PairFits
PROPERTIES OrderLeavesCrt NamedCoversOrders NamedGoesLast
