CONSTANTS
  base = base  mid = mid  app = app  crt = crt  port = port
  Names = {base, mid, app}
  Files = {crt}
  Items = {port}
  Lines = {}
  Hosts <- AHosts
  Defs <- ADefs
SPECIFICATION Spec
INVARIANTS DependenciesFirst OneScriptPerComponent NothingGivenTooLate AnswerAgrees SharedFileInstalledOnce
