CONSTANTS
  root = root  run = run  m400 = m400  m755 = m755
  t1 = t1  t2 = t2  html = html  empty = empty  link1 = link1  link2 = link2
  Users <- AUsers
  Modes <- AModes
  Texts <- ATexts
  Targets <- ATargets
  TargetText <- ATargetText
  Created <- ACreated
  Requests <- ARequests
  Html = html  Empty = empty
  NoText = notext  Partial = partial  LinkMode = m777  NoTarget = notarget
SPECIFICATION Spec
INVARIANTS Achieved ChangeNoted RepeatIsQuiet
PROPERTIES AccessBeforeContent
