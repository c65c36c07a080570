SPECIFICATION Spec
CONSTANTS
  guard = guard  click = click  drift = drift  clock = clock  reply = reply  foreignDoc = foreignDoc
  edit = edit  shell = shell  write = write
  ok = ok  failed = failed
  NotSet = NotSet
  Docs <- MCDocs
  Actions <- MCActions
  Answers <- MCAnswers
  Sources <- MCSources
  Selects <- MCSelects
  Targets <- MCTargets
  Owner <- MCOwner
  Decl <- MCDecl
  Defaults <- MCDefaults
  Global <- MCGlobal
  Filter <- MCFilter
  Admitted <- MCAdmitted
  MaxDrift = 2
  MaxTurns = 2
PROPERTIES RetryPasses DriftCountsIgnored TurnDriftIsElapsed
