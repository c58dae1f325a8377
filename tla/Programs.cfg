SPECIFICATION MCSpec
CONSTANTS
  LegalPartitions <- TwoPartitions
  Retries = 3
  MaxKedaRuns = 2
  Identities <- TwoIdentities
  TfPrincipals = {"terraform"}
  PrepareNumbers = {1, 2}
  MaxPrepareRuns = 3
  MaxDisturbances = 4
  StatsdKeys <- SomeKeys
  BadProps = {"bad"}
  Values <- SomeValues
  Depth <- SomeDepth
  Documents <- SomeDocuments
INVARIANTS
  ProgramsTypeOK
  SilenceMeansUpdated
  
  SecretsBelongToTheirIdentity
  PasswordsAreValid
  UndisturbedRunIsComplete
  SelectedMetricsAreSentOnce
  MatchIsStated
  MatchIsPreorder
PROPERTIES
  RepairsAreMistakes
  EveryProgramEnds
