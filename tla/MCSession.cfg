SPECIFICATION Spec
CONSTANTS
  MaxRuns = 3
  Commands <- MCCommands
  Passwords = {"p", "q"}
  Keyfiles <- MCKeyfiles
  Devices <- MCDevices
  Version = 7
  Cwd <- Home
  FirstDisks <- MCFirstDisks
  SaltSize = 2
  FileIdSize = 1
  MaxCredentialSize = 3
  MaxKeyfileReads = 2
  ReadSize = 1
  LeastRead = 1
INVARIANTS TypeOK NothingWithoutSecrets OkIsOriginal RightSecretsOpen DataSurvives ListChangesNothing
CHECK_DEADLOCK FALSE
