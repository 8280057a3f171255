SPECIFICATION FairSpec
CONSTANTS
  raha = raha
  mine = mine
  extra = extra
  gone = gone
  Threads = {t1, t2}
  Builtins = {raha}
  EntryPoints <- Installed
  Callable = {raha, mine, gone}
  Registrable = {mine}
  Imported = {1, 3}
  MaxCalls = 2
  None = None
INVARIANTS
  RegistryTypeOK
  NoPluginMissed
  BuiltinsImportNothing
PROPERTIES
  ClaimsKept
  CallsReturn
CHECK_DEADLOCK FALSE
