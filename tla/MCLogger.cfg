SPECIFICATION FairSpec
CONSTANTS
  console = console
  callback = callback
  etw = etw
  Threads = {t1, t2}
  Sinks <- MCSinks
  Registering <- MCRegistering
  AllSinks <- MCAllSinks
  Configs <- MCConfigs
  CountModulus = 4
  MaxInits = 2
INVARIANTS
  TypeOK
  InitsAndDeinitsPairUp
  NothingHeldWhenNotInitialized
  ConfiguredSinksAreReady
PROPERTIES
  EverySinkLoggedOnce
  CallsReturn
  ImplementsLifecycle
