\* Two clients start while a config file is edited.
SPECIFICATION Spec
CONSTANTS
    t1 = t1
    t2 = t2
    module = module
    default = default
    named = named
    None = None
    Processes <- TwoClients
    Threads <- TwoClients
    ProcessOf <- OwnProcess
    Files <- ThreeFiles
    ModulePath = module
    CommandLines <- SomeLines
    ConfigFiles <- FilesAt
    EnvVars <- OneVar
    DatabaseDefault = default
    Edits = 1
INVARIANTS
    TypeOK
    ConfiguredFilesOnly
    LoopPrepared
    FirstFileUsed
    OptionsTakeEffect
CHECK_DEADLOCK FALSE
