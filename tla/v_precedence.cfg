\* One client with defaults typed, and one config file, with every key.
SPECIFICATION Spec
CONSTANTS
    t1 = t1
    t2 = t2
    module = module
    default = default
    named = named
    None = None
    Processes <- OneClient
    Threads <- OneClient
    ProcessOf <- OwnProcess
    Files <- ThreeFiles
    ModulePath = module
    CommandLines <- DefaultsTyped
    ConfigFiles <- FullFile
    EnvVars <- OneVar
    DatabaseDefault = default
    Edits = 1
INVARIANTS
    Precedence
CHECK_DEADLOCK FALSE
