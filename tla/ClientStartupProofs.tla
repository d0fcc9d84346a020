-------------------------- MODULE ClientStartupProofs --------------------------
(***************************************************************************)
(* The start of a client, for any number of clients, command lines, config  *)
(* files and edits to them: what loop is entered with, which database files *)
(* are touched on the way, and which config file is used.                   *)
(***************************************************************************)
EXTENDS ClientStartup, TLAPS

\* Nothing of thread u changes.
SameThread(u) ==
    /\ stage'[u] = stage[u] /\ position'[u] = position[u] /\ source'[u] = source[u]
    /\ config'[u] = config[u] /\ settings'[u] = settings[u] /\ steady'[u] = steady[u]
    /\ conn'[u] = conn[u] /\ path'[ProcessOf[u]] = path[ProcessOf[u]]

\* What thread u has prepared is still there.
Kept == cmd' = cmd /\ ready \subseteq ready' /\ cleaned \subseteq cleaned'

-----------------------------------------------------------------------------
(* Steps as the other threads see them *)

\* A step of thread t leaves the other threads, their paths and connections alone,
\* for each is the only thread of its process.
LEMMA OthersUntouched ==
  ASSUME TypeOK, StartupTypes, NEW t \in Threads, StartupStep(t), NEW u \in Threads \ {t}
  PROVE  SameThread(u)
<1>1. /\ stage \in [Threads -> Stages] /\ position \in [Threads -> 1 .. Len(Places) + 1]
      /\ source \in [Threads -> DOMAIN disk \cup {None}]
      /\ config \in [Threads -> ClientConfig \cup {None}]
      /\ conn \in [Threads -> Files \cup {None}] /\ path \in [Processes -> Files]
      /\ settings = [v \in Threads |-> settings[v]]
      /\ steady = [v \in Threads |-> steady[v]]
  BY DEF TypeOK, StartupTypes, ConnectionsTypeOK
<1>2. ProcessOf[u] # ProcessOf[t] /\ ProcessOf[u] \in Processes
  BY StartupAssumption, ConnectionsAssumption
<1>3. CASE ParseArgs(t) \/ LookAt(t) \/ Find(t) \/ FindNothing(t) \/ Load(t) \/ LoadRaises(t)
  BY <1>1, <1>3
  DEF ParseArgs, LookAt, Find, FindNothing, Load, LoadRaises, Step, Configure, SameThread,
      connVars
<1>4. CASE ConfigureLogging(t) \/ ApplySchema(t) \/ Raises(t) \/ StartClient(t)
  BY <1>1, <1>4
  DEF ConfigureLogging, ApplySchema, InitDatabase, Raises, StartClient, Step, SameThread,
      connVars
<1>5. CASE SetPath(t)
  BY <1>1, <1>2, <1>5 DEF SetPath, SetDbPath, Disconnect, Step, SameThread
<1>6. CASE CleanUp(t) \/ CleanUpRaises(t)
  BY <1>1, <1>6 DEF CleanUp, CleanUpRaises, Connect, Step, SameThread
<1>7. QED
  BY <1>3, <1>4, <1>5, <1>6 DEF StartupStep

\* Command lines stay, tables and cleaned files are only added.
LEMMA NothingUndone ==
  ASSUME [Next]_vars
  PROVE  Kept
<1>1. ASSUME NEW t \in Threads, StartupStep(t)
      PROVE  Kept
  BY <1>1
  DEF StartupStep, ParseArgs, LookAt, Find, FindNothing, Load, LoadRaises, ConfigureLogging,
      SetPath, SetDbPath, ApplySchema, InitDatabase, CleanUp, CleanUpRaises, Raises,
      StartClient, Kept, connVars
<1>2. CASE EditConfig \/ UNCHANGED vars
  BY <1>2 DEF EditConfig, Kept, connVars, startVars, vars
<1>3. QED
  BY <1>1, <1>2 DEF Next

\* Config files are changed by nobody but their editors.
LEMMA FilesLeftAlone ==
  ASSUME NEW t \in Threads, StartupStep(t)
  PROVE  disk' = disk
BY DEF StartupStep, ParseArgs, LookAt, Find, FindNothing, Load, LoadRaises, ConfigureLogging,
   SetPath, ApplySchema, CleanUp, CleanUpRaises, Raises, StartClient

-----------------------------------------------------------------------------
(* What the file and the defaults make *)

\* A file that validates, and no file, give main a database, and an interval and a
\* timeout above zero.
LEMMA ConfigureType ==
  ASSUME StartupTypes, NEW t \in Threads, NEW file, Configure(t, file),
         file = NoFile \/ \E l \in DOMAIN ConfigFiles : file \in ConfigFiles[l] /\ file.valid
  PROVE  /\ config' \in [Threads -> ClientConfig \cup {None}]
         /\ config'[t] \in ClientConfig
<1>1. /\ file.database \in Files \cup {None}
      /\ file.interval \in (Nat \ {0}) \cup {None}
      /\ file.timeout \in (Nat \ {0}) \cup {None}
      /\ file.servers \in Seq(STRING)
  <2>1. CASE file = NoFile
    BY <2>1 DEF NoFile
  <2>2. CASE \E l \in DOMAIN ConfigFiles : file \in ConfigFiles[l] /\ file.valid
    BY <2>2, StartupAssumption DEF ConfigFile
  <2>3. QED
    BY <2>1, <2>2
<1>2. /\ Default(file.database, DatabaseDefault) \in Files
      /\ Default(file.interval, DEFAULT_INTERVAL) \in Nat \ {0}
      /\ Default(file.timeout, DEFAULT_TIMEOUT) \in Nat \ {0}
  BY <1>1, StartupAssumption DEF Default, DEFAULT_INTERVAL, DEFAULT_TIMEOUT
<1> DEFINE made == [database |-> Default(file.database, DatabaseDefault),
                    interval |-> Default(file.interval, DEFAULT_INTERVAL),
                    timeout  |-> Default(file.timeout, DEFAULT_TIMEOUT),
                    servers  |-> file.servers]
<1>3. made \in ClientConfig
  BY <1>1, <1>2 DEF ClientConfig
<1>4. config' = [config EXCEPT ![t] = made]
  BY DEF Configure
<1>5. config \in [Threads -> ClientConfig \cup {None}]
  BY DEF StartupTypes
<1> HIDE DEF made
<1>6. QED
  BY <1>3, <1>4, <1>5

\* A config once made is a ClientConfig, and there is none before.
ConfigOf(t) ==
    /\ config[t] \in ClientConfig \cup {None}
    /\ stage[t] \in BeforeConfig => config[t] = None
    /\ stage[t] \notin BeforeConfig \cup {"raised"} => config[t] # None

\* The config of a thread is made by FindNothing and Load, and never changed.
LEMMA ConfigStep ==
  ASSUME TypeOK, StartupTypes, NEW t \in Threads, SearchedInOrder(t), StartupStep(t)
  PROVE  /\ config' \in [Threads -> ClientConfig \cup {None}]
         /\ ConfigOf(t)'
         /\ config[t] # None => config'[t] = config[t]
<1>1. /\ stage[t] \in Stages /\ stage \in [Threads -> Stages]
      /\ config \in [Threads -> ClientConfig \cup {None}]
      /\ ConfigOf(t)
  BY DEF TypeOK, StartupTypes, ConfigOf
<1>2. CASE FindNothing(t)
  <2>1. stage[t] = "discover" /\ stage'[t] = "logging" /\ Configure(t, NoFile)
    BY <1>1, <1>2 DEF FindNothing, Step
  <2>2. config' \in [Threads -> ClientConfig \cup {None}] /\ config'[t] \in ClientConfig
    BY <2>1, ConfigureType
  <2>3. config[t] = None
    BY <1>1, <2>1 DEF ConfigOf, BeforeConfig
  <2>4. QED
    BY <2>1, <2>2, <2>3, StartupAssumption DEF ConfigOf, BeforeConfig
<1>3. CASE Load(t)
  <2>1. PICK file : file = disk[source[t]]
    OBVIOUS
  <2>2. /\ stage[t] = "load" /\ stage'[t] = "logging"
        /\ file # None /\ file.valid /\ Configure(t, file)
    BY <1>1, <1>3, <2>1 DEF Load, Step
  <2>3. source[t] \in DOMAIN disk /\ file \in ConfigFiles[source[t]]
    BY <2>1, <2>2 DEF SearchedInOrder, TypeOK
  <2>4. source[t] \in DOMAIN ConfigFiles
    BY <2>3 DEF StartupTypes
  <2>5. config' \in [Threads -> ClientConfig \cup {None}] /\ config'[t] \in ClientConfig
    BY <2>2, <2>3, <2>4, ConfigureType
  <2>6. config[t] = None
    BY <1>1, <2>2 DEF ConfigOf, BeforeConfig
  <2>7. QED
    BY <2>2, <2>5, <2>6, StartupAssumption DEF ConfigOf, BeforeConfig
<1>4. CASE ParseArgs(t) \/ LookAt(t) \/ Find(t) \/ LoadRaises(t)
  BY <1>1, <1>4 DEF ParseArgs, LookAt, Find, LoadRaises, Step, ConfigOf, BeforeConfig
<1>5. CASE ConfigureLogging(t) \/ SetPath(t) \/ ApplySchema(t) \/ CleanUp(t)
           \/ CleanUpRaises(t) \/ Raises(t) \/ StartClient(t)
  BY <1>1, <1>5
  DEF ConfigureLogging, SetPath, ApplySchema, CleanUp, CleanUpRaises, Raises, StartClient,
      Step, ConfigOf, BeforeConfig
<1>6. QED
  BY <1>2, <1>3, <1>4, <1>5 DEF StartupStep

-----------------------------------------------------------------------------
(* Types *)

\* Every variable keeps its type in a step of a client.
LEMMA TypeStep ==
  ASSUME TypeOK, StartupTypes, NEW t \in Threads, SearchedInOrder(t), StartupStep(t)
  PROVE  TypeOK' /\ StartupTypes'
<1>1. /\ config' \in [Threads -> ClientConfig \cup {None}]
      /\ ConfigOf(t)'
  BY ConfigStep
<1>2. \A u \in Threads \ {t} : SameThread(u)
  BY OthersUntouched
<1>3. disk' = disk
  BY FilesLeftAlone
<1>4. \A u \in Threads : ConfigOf(u)'
  <2>1. SUFFICES ASSUME NEW u \in Threads \ {t}
                 PROVE  ConfigOf(u)'
    BY <1>1
  <2>2. stage'[u] = stage[u] /\ config'[u] = config[u] /\ ConfigOf(u)
    BY <1>2, <2>1 DEF SameThread, ConfigOf, StartupTypes
  <2>3. QED
    BY <2>2 DEF ConfigOf
<1>5. settings' = [u \in Threads |-> settings'[u]] /\ steady' = [u \in Threads |-> steady'[u]]
  <2>1. settings = [u \in Threads |-> settings[u]] /\ steady = [u \in Threads |-> steady[u]]
    BY DEF StartupTypes
  <2>2. CASE StartClient(t)
    <3>1. PICK x : settings' = [settings EXCEPT ![t] = x]
      BY <2>2 DEF StartClient
    <3>2. steady' = steady
      BY <2>2 DEF StartClient
    <3>3. QED
      BY <2>1, <3>1, <3>2
  <2>3. CASE ParseArgs(t)
    <3>1. PICK x : steady' = [steady EXCEPT ![t] = x]
      BY <2>3 DEF ParseArgs
    <3>2. settings' = settings
      BY <2>3 DEF ParseArgs
    <3>3. QED
      BY <2>1, <3>1, <3>2
  <2>4. CASE settings' = settings /\ steady' = steady
    BY <2>1, <2>4
  <2>5. QED
    BY <2>2, <2>3, <2>4
    DEF StartupStep, LookAt, Find, FindNothing, Load, LoadRaises, ConfigureLogging, SetPath,
        ApplySchema, CleanUp, CleanUpRaises, Raises
<1>6. StartupTypes'
  BY <1>1, <1>3, <1>4, <1>5 DEF StartupTypes, ConfigOf
<1>7. ConnectionsTypeOK'
  <2>1. ConnectionsTypeOK /\ ProcessOf[t] \in Processes /\ File(t) \in Files
    BY ConnectionsAssumption DEF TypeOK, ConnectionsTypeOK, File
  <2>2. CASE SetPath(t)
    <3>1. stage[t] = "set_db_path" /\ config[t] \in ClientConfig
      BY <2>2 DEF SetPath, Step, StartupTypes, BeforeConfig
    <3>2. config[t].database \in Files
      BY <3>1 DEF ClientConfig
    <3>3. QED
      BY <2>1, <2>2, <3>2 DEF SetPath, SetDbPath, Disconnect, ConnectionsTypeOK
  <2>3. CASE ApplySchema(t)
    BY <2>1, <2>3 DEF ApplySchema, InitDatabase, ConnectionsTypeOK
  <2>4. CASE CleanUp(t) \/ CleanUpRaises(t)
    BY <2>1, <2>4 DEF CleanUp, CleanUpRaises, Connect, ConnectionsTypeOK
  <2>5. CASE UNCHANGED connVars
    BY <2>1, <2>5 DEF connVars, ConnectionsTypeOK
  <2>6. QED
    BY <2>2, <2>3, <2>4, <2>5
    DEF StartupStep, ParseArgs, LookAt, Find, FindNothing, Load, LoadRaises,
        ConfigureLogging, Raises, StartClient
<1>8. /\ stage' \in [Threads -> Stages] /\ cmd' \in [Threads -> CommandLines]
      /\ position' \in [Threads -> 1 .. Len(Places) + 1]
      /\ source' \in [Threads -> DOMAIN disk \cup {None}]
      /\ cleaned' \subseteq Threads
  <2>1. /\ stage \in [Threads -> Stages] /\ cmd \in [Threads -> CommandLines]
        /\ position \in [Threads -> 1 .. Len(Places) + 1]
        /\ source \in [Threads -> DOMAIN disk \cup {None}]
        /\ cleaned \subseteq Threads
    BY DEF TypeOK
  <2>2. CASE LookAt(t)
    <3>1. position[t] \in 1 .. Len(Places) + 1 /\ position[t] <= Len(Places)
          /\ position' = [position EXCEPT ![t] = @ + 1] /\ Len(Places) = 6
      BY <2>1, <2>2 DEF LookAt, Places
    <3>2. position' \in [Threads -> 1 .. Len(Places) + 1]
      BY <2>1, <3>1
    <3>3. QED
      BY <2>1, <2>2, <3>2 DEF LookAt, Step, Stages
  <2>3. CASE Find(t)
    <3>1. Places[position[t]] \in DOMAIN disk
      <4>1. position[t] \in DOMAIN Places
        BY <2>3 DEF Find, Candidates
      <4>2. Places[position[t]] \in DOMAIN ConfigFiles
        BY <4>1, StartupAssumption
      <4>3. QED
        BY <4>2 DEF StartupTypes
    <3>2. QED
      BY <2>1, <2>3, <3>1 DEF Find, Step, Stages
  <2>4. CASE ParseArgs(t) \/ FindNothing(t) \/ Load(t) \/ LoadRaises(t)
    BY <2>1, <2>4 DEF ParseArgs, FindNothing, Load, LoadRaises, Step, Stages
  <2>5. CASE ConfigureLogging(t) \/ SetPath(t) \/ ApplySchema(t) \/ CleanUp(t)
             \/ CleanUpRaises(t) \/ Raises(t) \/ StartClient(t)
    BY <2>1, <2>5
    DEF ConfigureLogging, SetPath, ApplySchema, CleanUp, CleanUpRaises, Raises, StartClient,
        Step, Stages
  <2>6. QED
    BY <2>2, <2>3, <2>4, <2>5 DEF StartupStep
<1>9. \A u \in Threads : stage'[u] \notin {"parse", "discover", "load", "raised"} =>
        /\ config'[u].interval > 0 /\ config'[u].timeout > 0
        /\ config'[u].database \in Files
  <2>1. SUFFICES ASSUME NEW u \in Threads,
                        stage'[u] \notin {"parse", "discover", "load", "raised"}
                 PROVE  config'[u] \in ClientConfig
    BY DEF ClientConfig
  <2>2. ConfigOf(u)'
    BY <1>4
  <2>3. QED
    BY <2>1, <2>2 DEF ConfigOf, BeforeConfig
<1>10. \A l \in DOMAIN disk : disk'[l] \in ConfigFiles[l] \cup {None}
  BY <1>3 DEF TypeOK
<1>11. TypeOK'
  BY <1>3, <1>7, <1>8, <1>9, <1>10 DEF TypeOK
<1>12. QED
  BY <1>6, <1>11

\* Nor does an edit of a config file disturb them.
LEMMA EditType ==
  ASSUME TypeOK, StartupTypes, EditConfig
  PROVE  TypeOK' /\ StartupTypes'
<1>1. PICK l \in DOMAIN disk : \E file \in ConfigFiles[l] \cup {None} :
        /\ disk' = [disk EXCEPT ![l] = file]
        /\ steady' = [t \in Threads |-> IF file = None THEN steady[t] \ {l} ELSE steady[t]]
  BY DEF EditConfig
<1>2. PICK file \in ConfigFiles[l] \cup {None} :
        /\ disk' = [disk EXCEPT ![l] = file]
        /\ steady' = [t \in Threads |-> IF file = None THEN steady[t] \ {l} ELSE steady[t]]
  BY <1>1
<1>3. /\ disk \in [DOMAIN ConfigFiles -> ConfigFile \cup {None}] /\ l \in DOMAIN ConfigFiles
      /\ file \in ConfigFile \cup {None}
  BY <1>2, StartupAssumption DEF StartupTypes
<1>4. /\ disk' \in [DOMAIN ConfigFiles -> ConfigFile \cup {None}] /\ DOMAIN disk' = DOMAIN disk
      /\ \A k \in DOMAIN disk : disk'[k] = IF k = l THEN file ELSE disk[k]
  BY <1>2, <1>3
<1>5. steady' = [t \in Threads |-> steady'[t]]
  BY <1>2
<1>6. UNCHANGED <<connVars, stage, cmd, position, source, config, settings, cleaned>>
  BY DEF EditConfig
<1>7. StartupTypes'
  BY <1>4, <1>5, <1>6 DEF StartupTypes
<1>8. TypeOK'
  BY <1>2, <1>4, <1>6 DEF TypeOK, ConnectionsTypeOK, connVars
<1>9. QED
  BY <1>7, <1>8

-----------------------------------------------------------------------------
(* The search for a config file *)

\* A step of the search goes past places where no file is, and stops at the first.
LEMMA SearchStep ==
  ASSUME TypeOK, StartupTypes, NEW t \in Threads, SearchedInOrder(t), StartupStep(t)
  PROVE  SearchedInOrder(t)'
<1>1. /\ stage \in [Threads -> Stages] /\ position \in [Threads -> 1 .. Len(Places) + 1]
      /\ source \in [Threads -> DOMAIN disk \cup {None}]
      /\ steady = [u \in Threads |-> steady[u]]
      /\ Len(Places) = 6
  BY DEF TypeOK, StartupTypes, Places
<1>2. /\ disk' = disk /\ Occupied' = Occupied /\ cmd' = cmd /\ Candidates(t)' = Candidates(t)
  <2>1. [Next]_vars
    BY DEF Next
  <2>2. QED
    BY <2>1, FilesLeftAlone, NothingUndone DEF Kept, Occupied, Candidates, IsCandidate
<1>3. SearchedInOrder(t)
  OBVIOUS
<1>4. config[t] # None => stage[t] \notin BeforeConfig
  BY DEF StartupTypes
<1>5. CASE ParseArgs(t)
  <2>1. /\ stage[t] = "parse" /\ stage'[t] = "discover" /\ steady'[t] = Occupied
        /\ position'[t] = position[t] /\ config'[t] = config[t] /\ config[t] = None
    BY <1>1, <1>4, <1>5 DEF ParseArgs, Step, BeforeConfig
  <2>2. position[t] = 1
    BY <2>1 DEF SearchedInOrder
  <2>3. \A i \in Candidates(t) : ~(i < 1)
    BY <1>1 DEF Candidates, Places
  <2>4. QED
    BY <1>2, <2>1, <2>2, <2>3 DEF SearchedInOrder
<1>6. CASE LookAt(t)
  <2>1. /\ stage[t] = "discover" /\ stage'[t] = "discover" /\ steady'[t] = steady[t]
        /\ position'[t] = position[t] + 1 /\ position[t] \in 1 .. 6
        /\ config'[t] = config[t] /\ config[t] = None
        /\ position[t] \in Candidates(t) => disk[Places[position[t]]] = None
    BY <1>1, <1>4, <1>6 DEF LookAt, Step, BeforeConfig
  <2>2. ASSUME NEW i \in Candidates(t), i < position[t] + 1
        PROVE  Places[i] \notin steady[t]
    <3>1. CASE i < position[t]
      BY <2>2, <3>1 DEF SearchedInOrder
    <3>2. CASE i = position[t]
      BY <2>1, <2>2, <3>2 DEF SearchedInOrder, Occupied
    <3>3. i \in Int
      BY <1>1 DEF Candidates
    <3>4. QED
      BY <2>1, <2>2, <3>1, <3>2, <3>3
  <2>3. QED
    BY <1>2, <2>1, <2>2 DEF SearchedInOrder
<1>7. CASE Find(t)
  <2>1. /\ stage[t] = "discover" /\ stage'[t] = "load" /\ steady'[t] = steady[t]
        /\ position'[t] = position[t] /\ position[t] \in Candidates(t)
        /\ source'[t] = Places[position[t]] /\ config'[t] = config[t]
    BY <1>1, <1>7 DEF Find, Step
  <2>2. source'[t] \in DOMAIN ConfigFiles
    BY <2>1, StartupAssumption DEF Candidates
  <2>3. source'[t] # None
    BY <2>2, StartupAssumption
  <2>4. QED
    BY <1>2, <2>1, <2>3 DEF SearchedInOrder
<1>8. CASE FindNothing(t)
  <2>1. /\ stage'[t] = "logging" /\ steady'[t] = steady[t]
        /\ position'[t] = position[t] /\ position[t] > Len(Places) /\ source'[t] = source[t]
    BY <1>1, <1>8 DEF FindNothing, Step
  <2>2. QED
    BY <1>2, <2>1 DEF SearchedInOrder
<1>9. CASE Load(t)
  <2>1. /\ stage[t] = "load" /\ stage'[t] = "logging" /\ steady'[t] = steady[t]
        /\ position'[t] = position[t] /\ source'[t] = source[t]
    BY <1>1, <1>9 DEF Load, Step
  <2>2. QED
    BY <1>2, <2>1 DEF SearchedInOrder
<1>10. CASE ~ParseArgs(t) /\ ~LookAt(t) /\ ~Find(t) /\ ~FindNothing(t) /\ ~Load(t)
  <2>1. /\ stage'[t] \notin {"parse", "load"} /\ steady'[t] = steady[t]
        /\ position'[t] = position[t] /\ source'[t] = source[t] /\ config'[t] = config[t]
    BY <1>1, <1>10
    DEF StartupStep, LoadRaises, ConfigureLogging, SetPath, ApplySchema, CleanUp,
        CleanUpRaises, Raises, StartClient, Step
  <2>2. QED
    BY <1>2, <2>1 DEF SearchedInOrder
<1>11. QED
  BY <1>5, <1>6, <1>7, <1>8, <1>9, <1>10

\* An edit that takes a file away takes its place off the list of the steady ones.
LEMMA SearchWhileEdited ==
  ASSUME TypeOK, StartupTypes, NEW t \in Threads, SearchedInOrder(t), EditConfig
  PROVE  SearchedInOrder(t)'
<1>1. PICK l \in DOMAIN disk : \E file \in ConfigFiles[l] \cup {None} :
        /\ disk' = [disk EXCEPT ![l] = file]
        /\ steady' = [u \in Threads |-> IF file = None THEN steady[u] \ {l} ELSE steady[u]]
  BY DEF EditConfig
<1>2. PICK file \in ConfigFiles[l] \cup {None} :
        /\ disk' = [disk EXCEPT ![l] = file]
        /\ steady' = [u \in Threads |-> IF file = None THEN steady[u] \ {l} ELSE steady[u]]
  BY <1>1
<1>3. /\ stage' = stage /\ cmd' = cmd /\ position' = position /\ source' = source
      /\ config' = config
  BY DEF EditConfig
<1>4. Candidates(t)' = Candidates(t)
  BY <1>3 DEF Candidates, IsCandidate
<1>5. steady'[t] \subseteq steady[t] /\ (file = None => l \notin steady'[t])
  BY <1>2
<1>6. DOMAIN disk' = DOMAIN disk /\ \A k \in DOMAIN disk : disk'[k] = IF k = l THEN file ELSE disk[k]
  BY <1>2
<1>7. steady'[t] \subseteq Occupied'
  BY <1>5, <1>6 DEF SearchedInOrder, Occupied
<1>8. QED
  BY <1>3, <1>4, <1>5, <1>7 DEF SearchedInOrder
-----------------------------------------------------------------------------
(* The path, the connection and the settings *)

\* A connection is made by cleanup_old_data, when the path of the process is the
\* configured one, and kept; set_db_path, which moves the path, comes before.
LEMMA PathStep ==
  ASSUME TypeOK, StartupTypes, NEW t \in Threads, SearchedInOrder(t), PathFollowsConfig(t),
         StartupStep(t)
  PROVE  PathFollowsConfig(t)'
<1>1. /\ stage \in [Threads -> Stages] /\ conn \in [Threads -> Files \cup {None}]
      /\ path \in [Processes -> Files] /\ ProcessOf[t] \in Processes
  BY ConnectionsAssumption DEF TypeOK, ConnectionsTypeOK
<1>2. /\ ConfigOf(t) /\ ConfigOf(t)'
      /\ config[t] # None => config'[t] = config[t]
  BY ConfigStep DEF StartupTypes, ConfigOf
<1>3. ready \subseteq ready' /\ cleaned \subseteq cleaned'
  <2>1. [Next]_vars
    BY DEF Next
  <2>2. QED
    BY <2>1, NothingUndone DEF Kept
<1>4. CASE SetPath(t)
  <2>1. /\ stage'[t] = "init_database" /\ conn'[t] = None /\ config' = config
        /\ path'[ProcessOf[t]] = config[t].database
    BY <1>1, <1>4 DEF SetPath, SetDbPath, Disconnect, Step
  <2>2. QED
    BY <2>1 DEF PathFollowsConfig
<1>5. CASE CleanUp(t)
  <2>1. /\ stage[t] = "cleanup" /\ stage'[t] = "client" /\ conn'[t] = File(t)
        /\ path' = path /\ config' = config /\ File(t) \in ready /\ t \in cleaned'
    BY <1>1, <1>5 DEF CleanUp, Connect, Step
  <2>2. conn[t] = None /\ path[ProcessOf[t]] = config[t].database
    BY <2>1 DEF PathFollowsConfig
  <2>3. File(t) = config[t].database /\ File(t) \in Files
    BY <1>1, <2>2 DEF File
  <2>4. conn'[t] # None
    BY <2>1, <2>3, ConnectionsAssumption
  <2>5. config[t] # None
    BY <1>2, <2>1 DEF ConfigOf, BeforeConfig
  <2>6. QED
    BY <1>3, <2>1, <2>2, <2>3, <2>4, <2>5 DEF PathFollowsConfig
<1>6. CASE CleanUpRaises(t)
  <2>1. /\ stage[t] = "cleanup" /\ stage'[t] = "raised" /\ conn'[t] \in {conn[t], File(t)}
        /\ config' = config
    BY <1>1, <1>6 DEF CleanUpRaises, Step
  <2>2. conn[t] = None /\ path[ProcessOf[t]] = config[t].database
    BY <2>1 DEF PathFollowsConfig
  <2>3. config[t] # None
    BY <1>2, <2>1 DEF ConfigOf, BeforeConfig
  <2>4. QED
    BY <2>1, <2>2, <2>3 DEF PathFollowsConfig, File
<1>7. CASE StartClient(t)
  <2>1. /\ stage[t] = "client" /\ stage'[t] = "loop"
        /\ config' = config /\ path' = path /\ conn' = conn
    BY <1>1, <1>7 DEF StartClient, Step, connVars
  <2>2. QED
    BY <1>3, <2>1 DEF PathFollowsConfig
<1>8. CASE ApplySchema(t)
  <2>1. /\ stage[t] = "init_database" /\ stage'[t] = "cleanup"
        /\ config' = config /\ path' = path /\ conn' = conn
    BY <1>1, <1>8 DEF ApplySchema, InitDatabase, Step
  <2>2. QED
    BY <2>1 DEF PathFollowsConfig
<1>9. CASE Raises(t)
  <2>1. /\ stage'[t] = "raised" /\ config' = config /\ path' = path /\ conn' = conn
    BY <1>1, <1>9 DEF Raises, Step, connVars
  <2>2. QED
    BY <2>1 DEF PathFollowsConfig
<1>10. CASE ParseArgs(t) \/ LookAt(t) \/ Find(t) \/ FindNothing(t) \/ Load(t) \/ LoadRaises(t)
            \/ ConfigureLogging(t)
  <2>1. /\ stage[t] \notin {"client", "loop", "raised"}
        /\ stage'[t] \notin {"init_database", "cleanup", "client", "loop"}
        /\ conn'[t] = conn[t]
    BY <1>1, <1>10
    DEF ParseArgs, LookAt, Find, FindNothing, Load, LoadRaises, ConfigureLogging, Step, connVars
  <2>2. conn[t] = None
    BY <2>1 DEF PathFollowsConfig
  <2>3. QED
    BY <2>1, <2>2 DEF PathFollowsConfig
<1>11. QED
  BY <1>4, <1>5, <1>6, <1>7, <1>8, <1>9, <1>10 DEF StartupStep

\* What a thread has set up, the other threads leave as it is.
LEMMA OthersKept ==
  ASSUME NEW u \in Threads, SameThread(u), Kept, disk' = disk,
         SearchedInOrder(u), PathFollowsConfig(u), SettingsDecided(u)
  PROVE  SearchedInOrder(u)' /\ PathFollowsConfig(u)' /\ SettingsDecided(u)'
<1>1. Candidates(u)' = Candidates(u) /\ Occupied' = Occupied
  BY DEF Kept, Candidates, IsCandidate, Occupied
<1>2. SearchedInOrder(u)'
  BY <1>1 DEF SameThread, SearchedInOrder
<1>3. PathFollowsConfig(u)'
  BY DEF SameThread, Kept, PathFollowsConfig
<1>4. /\ Hosts(u)' = Hosts(u) /\ Interval(u)' = Interval(u) /\ Timeout(u)' = Timeout(u)
      /\ Rounds(u)' = Rounds(u)
  BY DEF SameThread, Kept, Hosts, Interval, Timeout, Rounds
<1>5. SettingsDecided(u)'
  BY <1>4 DEF SameThread, SettingsDecided
<1>6. QED
  BY <1>2, <1>3, <1>5

\* loop is entered through StartClient alone.
LEMMA SettingsStep ==
  ASSUME TypeOK, StartupTypes, NEW t \in Threads, SettingsDecided(t), StartupStep(t)
  PROVE  SettingsDecided(t)'
<1>1. stage \in [Threads -> Stages] /\ settings = [u \in Threads |-> settings[u]]
  BY DEF TypeOK, StartupTypes
<1>2. CASE StartClient(t)
  <2>1. /\ Hosts(t)' = Hosts(t) /\ Interval(t)' = Interval(t) /\ Timeout(t)' = Timeout(t)
        /\ Rounds(t)' = Rounds(t)
    BY <1>2 DEF StartClient, Hosts, Interval, Timeout, Rounds
  <2>2. settings'[t] = [hosts |-> Hosts(t), interval |-> Interval(t), timeout |-> Timeout(t),
                        count |-> Rounds(t)]
    BY <1>1, <1>2 DEF StartClient
  <2>3. QED
    BY <2>1, <2>2 DEF SettingsDecided
<1>3. CASE ~StartClient(t)
  <2>1. stage'[t] # "loop"
    BY <1>1, <1>3
    DEF StartupStep, ParseArgs, LookAt, Find, FindNothing, Load, LoadRaises, ConfigureLogging,
        SetPath, ApplySchema, CleanUp, CleanUpRaises, Raises, Step
  <2>2. QED
    BY <2>1 DEF SettingsDecided
<1>4. QED
  BY <1>2, <1>3

\* The schema goes to the file the process is at, which its config names; and no
\* client loses its config.
LEMMA ReadyStep ==
  ASSUME TypeOK, StartupTypes, ReadyIsConfigured, NEW t \in Threads, SearchedInOrder(t),
         PathFollowsConfig(t), StartupStep(t)
  PROVE  ReadyIsConfigured'
<1>1. \A u \in Threads : config[u] # None => config'[u] = config[u]
  BY OthersUntouched, ConfigStep DEF SameThread
<1>2. SUFFICES ASSUME NEW f \in ready'
               PROVE  \E u \in Threads : config'[u] # None /\ config'[u].database = f
  BY DEF ReadyIsConfigured
<1>3. CASE f \in ready
  <2>1. PICK u \in Threads : config[u] # None /\ config[u].database = f
    BY <1>3 DEF ReadyIsConfigured
  <2>2. config'[u] = config[u]
    BY <1>1, <2>1
  <2>3. QED
    BY <2>1, <2>2
<1>4. CASE f \notin ready
  <2>1. ApplySchema(t)
    BY <1>4
    DEF StartupStep, ParseArgs, LookAt, Find, FindNothing, Load, LoadRaises, ConfigureLogging,
        SetPath, SetDbPath, CleanUp, CleanUpRaises, Raises, StartClient, connVars
  <2>2. stage[t] = "init_database" /\ f = path[ProcessOf[t]]
    BY <1>4, <2>1 DEF ApplySchema, InitDatabase, Step
  <2>3. config[t] # None /\ config[t].database = f
    BY <2>2 DEF StartupTypes, PathFollowsConfig, BeforeConfig
  <2>4. config'[t] = config[t]
    BY <1>1, <2>3
  <2>5. QED
    BY <2>3, <2>4
<1>5. QED
  BY <1>3, <1>4

-----------------------------------------------------------------------------
(* The invariant *)

\* Before main runs nothing is decided, looked at or connected.
LEMMA StartupInitially == Init => Startup
<1>1. SUFFICES ASSUME Init
               PROVE  Startup
  OBVIOUS
<1>2. /\ stage = [t \in Threads |-> "parse"] /\ cmd \in [Threads -> CommandLines]
      /\ position = [t \in Threads |-> 1] /\ source = [t \in Threads |-> None]
      /\ config = [t \in Threads |-> None] /\ settings = [t \in Threads |-> None]
      /\ disk \in [DOMAIN ConfigFiles ->
                     UNION {ConfigFiles[l] : l \in DOMAIN ConfigFiles} \cup {None}]
      /\ \A l \in DOMAIN disk : disk[l] \in ConfigFiles[l] \cup {None}
      /\ steady = [t \in Threads |-> {}] /\ cleaned = {}
      /\ path = [p \in Processes |-> ModulePath] /\ conn = [t \in Threads |-> None]
      /\ ready = {}
  BY <1>1 DEF Init, ConnectionsInit
<1>3. disk \in [DOMAIN ConfigFiles -> ConfigFile \cup {None}]
  BY <1>2, StartupAssumption
<1>4. StartupTypes
  BY <1>2, <1>3 DEF StartupTypes, BeforeConfig
<1>5. TypeOK
  <2>1. ConnectionsTypeOK
    BY <1>2, ConnectionsAssumption DEF ConnectionsTypeOK
  <2>2. 1 \in 1 .. Len(Places) + 1
    BY DEF Places
  <2>3. QED
    BY <1>2, <2>1, <2>2 DEF TypeOK, Stages
<1>6. ReadyIsConfigured
  BY <1>2 DEF ReadyIsConfigured
<1>7. ASSUME NEW t \in Threads
      PROVE  SearchedInOrder(t) /\ PathFollowsConfig(t) /\ SettingsDecided(t)
  BY <1>2 DEF SearchedInOrder, PathFollowsConfig, SettingsDecided
<1>8. QED
  BY <1>4, <1>5, <1>6, <1>7 DEF Startup

\* The invariant holds after every step of a client, every edit, and every stutter.
LEMMA StartupKept == Startup /\ [Next]_vars => Startup'
<1>1. SUFFICES ASSUME Startup, [Next]_vars
               PROVE  Startup'
  OBVIOUS
<1>2. /\ TypeOK /\ StartupTypes /\ ReadyIsConfigured
      /\ \A t \in Threads : SearchedInOrder(t) /\ PathFollowsConfig(t) /\ SettingsDecided(t)
  BY <1>1 DEF Startup
<1>3. Kept
  BY <1>1, NothingUndone
<1>4. ASSUME NEW t \in Threads, StartupStep(t)
      PROVE  Startup'
  <2>1. TypeOK' /\ StartupTypes'
    BY <1>2, <1>4, TypeStep
  <2>2. ReadyIsConfigured'
    BY <1>2, <1>4, ReadyStep
  <2>3. SearchedInOrder(t)' /\ PathFollowsConfig(t)' /\ SettingsDecided(t)'
    BY <1>2, <1>4, SearchStep, PathStep, SettingsStep
  <2>4. ASSUME NEW u \in Threads \ {t}
        PROVE  SearchedInOrder(u)' /\ PathFollowsConfig(u)' /\ SettingsDecided(u)'
    <3>1. SameThread(u)
      BY <1>2, <1>4, OthersUntouched
    <3>2. disk' = disk
      BY <1>4, FilesLeftAlone
    <3>3. QED
      BY <1>2, <1>3, <3>1, <3>2, OthersKept
  <2>5. QED
    BY <2>1, <2>2, <2>3, <2>4 DEF Startup
<1>5. CASE EditConfig
  <2>1. TypeOK' /\ StartupTypes'
    BY <1>2, <1>5, EditType
  <2>2. /\ path' = path /\ conn' = conn /\ ready' = ready
        /\ UNCHANGED <<stage, cmd, position, source, config, settings, cleaned>>
    BY <1>5 DEF EditConfig, connVars
  <2>3. ReadyIsConfigured'
    BY <1>2, <2>2 DEF ReadyIsConfigured
  <2>4. ASSUME NEW t \in Threads
        PROVE  SearchedInOrder(t)' /\ PathFollowsConfig(t)' /\ SettingsDecided(t)'
    <3>1. SearchedInOrder(t)'
      BY <1>2, <1>5, SearchWhileEdited
    <3>2. PathFollowsConfig(t)'
      BY <1>2, <2>2 DEF PathFollowsConfig
    <3>3. SettingsDecided(t)'
      BY <1>2, <2>2 DEF SettingsDecided, Hosts, Interval, Timeout, Rounds
    <3>4. QED
      BY <3>1, <3>2, <3>3
  <2>5. QED
    BY <2>1, <2>3, <2>4 DEF Startup
<1>6. CASE UNCHANGED vars
  <2>1. /\ path' = path /\ conn' = conn /\ ready' = ready
        /\ UNCHANGED <<stage, cmd, position, source, config, settings, disk, steady, cleaned>>
    BY <1>6 DEF vars, connVars, startVars
  <2>2. TypeOK' /\ StartupTypes' /\ ReadyIsConfigured'
    BY <1>2, <2>1 DEF TypeOK, ConnectionsTypeOK, StartupTypes, ReadyIsConfigured
  <2>3. ASSUME NEW t \in Threads
        PROVE  SearchedInOrder(t)' /\ PathFollowsConfig(t)' /\ SettingsDecided(t)'
    <3>1. SameThread(t) /\ disk' = disk
      BY <2>1 DEF SameThread
    <3>2. QED
      BY <1>2, <1>3, <3>1, OthersKept
  <2>4. QED
    BY <2>2, <2>3 DEF Startup
<1>7. QED
  BY <1>1, <1>4, <1>5, <1>6 DEF Next

\* The invariant holds throughout the start of every client.
LEMMA AlwaysStartup == Spec => []Startup
BY StartupInitially, StartupKept, PTL DEF Spec

\* What a client in loop has in each of its settings.
LEMMA DecidedAtLoop ==
  ASSUME Startup, NEW t \in Threads, stage[t] = "loop"
  PROVE  /\ settings[t].hosts = Hosts(t) /\ settings[t].interval = Interval(t)
         /\ settings[t].timeout = Timeout(t) /\ settings[t].count = Rounds(t)
<1>1. SettingsDecided(t)
  BY DEF Startup
<1>2. settings[t] = [hosts |-> Hosts(t), interval |-> Interval(t), timeout |-> Timeout(t),
                     count |-> Rounds(t)]
  BY <1>1 DEF SettingsDecided
<1>3. QED
  BY <1>2

-----------------------------------------------------------------------------
(* The properties *)

\* Main has the types the code gives its variables, and from the return of load_config
\* until loop, or until it raises, a database, and an interval and timeout above zero.
THEOREM StartupTypeCorrect == Spec => []TypeOK
<1>1. Startup => TypeOK
  BY DEF Startup
<1>2. QED
  BY <1>1, AlwaysStartup, PTL

\* Whatever the other clients do, and whichever of its own steps fails, a starting
\* client makes tables in, and opens, no database file but a configured one.
THEOREM OnlyConfiguredFiles == Spec => []ConfiguredFilesOnly
<1>1. ASSUME Startup
      PROVE  ConfiguredFilesOnly
  <2>1. ASSUME NEW t \in Threads, config[t] # None
        PROVE  Loaded(t)
    BY <1>1, <2>1 DEF Startup, StartupTypes, BeforeConfig, Loaded
  <2>2. ready \subseteq {config[t].database : t \in {u \in Threads : Loaded(u)}}
    BY <1>1, <2>1 DEF Startup, ReadyIsConfigured
  <2>3. \A t \in Threads : conn[t] # None => Loaded(t) /\ conn[t] = config[t].database
    BY <1>1, <2>1 DEF Startup, PathFollowsConfig
  <2>4. QED
    BY <2>2, <2>3 DEF ConfiguredFilesOnly
<1>2. QED
  BY <1>1, AlwaysStartup, PTL

\* Whatever fails before it, loop is entered only with the connection on a file that
\* has its tables and was cleaned, and with a host to probe.
THEOREM LoopIsPrepared == Spec => []LoopPrepared
<1>1. ASSUME Startup
      PROVE  LoopPrepared
  <2>1. SUFFICES ASSUME NEW t \in Threads, stage[t] = "loop"
                 PROVE  /\ conn[t] = config[t].database /\ conn[t] \in ready
                        /\ t \in cleaned /\ settings[t].hosts # << >>
    BY DEF LoopPrepared
  <2>2. /\ conn[t] = config[t].database /\ conn[t] \in ready /\ t \in cleaned
    BY <1>1, <2>1 DEF Startup, PathFollowsConfig
  <2>3. cmd[t] \in CommandLines
    BY <1>1 DEF Startup, TypeOK
  <2>4. cmd[t].hosts # << >>
    BY <2>3, StartupAssumption
  <2>5. LocalHost # << >>
    BY DEF LocalHost
  <2>6. Hosts(t) # << >>
    BY <2>4, <2>5 DEF Hosts, Default
  <2>7. settings[t].hosts = Hosts(t)
    BY <1>1, <2>1, DecidedAtLoop
  <2>8. QED
    BY <2>2, <2>6, <2>7
<1>2. QED
  BY <1>1, AlwaysStartup, PTL

\* However config files come and go during the search, a place that has held one all
\* the time is never passed over for a later place, nor for the defaults.
THEOREM FirstFileIsUsed == Spec => []FirstFileUsed
<1>1. ASSUME Startup
      PROVE  FirstFileUsed
  <2>1. SUFFICES ASSUME NEW t \in Threads, Loaded(t), NEW i \in Candidates(t),
                        Places[i] \in steady[t]
                 PROVE  \E j \in Candidates(t) : j <= i /\ source[t] = Places[j]
    BY DEF FirstFileUsed
  <2>2. /\ SearchedInOrder(t) /\ config[t] # None
        /\ position[t] \in 1 .. Len(Places) + 1 /\ Len(Places) = 6
        /\ i \in 1 .. 6
    BY <1>1, <2>1 DEF Startup, TypeOK, Loaded, Candidates, Places
  <2>3. ~(i < position[t])
    BY <2>1, <2>2 DEF SearchedInOrder
  <2>4. position[t] \in Candidates(t) /\ source[t] = Places[position[t]]
    BY <2>2, <2>3 DEF SearchedInOrder
  <2>5. QED
    BY <2>2, <2>3, <2>4
<1>2. QED
  BY <1>1, AlwaysStartup, PTL

\* The client runs with an interval that was typed, with a timeout and hosts that were
\* typed and differ from their defaults, and with the file's timeout and servers where
\* none were typed.  A typed timeout or host equal to its default is excepted: the file's
\* wins over it (client.py:433, 441), as run v_precedence shows.
THEOREM OptionsAreUsed == Spec => []OptionsTakeEffect
<1>1. ASSUME Startup
      PROVE  OptionsTakeEffect
  <2>1. SUFFICES ASSUME NEW t \in Threads, stage[t] = "loop"
                 PROVE  /\ cmd[t].interval # None => settings[t].interval = cmd[t].interval
                        /\ cmd[t].timeout \notin {None, DEFAULT_TIMEOUT} =>
                             settings[t].timeout = cmd[t].timeout
                        /\ cmd[t].timeout = None => settings[t].timeout = config[t].timeout
                        /\ cmd[t].hosts \notin {None, LocalHost} =>
                             settings[t].hosts = cmd[t].hosts
                        /\ cmd[t].hosts = None /\ config[t].servers # << >> =>
                             settings[t].hosts = config[t].servers
    BY DEF OptionsTakeEffect
  <2>2. /\ settings[t].hosts = Hosts(t) /\ settings[t].interval = Interval(t)
        /\ settings[t].timeout = Timeout(t)
    BY <1>1, <2>1, DecidedAtLoop
  <2>3. QED
    BY <2>2 DEF Hosts, Interval, Timeout, Default
<1>2. QED
  BY <1>1, AlwaysStartup, PTL
=============================================================================
