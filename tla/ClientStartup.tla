---------------------------- MODULE ClientStartup ----------------------------
(***************************************************************************)
(* main() of client.py and load_config() of config.py, from the command     *)
(* line to the monitoring loop, for clients that start side by side while   *)
(* somebody edits the config files and sqlite, the log file and the socket  *)
(* may fail.  Every failure raises through main and ends the client.        *)
(***************************************************************************)
EXTENDS Connections, Sequences

CONSTANTS
    CommandLines,     \* what may be typed, see CommandLine
    ConfigFiles,      \* ConfigFiles[l]: what a config file at place l may hold
    EnvVars,          \* which of "env" and "xdg" the environment defines
    DatabaseDefault,  \* DEFAULT_DATABASE_PATH of client.py
    Edits             \* bound on the changes made to config files

DEFAULT_INTERVAL == 5
DEFAULT_TIMEOUT  == 1
LocalHost        == <<"127.0.0.1">>

\* Options and hosts that were typed; None for those that were not.
CommandLine ==
    [config : BOOLEAN, hosts : Seq(STRING) \cup {None}, interval : Int \cup {None},
     timeout : Int \cup {None}, count : Int \cup {None}]

\* The keys of a TOML file; None for those it omits, and << >> for no [[servers]].
ConfigFile ==
    [valid : BOOLEAN, database : Files \cup {None}, interval : Int \cup {None},
     timeout : Int \cup {None}, servers : Seq(STRING)]

\* What main runs with once the file and its own defaults are applied.
ClientConfig ==
    [database : Files, interval : Nat \ {0}, timeout : Nat \ {0}, servers : Seq(STRING)]

\* Where a config file may be, most preferred first.
Places == <<"explicit", "env", "xdg", "user", "local", "system">>

\* main runs once in a process, and in one thread.
ASSUME StartupAssumption ==
    /\ \A t, u \in Threads : ProcessOf[t] = ProcessOf[u] => t = u
    /\ CommandLines \subseteq CommandLine
    /\ \A cmd \in CommandLines : cmd.hosts # << >>
    /\ \A l \in DOMAIN ConfigFiles : \A file \in ConfigFiles[l] :
         /\ file \in ConfigFile
         /\ file.valid => /\ file.interval \in (Nat \ {0}) \cup {None}
                          /\ file.timeout \in (Nat \ {0}) \cup {None}
    /\ EnvVars \subseteq {"env", "xdg"}
    /\ DatabaseDefault \in Files
    /\ DOMAIN ConfigFiles = {Places[i] : i \in DOMAIN Places}
    /\ Edits \in Nat
    /\ None \notin Int /\ None # << >> /\ None \notin ConfigFile /\ None \notin ClientConfig
    /\ None \notin DOMAIN ConfigFiles

VARIABLES
    stage,     \* what main does next
    cmd,       \* the command line
    position,  \* the next place discover_config_path looks at
    source,    \* the place of the file it found, None if there was none
    config,    \* the ClientConfig
    settings,  \* what loop is called with, and the timeout of ICMPClient
    disk,      \* disk[l]: the config file at place l, or None
    edits,     \* bound: the changes made to disk
    steady,    \* history, steady[t]: places that have held a file since t began to look
    cleaned    \* history: clients whose cleanup_old_data has returned

startVars == <<stage, cmd, position, source, config, settings, disk, edits, steady, cleaned>>
vars == <<connVars, startVars>>

Stages ==
    {"parse", "discover", "load", "logging", "set_db_path", "init_database",
     "cleanup", "client", "loop", "raised"}

Occupied == {l \in DOMAIN disk : disk[l] # None}

TypeOK ==
    /\ ConnectionsTypeOK
    /\ stage \in [Threads -> Stages]
    /\ cmd \in [Threads -> CommandLines]
    /\ position \in [Threads -> 1 .. Len(Places) + 1]
    /\ \A l \in DOMAIN disk : disk[l] \in ConfigFiles[l] \cup {None}
    /\ source \in [Threads -> DOMAIN disk \cup {None}]
    /\ \A t \in Threads : stage[t] \notin {"parse", "discover", "load", "raised"} =>
         /\ config[t].interval > 0 /\ config[t].timeout > 0
         /\ config[t].database \in Files
    /\ cleaned \subseteq Threads

Init ==
    /\ ConnectionsInit
    /\ stage = [t \in Threads |-> "parse"]
    /\ cmd \in [Threads -> CommandLines]
    /\ position = [t \in Threads |-> 1]
    /\ source = [t \in Threads |-> None]
    /\ config = [t \in Threads |-> None]
    /\ settings = [t \in Threads |-> None]
    /\ disk \in [DOMAIN ConfigFiles -> UNION {ConfigFiles[l] : l \in DOMAIN ConfigFiles} \cup {None}]
    /\ \A l \in DOMAIN disk : disk[l] \in ConfigFiles[l] \cup {None}
    /\ edits = 0
    /\ steady = [t \in Threads |-> {}]
    /\ cleaned = {}

-----------------------------------------------------------------------------
Step(t, from, to) ==
    /\ stage[t] = from
    /\ stage' = [stage EXCEPT ![t] = to]

Default(value, default) == IF value = None THEN default ELSE value

\* Places[i] is among candidate_paths: "explicit" when --config is given, "env" and
\* "xdg" when the variables are defined, the others always.
IsCandidate(t, place) ==
    CASE place = "explicit"       -> cmd[t].config
      [] place \in {"env", "xdg"} -> place \in EnvVars
      [] OTHER                    -> TRUE

Candidates(t) == {i \in DOMAIN Places : IsCandidate(t, Places[i])}

-----------------------------------------------------------------------------
(* discover_config_path, _load_toml, load_config *)

ParseArgs(t) ==
    /\ Step(t, "parse", "discover")
    /\ steady' = [steady EXCEPT ![t] = Occupied]
    /\ UNCHANGED <<connVars, cmd, position, source, config, settings, disk, edits, cleaned>>

\* Mutant of LookAt: the last candidate that exists is used.
LookAtAll(t) ==
    /\ Step(t, "discover", "discover")
    /\ position[t] <= Len(Places)
    /\ source' = [source EXCEPT ![t] =
         IF position[t] \in Candidates(t) /\ disk[Places[position[t]]] # None
         THEN Places[position[t]] ELSE @]
    /\ position' = [position EXCEPT ![t] = @ + 1]
    /\ UNCHANGED <<connVars, cmd, config, settings, disk, edits, steady, cleaned>>

\* path.is_file() is false: the next candidate.
LookAt(t) ==
    /\ Step(t, "discover", "discover")
    /\ position[t] <= Len(Places)
    /\ position[t] \in Candidates(t) => disk[Places[position[t]]] = None
    /\ position' = [position EXCEPT ![t] = @ + 1]
    /\ UNCHANGED <<connVars, cmd, source, config, settings, disk, edits, steady, cleaned>>

Find(t) ==
    /\ Step(t, "discover", "load")
    /\ position[t] \in Candidates(t)
    /\ disk[Places[position[t]]] # None
    /\ source' = [source EXCEPT ![t] = Places[position[t]]]
    /\ UNCHANGED <<connVars, cmd, position, config, settings, disk, edits, steady, cleaned>>

\* ClientConfig(), or model_validate of the file, with the defaults of the models
\* and of main for the keys it omits.
Configure(t, file) ==
    config' = [config EXCEPT ![t] =
      [database |-> Default(file.database, DatabaseDefault),
       interval |-> Default(file.interval, DEFAULT_INTERVAL),
       timeout  |-> Default(file.timeout, DEFAULT_TIMEOUT),
       servers  |-> file.servers]]

NoFile == [database |-> None, interval |-> None, timeout |-> None, servers |-> << >>]

FindNothing(t) ==
    /\ Step(t, "discover", "logging")
    /\ position[t] > Len(Places)
    /\ Configure(t, NoFile)
    /\ UNCHANGED <<connVars, cmd, position, source, settings, disk, edits, steady, cleaned>>

\* Mutant of Load: the file is used as it is, without model_validate.
LoadUnvalidated(t) ==
    /\ Step(t, "load", "logging")
    /\ LET file == disk[source[t]] IN file # None /\ Configure(t, file)
    /\ UNCHANGED <<connVars, cmd, position, source, settings, disk, edits, steady, cleaned>>

Load(t) ==
    /\ Step(t, "load", "logging")
    /\ LET file == disk[source[t]] IN file # None /\ file.valid /\ Configure(t, file)
    /\ UNCHANGED <<connVars, cmd, position, source, settings, disk, edits, steady, cleaned>>

\* FileNotFoundError for a file that is gone by now, TOMLDecodeError, ValidationError.
LoadRaises(t) ==
    /\ Step(t, "load", "raised")
    /\ LET file == disk[source[t]] IN file # None => ~file.valid
    /\ UNCHANGED <<connVars, cmd, position, source, config, settings, disk, edits, steady, cleaned>>

-----------------------------------------------------------------------------
(* main, from configure_logging to loop *)

ConfigureLogging(t) ==
    /\ Step(t, "logging", "set_db_path")
    /\ UNCHANGED <<connVars, cmd, position, source, config, settings, disk, edits, steady, cleaned>>

\* Mutant of SetPath: the path is taken from the config after the schema is applied.
SetPathLate(t) ==
    /\ Step(t, "set_db_path", "init_database")
    /\ UNCHANGED <<connVars, cmd, position, source, config, settings, disk, edits, steady, cleaned>>

SetPath(t) ==
    /\ Step(t, "set_db_path", "init_database")
    /\ SetDbPath(t, config[t].database)
    /\ UNCHANGED <<cmd, position, source, config, settings, disk, edits, steady, cleaned>>

ApplySchema(t) ==
    /\ Step(t, "init_database", "cleanup")
    /\ InitDatabase(t)
    /\ UNCHANGED <<cmd, position, source, config, settings, disk, edits, steady, cleaned>>

\* cleanup_old_data makes the connection that loop will use.  main skips it only for
\* cleanup_days None, which no config has: the default is 30 and TOML has no null.
CleanUp(t) ==
    /\ Step(t, "cleanup", "client")
    /\ File(t) \in ready
    /\ Connect(t)
    /\ cleaned' = cleaned \cup {t}
    /\ UNCHANGED <<path, ready, cmd, position, source, config, settings, disk, edits, steady>>

\* Mutant of CleanUpRaises: a failed cleanup is logged, and the start goes on.
CleanUpFailsQuietly(t) ==
    /\ Step(t, "cleanup", "client")
    /\ UNCHANGED <<path, ready, cleaned, cmd, position, source, config, settings, disk,
                   edits, steady>>
    /\ conn' \in {conn, [conn EXCEPT ![t] = File(t)]}

\* cleanup_old_data raises sqlite3.Error, with or without a connection made.
CleanUpRaises(t) ==
    /\ Step(t, "cleanup", "raised")
    /\ conn' \in {conn, [conn EXCEPT ![t] = File(t)]}
    /\ UNCHANGED <<path, ready, cmd, position, source, config, settings, disk, edits,
                   steady, cleaned>>

\* configure_logging raises (level, log file), init_database raises (sqlite3.Error),
\* or ICMPClient() does (PermissionError of the raw socket).
Raises(t) ==
    /\ \E from \in {"logging", "init_database", "client"} : Step(t, from, "raised")
    /\ UNCHANGED <<connVars, cmd, position, source, config, settings, disk, edits, steady, cleaned>>

\* The hosts, interval, timeout and count that main decides on, from what argparse
\* makes of the command line.
Hosts(t) ==
    LET args == Default(cmd[t].hosts, LocalHost)
    IN  IF args # LocalHost \/ config[t].servers = << >> THEN args ELSE config[t].servers

Interval(t) == Default(cmd[t].interval, DEFAULT_INTERVAL)

\* Mutant of Timeout: the file wins over the command line.
TimeoutOfFile(t) ==
    LET args == Default(cmd[t].timeout, DEFAULT_TIMEOUT)
    IN  IF config[t].timeout # DEFAULT_TIMEOUT THEN config[t].timeout ELSE args

Timeout(t) ==
    LET args == Default(cmd[t].timeout, DEFAULT_TIMEOUT)
    IN  IF args = DEFAULT_TIMEOUT THEN config[t].timeout ELSE args

\* Rounds of loop, None for no end.
Rounds(t) ==
    LET args == Default(cmd[t].count, 0)
    IN  IF args = 0 THEN None ELSE IF args < 0 THEN 0 ELSE args

StartClient(t) ==
    /\ Step(t, "client", "loop")
    /\ settings' = [settings EXCEPT ![t] =
         [hosts |-> Hosts(t), interval |-> Interval(t), timeout |-> Timeout(t),
          count |-> Rounds(t)]]
    /\ UNCHANGED <<connVars, cmd, position, source, config, disk, edits, steady, cleaned>>

-----------------------------------------------------------------------------
\* Somebody writes, changes or removes a config file.
EditConfig ==
    /\ edits < Edits
    /\ edits' = edits + 1
    /\ \E l \in DOMAIN disk : \E file \in ConfigFiles[l] \cup {None} :
         /\ disk[l] # file
         /\ disk' = [disk EXCEPT ![l] = file]
         /\ steady' = [t \in Threads |-> IF file = None THEN steady[t] \ {l} ELSE steady[t]]
    /\ UNCHANGED <<connVars, stage, cmd, position, source, config, settings, cleaned>>

StartupStep(t) ==
    \/ ParseArgs(t) \/ LookAt(t) \/ Find(t) \/ FindNothing(t) \/ Load(t) \/ LoadRaises(t)
    \/ ConfigureLogging(t) \/ SetPath(t) \/ ApplySchema(t) \/ CleanUp(t)
    \/ CleanUpRaises(t) \/ Raises(t) \/ StartClient(t)

Next == EditConfig \/ \E t \in Threads : StartupStep(t)

Spec == Init /\ [][Next]_vars

-----------------------------------------------------------------------------
(* Properties *)

Loaded(t) == stage[t] \notin {"parse", "discover", "load"} /\ config[t] # None

\* Starting a client creates and opens only database files that a configuration
\* names: main calls set_db_path before it, or anything it calls, touches one.
\* The file next to db.py, which the module starts with, is left alone.
ConfiguredFilesOnly ==
    LET chosen == {config[t].database : t \in {u \in Threads : Loaded(u)}}
    IN  /\ ready \subseteq chosen
        /\ \A t \in Threads : conn[t] # None => Loaded(t) /\ conn[t] = config[t].database

\* When loop is entered, its rows will go to a file that has the tables and was
\* cleaned, and it has hosts to probe.
LoopPrepared ==
    \A t \in Threads : stage[t] = "loop" =>
      /\ conn[t] = config[t].database /\ conn[t] \in ready
      /\ t \in cleaned
      /\ settings[t].hosts # << >>

\* The file used is the first of the places looked at: no place before it has held
\* a file all the time, and without a file none has.
FirstFileUsed ==
    \A t \in Threads : Loaded(t) =>
      \A i \in Candidates(t) :
        Places[i] \in steady[t] =>
          \E j \in Candidates(t) : j <= i /\ source[t] = Places[j]

\* The client runs with an interval that was typed, with a timeout and hosts that were
\* typed if they differ from their defaults, and with the timeout and servers of the
\* file where none were typed.  It says nothing of a typed timeout or host that equals
\* its default: main takes it for one that was not typed (see Precedence).
OptionsTakeEffect ==
    \A t \in Threads : stage[t] = "loop" =>
      /\ cmd[t].interval # None => settings[t].interval = cmd[t].interval
      /\ cmd[t].timeout \notin {None, DEFAULT_TIMEOUT} =>
           settings[t].timeout = cmd[t].timeout
      /\ cmd[t].timeout = None => settings[t].timeout = config[t].timeout
      /\ cmd[t].hosts \notin {None, LocalHost} => settings[t].hosts = cmd[t].hosts
      /\ cmd[t].hosts = None /\ config[t].servers # << >> =>
           settings[t].hosts = config[t].servers

\* "CLI arguments > config file > built-in defaults.", for all that loop is called with
\* and a file may hold: what was typed, else what the file says, else the default.
Precedence ==
    \A t \in Threads : stage[t] = "loop" =>
      /\ settings[t].interval = Default(cmd[t].interval, config[t].interval)
      /\ settings[t].timeout = Default(cmd[t].timeout, config[t].timeout)
      /\ settings[t].hosts =
           Default(cmd[t].hosts,
                   IF config[t].servers = << >> THEN LocalHost ELSE config[t].servers)

-----------------------------------------------------------------------------
(* The inductive invariant behind the properties, Precedence excepted *)

BeforeConfig == {"parse", "discover", "load"}

\* What TypeOK leaves open of the variables that are functions of the thread.
StartupTypes ==
    /\ disk \in [DOMAIN ConfigFiles -> ConfigFile \cup {None}]
    /\ config \in [Threads -> ClientConfig \cup {None}]
    /\ settings = [t \in Threads |-> settings[t]]
    /\ steady = [t \in Threads |-> steady[t]]
    /\ \A t \in Threads :
         /\ stage[t] \in BeforeConfig => config[t] = None
         /\ stage[t] \notin BeforeConfig \cup {"raised"} => config[t] # None

\* The search has come to position, found a file there or run out of places, and the
\* candidates it passed were all without a file at some time.
SearchedInOrder(t) ==
    /\ stage[t] = "parse" => position[t] = 1 /\ steady[t] = {}
    /\ steady[t] \subseteq Occupied
    /\ \A i \in Candidates(t) : i < position[t] => Places[i] \notin steady[t]
    /\ stage[t] = "load" => source[t] # None
    /\ stage[t] = "load" \/ config[t] # None =>
         \/ position[t] \in Candidates(t) /\ source[t] = Places[position[t]]
         \/ position[t] > Len(Places)

\* From set_db_path on, process and connection are at the configured file; the first
\* connection is that of cleanup_old_data.
PathFollowsConfig(t) ==
    /\ stage[t] \in {"init_database", "cleanup", "client", "loop"} =>
         path[ProcessOf[t]] = config[t].database
    /\ conn[t] # None =>
         /\ stage[t] \in {"client", "loop", "raised"} /\ config[t] # None
         /\ conn[t] = config[t].database
    /\ stage[t] \in {"client", "loop"} =>
         conn[t] # None /\ conn[t] \in ready /\ t \in cleaned

\* What loop was entered with is what main decided.
SettingsDecided(t) ==
    stage[t] = "loop" =>
      settings[t] = [hosts |-> Hosts(t), interval |-> Interval(t), timeout |-> Timeout(t),
                     count |-> Rounds(t)]

\* The tables are made in files that a configuration names.
ReadyIsConfigured ==
    \A f \in ready : \E t \in Threads : config[t] # None /\ config[t].database = f

Startup ==
    /\ TypeOK /\ StartupTypes /\ ReadyIsConfigured
    /\ \A t \in Threads : SearchedInOrder(t) /\ PathFollowsConfig(t) /\ SettingsDecided(t)
=============================================================================
