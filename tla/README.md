# heartbeat_monitor in TLA+

`heartbeat_monitor` watches servers with ICMP echo requests. A server answers
with its CPU, memory and disk load in the payload of the echo reply; a client
probes its list of hosts round by round, and stores each answer, timeout or ICMP
error in SQLite. This directory holds a model of that system, TLC instances that
check it, and proofs of what matters most about it.

## The system

| Component | State | Operations | Talks to |
| --- | --- | --- | --- |
| ICMP client, `client/client.py` | `pid`, `seq`, the raw socket; while probing: `ip_address`, `addr`, `deadline` | `loop`, `_process_host`, `ping_once`, `_handle_timeout`, `_handle_icmp_error`, `_handle_success`, `close` | network, resolver, database |
| ICMP server, `server/server.py` | the raw socket | `serve_forever` | network, psutil |
| Packets, `icmp_utils.py` | none | echo constructors, parser, checksum, payload codec, quoted identifiers | called by both |
| Persistence, `client/db/db.py`, `db_schema.sql` | tables `servers`, `health_measurements`, `icmp_events`, `timestamp_measurements` | `get_or_create_server`, `insert_*`, reads, `cleanup_old_data` | SQLite file shared by processes |
| Connections, `client/db/db.py` | `db_path`, one connection per thread | `get_thread_connection`, `close_thread_connection`, `set_db_path` | persistence |
| Startup, `config.py`, `client.main` | the `ClientConfig`; the config files belong to others | `discover_config_path`, `load_config`, precedence of the parameters, `main` | connections, client |
| `health_stats.py`, `logging_utils.py`, package `__init__`s | none | psutil reads, handlers, lazy imports | - |

Client and server share no memory: all that passes between them is a packet on a
raw socket, and a raw socket hears *every* ICMP packet for its host. Clients may
share the database file.

What is hard about it:

- **Whose packet is it?** Late and duplicated replies, replies to other
  processes, the client's own requests, errors about somebody's packets: `ping_once`
  must pick the one that answers this probe, by address, truncated process id and
  wrapping sequence number.
- **Time.** The answer races the deadline, and packets that are ignored must not
  extend the wait.
- **Failure of one step.** Resolver, `sendto`, `recvfrom`, the decoder, each SQL
  statement can fail; some failures are caught, some end the process.
- **Bookkeeping.** Each probe gives one row, of the right host, whatever happens.
- **Interleaved SQL.** Every statement is its own transaction, on a connection that
  each thread keeps for itself while the path of the database may change.
- **Order of the start.** Path, schema, cleanup, loop, with a failure possible after
  each, and config files that change between being found and being opened.
- **Carries.** The checksum folds one carry per word and has two zeros.

`PROJECT.json` lists each hazard at its line, with the property that covers it.

## The modules

    Network            ICMP packets and the network (external)
      |      \
    ICMPClient  ICMPServer   ProbeLedger      the abstract promise
        \      /             /
       Heartbeat -----------+   composition, properties, invariant, refinement mapping
        /      \
    MCHeartbeat  HeartbeatProofs --- ModuloFacts
                       |
            LedgerProofs, EnvironmentProofs

    Connections                which file a thread's statements reach
      |      \
      |    ClientStartup --- MCClientStartup, ClientStartupProofs
      |
    HealthDb ----------------- RowStore, the abstract promise
      |      \
    MCHealthDb  HealthDbProofs --- StoreRefinement

    Checksum --- ChecksumProofs (with ModuloFacts)

**`Network`** translates the constructors and predicates of `icmp_utils.py`. A
packet is a record with header fields (`id`, `seq` are the quoted ones in an error
message), addresses, a payload *kind* as far as receivers tell payloads apart, and
`intact` for "the checksum still fits". `of` and `n` are history variables of the
model: the client and the number of the probe a packet descends from. No code
reads them; the properties do.

The variable `net` is the set of packets a receiver may still be handed. Receiving
removes nothing and nobody is obliged to receive, so each packet may be lost,
delayed, reordered and duplicated, and all sockets on the destination host see it.
Four external actions add packets: `RouterError` (an error quoting an echo
message), `ForeignReply` (the host's kernel, or another version of the server),
`TruncateError`, `Damage`. A packet leaves the network once its client has begun
`MaxAge` more probes (`Surviving`). `MaxAge <= SeqMod` is the one assumption about
time: probes of a client are at least 10 ms apart (`client.py:313`), so a packet
would have to live for ten minutes to meet its sequence number again.

**`ICMPServer`**: `serve_forever` keeps no state from packet to packet, so `Reply`
is the whole handler, from `recvfrom` to `sendto`; a packet the handler ignores
changes nothing. `Homes[s]` is one address if `--bind` is used, all addresses of
the host otherwise; the reply leaves from any of them, which is how the reply of a
multihomed server comes to be ignored by the client.

**`ICMPClient`**: one thread per client, `pc` says where it is.

| `pc` | place in the code | actions |
| --- | --- | --- |
| `round` | head of `loop` | `StopAtCount`, `StartRound` |
| `host` | `_process_host`, first lookup | `Resolve`, `ResolveFails` |
| `ping` | `ping_once`: `_next_seq`, second lookup, `sendto` | `SendEchoRequest`, `SendTimesOut`, `PingRaises` |
| `await` | head of the receive loop | `SelectReady`, `RequestTimesOut` |
| `recv` | between `select` and `recvfrom` | `RecvError`, `Ignore`, `RaiseIcmpError`, `AcceptReply`, `ReceiveRaises` |
| `register` | `insert_*`, before `get_or_create_server` | `Register`, `RegisterRaises` |
| `insert` | `insert_*`, before the INSERT | `InsertRow`, `InsertFails` |
| `closed` | after `close` | - |

`Deadline` is the clock; it may strike at any moment of a wait, so a reply may be
taken after it and a timeout declared with the reply in the buffer, as in the code. If the
packet that `select` saw is gone, `recvfrom` blocks for up to the socket's timeout before it
raises; that is `RecvError`, and a wait may overrun its deadline by as much. `WaitEnds` says
that it ends, not at which second.
`Interrupt` is Ctrl-C, at any `pc`. A step that the code does not catch goes to
`closed` with `ended = "exception"`. Left out: the values of metrics and of the
round trip time, log lines, the sleeps.

**`Heartbeat`** composes them and states the properties. **`MCHeartbeat`** holds
the constants of the instances.

**`ProbeLedger`** says what a reader of the data may rely on and knows no packet, host
or statement: a client opens a probe, and files or loses it, once; what is filed stays;
a client that stops leaves at most one probe unsettled. `Heartbeat` implements it under
the mapping `stage <- Stage`, `begun <- probe`, `book <- Book`, `lost <- dropped`:
`Stage` reads `pc` (open from `SendEchoRequest` until the insert succeeds or fails),
`Book` reads the rows. `ImplementsLedger` is its safety, `ImplementsFairLedger` adds that
no probe stays open for ever.

**`Connections`** holds the two globals of `db.py`: `path` (`db_path`, one per process)
and `conn` (`_thread_local.conn`), and which files have the tables. The path is read only
when a connection is made, so `SetDbPath` of one thread leaves the other threads of the
process on the old file; the comment in `set_db_path`, "Ensure no thread holds an old
connection", promises more than `close_thread_connection` does. This is harmless in the
program, whose only caller runs in a process of one thread, and the mutant
`SetDbPathForAll` shows that closing the others' connections would be worse: an insert
in mid-call would put the id of one file into another.

**`HealthDb`** is `db.py` at its real grain. Connections are in autocommit mode, so each
statement is an action, and `call[t]` holds the locals of the call of thread `t`:

| Call | actions, in order |
| --- | --- |
| `get_or_create_server`, then `insert_*` | `InsertServer`, `SelectServer`, `UpdateLastSeen`, `InsertRow` |
| `cleanup_old_data` | `DeleteHealth`, `DeleteEvents`, `DeleteTimestamps`, `Vacuum` |
| `get_server_stats` | `FindServer`, `CountMeasurements`, `CountTimeouts`, `Averages` |
| the reads of one statement | `Read` |
| `set_db_path`, `close_thread_connection`, `init_database` | `Administer` |

`insert_*` asks for its connection a second time, hence `Connect` in `InsertRow`.
`StatementFails` (a lock, a full disk) ends a call between any two statements, `Crash` a
process; what was committed stays. `log` is the history of all inserted rows, `live` says
which of them the tables still hold. `ICMPClient` sees the same calls from the caller's
side, in two steps; it needs their failures, not their interleaving.

**`RowStore`** is what a caller of `db.py` and a reader of its tables may rely on, and
knows no connection, id or statement: an insert is asked for, and stores its row at one
instant, as a whole, at most once, in the file its call began with, for the address it was
called with; or it fails and leaves no row. Stored rows stay as they are until they are
older than `Keep`. `HealthDb` implements it under the mapping `task <- Task`, `table <-
AsRead`, `known` and `held <-` the addresses with an id and the live rows. `AsRead` does
what a reader does: it joins the row with `servers` to find its address. So
`ImplementsStore` also says that the join gives the right address for ever.

**`ClientStartup`** is `main` from the command line to `loop`. `discover_config_path`
looks at one candidate per step (`LookAt`, `Find`, `FindNothing`), the file is opened in
another (`Load`, `LoadRaises`), and `EditConfig`, external, changes files in between.
Then come `ConfigureLogging`, `SetPath`, `ApplySchema`, `CleanUp` and `StartClient`, which
computes the parameters of `loop` as the code does from what argparse delivers; each
may raise, and raising ends the client. A config file is the keys that `main` reads and a
flag for whether TOML parser and validators accept it.

**`Checksum`** runs `calculate_checksum` word by word, in `create_icmp_packet` and again
in `verify_checksum`, with damage or truncation in between. Bytes have `B` values, so
that TLC can try all packets; `256` is the code's. The history variables `total` and
`carries` relate the folded accumulator to the true sum.

## What is checked

| Run | Instance | Shows |
| --- | --- | --- |
| `hb_faults` | 1 client, 2 hosts (one is its own, where the kernel answers), a server with 2 addresses, 2 rounds, every fault | `TypeOK`, `HealthIsOurs`, `ErrorsAreOurs`, `OneRowPerProbe`, `ProbesAccountedFor`, `RepliesMirrorRequests`, `NeverBack` |
| `hb_two_clients` | 2 clients on one host, 2 servers (one on that host), 2 rounds, redirects, no failures | no packet is taken for the wrong client; rows name the probed address; nobody dies; the server that hears its own replies answers none; `ImplementsLedger` |
| `hb_live` | 1 client, weak fairness | `WaitEnds`, `LoopEnds`, `ImplementsFairLedger` |
| `db_shared` | 2 processes, 1 file, 2 rows, 3 units of time | `MeasuredServersWereSeen`, `CleanupLeavesNothingOld`, `StatsBracketTruth`, `ImplementsStore` |
| `db_paths` | 2 threads of a process, 2 files, 2 addresses | `TypeOK`, `RowsBelongToTheirServer`, `ServerIdsStable`, `ImplementsStore` |
| `startup` | 2 clients, 6 places for a config file, one edit | `TypeOK`, `ConfiguredFilesOnly`, `LoopPrepared`, `FirstFileUsed`, `OptionsTakeEffect` |
| `codec` | all packets of 4 to 6 bytes of 3 values | `TypeOK`, `OnesComplementSum`, `UndamagedAccepted`, `WordDamageDetected` |
| `v_foreign_payload` | as `hb_faults`, no faults but the remote kernel answers | **violated**: `LeavesLoopOnlyWhenTold` |
| `v_dns` | a name with 2 addresses | **violated**: `RowNamesProbedAddress` |
| `v_error_code` | a host unreachable error | **violated**: `ErrorDetailsStored` |
| `v_quoted_reply` | 2 hosts watching each other, equal identifiers | **violated**: `ErrorsAreOurs` |
| `v_precedence` | 1 client that types defaults, 1 config file | **violated**: `Precedence` |

The five violations are disagreements between the code and its own documentation;
`PROJECT.json` quotes both sides:

1. A reply whose payload is rejected (the kernel's own echo reply is enough) raises
   `ValueError` out of `loop`: one packet ends the monitoring. The model has the same of
   `OSError` from `sendto` or the second lookup and of `sqlite3.Error` in
   `get_or_create_server` (`PingRaises`, `RegisterRaises`). `LeavesLoopOnlyWhenTold` is what
   they break; the runs that check it exclude them, and `ProbesAccountedFor`, which is
   checked with them, lets a client end by an exception.
2. The host is resolved twice per probe; the row may name an address that was not
   probed. (`hb_two_clients` checks the same property with a stable resolver: it says that
   nothing else mixes up addresses.)
3. `icmp_code` is always NULL: the handler asks for an attribute that the exception
   does not have.
4. An error about an echo *reply* that the local server sent to somebody else
   counts as "ours" if the identifiers agree. Identifiers of clients on different
   hosts do agree, for instance in containers.
5. `monitoring.interval` of the config file is never used, and a `--timeout` or host that
   is typed but equals its default loses against the file, although README and help say
   that the file overrides defaults and the command line overrides the file. The last
   state of the trace shows the three at once: with `127.0.0.1 --timeout 1` typed, and
   interval 7, timeout 9 and another host in the file, `loop` gets interval 5, timeout 9
   and the file's host. What does hold is `OptionsTakeEffect`. `--loglevel` has the fault of
   `--interval`: its default is `"info"`, so `client.py:407` never takes
   `config.logging.level`; the model has no log levels, so no run shows it.
   Met on the way, also without a run: the help lists another
   order of discovery (`client.py:346-350`) than `config.py` follows, and a missing
   `--config` file is passed over silently although it "overrides discovery".

**Bounds.** `SeqMod = 2`, `MaxAge = 2`: sequence numbers wrap every second probe,
and the previous probe's packets are still in flight, the tightest case
`MaxAge <= SeqMod` allows. `Count = 2` rounds over 1 or 2 hosts make up to four
probes, so numbers repeat and rounds carry over. `Capacity` (4 or 5) is the number
of packets in flight beyond which the network drops: request, answer and their
counterparts of the previous probe fit at once, and a third party's too with 5.
`IdMod = 4` lets process ids 1 and 5 collide. `Count = None` is the client without
a count, used where the violation needs it.

In `db_shared`, `Keep` and `Window` are one unit of the clock and `MaxNow` two, the
fewest units in which a row can be inserted, be young, be at the edge and be old;
`MaxRows = 2` lets a measurement and a timeout of the same server meet. There are no
timestamp rows in this instance, which the program never inserts: that their DELETE leaves
nothing old is shown by theorem `CleanupIsComplete` alone. One address needs
one id (`OneId`). (In the code the
window of statistics is an argument of the caller; with `Window > Keep` cleanup would
rightly take rows that the statistics ask for.) In `db_paths` time and number of rows
do not matter; two addresses, two ids and two files let every wrong id show.
`MaxRows` bounds a file's insertions over its life, deletions included. In `startup`,
`Edits = 1` is enough for a file to vanish between `is_file` and `open`, or to appear
at a place already passed; the six places and the three kinds of file are those of the
code. `codec` has packets of two and three words, even and odd, and three byte values,
for which all carries occur; the theorems cover the other sizes.

**The clock of the database.** `HealthDb` has one clock that never runs back, while
`CURRENT_TIMESTAMP` is wall time, which an administrator or NTP may set back. Then a
row could carry a time in the future, a `last_seen` could go backwards and a row could come
to be in or out of a window again. `CleanupLeavesNothingOld`, `MeasuredServersWereSeen`,
`StatsBracketTruth` and the expiry of `RowStore`, and the theorems about them
(`CleanupIsComplete`, `RowsImplySightings`, `SummariesAreTrue`, `InsertsLookAtomic`), hold as
long as this does not happen. The client's deadline uses `time.monotonic` and needs no such
assumption.

**Symmetry.** `db_shared` permutes the two processes together with their threads,
`db_paths` the threads of the one process and the addresses. No definition chooses among
them or compares them, and no liveness is checked in these runs.

**Fairness.** `hb_live` assumes weak fairness of the client's thread and of its
clock, both of which the operating system gives a process that is not starved.
Nothing is assumed of network, servers, DNS or SQLite: `LoopEnds` holds with every
answer lost. `HealthDb`, `ClientStartup` and `Checksum` assume no fairness: any of their
calls may fail or be cut off, and what they promise is safety. `CHECK_DEADLOCK FALSE` in the configurations: clients that are done
or started, and a silent network, are a proper end.

Every property has a mutant in `PROJECT.json`: a definition with a plausible bug
(a comparison dropped from the matching of replies, a timer restarted by ignored
packets, a retried INSERT, ...) under which TLC finds the property violated.

## What is proved

Every safety property that a passing run checks is also a theorem: it holds for all
instances, including any `Capacity` and set of faults, any number of threads, processes
and files, any set of config files, and any size of byte and packet.

| Module | Theorem | Establishes |
| --- | --- | --- |
| `HeartbeatProofs` | `TypeCorrect` | `Spec => []TypeOK` |
| `HeartbeatProofs` | `HealthRowsAnswerTheirProbe` | `[]HealthIsOurs` if clients of one host have distinct identifiers (`IdentsDistinct`) |
| `HeartbeatProofs` | `ErrorRowsAnswerTheirProbe` | `[]ErrorsAreOurs` if all clients have distinct identifiers (`AllIdentsDistinct`); run `v_quoted_reply` is the counterexample to the weaker hypothesis |
| `LedgerProofs` | `ProbesRecordedOnce` | `[]OneRowPerProbe` |
| `LedgerProofs` | `BooksBalance` | `[]ProbesAccountedFor` |
| `LedgerProofs` | `LoopKeepsLedger` | `Spec => ImplementsLedger` |
| `LedgerProofs` | `LoopNeverTurnsBack` | `Spec => NeverBack` |
| `EnvironmentProofs` | `RowsNameTheirAddress` | `[]RowNamesProbedAddress` if every lookup of a name returns the same address (`DnsIsStable`); run `v_dns` is the counterexample without |
| `EnvironmentProofs` | `ServersOnlyAnswer` | `[]RepliesMirrorRequests` |
| `EnvironmentProofs` | `LoopSurvives` | `[]LeavesLoopOnlyWhenTold` in a `HealthyEnvironment`; run `v_foreign_payload` is the counterexample with one other responder |
| `HealthDbProofs` | `DbTypeCorrect` | `[]TypeOK` |
| `HealthDbProofs` | `RowsStayWithServers` | `[]RowsBelongToTheirServer` |
| `HealthDbProofs` | `IdsAreStable` | `ServerIdsStable` |
| `HealthDbProofs` | `CleanupIsComplete` | `[]CleanupLeavesNothingOld` |
| `HealthDbProofs` | `RowsImplySightings` | `[]MeasuredServersWereSeen` |
| `HealthDbProofs` | `SummariesAreTrue` | `[]StatsBracketTruth` if `Window <= Keep` |
| `StoreRefinement` | `InsertsLookAtomic` | `Spec => ImplementsStore` |
| `ClientStartupProofs` | `StartupTypeCorrect` | `[]TypeOK` |
| `ClientStartupProofs` | `OnlyConfiguredFiles` | `[]ConfiguredFilesOnly` |
| `ClientStartupProofs` | `LoopIsPrepared` | `[]LoopPrepared` |
| `ClientStartupProofs` | `FirstFileIsUsed` | `[]FirstFileUsed` |
| `ClientStartupProofs` | `OptionsAreUsed` | `[]OptionsTakeEffect`, which excepts a typed timeout or host equal to its default |
| `ChecksumProofs` | `ChecksumTypeCorrect` | `[]TypeOK` |
| `ChecksumProofs` | `SumIsOnesComplement` | `[]OnesComplementSum` |
| `ChecksumProofs` | `GoodPacketsAccepted` | `[]UndamagedAccepted` |
| `ChecksumProofs` | `OneWordDetected` | `[]WordDamageDetected`, for every `B >= 2`, `Header >= 4` and `MaxLen` |

*Provenance.* `HealthIsOurs` speaks of rows alone and is not inductive. `Provenance`
adds where the rows come from:
`NetTraceable` (an undamaged packet carries the identifiers of the probe it descends
from, which is one of its client's last `MaxAge`; requests come from, and replies go
to, that client's host), `SeqTruncatesProbe` (`seq` is the probe count modulo
`SeqMod`) and `PendingIsOurs` (the row about to be written). The crucial step is
`SeqNamesProbe`: numbers less than `SeqMod` apart that agree modulo `SeqMod` are
equal, so a matching sequence number means the current probe. The arithmetic behind
it is in `ModuloFacts`, because the solvers do not reason about `%` by an unknown
modulus.

*Ledger.* `OneRowPerProbe` and `ProbesAccountedFor` follow from `Ledger`, which adds,
per client: no row reports a probe later than `probe`, nor the current one while it
is unsettled, and the row in hand is the current probe's (`Behind`); and probes and
skipped hosts add up to the position of the loop, `round * Len(Hosts) + index` or one
less (`Balanced`), which at the head of the loop with the count reached is
`Count * Len(Hosts)`. A step of one client leaves the books of the others alone
(`OthersUntouched`).

*Addresses.* `AddressesAgree` adds that `ip` is a possible answer of the second
lookup (`ping`), equals the address probed (`await`, `recv`), and is what the row in
hand says.

*Mirrors.* `RepliesMirrorRequests` is inductive together with `TypeOK`: a reply and
its request share client and probe number, so they leave the network together.

*Healthy environment.* `HealthyEnvironment` restricts the constants: no fault of resolver,
`sendto`, database, and no damage on the way, and nobody but the servers answers at an
address that is probed. Everything else stays: loss, delay, duplicates, failures of
`recvfrom`, router errors, other clients, other responders elsewhere. `Undisturbed` says
what then keeps `ReceiveRaises` from firing: every error quotes the message it is about
(`ErrorsQuoted`), an echo reply either decodes or comes from another responder
(`RepliesFromServers`), and a client waits for an address of its host (`AwaitsItsHost`), so
that a reply from there decodes.

*Never back.* `NeverBack` orders the places of `loop` by round, host and phase, with the wait
divided by its deadline, and needs only the types: each of a client's actions is shown to
advance in that order, except the polls before the deadline. It is the safety half of
`LoopEnds`: what remains to liveness is that the clock and the thread go on.

*Ledger refinement.* `LoopKeepsLedger` shows that the initial state maps to that of the ledger
and each action of a client to `Open`, `File`, `Lose`, `StopLedger` or a stutter; steps
of network, servers and of the place in the loop are stutters. It uses
the invariant `Ledger`: the row about to be inserted is that of the open probe (`Behind`),
so that the entry filed is the one the ledger expects.

*Database.* `Attribution` is inductive: the types, a connection for each call in progress,
the rows' ids (`RowsBelong`), and `InsertAgrees`: the id a call holds is that of its
address in the file its connection is open on. It survives the other threads because ids
are never changed, and `set_db_path` because that reaches only the thread's own connection,
and only between calls. `CleanupProgress` says which kinds of row a cleanup has been
through and that none of them is left that was too old when it began; inserts of others
add rows of the present only, and the clock only makes rows older than *that*, which is why
the property compares with the beginning of the call. `Sightings` carries "seen since the
call began" from the UPDATE to the INSERT. All of this needs that the clock never runs back.

*Summaries.* `StatsBracketTruth` compares what `get_server_stats` has counted with two sets
of probes: those that were stored before the call and are still in the window, and those that
are stored now and were in the window when it began. `SummaryAgrees` says this of each kind
as soon as it is counted. When it is counted, the rows found are the probes of that kind: a
row of the window is live (`YoungRowsLive`, which is where `Window <= Keep` is needed, 24
hours against 30 days in the code), and rows with the id of the address are the address's
(`IdsApart`). From then on the bounds only move apart (`BoundsMoveApart`), because the log
grows and the clock does. The cardinalities are handled with the library's `FS_` theorems.

*Store refinement.* `InsertsLookAtomic` shows that `InsertServer` maps to `Ask`, `InsertRow` to
`Store`, a DELETE to `Expire`, `StatementFails` and `Crash` to `GiveUp`, `Tick` to `Pass`, and
all other statements to stutters. It needs `Attribution` for the id and the file of an insert
under way, and `IdsApart` so that joining a row with `servers` gives one address
(`ReaderSeesAddress`).

*Startup.* `Startup` strengthens the types (`StartupTypes`) and says of each client: the
places it has passed were each without a file at some time (`SearchedInOrder`); from
`set_db_path` on, its process and its connection are at the configured file, which has tables
and, after cleanup, has been cleaned (`PathFollowsConfig`); tables are made in files that a
configuration names (`ReadyIsConfigured`); and loop was entered with what main decided
(`SettingsDecided`). That other clients do not interfere rests on the assumption that `main`
runs once in a process and in one thread, as the program's entry point does.

*Checksum.* `Accumulator`: `s < W`, `total = s + carries * (W - 1)`, and `s = 0` only for
`total = 0`; so `s` is determined by `total` (`SumsUnique`). For a packet changed in word
`k`, `Verifying` runs creation and verification in lockstep over `trace`: the two totals
are equal up to `k` and differ by the change from there on. If the accumulators agree in
the end, totals that differ by at most `W - 1` are equal or differ by exactly `W - 1`
(`NearbySums`), and then one word was 0 and the other all ones (`OnlyZerosExchanged`),
which is the exception `WordDamageDetected` makes.

Assumptions are the named `ASSUME`s (`NetworkAssumption`, `NoneAssumption`,
`ClientAssumption`, `ServerAssumption`, `ConnectionsAssumption`, `HealthDbAssumption`,
`StartupAssumption`, `ChecksumAssumption`), which TLC evaluates in every run.

TLC has checked each inductive invariant on an instance of the runs before it was proved.

Only model-checked is liveness: `WaitEnds`, `LoopEnds` and the fair part of
`ImplementsFairLedger`, which the prover does not reach. The properties of the `v_` runs
that fail are proved, where they are properties of other runs, under the hypotheses named
above; `ErrorDetailsStored` and `Precedence` are false of the code.

## What is not modelled

- `health_stats.py`: reads of psutil, no state. To the protocol it matters only that a
  payload results.
- `logging_utils.py` and the choice of a log level, beyond `configure_logging` raising;
  argument parsing beyond its
  defaults; package plumbing.
- The values of metrics: the floats of the payload are encoded and range-checked in
  `icmp_utils.py`, and receivers only see the kinds of payload of `Network`. The size
  limits of `create_icmp_packet` and `strip_ipv4_header_if_present` keep no state either.
- Inside SQLite: locking, WAL and VACUUM are taken as atomic statements that may fail.
  `init_database` is one step, as every statement of the schema says IF NOT EXISTS.
  A server row's `hostname`, `first_seen` and `description` are never read back.
- `insert_timestamp_measurement` and the reads have no caller in the program; `HealthDb`
  models them as part of the interface of `db.py`.
- TOML syntax and pydantic's rules, beyond "the file is accepted or not".
- Damage to fields of a packet on the network other than the sequence number and the
  payload. The client verifies no checksum, so `HealthIsOurs` and `ErrorsAreOurs` except
  damaged packets; `Checksum` shows what verifying would catch.

## What is left

`ICMPClient` inserts in two steps and `HealthDb` in four; a composition in which each client of
`Heartbeat` is a thread of `HealthDb`, with the two steps implemented by the four, would join
the two halves of the model. `RowStore` is the interface for it: it would have to be shown
that the two steps of `ICMPClient` use it as its `Ask`, `Store` and `GiveUp`. A bound on the
steps between two rows, from the order of `NeverBack`, would put a number on `LoopEnds`.
