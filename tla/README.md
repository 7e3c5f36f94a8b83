# Formal models of ot-edge-runtime

This directory holds TLA+ models of the programs of this repository, the TLC
configurations that check them on small instances, and theorems about them
checked by TLAPS. `PROJECT.json` maps every definition to the lines it models
and lists the runs, the hazards and the theorems. Thirteen more
`.cfg` files are kept beside the runs: nine show disagreements listed below, four check
more of what holds.

    tlc -workers 2 -config RobustCfgKill.cfg MCRobustCfg.tla
    tlc -workers 2 -config ConfigFile.cfg MCConfigFile.tla
    tlc -workers 2 -config ConfigWatch.cfg MCConfigWatch.tla
    tlc -workers 2 -config Adjuster.cfg MCAdjuster.tla
    tlc -workers 2 -config Decoder.cfg MCDecoder.tla
    tlc -workers 2 -config RuncApi.cfg MCRuncApi.tla
    tlapm RobustCfg_proofs.tla
    tlapm RobustCfgKeys_proofs.tla
    tlapm RobustCfgStore_proofs.tla
    tlapm ConfigFile_proofs.tla
    tlapm ConfigWatch_proofs.tla
    tlapm Adjuster_proofs.tla
    tlapm Decoder_proofs.tla
    tlapm RuncApi_proofs.tla

## The system

| Part | State | Operations | What makes it correct |
|---|---|---|---|
| **librobustcfg** (`edgeconf/core`, C) | one file of fixed-size slots with a CRC each, a header with `record_count`; a handle (fd and mutex) per opener | `robust_cfg_open`, `close`, `write`, `read`, `delete`, `repair`, `compact` | a linearizable, crash-safe map from keys to values for all processes that open the file |
| its **CLI** (`cli.c`) | none | one library call per run | not modelled |
| **robust_config, file** (`config_io.c`) | a text file, a `.lock` file, a temp file per writer | `config_update_key`, `config_write_atomic`, `config_read`, `config_diff`, `config_removed` | no update lost, readers see whole files, an interrupted update happened or did not |
| **robust_config, watch and dashboard** (`robust_config.c`, `ipc_*.c`) | last snapshot, inotify queue, bus connection | watch loop, publish, subscribe | a subscriber ends with the file's values |
| **autoscale, adjuster** (`adjust.py`) | machine contexts, their decoder processes, crash counts, metrics | measure and reconcile, reload, shutdown | one decoder per wanted topic, restarts held back after repeated crashes, health that tells the truth |
| **autoscale, decoder** (`decoder.py`) | MQTT session, SQLite connections | connect, on_message, stop | each message processed or dead-lettered |
| **runtime API** (`api.py`) | none of its own; the containers runc knows | start, stop, update, list | each request leaves the container in the state it answers |

The parts are separate programs. They meet in files (the two configuration
files), on the system bus (watch to dashboard), in child processes (adjuster to
decoder; the adjuster's SIGTERM and later SIGKILL are the decoder's environment)
and in `systemd` units. The C library and the text-file tool share no code and no
file.

What is hard about them: several processes on one file with advisory locks,
processes killed and power cut between two writes, locks that time out,
wall-clock timestamps used as versions, partial failures that are deliberately
ignored (`(void)` calls), events that are merged or lost, and long-lived
daemons that reconcile a desired state with child processes that die. The
`hazards` of `PROJECT.json` list each at its line.

## What is modelled: the robust-config library

| Module | Content |
|---|---|
| `RobustCfgFormat` | the on-disk format: slots, records, and what each scan of `robust_cfg.c` computes from the slots. Pure operators |
| `RobustCfg` | the library: every call as the sequence of steps the code makes |
| `KVStore` | the abstract specification: a map, calls that take effect at one instant, crashes |
| `RobustCfgProps` | the invariants, the action and liveness properties, the refinement mapping to `KVStore` |
| `MCRobustCfg` | constants for TLC: processes, budgets, symmetry |
| `RobustCfg_proofs` | lemmas on the format; theorems on types and exclusion |
| `RobustCfgKeys_proofs` | theorems: no key is lost |
| `RobustCfgStore_proofs` | theorems: the media, the count, the refinement of `KVStore` |

### State and steps

`cache` is the slots as every process reads them (the page cache), `media` the
slots as of the last `fdatasync`, `hdr` the header. `flock` is the fcntl lock
of each *process*: fcntl locks do not distinguish the handles of one process,
and closing any of them drops all. Each handle has a location `pc`, the call it
runs (`req`), the call's locals (`job`) and its last result (`ret`). `view` is a
history variable: what the file held when the handle took the write lock.

A call is: `Call`, `Lock` (or `LockTimeout` after 500 attempts), one `Scan...`
that decides what to write, one step per record write and one per `fdatasync`
(`Put`/`PutSync` with the read-back, `Mark`/`MarkSync` for `set_slot_state`,
`ImageStep`/`ImageSync` for `init_new_file`, `repair` and `compact`), `Header`
for `record_count`, unlock and return. `PutError`, `MarkError`, `ImageError`
and `HeaderError` are the failing I/O calls with what the code does about each:
return at once, carry on, or give up opening. `Kill` is SIGKILL of a process
that is inside a call; `PowerCut` ends everything and leaves of each slot
written since the last sync its old, its new, or a torn content. `Tick` and
`StepBack` move `time(NULL)`.

### What is abstracted, and why that is enough

- A scan is one step. It runs under the lock, and no other process writes then;
  the loops of open, delete and repair, which scan and write by turns, write
  only slots they have already passed.
- A record is its state, timestamp, key, value and whether its CRC matches. The
  CRC is taken to detect every torn record. `record_count` is a natural number;
  the guard that keeps it from wrapping is part of the model, and `TypeOK` fails
  without it.
- A `write()` of a record is atomic with respect to SIGKILL (300 bytes into the
  page cache) and not with respect to a power cut or an I/O error. The 64-byte
  header is taken to be written whole by the device: it lies in one sector.
- A power cut keeps the file itself. `robust_cfg_open` never syncs the directory entry
  of a file it has created (robust_cfg.c:379-383), so what is said of power cuts is
  about a file whose entry is on the media: the runs with cuts start with the file open,
  and the theorems with cuts (`WritesAreSynced`, `MediaKeepKeys`, `LibraryIsAStore`)
  assume it.
- A kill of a process between calls is `Close`. BAD_ARG checks, truncation of
  strings, a bad magic or version, and failing `calloc` are left out.
- `mutex`: a handle runs one call at a time. Two handles of one process are in
  the model (`ProcOf`), but the properties are stated for one handle per
  process, `OneHandlePerProcess`: with two, the fcntl lock does not exclude
  them from each other.

### Properties

- `TypeOK`: types of all variables.
- `WriterExclusion`: past the lock, a writing call is alone.
- `CountExact`: `record_count` is the number of live records between calls, as
  long as nothing was cut short. After a kill it may drift until the next open,
  repair or compact; that is why delete guards its subtraction.
- `KeysSurvive`: no step of any call takes the last live copy of a key away,
  except the marking by a delete of that key. Kills included; I/O errors not, so it
  speaks of the time until one happens.
- `SafetyNet`: what is left of it when an I/O operation fails: only an in-place write of
  that key (a full file) and compact give up the copy they have.
- `SyncedKeysSurvive`: the same for what is on the media, at every step and every
  power cut. The exception beside delete is a write of that key in place, which a
  cut can tear: the file is full, and robust_cfg.c:523 says what it gives up.
- `SyncedBetweenCalls`: nothing readable between calls is missing on the media.
- `ImplementsKVStore`: the library refines `KVStore`. The map is `view` while
  some call holds the write lock and what the file shows otherwise, so that a
  call takes effect when it releases the lock, by returning or by dying. What a
  power cut may leave of a write in place is any value of its key or none
  (`Torn`): when a stale copy of the key is left over and the record in use is torn,
  the stale one is what reads return.
- `CallReturns`: every call returns.
- `AckedWriteVisible`, `OpenFindsHeader`, `LeftOversHarmless`: stated by comments of
  the code, and violated (below).

The refinement rests on facts that are not written in the code. As long as
the clock does not go back, EMPTY slots form a suffix of the file, so that the
copies of a key are in the order of their timestamps, and the `>=` of
`robust_cfg_read` picks the newest even within one second. A delete marks all
copies, from the lowest slot upwards, so that a delete that is killed leaves the
newest; a write marks only the *last* copy it finds, and the older ones a
crash left behind lose every later comparison. Each of these can be broken:

- the order, by a `repair` of a torn slot, which opens a gap below a stale copy
  (run `same_second`), and by a clock that steps back (`RobustCfgClock.cfg`);
- the delete, by a marking that was never synced because its process was killed,
  when the power is cut afterwards (`RobustCfgHalf.cfg`); and by a compact that was
  killed, which leaves copies of a key out of order (`RobustCfgStale.cfg`: a delete
  killed half-way then brings an older value back);
- any of it by an I/O error, which delete and write ignore when they mark.

So the refinement is checked, and proved, for kills without compact (run `kill`), for
power cuts without repair and compact (run `power`) and for all calls when nothing
is cut short (`RobustCfgCalm.cfg`), and in each of these with no I/O error and no
step back of the clock.

### Runs

| Run | Instance | Shows |
|---|---|---|
| `kill` | 2 processes, 1 key, 2 values, 3 slots, 4 calls (no compact), 2 kills | `TypeOK WriterExclusion ImplementsKVStore` hold |
| `power` | 1 process, 2 keys, 2 values, 3 slots, 4 calls of write, read and delete, 2 power cuts | `SyncedBetweenCalls SyncedKeysSurvive ImplementsKVStore` hold |
| `life` | 2 processes, no file at the start, 1 key, 2 values, 2 slots, 3 calls of all kinds, 1 kill, 1 I/O error, weak fairness | `CountExact SafetyNet KeysSurvive CallReturns` hold |
| `same_second` | 1 process, 1 key, 4 slots, 6 calls, 1 kill, 1 I/O error, one clock value | `AckedWriteVisible` violated |

Further configurations that find no violation:
`RobustCfgCompactKill.cfg` (all kinds of call, 2 keys, 3 slots, 2 kills; `KeysSurvive`),
`RobustCfgCalm.cfg` (all kinds of call, no file at the start, nothing cut short;
`CountExact ImplementsKVStore`), `RobustCfgPowerRepair.cfg` (the run `power` with
repair; `SyncedBetweenCalls SyncedKeysSurvive`). And some that find one:
`RobustCfgClock.cfg` (the clock may go back; `AckedWriteVisible`),
`RobustCfgCompactCut.cfg` (compact and power cuts; `SyncedKeysSurvive`),
`RobustCfgOpenRace.cfg` (two processes, no file at the start; `OpenFindsHeader`),
`RobustCfgHalf.cfg` (write, delete, a kill and a power cut; `LeftOversHarmless`),
`RobustCfgStale.cfg` (write, delete, compact and kills; `LeftOversHarmless`).

Bounds. Three slots hold two versions of one key and a second key, or fill up,
which is when FULL, the in-place path and left-over copies occur; two kills leave two
stale copies of one key, the least that tells "last copy" from "all copies". `kill`
has one key so that four calls fit: two killed writes, and then a delete or a write
and a read of three copies. `power` has one process, since
the exclusion of calls does not depend on the media; with four calls on three
slots a write may be in place. Two slots, in `life`, are the least that can be full and
be compacted: a write, another, and a compact that moves the second record to the
first slot, killed or failing at any step; or a torn record and a repair. It starts without
a file, so that creation and open are among its steps. Clock values 0 and 1
(0 only in `life`) give both ties and progress. Keys and values are symmetric, and so are the
processes with their handles; the liveness run uses no symmetry. `Budget`
bounds calls, kills, cuts and faults; the theorems do not depend on it.

Fairness. `FairSpec` asks weak fairness of `Run(h)`, the steps the code of a
call makes by itself: a running thread is scheduled, and the lock loop is
bounded, so either the lock or the time-out happens. Calling, opening, closing,
kills, cuts, faults and the clock are not fair. The model never deadlocks: a
handle can always be opened or closed.

## What is modelled: the key=value file of edgeconf/patterns

| Module | Content |
|---|---|
| `ConfigFile` | `config_update_key` and `config_write_atomic` (`config_io.c`), one system call a step, run by any number of processes; the properties |
| `ConfigMap` | the abstract specification: a map whose updates change one key each, at one instant |
| `MCConfigFile` | constants for TLC |
| `ConfigFile_proofs` | lemmas and theorems |

### State and steps

`file` is the inode the path names (the pairs in it, and whether its data is on
the media), `images` the inodes the path may name after a power cut: every one
that was renamed there since the directory was last synced, and the one before.
`lock` is the holder of `flock(LOCK_EX)` on the `.lock` file. Each writer has a
location `pc`, the pair it writes (`upd`), its `config_t` (`cfg`), its temporary
file (`tmp`) and what its last update returned (`ret`).

An update is `Update`, `Lock`, `Read` (which also decides: nothing to do, no
room, or a file to write, as lines 211 to 227 do), `Create`, `Fill`, `Fsync`,
`Rename`, `DirSync` with the unlock and the return. Failing calls:
`FailBefore` (the lock file, the `open` of the temporary one), `FailWrite` (`fflush`, `fsync`,
`rename`: the temporary file is unlinked), `FailDirSync` (not fatal), and the
two that nobody looks at: `Misread`, where `config_read` returns less than the
file holds, and `ShortFill`, where `fprintf` fails and a later `fflush` does
not. `Kill` may strike at any point of an update, `PowerCut` ends all of them.

The history variable `exact` says of each writer that what it has read is the whole
file and what it has printed is that with its pair. Three things end it: a read that
fails (`Misread`); a file with more than `CONFIG_MAX_PAIRS` pairs, which a file written
by hand may have and of which `config_read` drops the rest; and a `fprintf` that fails
(`ShortFill`). stdio then throws away its buffer, or the part of it that was not
written, wherever a line begins or ends, so lines are cut and the rest of one joins the
next (config_io.c:275-280): `Spliced` is any configuration with no more pairs than were
printed, its keys and values whatever they may be. Such an update may leave any map,
which `ConfigMap` says with its `Miss`; every other, before, after or beside it,
changes its own key only.

### What is abstracted

- Lines, comments, white space and a key that contains `=`: keys and values are
  taken to survive the round trip through the file. Comments in the file are
  dropped by an update; no property speaks of them. A key stands on one line: a file in
  which it stands on two, by hand or by a splice, reads as one with the last of them,
  and that a read which ends between the two has the first is left out.
- A path that names no file is `NoInode`, an empty file on the media: `config_read`
  of it leaves the configuration empty, as of an empty file.
- Readers are not actors: they take no lock and a reader has one inode open,
  which is never written after the rename, so what it reads is what `file` was
  at its `open`.
- A killed writer leaves its temporary file behind. Its name is `<path>.tmp.<pid>`:
  nothing reads it, and a later process of that pid opens it with `O_TRUNC`
  (config_io.c:240, 259), so it is dropped.

### Properties

- `TypeOK`: types; a `config_t` never holds more pairs than it has room for.
- `NoStaleCopy`: from its read to its rename, what a writer is going to install
  is what the path names with its own pair changed, unless its own read failed.
- `WholeAfterCut`: whatever a power cut can expose was synced before its rename.
- `DurableWhenIdle`: with nobody killed and no failure, when nobody writes, what
  readers see is what survives a power cut.
- `ImplementsConfigMap`: the refinement; an update takes effect at its rename, and
  changes its own key only unless its own read or write failed unnoticed.
- `UpdateReturns`: every update returns.
- `AckedWhileCalm`: until something is killed or fails, an update that returned
  success is on the media, whether it wrote the value or found it there.
- `OneKeyAtATime` (an update changes its own pair and no other) and `AckedDurable`
  (`AckedWhileCalm` without its condition) are stated by comments and docs; they hold as
  long as nothing fails (`ConfigFileCalm.cfg`) and are violated when something does (below).

## What is modelled: watch and dashboard

| Module | Content |
|---|---|
| `ConfigWatch` | `mode_watch`, the inotify queue, the file under its feet, the bus, `mode_dashboard`; the properties |
| `MCConfigWatch` | constants for TLC |
| `ConfigWatch_proofs` | lemmas and theorems |

### State and steps

`file` is what the path holds, or `Missing`; `edit` what an editor that has
truncated the file is about to write. `queue` is the inotify queue: for each
event, whether its name has the file's prefix, which is all `mode_watch` looks
at. The watcher has its location `wpc`, its snapshot `prev`, what it has just
read `cur`, and the keys it has still to publish `todo`. The dashboard has its
subscription `dpc`, the signals under way `inbox`, and what it has shown last
for each key, `seen`.

The watcher's steps are `AddWatch`, `Snapshot`, `ReadEvents` (some of the queue,
as much as fits into the buffer), `ReadConfig` with the diff, one `Publish` per
key with the removals after the changes, and `Advance` (`prev = cur`). Its
failures are `SnapshotFails` and `ReadFails`, `PublishFails`, and `Crash`, after which
`systemd` starts it again. A `config_read` that cannot open or lock the file leaves the
first snapshot empty, and makes the loop skip the event; one that cannot read the file
to its end returns success with what it has, which is then taken for all of it. The environment: `Install` is the rename of an update of
`ConfigFile`; `EditOpen` and `EditClose`, `Replace` and `Remove` are what people
do to the file; `Noise` is an event of another name in the directory, or of the
`.lock` and `.tmp` files, whose names have the file's prefix too. `Enqueue`
drops events when the queue is full and leaves one overflow event without a name.

`ConfigFile` and `ConfigWatch` meet in `Install`: by the refinement an update
is one step of the map, so the watcher's model takes it as one.

### What is abstracted

- Signals of one sender arrive in order or the publication fails; JSON and the
  choice of bus are left out. Another owner of the bus name is `PublishFails`.
- One watcher. The pings of the watchdog are left out: they change no state.
- An in-place edit shows readers the truncated file and then the whole of it;
  the states in between are instances of `Replace` as far as the watcher can tell.
- The dashboard hears of changes only. What it can know of the other keys is
  what held when it came (`base`), and `Belief` is stated relative to that.

### Properties

- `TypeOK`: types, and the queue's bound.
- `NothingMissed`: without a failure the watcher never sleeps on a change.
- `Converged`: without a failure, once queue and bus have drained, the dashboard
  has the file's values, removed keys included, whatever was merged on the way.
- `EventuallyAgrees`: and they do drain.
- `SnapshotAnnounced`: the same for the watcher's own snapshot whatever fails;
  stated by a comment, and violated (below).

## Runs of the file, watch and dashboard

| Run | Instance | Shows |
|---|---|---|
| `config_file` | 2 writers, 3 keys, 2 values, room for 2 pairs, no file at the start, 3 updates, 2 crashes, 1 failing call, weak fairness | `TypeOK NoStaleCopy WholeAfterCut DurableWhenIdle UpdateReturns ImplementsConfigMap AckedWhileCalm` hold |
| `config_misread` | 2 keys, a file of up to 2 pairs, 1 update, 1 failing call | `OneKeyAtATime` violated |
| `watch` | 2 keys, 2 values, any file or none, 2 changes, 1 other event, 1 failure, queue of 2, weak fairness | `TypeOK NothingMissed Converged EventuallyAgrees` hold |

Further: `ConfigFileCalm.cfg` (a file of up to 2 pairs, 2 writers, 3 updates, nothing killed
and nothing failing) finds `OneKeyAtATime` and `AckedDurable` hold; `ConfigFileKilled.cfg`
(2 writers, 2 updates, 1 crash) finds `AckedDurable` violated, `ConfigWatchFault.cfg` (a queue of 3, no other event)
finds `SnapshotAnnounced` violated.

Bounds. Three keys with room for two is the least in which an update finds the
file full; three updates by two writers are the least for one that waits, one
that overwrites and one that finds its value there; two crashes let a kill
between rename and directory sync be followed by a power cut. In `watch` two
changes are the least that can be merged or undone, and with the third event
they overflow a queue of two.

Deadlock is not checked in these: updates, changes and failures are
bounded, and when they are spent and everything has returned nothing is left to
do. `UpdateReturns` and `EventuallyAgrees` are what says that nobody gets stuck.

Fairness. Weak fairness of `Run(p)`: a process that runs is scheduled, and
`flock` grants the lock to one that waits when it is free. It does not promise
an order; that a waiting writer gets its turn follows because the others make
finitely many updates. Weak fairness of `Watcher` (its `poll` returns when there
are events) and `Show` (the bus delivers), and of `EditClose` (an editor that has
truncated the file writes it). Changes, failures and subscribing are not fair.

## What is modelled: the adjuster

| Module | Content |
|---|---|
| `Adjuster` | `adjust.py`: the loop, reload, measuring and reconciling, decoder processes, shutdown; the properties |
| `MCAdjuster` | constants for TLC |
| `Adjuster_proofs` | lemmas and theorems |

### State and steps

`file` is what the machines file lists: for each context its settings, or
nothing; or `Bad`. `reload` and `stop` are the two events the signal handlers
set. The main thread has its place `pc`, the context it handles `at`, those its
loop has still to visit `todo`, and the decoder it waits for, `term`. Per context
there are the `MachineRuntime` (`ctx`: its settings, whether probes are attached,
whether `last_error` is set), the topics asked for (`want`), `active_decoders`,
`decoder_failures` (`fails`: count, and time since the last crash), the entry in
`MetricsState`, and, outside the program, the processes themselves (`proc`).

A round is `Round` (time passes, `reload_event` is looked at), perhaps `Load`,
`Retire`, `Visit`, `Attach` with `Terminate`, `Terminated` and `Closed` where a
context is removed or replaced, then for each context `Measure` (measurement,
and the reaping of dead decoders), `Terminate`/`Terminated` for each unwanted
decoder, and `Spawn`; at last `Swept`. `Wake`, `Shutdown` and the same closing steps are
the end. `LoadFails`, `AttachFails`, `MeasureFails` and `SpawnFails` are the
failures with what the code does about each. `EditFile`, `Sighup`, `Sigterm` and
`Crash` happen at any time.

The history variables: `unread` (a SIGHUP came after the file was last read),
`broken` (contexts whose last attach failed), `streak` (in how many rounds running
a decoder was found dead, counted up to the threshold).

### What is abstracted

- Bytes are three bands, which is all `determine_topics` looks at; a band is
  chosen freely in each round from `Flows`. Topics are paths below the machine.
- Contexts are different machines. The code keys them by machine and port and
  takes the topics from the machine alone: two ports of one machine would have
  the same topics (listed as a hazard). A machine listed twice is left out.
- Time advances by more than the interval per round and by at most `Slack` more;
  within a round it stands still. The age of a crash matters up to the window, so
  it stops at `Window + 1`. A decoder seen alive by `poll` was started in an
  earlier round, which is longer ago than the interval: `decoder_started_at` is
  not kept.
- After `bpf.cleanup` the table reads as empty, or raises.
- When `Popen` fails, any part of the startable topics may have been started: the
  order of their names is left out.
- Signals set their event in one step. `Event.set` in a handler can meet
  `Event.wait` holding the same lock (listed as a hazard); that is inside the
  standard library.
- `dry_run`, the crash counter, `last_reload_status`, the HTTP server and the watchdog's pings
  change nothing in contexts or decoders.

### Properties

- `TypeOK`: types; a crash count never passes the threshold, since a held-back
  decoder is not started.
- `OneDecoderPerPoint`: the decoders of a context that run, or have not yet ended,
  never overlap.
- `NoOrphans`: every process is in the table of a context or being waited for.
- `AsConfigured`: between reloads the contexts are those of the last file that
  could be read, but for those whose attach failed.
- `NoReloadLost`: a SIGHUP leads to a reading of the file after it.
- `ReportedCount`: between rounds `/metrics` has the number of decoders that are in the
  table, and no context with an error is healthy.
- `BackoffHolds`: a decoder found dead in as many rounds running as the threshold
  is not started again in that round.
- `Served`: again and again every topic asked for has a running decoder.
- `StopEnds`: SIGTERM ends the adjuster.
- `HealthyMeansAttached`: stated by a HELP text, and violated.

## What is modelled: the decoder

| Module | Content |
|---|---|
| `Decoder` | `decoder.py`: the main thread, the network thread, the broker and the adjuster around them; the properties |
| `MCDecoder` | constants for TLC |
| `Decoder_proofs` | lemmas and theorems |

`mpc` and `npc` are the two threads, `cur` the message in `on_message`, `link` and
`flight` the connection and what the broker has sent on it, `fate` what became of
each message. The main thread connects, waits for `stop_event`, joins the network
thread and closes the databases; the network thread reads CONNACKs
(`OnConnect`, which subscribes), reconnects, and runs `on_message` (`OnMessage`,
`Process`, `Record`). `Sigterm` and `Sigkill` are what `terminate_decoder` of the
adjuster sends, `Drop` loses the connection or stands for a refused CONNACK.

A message is well-formed or in `Malformed`; parsing and the line protocol
are that one test. Messages have QoS 0: one that is published when nobody is
subscribed is missed, one on a connection that breaks is lost, and no property
speaks of these. A connection object of SQLite may be used by the thread that
opened it only (`Usable`): both are opened by the main thread. A `disconnect()`
that the client overtakes with a connection attempt is forgotten, as the client
does; `loop_stop` ends the loop all the same.

- `SettledAtExit`: the databases are closed only when no message is being handled,
  and no message is left half-handled by a decoder that was not killed.
- `ExitsOnStop`: SIGTERM ends it, whatever either thread is doing.
- `SubscribesAgain`: after every loss of the connection, as long as it runs.
- `FailuresAreKept`: stated by the documentation, and violated.

## What is modelled: the container API

| Module | Content |
|---|---|
| `RuncApi` | `api.py`: start, stop and update requests as sequences of runc commands, and runc; the properties |
| `ContainerStore` | the abstract specification: what the answers promise |
| `MCRuncApi` | constants for TLC |
| `RuncApi_proofs` | lemmas and theorems |

`box`, `inc`, `dying` and `limit` are runc's container of one name: its state, how
many have been created under the name, whether SIGKILL was sent, its settings.
Each client has the command its request runs, `pc`. A start is `Create` and
`Start`; a stop is `Term`, `Poll` once a second up to `Grace` times, `Kill` and
`Delete`; an update is `Update`. Each is one step, since runc works under its own
lock; between them anything may happen, because the endpoints take none.
`TimeOut` is a command that outlasts its timeout, `Fails` one that exits with an error
for a reason of its own or, for `runc state`, prints no JSON; both may have had their
effect or not. What follows is the same (`NoResult`): a start, an update and a delete
answer 504 or 500; a stop passes over its failing kills, and a look at the state that
fails ends the polling at once ("proceed", api.py:215), so that SIGKILL comes before the
grace period is over. `blind` is the history of that. `CannotRun` is an exception that no
endpoint catches, and `Restart` the death of the server.
What runc does is taken from how `api.py` uses it and is marked external.

- `CreatedIsPending`: until a command times out or fails of its own, a container
  that is created and not started belongs to a start that is about to start one.
- `GraceKept`: a stop does not kill the container it asked to end before the grace
  period is over, unless a look of its own at the state failed or timed out. What goes
  wrong with the commands of others makes no difference.
- `ImplementsStore`: the refinement. A request changes the container at most once,
  between call and answer; 200 says that it has, 404 and 409 are true when they
  are given, 500 and 504 leave it open. A stop takes effect at its delete, an
  update at its command, a start at its create.
- `RequestAnswered`: every request is answered.
- `AskedFirst`: stated by a docstring, and violated by an interleaved start.

## Runs of the services

| Run | Instance | Shows |
|---|---|---|
| `adjuster` | 2 contexts, settings of one and of two modules, lowest and highest band, window of 3 intervals, threshold 2, 1 SIGHUP, and two of: 1 edit, 2 crashes, 1 failure; weak fairness | `TypeOK OneDecoderPerPoint NoOrphans AsConfigured NoReloadLost ReportedCount BackoffHolds StopEnds Served` hold |
| `adjuster_zombie` | 1 context, 1 edit, 1 SIGHUP, 1 failure | `HealthyMeansAttached` violated |
| `decoder` | 2 good messages, 1 malformed, 2 losses, weak fairness | `TypeOK SettledAtExit ExitsOnStop SubscribesAgain` hold |
| `decoder_dead_letter` | 1 good message, 1 malformed, no losses | `FailuresAreKept` violated |
| `runc_api` | 2 clients, 4 requests, grace 1, at most 1 timeout, 1 exit, 1 fault (a command that fails or cannot run, or a restart), weak fairness | `TypeOK CreatedIsPending GraceKept RequestAnswered ImplementsStore` hold |

Further: `AdjusterBackoff.cfg` (1 context, 3 crashes, a window of one interval, as
in the defaults) finds `BackoffHolds` violated, `RuncApiAsked.cfg` finds `AskedFirst`
violated.

Bounds. Two contexts are the least of which one can be removed, replaced or fail
while the other must go on; two modules and the two bands give a wildcard
decoder and two that overlap with it. Two events let every pair of them meet: two
crashes of a decoder reach the threshold, an edit and a failed attach leave a
context behind. A window of three intervals is longer than a round, which takes at
most two; with `Window = Interval` a crash is always forgotten by the next round.
The adjuster starts with one context, with both, or with a bad file. In
`decoder` two losses are the least for a loss after a reconnect. In `runc_api` four
requests of two clients contain the sequence that matters, a slow stop
interleaved with a stop, a start and a further call; one container name is
enough because requests for different names share nothing.

Fairness. Weak fairness of `Main` of the adjuster and of `Main` and `Network` of the decoder: a
thread that can go on is scheduled, `wait` of a process that was sent SIGTERM, and
SIGKILL after five seconds, returns. Weak fairness of `Run(c)`: a runc command
ends or times out. Edits, signals, crashes, losses, failures and calls are not fair.
Deadlock is not checked: these programs end, or run out of requests.


## Where the code and its comments disagree

- `RobustCfgClock.cfg`: robust_cfg.c:514 calls two copies of a key harmless
  because the newest timestamp wins. If a write was killed before it marked the
  old copy and the wall clock is then set back, the next successful write of
  that key is not what reads return.
- `RobustCfgTie.cfg` (run `same_second`): the same comment, without any clock step. Slot order decides
  between equal timestamps, and after `repair` freed a lower slot a newer record
  can sit below a stale one: an acknowledged write is not what reads return
  until the second is over and the key is written again.
- `RobustCfgHalf.cfg`: the same comment. A write killed after it
  marked the old copy leaves a marking that is not on the media, and the next open,
  which sees one live copy, writes nothing. A delete marks the other copy, a power
  cut before its sync keeps this marking and not the first, and the old value is
  back. `RobustCfgStale.cfg` has no power cut: a killed compact leaves an older copy
  in a higher slot, and a delete killed half-way leaves that one.
- `RobustCfgCompactCut.cfg`: robust_cfg.h:8 promises power-loss durability. `compact`
  rewrites all slots and syncs once; a power cut before can lose keys that were
  on the media.
- `RobustCfgOpenRace.cfg`: robust_cfg.c:379 says O_EXCL avoids a race between creating and
  opening. The file is visible before it is locked, so a second opener can find
  it blank and fail; if the creator dies there, the file stays blank.
- `ConfigFileMisread.cfg` (run `config_misread`): config_io.c:209 does not look at what `config_read` returns
  ("OK if file does not exist yet"). Any other failure leaves the configuration
  empty or cut short, and the update then installs a file with its own key and
  without the others, durably, and returns 0.
- `ConfigFileKilled.cfg`: docs/scenarios.md:189 says "Atomic writes, and durable ones".
  A writer killed between its rename and the directory fsync lets go of the
  lock; the next writer of the same value takes the no-op path (config_io.c:213),
  syncs nothing and returns 0, and a power cut can still undo the value.
- `ConfigWatchFault.cfg`: robust_config.c:338 says that without the removals "a
  subscriber would keep serving the retired value forever". When a publication
  fails the snapshot advances all the same (line 358), nothing is sent again,
  and subscribers keep the old value until that key changes once more.
- `AdjusterZombie.cfg` (run `adjuster_zombie`): adjust.py:158 exports "Machine
  context health (1 healthy, 0 unhealthy)". A reload closes a context whose
  settings changed before it attaches the new probes. When that fails, the closed
  runtime stays in the table with nothing to tell it from a sound one; the next
  round measures an empty table, starts its wildcard decoder and reports it
  healthy. Putting the old settings back changes nothing: they are equal.
- `AdjusterBackoff.cfg`: the help text of `--decoder-crash-threshold` promises a
  threshold "before restart backoff is enforced". With the defaults the backoff
  window is as long as the interval, crashes are noticed once per round, rounds are
  a little longer than the interval, and so the last crash is always past the
  window: a decoder that dies at once is started again in every round.
- `DecoderLost.cfg` (run `decoder_dead_letter`): docs/autoscale.md:263 says that
  every message whose processing fails is written to the dead-letter queue. The
  SQLite connection was opened by the main thread and `on_message` runs on the
  MQTT client's: the insert raises, the message is lost, and the exception ends
  the network thread of a process that stays alive. With `--processor sqlite` the
  first message does it, whatever it is.
- `RuncApiAsked.cfg`: the docstring of `stop_container` (api.py:194) says that
  SIGKILL is sent after SIGTERM and the grace period. A stop that waits while
  another stop and a start go by kills and deletes the new container.

## Theorems

All are for every value of the constants: any number of slots, keys, values,
handles and processes, any budget.

- `TypeCorrect`: `Spec => []TypeOK`. Inductive invariant `TypeInv`, which adds
  `JobShape`: a call that is about to write has a slot left to write, and a call
  that re-reads has chosen one. Without it the next slot, the minimum of the
  slots left, would not be a slot. The lemmas on `Min` and `Max` over slots, on
  the winner of a scan and on the image compact writes at
  the head of `RobustCfg_proofs`; finite sets there need well-founded induction on
  subsets.
- `Exclusion`: `OneHandlePerProcess` implies `Spec => []WriterExclusion`.
  Inductive invariant `LockInv`: a handle past its lock holds the lock its call
  needs (`Holding`), and a process with the write lock is the only one with any
  (`OneWriter`). Each step of a handle is shown to be one of four kinds (takes
  the lock, works outside it, works inside it, gives it up), and the invariant
  is proved for the four.

- `CopiesAreKept` (`RobustCfgKeys_proofs`): with one handle per process and no
  power cut, `Spec => SafetyNet`. `SafetyNet` is not about one step: whether a
  write may mark the old slot depends on a scan made several steps before.
  The inductive invariant `KeyInv` therefore says of each call that writes what
  the slots it has still to write hold (`Task`): the slot for a new record is
  EMPTY or the key's own last copy; the slot a write marks has the key and
  another slot a live copy; open, repair and init touch only slots that are not
  live; a delete only slots of its key. Another call cannot disturb that, since
  a call that writes is alone (`AloneInFile`, from `LockInv`), so each step is
  examined for its own call only. `HeaderInv` covers the creation: until the
  header exists the file is empty, and one opener at most initialises it.
- `KeysAreKept`: under the same hypotheses, `Spec => KeysSurvive`. What is added is
  `CompactTask`, which holds until an I/O operation fails: the slots compact has not yet written hold what its scan saw,
  the others the compacted image. It writes upwards and moves records down
  (`CompactKeeps`), so the record it overwrites has its copy below already, or
  stays where it is.
  Power cuts are left out of both, because with them compact does lose keys
  (`RobustCfgCompactCut.cfg`).

`RobustCfgStore_proofs` adds what the calls know of the data, while nothing failed:
`KindInv` (which calls reach which point) and `CourseInv` (the record a write puts
and the slot it puts it in are those its scan chose; the copies of the key are what
a delete has still to mark; what compact has left to write is the rest of one image).

- `WritesAreSynced`: with no kills and no I/O errors, `Spec => []SyncedBetweenCalls`,
  for all calls and any power cuts. `FileSynced`: the media may differ from the page
  cache only while a call is between a store and its sync.
- `MediaKeepKeys`: with one handle per process and without kills, I/O errors and
  compact, `Spec => SyncedKeysSurvive`. `MediaInv` says slot by slot what may be
  unsynced and by whose call: the slot a write has just put, the slot being
  marked, slots of repair that hold nothing. It is the order of `Put`, `PutSync` and
  `Mark` that makes a power cut harmless.
- `CountIsExact`: with one handle per process, `Spec => []CountExact`. `CountInv`
  follows the difference between header and file through each call: one more
  record after a write's put, one less for each copy a delete has marked
  and not counted yet. For compact it needs that its image has as many live records as
  the file it scanned, which is a bijection between slots (`CompactCount`, by `Rank`).
- `LibraryIsAStore`: `Spec => ImplementsKVStore`, for every `Workload`: one handle per
  process, a clock that does not step back, no I/O errors, and the combinations of
  calls and crashes named above. The invariant `StoreInv` has two parts. Of the
  file (`Sane`): records fill the slots upwards, the copies of a key have their
  timestamps in slot order, none is newer than the clock, and without power cuts no
  record is torn. Of each call (`StoreTask`): before its effect the file shows the map
  of `view`, after it that map with the effect (`Before`, `After`); between the two
  there is one step, which is `Put`, the marking of the last copy, or none. With
  power cuts, `BackTask` says the same of the media. A kill then leaves one of the
  two maps (`KillMaps`); a cut leaves the map of the media or of the page cache, or
  the record written over is torn (`CutLeavesMap`); a return has the answer that
  the map gives. Open, repair and compact leave the map as it is, since
  they touch only slots that hold nothing or, for compact, keep the order.

Two attempts that failed changed the model. `KVStore!Outcome` was a CASE whose
guards overlapped for a read of an absent key; and `SyncedKeysSurvive` had no
exception for writes in place, which four slots for four calls had kept
out of the run.

The key=value file (`ConfigFile_proofs`), for any number of writers, keys and
crashes. The inductive invariant is `IInv`:

- `LockHeld`: past `flock` a writer holds the lock, so at most one is;
- `CopyOK`: while its own read was the whole file, what it carries is what the path
  names with its own pair set. This needs the lock: nobody else renames;
- `TmpOK`: while it is `exact`, its temporary file is what it carries; and whatever that
  holds, it is synced before the rename;
- `FreshExact`: a writer that has not read yet has missed nothing, which is what lets the
  failure of one update end with it;
- `ImagesOK`: everything a power cut can expose is synced;
- `Busy` and the types, with the lemma `SetStored` that `config_set` adds a key
  only where there is room.

From it follow `FileTypeCorrect`, `NoLostUpdate` (`NoStaleCopy`),
`SyncedBeforeRename` (`WholeAfterCut`) and `FileIsAMap` (`ImplementsConfigMap`):
`Update` maps to `Begin`, `Rename` to `Apply`, whatever makes a writer idle to
`End`, a failure nobody notices to `Miss`, a power cut to `PowerCut`, the rest
to stuttering. The refinement speaks of failing runs as of others: an update that is
`exact` applies its own pair, whatever happened to the ones before it.

Three more say what holds as long as nothing fails. `DurableBetweenUpdates`
(`DurableWhenIdle`), from `SyncDue`: a rename that is not on the media has a writer
about to sync the directory. `SuccessIsDurable` (`AckedWhileCalm`), which needs no hypothesis,
from `OwnPairs`, which follows a writer's pair from its copy to the file: the no-op
path is safe because the lock keeps a writer out until the last one has synced.
`OthersAreKept` (`OneKeyAtATime`), from `Whole`: no file has more pairs than a
`config_t` holds, if the first had not; crashes are allowed there.

The watcher (`ConfigWatch_proofs`), for any number of keys, any queue and any
changes: `WatchTypeCorrect`; `ChangesAreNoticed` (`NothingMissed`), from the
invariant `Awake`, which says of a publishing watcher with respect to `cur` what
`NothingMissed` says of a sleeping one with respect to `prev`; and
`DashboardAgrees` (`Converged`), from `Awake` and `Told`: for each key the last
signal under way, or what was shown last if there is none, is what the watcher
has announced. The lemma `DiffComplete` is what makes the diff enough: a key that
it does not report has the value it had.

The adjuster (`Adjuster_proofs`), for any contexts, settings, flow bands,
interval, window, threshold and any number of events. The inductive invariant
`IInv` has these parts:

- `Shape`: the types of the thread's state, which context is in hand at which
  place (`InHand`), and that a loop has only contexts ahead of it that it may
  visit (`Ahead`);
- `Owned` and `AllApart`: a process is one the context holds (`Held`: in
  `active_decoders`, or the one waited for), a context that is gone holds none, a
  shutdown has still to visit every one that holds some, and what is held, and
  what is wanted, never overlaps. The step that matters is the start of decoders:
  only when the old ones that are no longer wanted have ended is everything that
  is held among the topics of one measurement, which are as deep as each other
  (`DetermineApart`);
- `Listed`: while a list is applied, a context that differs from it is still to
  be visited, or obsolete, or in hand;
- `Reported`: the entry of every context is right, but for the one in hand;
- `Pending`: what `NoReloadLost` says; `Failures`, `Entries`, `Flags`: the types
  of the rest, with what they need: a decoder in the table was allowed to start,
  and the tables are finite.

From it follow `AdjusterTypeCorrect`, `NoPointTwice` (`OneDecoderPerPoint`),
`NoProcessLost` (`NoOrphans`), `ContextsFollowTheFile` (`AsConfigured`),
`NoHupLost` (`NoReloadLost`) and `MetricsAreTrue` (`ReportedCount`).
`CrashesAreHeldBack` (`BackoffHolds`) has a hypothesis, `Window >= Interval +
Slack`, without which it is false (`AdjusterBackoff.cfg`). Its invariant
`KeepsUp` says that the crash count is at least the number of rounds in a row,
and that the last crash is new when the context has been measured in this round
and one round old otherwise. The case that needs care is the start of the
adjuster, where it sleeps without having measured: there nothing has crashed yet.

The decoder (`Decoder_proofs`): `DecoderTypeCorrect`, and `NothingCutShort`
(`SettledAtExit`). The invariant says of the two threads that the databases are
open until the main thread has left (`Open`), that it leaves only when the network
thread has been joined (`Joined`), and that the message taken is the one in
`on_message` (`InHand`).

The container API (`RuncApi_proofs`), for any number of clients, any grace period
and any number of calls, time-outs and failures: `ApiTypeCorrect`;
`NothingHalfStarted` (`CreatedIsPending`), which is inductive with the types, since
only the request that creates a container goes on to start it;
`GraceIsKept` (`GraceKept`), from `GraceUsed`, which says that a stop at its SIGKILL has
used up its looks, or is `blind`, or has a container before it that is not the one it
asked to end, and from the fact that a container that is no longer live never lives
again under its number; and `AnswersAreTrue` (`ImplementsStore`): a
call maps to `Begin`, a `runc create` that works to `Make`, the command an answer
200 depends on to `Succeed`, a command that finds the wrong state to `Refuse`, a
failure or a time-out to `Fail`, a restart to `Restart`, the rest to stuttering.

Model-checked only: all liveness (`CallReturns`, `UpdateReturns`, `EventuallyAgrees`,
`StopEnds`, `Served`, `ExitsOnStop`, `SubscribesAgain`, `RequestAnswered`), which is out
of the prover's reach. Every safety property of a passing run is a theorem.

## Plan

Every part that keeps protocol state has its module, and every safety property
is proved. What is left: `SyncedKeysSurvive` with kills and power cuts together. As it
stands it is false there, and rightly so: the marking of a delete that was killed, or
a write in place that was, reaches the media, or is torn, when no call answers for it
any more. It needs a history of the keys that a killed call was taking away. Then
`WriterExclusion`'s counterpart for two handles of one process, which fails in the code
and deserves a run; and a property of the file a creator leaves that died before it
wrote the slots.

Not modelled: the CLI of librobustcfg (one library call, no state), argument and
environment parsing, logging, the crash handler, JSON escaping, MQTT security
options, the eBPF program text, the HTTP endpoints of the adjuster and the
read-only endpoints of the container API: pure I/O or formatting without protocol
state.
