# Formal model of wings-rs

wings-rs is the node daemon of a game server panel. It runs each server as a
Docker container, starts and stops it on request, watches it, serves its files
over HTTP and SFTP, makes and restores backups, installs servers and moves them
to other nodes. The daemon is one process on a multi-threaded tokio executor;
nearly everything hard about it is two of its tasks meeting in the state of one
server. This directory models that: TLA+ modules translated from
`src/application/src`, TLC configurations that check them on small instances,
and proofs checked by TLAPS.

All source paths below are relative to `src/application/src`.

## 1. Inventory

| Component | State | Operations | Hard behaviour | What makes it correct |
|---|---|---|---|---|
| State lock (`server/state.rs`) | power state, lock flag (two atomics) | `execute_action`, `set_state` | load and store of the flag are apart; an elapsed timeout runs the action unlocked; futures are dropped | a set flag has an owner; the owner keeps it; callers with a timeout get through |
| Power (`server/mod.rs`) | container handle, `stopping`, `restarting`, `crash_handled`, `last_crash` | `start`, `stop`, `restart`, `kill`, `stop_with_kill_timeout`, `destroy_container` | prechecks are stale after the wait; flags are set after the fact; `kill` takes no lock | a running process is watched and reachable; no state refuses everything; wanted exits are not crashes; restarts happen |
| Monitor, sampler (`server/mod.rs`, `server/container.rs`) | the container it watches, one buffered sample | sample, handle running and exited | aborts and replacements race samples | every exit is noticed, once |
| Console reader (`server/container.rs`) | line buffer, throttle counters | read, cut, send | chunk boundaries, compaction, rate windows | output depends on the bytes only; bounded rate, bounded buffer |
| Maintenance (`server/installation.rs`, `server/backup/mod.rs`, transfer and reinstall routes, `Server::destroy`) | `suspended`, `installing`, `restoring`, `transferring`, `installation_script` | install, reinstall, restore, transfer, cancel, delete, sync | `is_locked_state` is checked and the flag set later; flags are shared by operations | work on the files is flagged; flags have an owner; one operation at a time |
| Transfers (`server/transfer.rs`, `routes/api/transfers`) | both nodes' tasks, the archive stream, the panel's view | begin, stream, cancel, complete | two nodes and the panel disagree after a failure | a server ends up on exactly one node |
| Remote downloads (`server/filesystem/pull.rs`, `routes/.../files/pull`) | map of downloads under a read-write lock | list, begin, cancel | sweep races start; lock order | running downloads are listed; the limit holds; requests return |
| Disk quota (`server/filesystem/mod.rs`, `writer.rs`) | cached usage (u64) | allocate, deallocate, buffered writes | check and add are apart; polls repeat; writers are dropped | what is written is counted; the limit is exceeded by a bounded amount; no wrap-around |
| Usage tree (`server/filesystem/usage.rs`) | size per directory | update, remove, clear, rebuild by the checker thread | requests fail half way and race the scan | the usage becomes that of the disk again |
| Server manager (`server/manager.rs`, `main.rs`) | the list of servers, `states.json`, `installing.json` | boot, save every 10 s, create, delete | crash of the daemon between truncation and write | what ran before runs again |
| Activity (`server/activity.rs`) | queue | log, send a batch | a failed send after the batch was taken out | entries arrive once and in order, or their batch failed |
| Sessions (`server/websocket`, `remote/jwt.rs`) | the token in force, the sending half, seen tokens | authenticate, renew, expire, power and console messages | five tasks share a token and a sink; checks and inserts apart | nobody gets what his token does not grant; a renewal comes into force; a one-time token works once |
| SFTP and file routes (`sftp`, `routes/.../files`) | sessions, handles | open, read, write, remove, rename, copy | requests in flight when a lock begins; accounting | a lock keeps sessions out; handles are bounded |
| Backups (`server/backup`) | what each adapter stores, what the panel was told | create, report, delete, restore, download | failures between pieces, readers of what is deleted or incomplete | what is reported complete is; failures leave nothing |
| S3 upload (`server/backup/s3.rs`) | parts and attempts | upload part, retry, complete | retries that share a file offset | every byte once and in place; the upload ends |
| Others | | configuration files, limiters (btrfs, xfs, zfs), archives, CLI, extensions, statistics | sequential, I/O bound | |

How they interact. Power calls come from HTTP (`power.rs`, each in a task of its
own), from the websocket, from the monitor (crash and restart), from the
manager at boot, and, as `stop_with_kill_timeout`, from reinstall, restore,
transfer and the disk limit. They meet in the state lock and in the atomics of
`InnerServer`. The monitor is replaced whenever a container is; it hears of the
container through a channel of capacity one. Maintenance keeps power out with
the four flags of `is_locked_state`. Writers of every kind (HTTP, SFTP,
downloads, restore) meet in the cached disk usage.

`PROJECT.json` lists every component with its status and every hazard with its
line and the properties aimed at it.

## 2. Modules

| Module | Models | Abstraction |
|---|---|---|
| `StateLock` | `execute_action` and `set_state` for any number of callers | what an action does is left open: it succeeds, fails, hangs or is dropped |
| `StateLockProofs` | theorems about `StateLock` | |
| `Power` | the power calls, `destroy_container`, `setup_container`, monitor, sampler, startup line; uses the lock | configuration sync, image pull and file updates are one step that may fail |
| `MCPower` | `Power` for TLC | symmetry of clients and containers |
| `PowerProofs` | theorems about `Power`, and that it implements `StateLock` | |
| `Maintenance` | the four flags of the locked states, and the operations that check, set and clear them: installation, reinstallation, restore, outgoing transfer and its cancellation, start, sync | start and stop are reduced to what becomes of the process; deletion and crashes are in `Manager` |
| `MaintenanceProofs` | theorems about `Maintenance` | |
| `Console` | the stdout task of a container | bytes are line feed, blank or other |
| `MCConsole` | `Console` for TLC, and what its reference definition comes to | |
| `Pulls` | the map of downloads, its lock, the three request handlers | what a download transfers is left out |
| `PullsProofs` | theorems about `Pulls` | |
| `DiskQuota` | `allocate_in_path_raw`, both writers, `truncate_path` | one counter; the usage per directory is in `Files` |
| `Files` | the tree of files, the usage per directory and in all, the checker thread, SFTP sessions with handles, the routes that change files, a maintenance that empties the server | two levels of directories; links, modes and ignored files are left out |
| `DiskProofs` | theorems about `DiskQuota` and `Files` | |
| `Backups` | create, report, delete, restore and download with every adapter, the upload to S3 | a backup is a set of pieces; archive formats are left out |
| `BackupsProofs` | theorems about `Backups` | |
| `Sessions` | the tasks of a websocket, tokens, the activity queue, one-time tokens | what messages say is left out |
| `MCSessions` | `Sessions` for TLC: a behaviour is about the socket, the queue or the one-time tokens | |
| `ClientProofs` | theorems about what reaches the clients: `Sessions` and `Console` | |
| `Manager` | one server at a node: boot, `states.json`, `installing.json`, create, start, sync, install, delete, exits, crashes of daemon and host | one start at a time; restores are left out |
| `Transfer` | extends `Manager`: the server moves to a second node; the task at the source, the stream, the task at the destination, the panel | the archive is a beginning and the rest |
| `MCNodes` | both for TLC: a behaviour is about one node or about a transfer | |
| `NodesProofs` | theorems about `Manager` and `Transfer` | |

Atomicity. A step is the code between two await points, split wherever another
thread can see the difference: between the load and the store of the lock flag
(`FindFree`/`Claim`), before the stores that follow `execute_action`
(`FlagStopping`, `MarkRestarting`), between the check and the update of the
cached usage (`Check`/`Add`, `Free`/`Sub`). Stores that follow each other with
no await and whose intermediate values decide nothing are one step (the state
and the lock flag at the end of an action; the flags of `WantedExit`).

### StateLock and Power

`StateLock` has one record per call: how far it has come, the state it wants,
the state it remembers (read *before* it waits), and whether it has an acquire
timeout. `Power` refines it: `ImplementsLock` is `StateLock`'s specification
under a mapping that reads each power call as a call of `execute_action`.

A power call in `Power` is a record with its position (`pc`), the operation,
what it asked of the lock and the container it has in hand (`target`). The
positions of `start` follow the code: `remove`, `drop` (destroy_container),
`prepare` (sync, update files, pull), `create`, `adopt` (attach and replace the
monitor), `publish` (store the handle), `launch`. `stop` is `signal`
(and `send`, if the egg stops its servers with a command, which goes into the
bounded channel of the container's input), then `flag` and, for restart, `mark`;
`stop_with_kill_timeout` goes through `stop` to `watch` and perhaps `kill`. Docker is external: it keeps containers, refuses
a second one with the same name, and any call to it may fail.

Only `stop_with_kill_timeout` can be abandoned. Power calls over HTTP run in
tasks of their own, and those of a websocket in a future that its `select` never
drops while it runs; but the reinstall route awaits `stop_with_kill_timeout`
inline, so that a closed connection drops it, and an aborted transfer drops its
task. The locked states and the full disk show as `StartRefused`. A stale
second sample in the hands of the sampler is left out.

History variables are read by properties only: `undead` (containers whose forced
removal failed), `intended` (containers that a stop or a kill has asked to end) and `serial`. The lock does not exclude: two calls can pass
it together, and an elapsed timeout passes it by design. So properties of what
actions do are stated for histories in which every action still found what its
call had checked before it queued (`serial`, see `Undisturbed`). What goes on
outside the lock (kills, the monitor, samples, startup lines, the daemon's
failures, dropped calls) is never restricted by it.

`IntendedExitNeverCrash` is about every exit after a stop or a kill has asked for
it. `stop` stores `stopping` only after its action has returned (`mod.rs:1031`), so
an exit the monitor sees before that is handled as a crash; the property says that
this is the only way, that is, that the stop that asked is then still at `flag`.
`CallsReturn` exempts a call that waits in `send` for a process which runs and does
not read its input; the others have to return all the same.

### Maintenance

Every operation checks all four flags and sets its own later; `Check` and the
flag actions are apart. `outgoing_transfer` is the slot of the server;
what leaves it is dropped, and dropping a transfer aborts its task (`Aborted`).
The handler spawns the task first and fills the slot afterwards (`pending`).
`serial` plays the same part as in `Power`: two requests can pass the check
together, a start can be between check and action when a restore begins, a stop
can fail, and a late handler or a cancellation can hit the transfer of somebody
else. The properties say what holds when none of that has happened: who works on
the files works alone and with the process gone (`Exclusive`), and no flag is left
without an owner (`FlagsOwned`). `LocksReleased` has no such premise: whatever
overlaps, an installation or restore lets go of its flag unless an operation
panicked. Of a transfer this cannot be said: a destination may take it for ever.

### Console

The loop of the code, one round per step, with the chunks, the compaction of
the buffer and the rate limiter. `LinesFaithful` compares what was cut with a
reference definition (`Taken`) that goes from byte to byte and knows nothing of
chunks or a buffer. `MCConsole` compares that one with the lines of a text in the
ordinary sense, each divided into pieces, for all texts of up to six bytes.
Lines in the code's last branch, whose end has not been read, are not checked
for the startup marker; so whether a line of *more* than 512 bytes is noticed
depends on the chunks, and `StartupNoticed` is about the others. `strip_ansi`
and invalid UTF-8 are left out. What is left at the end of the stream is sent
without being counted, hence `BurstBound` ends when the stream does.

### Pulls

`pulls()` sweeps the map if it can take the write lock at once, then takes the
read lock; the lock is tokio's, first come first served. `Referenced` says that
identifiers are random. The violation run shows that cancelling a download never
answers: the handler awaits the write lock with its own read guard alive, and
every later request for the map waits behind it, until the client gives up.

### DiskQuota

Each writer writes one file, in polls; the async one may be polled again after
its chunk has been counted, which counts it again. The history variable
`allocated` is what each writer has added to the usage so far. Writers that look
at the usage before any of them adds to it exceed the limit together, each but
the last by one allocation (`OvershootBounded`). At any time less than one
threshold of a file is not allocated, and this is all that is forgotten when a
sync writer is dropped (`LossBounded`); a dropped async one has its bytes
allocated later. `overlap` remembers that two deallocations met; what is said
of the limit and of wrap-around is said of histories without it.

### Files

A request is checked and then leaves a queue of steps in `todo`, each the code
between two awaits; a step that fails drops the rest, as `?` does. `tree` is
`disk_usage` and `cached` is `disk_usage_cached`: every request changes both,
one after the other, and the checker thread recomputes both from the disk,
reading one directory in a step. `TruncatePath`, `RenamePath` and `CopyFile`
are the shared functions of `filesystem/mod.rs`; SFTP and the routes call them
with the extra allocations of each handler (`RemoveFile` gives the size back
once more). SFTP handlers begin with `allow_action` and the routes do not look
at the lock. `excused` marks the request under way when a lock began; for
everything else `LockKeepsOut` wants that a session changes no file of a
locked server. `UsageSettles` is the promise of the checker: however wrong the
books are, after the last request they become right.

### Backups

An adapter lays down pieces in order (archive, then its content; for snapshots
a directory, the snapshot, the list of ignored files, the name of the dataset),
and what it lists, deletes, restores and downloads is a question of which pieces
are there. `upload` is the loop of `s3.rs`: the offset of a part is computed
from what remains, all attempts share one file, hence one offset, and a reader
whose request was refused may read on (`LateRead`). The parts S3 accepted are
kept as they were read, each with its offset and length: `Adjacent` says that
they follow one another, `Exact` that they make up the whole archive. What the panel is told may
arrive without its answer. Deletions may fail at every step. The exceptions
named in the properties are what the code does not guard against; each is an
observation of section 5.

### Sessions

`client` is the task that handles messages, `listener` the other tasks of the
socket. `readers` hold the token in force, `line` is the queue at the mutex of
the sending half. A listener keeps its read guard while it waits to send:
that is why a change of token cannot overtake what the old one grants
(`GrantHolds`), and why a renewal waits for everybody's messages
(`TokenSettles`). `batch` is what `activity.rs` has taken out of the queue while
it holds its mutex; `waiting` are the callers of `log_activity`. Of one-time
tokens one identifier is modelled, as they have nothing in common.

### Manager and Transfer

`server[n]` is the `Server` of node `n`, `docker[n]` its containers, `file[n]`
what the two state files say and `save[n]` what is being written: collecting,
truncating and writing are apart. Daemon and host go down between any two steps;
containers outlive the daemon only. `Boot` empties the state files as the code
does, `Attach` and `Resume` are the task of each server at boot: it watches the
container, or attaches nothing because there is none or the list failed, or panics
because the container cannot be attached to, and then nothing is resumed. `Settle`
is the delayed clearing of `crash_handled`. `owed` is what a daemon that went down has
to take up again by what was in its files, and `Recovers` says it is paid.
`Delete` takes the server off the list and suspends it; `DeletedStaysDown` is
about those who found it before, and not about the container of an installer.

`Transfer` adds the task of the source (`sender`), the request (`stream`,
`broken`), the handler and the blocking task of the destination (`receiver`)
and the panel, which moves the server when the destination reports success and
then deletes it at the source. A transfer does not carry everything: the source
leaves out what the egg's denylist names and what it cannot read
(`server/transfer.rs:110-142`), the destination keeps directories and regular files
with relative paths only (`routes/api/transfers/mod.rs:136-167`). So `files` tells a
`"copy"` from the `"whole"`, and `FilesKept` says that the source has all files as
long as the panel has the server there, and the destination a complete copy
from then on, whatever goes wrong on the way. What the copy lacks is in section 5.

## 3. Runs

| Run | Instance | Shows |
|---|---|---|
| `statelock` | 3 callers, fair | `LockHasHolder`, `SoleHolderKeepsLock`, `PatientRuns` |
| `power` | 2 calls of any operation (start, stop and restart with a timeout) + 1 spawned start, 2 containers, crash detection | `SerialInv` and the three properties it implies |
| `power_live` | one client restarts, the other drains and may be dropped, 1 container, fair | `ImplementsLock`, `ExitSettles`, `RunningAdopted`, `CallsReturn`, `RestartHonoured` |
| `maintenance` | 3 operations at a time, fair | `Exclusive`, `FlagsOwned`, `LocksReleased` |
| `console` | 6 bytes, pieces of 2, interval of 2 ticks | the reader against the reference definition, throttle, buffer |
| `pulls` | 2 requests of every kind, 3 downloads, limit 1, fair | `RunningListed`, `LimitHeld`, `RequestsReturn` |
| `pulls_delete` | the same | *violation*: `DeleteReturns` |
| `quota` | a sync and an async writer, limit 4, threshold 2, chunks of 2 | `NothingUncounted`, `LossBounded`, `OvershootBounded`, `NoUnderflow` |
| `files` | 1 session, 1 route, a maintenance, 2 requests among them; 2 directories, 1 file name, fair | `LockKeepsOut`, `UsageSettles` |
| `backups` | 1 backup of any of 6 formats, 3 bytes in parts of 2, 3 attempts, 1 crash, fair | `ReportsHold`, `ReadersGetAll`, `CreateEnds` |
| `sessions` | 2 tokens of which one grants more, 3 messages; 2 loggers, 4 activities; 3 requests with one download token, 1 restart; fair | `GrantHolds`, `ActivityFaithful`, `OneUse`, `TokenSettles` |
| `nodes` | 1 node, 2 requests, 1 crash; or 2 nodes, 3 requests, 1 crash; fair | `DeletedStaysDown`, `FilesKept`, `Recovers` |

Bounds. `power` does not go on from states in which `serial` is false
(`StillSerial`): its invariants have that premise, except for the types and
`HasTarget`, which are proved. Two power calls and a start of the monitor are enough for every pair to
meet, and the hazards of the list are about pairs; two containers are enough
for an old and a new one, since identifiers are reused once nothing refers to
them. `MaxSpawned` bounds the starts the monitor has spawned that have not begun;
client calls wait meanwhile. In `power_live` the two clients are told apart
(`DividedSpec`): one restarts and carries out the start that follows, the other calls
`stop_with_kill_timeout`, which is stop, wait and kill, and may be dropped at every
await; one container is enough, as its identifier is reused, and without crash
detection every start is a client's or a restart's. Six bytes are three pieces, so that a line is cut,
compacted and continued. In `maintenance` two operations race and a third, for
instance the cancellation, comes in between; `install` and `sync` do not begin
by themselves there, because a reinstallation runs through the same steps. Two requests and three downloads let one download be
inserted, swept and replaced while another request holds the lock. The modulus
of `DiskQuota` stands for 2^64 and is larger than anything two writers count.

In `files` two requests are any pair of a session's, a route's and the
maintenance, step by step; the session's own handles, opening and authentication
do not count double. A limit of 2 with sizes of 1 lets an allocation fail, one
handle and one directory entry let both limits be met. In `backups` the panel may
answer with fewer part urls than needed, just enough, or more; one crash is enough
since a create or restore does not survive it. One backup is enough because
backups share nothing (but the repository of ddup-bak, which is not modelled).
In `sessions` the client can authenticate, renew with the other token and send a
command; four activities and batches of two let one batch fail while others
wait. A behaviour of `nodes` about one node begins with a server that is there or
is yet to be created; two requests are, for instance, a start and a deletion, or
a creation and a sync. With a second crash the invariants were checked too,
without another result. In a transfer three requests are the transfer, a second
one or a start, and a cancellation at either end.

Deadlock is checked except where the system may stop: in `power` both calls may
have been dropped with the lock taken; in `maintenance` all operations may have
panicked; `console` ends with its stream; `quota` ends when all files are gone;
`files`, `backups`, `sessions` and `nodes` end when their requests are used up
and a daemon is up, or a socket closed.

Fairness. Weak fairness of the executor (a task that can run does), of timers
(`GiveUp`, `WatchExpires`, the checker thread, the 30 seconds of `Announce`) and of
answers of the daemon (every step of a power call, the sampler, the monitor, the
tasks of downloads, creates and restores: the HTTP clients have timeouts). A
daemon that went down is started again (`BootSteps`), as its service unit does.
A client of a websocket reads what it is sent (`ListenerSent`, `ClientSent`):
otherwise its socket stands still, and nobody else's. Docker closes the connection
to a container that has ended (`CommandFails`), so that a stop command nobody reads
is given up then; while the process runs, sending it is not fair. Nothing is assumed of
clients otherwise, of the process in the container (it need not read, nor end), of dropped calls, of saving
the state files, of deletions and transfers, or, in `StateLock`, of actions: they
may hang.

## 4. Proofs

`StateLockProofs`, for any set of callers: `TypeCorrect`; `LockIsHeld`
(`LockHasHolder` is inductive); `SoleHolderIsSafe` (the action property, from
the type invariant, one case per action).

`PowerProofs`, for any set of calls, containers and operations and all settings:
`TypeCorrect`, `SerialConsistent`, and from it `RunningStaysWatched`,
`NeverWedged` and `IntendedExitIsNoCrash`. None of the three is inductive. That
a running container is watched needs to know that no container but the new one
exists while a start is between `create` and `launch` (`StartProgress`), hence
that actions exclude each other (`OneAction`) and that handle and monitor change
together (`HandleWatched`). That an intended exit is no crash but in
that moment (an action property) needs that the `stopping` flag, or a stop about to set
it, covers a container that was asked to end until the monitor looks (`IntentIsFlagged`), and that
a sample of an exit is about a container that stays exited (`ExitIsFinal`).
`SerialInv` is their conjunction under `serial`, and `HasTarget`, which holds
always. The proof has one lemma per part and one step per action.

`LockIsImplemented` is the refinement: under the mapping every action of `Power`
is one step of `StateLock` or leaves the lock alone. Actions of power calls that
touch neither the flag nor the part of the record that the lock sees stutter;
claims, ends and drops are the lock's own; what the monitor and the startup line
write is `SetState`. `StateLockProofs` is then instantiated with the same mapping,
and what is proved of the lock carries over (`FlagHasHolder`,
`SoleActionKeepsFlag`).

`MaintenanceProofs`, for any number of operations of any choice of kinds:
`FlagsAreOwned` and `FilesAreExclusive`. A flag says nothing by itself, because
`is_locked_state` is a disjunction of four and every operation sets only its
own; so under `serial` the invariant says of each flag who is to clear it
(`Flagged`, `Owned`), that there is one such operation of a kind (`Alone`), and
that the process is gone from the moment the work on the files begins
(`Offline`). A cancellation clears the flag first and aborts the task
later; everything about transfers has the exception of that moment (`Taking`).
Always, and needed for it: what an operation is says where it can stand
(`Kept`), what the slot holds is a transfer (`Referred`), and one operation at
most starts the process (`OneStart`).

`PullsProofs`, for any identifiers, any limit and any finite number of requests:
`RunningIsListed`, `LimitIsHeld`, and two action properties no run checks.
`StuckForGood` explains the finding of section 5: a request that waits for the write
lock and is among the readers stays there until its client hangs up.
`OnlySwept` is the consequence for the map: a request never removes a download.
The invariant follows a download from the check of the limit to its start: it is
nobody else's (`Untouched`), it is in the map or was swept (`Listed`), and each
request that passed the limit is counted as if it had inserted already
(`Bounded`). Cardinalities are why `Handler` has to be finite.

`DiskProofs`, about `DiskQuota`, for any finite set of writers, any limit,
threshold and chunk:
`AllIsCounted`, `LossIsBounded`, `OvershootIsBounded`, `UsageStaysCounted`.
`Counting` says for each position of a writer what it has counted and not
allocated. `Room` is the argument for the bound of the limit: among the writers
that have found room one was the last to look, and for it the usage, its own
allocation and one allocation of each of the others stay below `Ceiling`. `Returned`
says that a file's bytes are in the usage until they are given back. The
assumption `WidthAssumption` (`Ceiling < Modulus`) says that the limit plus one
allocation per writer is less than 2^64.

About `Files` it proves `LockKeepsSessionsOut`, for any sessions and routes, any
number of names, any sizes, limits and number of requests. `FilesInvariant` is a
conjunction of five parts. `LockSound` is the argument itself: the steps a session
has queued are those of one request, and a session with steps in its queue is
open and, under a lock, excused; so nobody else's step can be the one that changes a
file. It holds because `allow_action` is read when the queue is empty, and because a
panic of `rename_path` closes the session and drops its queue in one step.
`TodoSound` says of the queued steps what their request has seen to: the room for
a handle is still there when `open` inserts it, since that step is alone in its
queue, and the handle a write goes through is still a handle (`Prepared`).
`DiskSound` (every file lies in a directory) and `HandlesSound` (a handle that is
linked finds its file) have to be carried through renames of whole directories
(`MoveSound`, with `Hangs` for paths that move along); `UsageSound` through the sums of
the checker, whose values are numbers because finitely many are added
(`SumIsNumber`, by induction on the size of the set).

`BackupsProofs`, for any number of backups, any size of archive and part, any
number of urls and attempts: `ReportsAreTrue` and `ReadersAreServed`. The backups
share only the count of crashes, so the invariant (`Faithful`) is about one
backup, and a step for one leaves it true of the others. What the panel was told
is remembered long after the pieces changed: hence `Stage` ties the report to how
much was laid down, `Intact` keeps what was laid down until a deletion begins,
`Nested` and `Deleting` say in which order a deletion takes a snapshot apart, and
`Cleared` what a completed one leaves. For S3, `Sequential` keeps the parts
adjacent and the offset of the file where the next part begins, over all retries,
unless a late reader moved it. `Restored` and `Downloaded` say what a
reader has by now.

`ClientProofs`, about the websocket, for any tokens, permissions, loggers and requests:
`OutputIsGranted`, `TicketsServeOnce`, `ActivitiesInOrder`. That nobody is sent
what his token does not grant rests on a lock, not on the check: the task that
sends holds the read guard of the token (`Granted`). The activities are
numbered as they are logged, and batch and queue are the numbers after those that
have left, in order (`InOrder`); an entry put back, or taken out twice, would
break that. `Single` says that one request was let through the first look, unless two
raced.

About the console reader it proves, for any sizes, allowance, interval and marker:
`BufferIsBounded`, `StartupIsNoticed`, `BurstIsBounded`, `LinesAreFaithful`. What the first needs is
only that the bytes between `line_start` and the end are fewer than a piece when
the scan ends. For the burst (`Steady`): what was sent since the counter was reset
is less than `Lines`, but for the line that reset it, and what was sent before the
reset leaves the interval before the next reset, as both are at least an interval
apart. The sums over the ticks are recursive functions; that they exist, and what
happens to them when time passes or a line is sent, is proved by induction
(`Sums`, `SumsShift`, `SumsAdd`). The induction rests on the library's theorem
that finite sets are well ordered by inclusion: the intervals `0..n` are, hence the
numbers have least elements (`Least`, `Induction`). `LinesAreFaithful` uses it for
the reference definition, which is recursive too: it has a value (`TakenForms`), what
comes later changes nothing (`TakenBefore`), and up to a piece without a line feed
is taken along (`TakesAlong`). The invariant, `Followed`, says that the uncut part of the
buffer is the end of what was received, and that from the cut on the reference
definition goes as if it began anew (`Level`): after a full piece it still holds it,
and gives it away with the next byte.

`NodesProofs`, for any number of nodes: `DeletedHasNoContainer` (of `Manager`),
`FilesArrive` and `MovedHasNoContainer` (of `Transfer`, which uses the steps of
`Manager`). A deleted server stays suspended, its container is gone, and nothing
is under way that would create one or lift the suspension (`Gone`), except what
was when it was deleted (`left`). `Moving` says where the server may be and who
may touch its files: the destination never destroys it, the source only when the
panel has it elsewhere, and whoever reports success has all that a transfer carries. The steps of the
nodes are cited by what they leave alone (`Handles`, `Leaves`).

Every invariant named `Inv` here was first an invariant of a run. The proofs
assume only the named assumptions on constants, which TLC evaluates in the runs.

Model-checked only:

- everything under fairness (`PatientRuns`, `ExitSettles`, `RunningAdopted`,
  `RestartHonoured`, `CallsReturn`, `LocksReleased`, `RequestsReturn`, `CreateEnds`,
  `UsageSettles`, `TokenSettles`, `Recovers`), which is out of the prover's reach;
- that the reference definition of `LinesFaithful` comes to the lines of a text as one
  would write them down (`TakenIsExpected` of `MCConsole`): the latter sorts, folds and
  flattens, and what a fold returns would need an induction of its own for each.

## 5. Observations

One disagreement with what the code says of itself is a finding with a run: the
cancel request that never returns (`_pull_.rs:36`). Reading the source for the
model showed other behaviour that no comment contradicts. Where it bears on a
property, the property names it as an exception, so that the rest is still
checked.

Power, maintenance, quota, downloads:

- two power calls can run their actions together (`state.rs:92`, `99`), and a
  call whose acquire timeout has elapsed clears the flag of another;
- concurrent allocations exceed the limit together (`filesystem/mod.rs:678`), and
  two concurrent deallocations can wrap the cached usage around (`:690`);
- an async writer counts a chunk again whenever its poll is repeated (`writer.rs:243`);
- a download is swept when another request comes between its insertion and its
  start, and then runs unlisted (`filesystem/mod.rs:235`);
- a transfer handler that is late with filling the slot aborts the transfer of
  another request, and a cancellation that comes before the slot is filled leaves
  a transfer running without a flag (`routes/.../transfer.rs:41`, `80`);
- a stop command to a process that does not read its input keeps the stop, and the
  lock with it, until the process ends (`mod.rs:978`); calls with a timeout get past it;
- an exit between the end of a stop's action and its store of `stopping` is handled
  as a crash (`mod.rs:1031`);
- a panic in `stop_with_kill_timeout` or in the installation leaves its caller's
  flag set until the daemon restarts (`mod.rs:1077`, `installation.rs:463`);
- `installing` is cleared before the installer is cleaned up (`installation.rs:226`).

Files:

- an SFTP removal gives the space of a file back twice (`sftp/mod.rs:340-348`);
- renaming a directory that has an entry in the usage tree panics, as a relative
  path is taken for an absolute one (`filesystem/mod.rs:454`), after the entry was
  removed, and ends the SFTP session it came from;
- `open` with truncation and the `copy-file` extension do not look at
  `sftp.read_only`; a write through a handle that was not opened for writing
  keeps its allocation;
- the HTTP file routes do not look at the lock, and a body without
  `Content-Length` is not counted.

Backups:

- all attempts to upload a part share one file offset (`s3.rs:48-51`): a reader left
  over from a refused attempt can move it;
- errors of appending to a tarball are ignored (`wings.rs:94-96`), and the backup
  is reported as successful;
- patterns that do not compile end a create with no report to the panel;
- a failed create can leave the directory of a btrfs backup or the snapshot of a
  zfs backup behind;
- a restore walks over a snapshot that is being deleted and reports success; a
  download of an archive that is still written looks complete.

Sessions:

- `deny` stores the present as the time until which a token is denied
  (`remote/jwt.rs:99`), and `validate` compares it with a later present: a denied
  token stays valid;
- events of the server are forwarded without a look at the expiry of the token;
- an activity batch the panel answers with an error status counts as sent
  (`remote/mod.rs:58-72`).

The manager and transfers:

- `suspended` is not taken from the panel when a `Server` is made, but at the first
  sync;
- the state files are empty from boot until the first save ten seconds later: a
  second crash in between loses what was to be resumed;
- a container that cannot be attached to at boot ends the task of its server in a
  panic (`manager.rs:95`), and the server is not resumed; if the containers cannot be
  listed (`mod.rs:502`), one that runs is not watched, and the resume replaces it;
- the permit of the boot semaphore is dropped where it is acquired
  (`manager.rs:104`): `boot_servers_per_page` limits nothing, except that 0 keeps
  all servers from being attached;
- after a restart an installer that is gone, or has exited, counts as a
  success, or runs again (`installation.rs:490-533`);
- the container of a server whose deletion was cut short by a crash stays; a start
  or sync in flight at the deletion may clear `suspended` and bring one back;
- a server whose first sample comes later than five seconds after it was attached
  keeps `crash_handled`: its next crash is not handled (`mod.rs:540`);
- a transfer completes for the source whatever the destination answered
  (`transfer.rs:242`), the panel is told only of failures, and the source is
  unlocked possibly before the destination has unpacked;
- a transfer that succeeds loses symlinks, hard links, entries of all other types and
  absolute paths at the destination (`routes/api/transfers/mod.rs:136`, `166`), and
  denylisted and unreadable files at the source (`server/transfer.rs:110-142`), after
  which the panel deletes the source;
- the thread that writes the archive goes on after a cancellation until it finds its
  pipe closed;
- the destination lists a server before it locks it, ignores errors of the
  stream between fields (`routes/api/transfers/mod.rs:119`), so that a connection
  that breaks before the archive is reported as success, and keeps its flag when
  unpacking panics; a cancellation there does not stop the blocking task;
- two requests for a transfer to the same node can both pass its check of the list
  (not modelled).

## 6. Plan

The core and the components around it are modelled, and the safety properties
that the runs check are proved. What remains is to prove more of how the parts
fit: that a transfer implements the moves of one server between two nodes, and
action properties of the components that no run checks.

## 7. Not modelled

Archive formats, snapshots and the external tools of the limiters are
sequential I/O; configuration parsing, the command line, extensions and
statistics keep no shared state; the panel and Docker are external and appear
as nondeterministic answers. Of SFTP and the file routes, requests that only read
are left out, and so are compress and decompress, archive I/O on top of the
writers of `DiskQuota`. `PROJECT.json` gives the reason for each component.

## 8. Running

    tlc -config power.cfg MCPower.tla
    tlc -config nodes.cfg MCNodes.tla
    tlapm PowerProofs.tla
    tlapm BackupsProofs.tla

`PROJECT.json` names the module of each `.cfg` under "runs". The longest run,
`files`, takes about three minutes with two workers, the others less.
Operators commented as "Mutant of X" are faulty variants of the definition they
precede; no specification uses them. They document, per property, a plausible
mistake that the property detects.
