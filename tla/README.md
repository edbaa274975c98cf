# WeaveFTPd in TLA+

WeaveFTPd is an FTP daemon that runs as a *master* (control connections, users, the
index of all files) with *slaves* (disks and data connections) attached to it, and
with plugins and an IRC bot beside it. This directory holds TLA+ modules translated
from its Go source, the TLC configurations that check them on small instances, and
theorems about them that TLAPS proves for every value of the constants.

File and line references are to the repository (`internal/...`, `plugins/...`).
Every definition that models code is listed with its lines under "map" in
`PROJECT.json`.

## 1. The system

### Processes

* **Master.** One goroutine per FTP session runs the command loop
  (`core.HandleSession`), one command at a time. Per slave connection there is a
  read loop (`RemoteSlave.Run`), a queue goroutine for remerge listings and, at
  times, a job goroutine (`initializeSlaveRemerge`). Besides: a loop that saves the
  index, loops that start remerges, a queue goroutine per release for post-upload
  hooks, a writer to the race database, and the plugins' timers.
* **Slave.** One goroutine reads commands and starts a goroutine for each; transfers
  and scans run in these. It reconnects after 10 s; what it was doing goes on.
* **Sitebot.** A process of its own: it reads events from a pipe, asks the daemon's
  HTTP API and writes to IRC.

### Components

State, operations, interactions, what is hard, and what makes it correct.

| Component | State | Operations | Interacts with | Hard | Correct when |
|---|---|---|---|---|---|
| Command link (`master/remote_slave.go`, `issuer.go`) | next index, pending and early replies, online flag | FetchIndex, SendCommand, FetchResponse, routeResponse, SetOffline | every caller in the master; slave command loop | callers against reader against SetOffline; replies of an old connection | a caller gets its own answer, or an error, in bounded time |
| Remerge (`slave_manager.go`, `slave.go`, `vfs.go`) | scan position, listings queued, seen marks, availability | mark, scan, list, prune, drain, purge; stop; timeouts | index, uploads, deletes, reconnects | everything is concurrent with file traffic | the index has every file that exists, and no ghost survives a purge |
| FTP sessions (`core/commands.go`, `session*.go`) | login, prepared channel, transfer fields, path reservations | STOR, RETR, DELE, RNFR/RNTO, kick | bridge, other sessions' counts, plugins | check-then-act between sessions; kicks from outside | an upload has its path to itself; books balance; commands return |
| Slave transfers (`slave/transfer.go`) | transfers by index, uploads by path | listen, connect, receive, send, abort, reap | master's WaitTransferStatus | download that follows an upload; abort, reap and claim | outcome and file agree; nothing stays behind |
| VFS (`master/vfs.go`, `vfs_markers.go`) | files, children, checksums, release status | add, delete, rename, relocate, purge, save, load | all of the master | saves that overlap; crash between write and rename | what is loaded is what was last saved; counts match entries |
| Bridge (`master/bridge.go`) | pending uploads, read caches | UploadFile, DownloadFile, passthrough calls, reconcile | link, VFS, race DB | partial failure of each step | index and disk agree afterwards |
| Routing (`slave_manager.go`, `slave_masks.go`) | policies, load, disk status, auth guard | SelectSlaveForUpload/Download | sessions | stale load and space | a read-only slave never gets a file |
| Release state, race DB (`race_db.go`, `slave_manager.go`) | windows, announcements, records | record, reconcile, claim, rename, wipe | hooks, index | claims from several goroutines | one announcement per completion |
| Zipscript (`core/zipscript_runtime.go`, `zipscript/`) | per-release queues of hooks | check SFV, delete bad files, announce | index, release state | order and loss of hooks | every upload's hook runs, once, in order |
| Users (`user/user.go`, `core/passwd.go`) | user files, caches | load, mutate and save, credits, stats | sessions, SITE, plugins | several writers | no update is lost; credits are conserved |
| Nukes (`core/site_nuke.go`, `nuke_db.go`) | nuke history, renamed dirs | nuke, unnuke | index, credits | partial failure | credits taken are those given back |
| Plugins (`plugins/*`) | timers, lists, caches | react to events, move, delete, kick | bridge, sessions | several steps that may fail in between | each leaves index and disk consistent |
| Sitebot (`sitebot/`) | IRC connection, quotas, announce filters | read events, answer, announce | daemon API, IRC | reconnects, order | nothing is announced twice or lost |
| Rest | configuration, texts, probes, import tools | | | sequential | not modelled |

`PROJECT.json` has a row for each part ("components") and the list of what is hard to
test in it, at its line ("hazards").

## 2. Modules

Each module says in its head which goroutines it has and what it takes as one step.
`MC*` modules add definitions for TLC (symmetry, the settings of the runs).
Remerge, FtpTransfer, SlaveTransfer, ReleaseHooks, Accounts and VfsTree start from one of several settings (`set`, `may`; chosen in Init from the constant `Settings` and then
left alone): who takes part and what may go wrong, so that one run goes through several
small instances.

**SlaveLink** - the command link of one slave: FetchIndex / SendCommand /
FetchResponse of several callers, the read loop's routeResponse, SetOffline's steps
(online flag, close, sweep), the remerge timeout marker, and a slave whose jobs
outlive a reconnect. One action per atomic step of the Go code: each sync.Map or
mutex section is one. State: `pending`, `early`, `next`, `rem`, `sweep` are the
fields of the RemoteSlave of each session; `jobs` and `wire` are the slave's
goroutines and the stream. `crossed` is a history variable: the callers that looked for an
early reply after routeResponse had missed them and before it buffered.

**Remerge** - one slave's remerge: the job goroutine (`job`: mark, issue, wait,
drain, purge), the read loop and queue goroutine (`stream`, `queue`, `hand`,
`depth`), the slave's scan (`scan`), and uploads, deletes and outside removals on
`disk` and `vfs`. `owed` and `gone` are history variables: what has to be in the
index, what must not survive a purge.

**FtpTransfer** - the sessions of one user and one slave's files: each session's
`at` is where its handler is between two steps other goroutines can see. STOR, RETR,
DELE and RNTO take their checks, reservations, slots, data channel, transfer fields,
slave job, index update and deferred release in the order of `commands.go`. A kick is
two steps in another goroutine. `disk` knows who is still writing each file, under
whatever name. The master's own time-outs are in it (`GiveUp`, `LateStart`): the handler
returns while the slave still writes, or before it has begun, and the path is released; `late`
has the RECEIVEs that the slave may still begin, and `tired` is history, the paths whose upload was given up.

**SlaveTransfer** - the transfers of one path on one slave. `phase` is where the
goroutine of each transfer is in `handleListen` / `handleReceive` / `handleSend`,
`ReceiveFile` and `SendFile`; `listed` is `Slave.transfers`, `reg` is `uploadByPath`,
`assoc` the upload a download follows. `killer` and `reaper` are the goroutines of the
ABORT command and of the timer for unclaimed transfers, two steps each: set the reason
or look, then delete. Files are inodes, so that a clean-up by *path* can hit another
file than the open one. The callers on the master are there as far as the slave sees
them: each stops waiting when it hears, or before that (`GivesUp`: the link is lost or a time-out of the
master is over). A resume asks for an offset at or below the size the master knows
(`known`). `forsaken` and `kept` are history: the uploads whose caller left before they were over, and
what a resume from a lower offset has cut away.

**TransferWait** - the other half: how the final status gets from the slave to the
caller in `WaitTransferStatus`. The read loop looks at `transfers`, updates it, stores
the status in `completedTransfers`, deletes from `transfers` and closes the caller's
channel, each a step; the caller makes its channel, looks in both maps and at `online`,
and sleeps.

**DataSetup** - the set-up of a session's data channel. `s` holds the Session's fields
that say what is prepared (PretCmd, DataListen, ActiveAddr, PassthruSlave,
PassthruXferIdx, RestOffset, nextDataTLSClientMode, lastDataConnActive, SSCN, DataTLS),
`hand` is where the handler is in a LIST, STOR or RETR, `kick` the goroutine of SITE
KICK or slowkick in `abortCurrentTransfer`. A command that prepares is one step; a
command that uses is a step per thing another goroutine can change beneath it: the look
at the fields, the wait in Accept, the close of the listener, the hand-over to the slave.
What the transfer itself does is FtpTransfer and SlaveTransfer. `told`, `asked` and
`left` are history: what the client knows, and which set-ups the code lets go.

**SlaveDisk** - the files of a slave with several roots. `disk` is what lies on each root, a
file being the command that wrote it; `Mounted`, `Before`, `Visible` and `RootFor` are
`rootsForVirtualPath`, `getFileFromRoots` and `getDirForUpload`, and each handler is an
action, or a step per time the handler goes to the disk (a rename looks, then renames; a
relocation looks, copies, removes). `expected` is history: a disk of one root, which the
commands that have ended would have left. Two commands on related paths at once make it
unsure there: the master keeps those apart (FtpTransfer, SiteTree).

**TransferResult** - what TransferWait promises, without maps, channels and ticker: a
caller that waits gets its transfer's own status after the slave has sent it, or none
when the slave is offline or its deadline is over, and is not left waiting. TransferWait
implements it (`Promised == Result!Spec`, with each caller's place mapped to
`awaited`, `got` or `failed`).

**PostHookQueue** - `enqueueReleasePostHook` and `runReleasePostHookQueue` for one
release. `entry` is its key in `releasePostHookQueues`; a queue is named after the
upload that made it, so that an old queue and its goroutine stay distinct from the one
that replaces it. An upload reserves (map and `pending`, under the mutex), sends on the
channel (which may be full) and gives back its reservation; the goroutine takes a hook,
runs it, and when it has been idle looks at `pending` and the channel once more before
it removes the queue. The idle timer may fire whenever the channel is empty.

**HookRuns** - what PostHookQueue promises, without map, channel and goroutines: a hook
that is given runs once, after every hook that was queued when it was given, and never
beside another one. PostHookQueue implements it (`HooksRun == Runs!Spec`).

**ReleaseHooks** - extends PostHookQueue by what the hooks do. The end of STOR in the
handler is `Store`, `Check` (against the SFV, with the deletion of a bad file) and
`Enqueue`; a hook is `Finalize`, `Build`, `Count`, `Emit`, one step each, as handlers of
other sessions run between them. A parse of the SFV, the verification of what is there
already and the deletions on slave and in the index are one step. `index` is what the
release holds (of each file: nothing, a good one, a bad one, or one of unknown checksum), `cached` the parsed SFV in `dirMeta`, `announced` the release's entry in
`completedRaces`. A bad file that the slave failed to
delete is `spared`, which is history, when it stays in the index, and in `left` when it does not.

**UserFile** - the user file: what is on the disk and in the cache of a session, which
saves are refused as truncated or implausible (`Saves`), and how a transfer or a gain
changes credits and counters, with the saturation of `saturatingCreditAdd`.

**SiteUser** - the commands of staff that change accounts and groups (ADDUSER, GADDUSER,
DELUSER, READD, RENUSER, CHPASS, CHGRP, GADMIN, GRPADD, GRPDEL and the edits of limits)
and the session of a user that logs in and transfers. `file`, `passwd`, `stash` and
`group` are the files under etc/; a command is one action per file it writes, each write
may fail (`Fault`), and what the code undoes then is undone.

**Nukes** - the nuke of one release: NUKE and UNNUKE by staff, on the master's index or
on a local site, the history (`nuke_db.go`), SITE NUKES with its pruning, WIPE, and the
autonuke plugin with its warnings and its own time-out for the command it sends. The database
may refuse each statement; `lost` is history, the releases on which that, or staff commands that
overlapped, has set the books apart.

**Accounts** - composes them: one user's file under commands, transfers and nukes.

**VfsTree** - the index itself: `files`, `children`, `slavePaths` and `dirMeta` of the
VirtualFileSystem, with every operation that changes them (AddFile, DeleteFile, RenameFile,
RelocateFile, ClearSlave, marks, purges and prunes, protected and excluded paths, links,
the scrub after a race, SFV and zip metadata) as functions from one index to the next.
Operations hold the mutex; what does not is in steps: a reader of race statistics that
computes without the lock and publishes only when the version is unchanged, and
SaveToDisk with its snapshot, its rename and the saved version. A setting says which
operations take part, how many, and what is on the disk of the master at the start. `drift` is
history: why a file on the disk may be older than its version says (a save overtaken by
another, or entries that SetExcludes dropped).

**SiteTree** - directories that lie on several slaves, and the operations of the bridge
that change them in several steps: DeleteFile, RenameFile, MakeDir and
RelocatePathToSlave with its copies between slaves and its undo. `disk` is what lies on
each slave, `index` the slave the master has for each path; `op` is the operation each
caller is in, one step per command to a slave and per change of the index. Uploads are
there as far as these operations meet them. `owed` is history: the files that were stored
completely and that nobody has deleted or moved away while they were being written. `astray` is history
too: the paths on which a command took effect, or half of it, though the master was told it failed.

**Spacekeeper**, **Requests**, **Pre** - three plugins as callers of SiteTree. Spacekeeper has
its loop (`keeper`), the marks (`inflight`), the archive jobs, and the history `lapsed`, the releases
whose mark was dropped beneath a running job; Requests has the list
(in the metadata of the index, in the saved index, and in the state file) and the
commands of several sessions, which load, change and save it in steps; Pre has SITE PRE in
three steps, and counts what it has awarded per file.

**SitePlugins** - composes them with uploads on one tree: what one plugin moves, another
one reads.

**Sitebot** - the way of an event: `script` is what sessions and hooks publish (`emitEvent`,
`emitRaceEnd` with `completedRaces`), `queue` and `line` the JSON sink and its writer, `fifo`
the pipe, `buf` and `chan` the bot's reader and its EventChan, `told` the states of the
announce plugin, `pending` and `loose` the NEW lines that wait for a pretime and those a
goroutine is about to say, `irc` what has been said, `pm` the private messages that wait for
a DH1080 exchange, which the user's client finishes, answers
wrongly, with an exchange of its own, or not at all (`owed` is history: it owes the answer). Goroutines: the emitters, the pretime worker, the writer; in the bot the
reader, the IRC listener, the loop, and timers. The bot may die, and the connection be lost.

**MCSite** - SitePlugins and Sitebot, of which a setting has one at work.

**RaceDB**, **RaceRecords** - who raced what. RaceDB has the race database's statements as
functions from one content to the next: `db` the releases by path and the rows of each,
`idOf` the cache of release ids in front of them. RaceRecords has the code around it: an
upload enters the index (`entries`), its record goes to the writer (`records`) and its hook
notes the transfer in the release's `window` and, when the release is complete, replaces
the release's rows; deletions, renames, SITE RESCAN and the pre plugin's scrub change the
index, the database and the window one after the other; a restart reconciles and hydrates.
A thread (a racer's session with its hook, the writer, an operator) is the sequence of
steps it still has to take. `loose` is history: the directories on which the code lets
the books drift, because work of another thread on them was under way (section 5).
Missing-file markers, media information, zip releases, the rename of a single file and
options of SITE RESCAN other than the deletion of bad files are not in it.

**MCMaster** - Remerge and RaceRecords side by side; they share no variable.

**Routing** - which slave gets what: `policy` is sm.policies with the mounts of the slaves,
`available` the slaves that are online and merged, `lies` what each stores, `entry` the
owner in the index. A client's MKD, STOR, resume, WriteFile or DELE looks at the index,
chooses a slave (`SelectSlaveForUpload`, `SlaveForDir`, `SlaveForFile`, `OwnerThatIsThere`,
`Owning`), asks it and enters the result, each in a step of its own; slaves go
(`ClearSlave`) and return with their remerge, and SITE REHASH replaces the policies.
Which of the eligible slaves is the least busy for its weight, or has the most space, is one
choice: transfers elsewhere decide it. `shaken` is history: the releases whose owner went,
became an archive, or that two sessions made at once.

**MCSlaves** - Remerge and Routing side by side; they share no variable.

**Quota** - the quota plugin of the sitebot and one user: `user` is his file, which the
daemon also loads, changes and saves (`daemon`), `state` what the plugin knows of him,
`saved` its state file, `owner` its mutex. `work` holds the scan of the loop, that of a
status command and a staff command: a scan reads the files (`Load`), judges under the mutex
(`Judge` with `JudgeTrial` and `JudgeWeek`), and disables by reading and writing the user's
file (`ReadFlag`, `WriteFlag`). Days and weeks are counted; writes fail and the bot restarts.

**MCQuota** - FtpTransfer and Quota side by side for their liveness; they share no variable.

**Acl** - permissions.yml: what a requirement asks of a user (`Meets`), which paths a rule
covers (`Covers`), and what decides (`CanPerform`: a private path first, then the first rule
of the action, then the flag). No state; `Loads` and `Loaded` say what LoadEngine makes of a
file.

**Affils** - ADDAFFIL, DELAFFIL and SITE REHASH: `affils` is affils.yml, `perms`
permissions.yml, `engine` the rules of the daemon and `session` those of each session, with
their version. A command saves the list, writes the group file, reads permissions.yml, cuts
and writes it; a rehash loads, sets the daemon's rules and goes over the sessions. Roles
break, saves fail, the daemon restarts. `torn` says that two writers of permissions.yml overlapped and left a mixture. `synced` (the affils the file was made for) and
`were` (the sessions a rehash has to reach) are history.

**MCStaff** - Accounts and Affils side by side; they share no variable.


## 3. Runs

Bounds and why they are enough:

* *SlaveLink*: a caller, which may be a remerge and call again, the pings, and two commands,
  on one connection or on two: collisions of indexes need a command on each of two
  connections, crossed answers within one need two commands there (a ping, or a call after
  one that timed out), and all the races are between a caller, the read loop and
  SetOffline. That two callers on one connection do not get each other's answers either is
  proved (`AnswersAreOwn`).
* *Remerge*: one directory with two files and one connection with up to two jobs, in
  the settings MCSlaves names; pruning, purging and marking are per directory, so a
  second file is enough to tell "what was looked at" from the rest. With a second
  connection the code breaks the properties (section 5, Known departures).
* *FtpTransfer*: two sessions and two paths (renames need a second) in settings that
  say which commands and which failures take part; reservations are per path and
  pairwise. The master's time-outs are a setting of their own (`timeout`): each may fire once
  a command is with the slave, in the safety run only, where they can do harm.
* *SlaveTransfer*: two uploads and a download of one path, files of up to two chunks,
  and one transfer that is aborted. Four settings: all three with aborts (`Followed`);
  two uploads with aborts and the reaper (`Aborted`); two uploads with a lost link and
  the reaper (`Orphaned`); two uploads whose callers may give up while the link is up
  (`Tired`). A resume begins anywhere up to the largest size the index may have. The hazards are an upload against the one before it or the
  download that follows it; a follower needs a second chunk to read the end of a file
  that still grows. The liveness run has an upload and a download of one chunk
  each, with a file to resume where transfers are aborted, and without where links are lost.
* *DataSetup*, beside SlaveTransfer in one run: three set-ups in a session, so that one
  may be replaced, one used and one come after; with and without passthrough, with and
  without PRET (mode master or not), with one kick. Offsets are there or not. One of the
  two components moves while the other stands still; they share nothing.
* *SlaveDisk*, in the same run: two goroutines, two roots and four commands in two sections
  with a release each; both roots at `/`, or the second one at a section. Four commands
  are a directory, a file in it, a move and one more that meets what the move has left.
* *TransferWait*, beside SlaveTransfer in the liveness run: two transfers; callers share
  nothing but the read loop.
* *Routing*, in the run of remerges: two slaves and an archive, two clients, three
  operations on a release with a subdirectory and a file in each; one slave may go and
  return, or become an archive. Three operations are two that race and one that meets
  what they left.
* *RaceRecords*, in the run of the startup remerge: two racers, two paths and a release of
  two files, six settings: a release that becomes complete while files go, bad files and a
  rescan, files that change on the slave, transfers of two lengths and a rename, directories
  that come, go and move, scrubs and restarts. At most two sessions are at work at once
  besides the record writer; the queue of records has room for one, so that the synchronous
  write happens too.
* *ReleaseHooks*: four uploads of one payload and its SFV, and a channel for one hook:
  enough for a full channel, a queue that ends and is made again, a bad file that is
  replaced, and an SFV before, between and after the payloads. The settings of `Widest`
  (bad and empty uploads and deletions that the slave fails to do, with deletions by clients,
  with failing look-ups of the SFV, and with both) contain the behaviours of all smaller
  ones. One payload and one slave: a parse looks at each file by itself, and so does what a
  failed deletion leaves.
* *Accounts*: one user, one other name for renames, one group and one release, in the
  settings of MCStaff: account commands beside a session's transfer, and two staff
  sessions, autonuke and a transfer around a nuke, on the master and on a local site.
  Each race is between two writers of one file. The two
  uploaders of a release begin with nine credits each, with two and none, with one each or
  with two and one, and penalties are one or two: more than enough, as many, fewer and none,
  clamped and refused ones among them. Up to five commands of nuke and unnuke, by two staff
  sessions that do not wait for each other; the database fails at most once per release,
  since from then on nothing is said of its record.
* *VfsTree*: two slaves, a release directory with a payload, its SFV and one of zip files with its
  diz, and two or three operations of the kinds a setting names: an index that goes wrong
  does so by one or two operations after a rename, a purge or a clear of what another one
  has added, and the settings pair each kind with those it shares fields with. Two savers, which may save
  at once, in the settings with saves, excludes among them; a third would add an older
  snapshot of the same kind.
* *SitePlugins*: two slaves, one or two releases of a file each (a second one comes by an
  upload), two archive jobs and two sessions per plugin, in eight settings; commands fail
  where the setting says so. What goes wrong does so between a copy, its undo and one other
  caller; two jobs are what the rule's `MaxActions` tells from one. In
  settings with `lost` a command may be answered by an error although it is done, or be done
  half way; in those with `long` marks may grow 15 minutes old while their jobs run. What is
  left out is a command that times out and takes its effect only after its caller has gone on.
* *Sitebot*, in the same run: two emitters and one release, two races of it, queues of one
  or two entries, and up to three lines of the server. A queue of eight events where blocks
  of statistics must be whole: none is dropped then. Races of one release do not overlap.

* *Affils*, beside Accounts: two siteops and two affils, one of which has two directories; two
  commands at once, or one beside one or two rehashes and a session that comes and goes; one
  broken role, failing save or restart. Two kinds of rules people wrote: with rules for
  commands, private paths and the catch-alls by which new rules are placed, and without.
* *Quota*, beside FtpTransfer in the liveness run: one user, weeks of two days and trials of
  one, four days, so that a trial and a weekly quota are judged; an upload is enough for
  either. One save of the daemon, one failing write or crash; the staff's command beside
  the loop, or the scan of a status command beside it.

Fairness: goroutines that can run do run (weak fairness of each), and where a run
says so, timers fire. No run assumes that a connection stays up, that a client
behaves or that a scan finishes by a deadline: in Sitebot a client finishes a key exchange,
fails to, wants one of its own or does not answer. `StartupCompletes` and
`OfflineWakesWaiters` assume no timer at all; `CallsReturn` names the one it needs, the
caller's own, in its statement. `CommandsReturn` (FtpTransfer) assumes that a data
connection has a deadline (10 s to accept, 30 s idle on the slave,
`transfer.go:61-83`). In SlaveTransfer what the slave does by itself is fair, its
time-outs included (accept, idle upload, blocked download, follower without news), and
what the client does (`ClientStep`) is not. In TransferWait the ticker is fair only
while the slave is offline: while it is online, the closing of the channel must wake
the caller, as `remote_slave.go:626` says. The deadline is strongly fair, because the
caller goes through its select again and again. In Quota the scan loop and what it has begun are fair, and a scan that waits again and
again for the mutex gets it. In Sitebot each goroutine is fair; the connection may
stay lost, and a full pipe is read. Deadlock is checked unless a cfg says
otherwise: those systems may come to rest when the bounded connections and commands are
used up.

| Run | Module | Checks | Shows |
|---|---|---|---|
| `link` (pass) | SlaveLink | AnswerNotLost, AnswerIsOwn, CallsReturn, OfflineWakesWaiters | Two connections of one slave whose index counters restart, or two commands on one of them (successive calls, a remerge that timed out, pings), with jobs and callers of the first still about, every interleaving of FetchIndex, SendCommand, FetchResponse, routeResponse and SetOffline: an answer is lost between the pending and the early map only where routeResponse and FetchResponse look past each other, a caller gets no other answer of its own connection and of an earlier one only that of its own index, SetOffline wakes whoever waited when it struck, and with timers every call ends. |
| `remerge` (pass) | MCSlaves | IndexComplete, WellPlaced, GhostsPurged | Two components side by side. Remerges: two jobs on one connection with a cached index, one root or several: uploads, deletes, files that vanish, stops, timeouts and a lost link around a scan never cost the index a file that is on the disk, and no ghost survives it. Routing: two clients make, fill and delete a release over two slaves and an archive that go, return and change their policies: what belongs together is put together, and nothing on an archive. |
| `master` (pass) | MCMaster | AvailableIsIndexed, StartupCompletes, CreditKept, WindowCovers | Two components side by side. remerge_mode off, no cached index: a slave is not served before its index is complete, and an undisturbed startup remerge runs to its end without any timer. Race records: uploads, their hooks, the record writer, deletions, renames, SITE RESCAN, scrubs and restarts leave the race database, the index and the race windows agreeing. |
| `ftp` (pass) | MCFtpTransfer | UploadsApart, BooksBalance, IndexedIsComplete | Two sessions, two paths, every kind of data channel under kicks, and a passive one with kicks, deletes, renames, a link that drops and returns, and a master that is tired of waiting for a slave which goes on writing: an upload has its path to itself among the handlers, a download is written to at most by uploads given up before, reservations and gauge are those of the handlers at work, and what is indexed is complete and no partial upload left behind on the paths where no upload was given up. |
| `ftp_live` (pass) | MCQuota | CommandsReturn, QuotaHolds | What comes to an end, two components side by side. Every command of every session returns, whatever is kicked, deleted or lost. The quota plugin and a user of two weeks, with the staff, a second scan, the daemon's saves, a failing write or a crash of the bot: a trial that is over ends, a flag is noticed, and who may pass is not disabled by a scan. |
| `transfer` (pass) | MCDataChannel | StoredStays, FollowsLiveUpload, LastSetupIsUsed, NothingForgotten, RootsAreOneDisk | A data channel from its set-up to its end, three components side by side. In the session, PRET, PASV, CPSV, PORT, PROT, SSCN, REST and ABOR in any order, with and without passthrough and PRET, with a kick at any point: data goes where the client was last told, in the agreed TLS role, and no port or waiting slave is forgotten but where a set-up is replaced. On the slave, two uploads of a path, fresh or resumed anywhere up to the size the index knows, with aborts, reaped set-ups, lost links and callers that give up, and a download that follows them: what was stored stays but for what a failed resume from before its end cuts or an upload nobody waits for removes, failures leave nothing, and a follower does not stop while an upload is received. Among the roots of a slave: directories, files, moves and deletes, with mounts at / and below it, roots that fill up and moves that fail, leave each file where reads and scans find it. |
| `transfer_live` (pass) | MCTransferEnd | TransfersEnd, Promised | How transfers end, two components side by side. On the slave, an upload and a download with aborts, lost links and callers that give up: every set-up leaves the slave's map, every transfer ends and every caller is answered. On the master, two final statuses through the read loop to their callers, with a link that may be lost: no wake-up is lost, and the code implements TransferResult. |
| `kick` (violation) | MCDataChannel | KickEndsOneSession | A kick closes and forgets the listening port of a session while its handler accepts on it, and the handler closes it through the field that is nil by then. |
| `release` (pass) | MCReleaseHooks | CompleteIsAnnounced, BadIsGone, CompleteIsTrue, HooksRun | Four uploads of a payload and its SFV, bad and empty ones, deletions, failing SFV look-ups and failing deletions among them, in every order of handlers and hooks: no hook is lost, they run in turn, COMPLETE is announced when it is true and whenever it is, and no file of a known bad checksum stays in the release, unless the slave failed to delete it when the SFV was parsed. |
| `accounts` (pass) | MCStaff | AccountsAgree, NukesBalance, HistoryAgrees, TrafficKept, AclHolds | Two components side by side. Affils added and removed by two siteops at once, rehashes, sessions that come and go, broken files and restarts: the rules let in whom they should, and reach every session. A siteop's account and group commands, each write of which may fail, while a session logs in and transfers; and two nuke sessions at once, autonuke and transfers on one release, of users with more credits than the penalty, as many, fewer and none, with a database that may fail: names, groups, traffic, credits and the history of nukes fit together, but where the record of a nuke was not written, not marked or overtaken. |
| `index` (pass) | MCVfsTree | IndexHolds, SavedIsCurrent | The operations of the index in any order, on releases with an SFV and with archives, two slaves, a reader of race statistics and two savers: the children and slave indexes are those of the entries, cached statistics never count what is not there, and an index that counts as saved is what a crash gives back, with two saves at once too, unless the older snapshot was the one renamed last or an exclusion that a load has applied was taken back. |
| `plugins` (pass) | MCSite | StoredIsReachable, AcceptedIsListed, RewardedOnce, TakenOnce, Announced, BotDrains | The spacekeeper, SITE REQUEST, REQFILL, REQDEL and PRE and uploads on one tree of two slaves, with commands that fail, that are done half way or answered by an error though they are done, and with jobs that outlive their marks: no stored file is lost or hidden by what moves, copies or renames it but what such a command took, no accepted request disappears, no release is rewarded twice, and none is worked on twice at a time unless its mark has lapsed. And events on their way to IRC: a release is announced once, quiet after COMPLETE, its statistics in one piece; nothing stays on the way, whatever a client makes of a key exchange, but private lines whose exchange it has not finished. |


## 4. What is proved

`SlaveLinkProofs` proves about `SlaveLink`, for every number of callers, connections
and commands:

* `TypeCorrect` - `TypeOK` is invariant.
* `IndexesStayFree` - two calls in flight on one connection never share an index
  (`IndexesFree`).
* `AnswersAreOwn` - the answer that a caller receives is the one to its own command, or
  that of an earlier connection under the same index (`AnswerIsOwn`).
* `AnswersAreNotLost` - while the slave is online, a waiter with an empty channel has its
  answer still to be delivered, unless it and routeResponse looked past each other
  (`AnswerNotLost`).

The last three are not inductive. `LinkInvariant` proves the strengthening `LinkInv`:
the calls in flight on a connection have distinct indexes below its counter
(`CallsApart`), and every place an answer can be in - on the wire, in the read
loop's hand, in the early map, in a waiter's channel, in a caller's outcome - holds
an answer whose index, command and connection belong together. One lemma per action
shows what that action disturbs. `AheadInvariant` adds what the last one needs: the answer
is on its way from `SendCommand` on, until the caller has looked in earlyResponses perhaps
there, afterwards only with the slave or in the hand of a read loop that has not looked yet
(`AnswerAhead`, which rests on `PendingHeld`: the channel of whoever waits is in
`pendingCmds`), the read loop holds a message only
between reading and storing it (`ReaderEmpty`, or the next one would overwrite it), only the
current connection is online and no call is ahead of it (`OnlineIsCurrent`, `CallsPast`),
and the one answer the loop throws away, of a remerge marked as timed out, belongs to no
call that is still there (`LateIsOver`, which rests on `CallsBounded` and `CallsApart`).
`PastInv`, that no message is of a later connection than the place it is in, is what
`AnswersAreOwn` needs besides.
The proof assumes `LinkAssumption` and
`MessageAssumption` (the marker values are not commands), which TLC evaluates in
every run.

`FtpTransferProofs` proves about `FtpTransfer`, for any finite set of sessions, any set of
paths, any limits and every setting - all of the run's invariants:

* `TypeCorrect` - `TypeOK`, of which "the counters are natural numbers" is the part that
  needs the books.
* `BooksAlwaysBalance` - `BooksBalance`: `activeUploadReservations`, `activeDownloadPaths`
  and the gauge are those of the handlers at work, kicked or not.
* `UploadsStayApart` - `UploadsApart`.
* `IndexStaysComplete` - `IndexedIsComplete`.

The inductive invariant is `FtpInv`. `Places` ties together where a handler is, its command,
its transfer fields and its job on the slave; without it, nothing says that the handler which
runs the deferred release is one that reserved. `PathBooks`, `GaugeBooks` and `Apart`
support each other: a release may take the path out of the reservations only because no
other upload has it (`Apart`), and a new upload has its path to itself only because the
reservations and counters name every holder (the books). Only three steps change what is held
(`HoldingStep`); all others are `Quiet`. `WritersWait` says who can be writing a file: the upload whose handler waits for it, or one of
the `Orphans`, uploads that were given up with the link lost or after a time-out, which the
theorem names because the code releases their path.
`FilesSound` is the part `IndexedIsComplete` needs: an upload between the creation of its file
and `AddFile`, or between deleting it and taking it out of the index, is the only one that
may leave its path out of step, and `Progress` says how far; a step of one upload changes
nobody else's path (`Elsewhere`). `Abandoned` keeps the orphans to the paths whose uploads were
given up (`tired`), of which it says nothing. The proof assumes `FtpTransferAssumption`: finitely many
sessions, and that the marker of a writer nobody waits for is no session.

`RemergeProofs` proves about `Remerge`, for any files and directories, any number of
connections and of jobs on each, and every setting:

* `TypeCorrect` - `TypeOK`, without further hypotheses.
* `FinishedIndexIsComplete` - `IndexComplete`.
* `FirstPurgeIsClean` - `GhostsPurged`.
* `AvailableMeansIndexed` - `AvailableIsIndexed`.

The last three assume `[][TidyConnect]_vars`: when a slave connects again, the master has
wound up its last connection - ClearSlave has run, its job and its queue goroutine have
ended - and no scan of before is still at work. With one connection, as in the runs, that
always holds; the code does not see to it for the next ones, and with two that overlap TLC
finds `IndexComplete` and `GhostsPurged` violated (see "The wipe of the old connection"
below). `AllRead`, assumed for the two that say nothing is missing, is that every directory
can be read and, where snapshots prune, that no upload ages past the 120 s grace before its
directory's listing is processed: the two known departures of a purge. `AvailableMeansIndexed`
also assumes that no job follows that of the startup (`StartupOnly`), since StartJob makes
the slave available whatever the mode.

The inductive invariant is `MergeInv`. `Ahead` follows each owed file through the pipeline:
while the job waits for its answer, the file is seen, in the queue or in the hand of the
queue goroutine (`Taken`), in the stream (`Sent`) or in a directory that is still to be
scanned (`ToScan`); once the answer was read it is `Taken`, and once the depth was 0 it is
seen. The first step needs that the answer is the last thing in the stream and answers
the current command (`Flow`), the second that the depth counts what is queued or held
(`Counted`), and PurgeMissingChildren spares an owed file only because each listing under
way has what is on the disk and not recent (`Lists`). `GhostFree` is the converse for the
first job: nothing under way has a file that is gone, as `Clean` says of the moment before it.

The second part of `RemergeProofs` is about `Routing`, for any tree, any number of slaves and
sessions, and any operations in any order, while slaves go and return and SITE REHASH
replaces the policies:

* `ArchivesStay` - `ArchiveStays`, without further hypotheses.
* `ReleasesAreWellPlaced` - `WellPlaced`, that is `StaysTogether` as well.

The second assumes `SettledPolicies`, as the run's settings have it: mounts are no deeper
than a section and a rehash does not move them, no archive becomes writable, and what the
slaves have at first fits their mounts and lies on one of them only. The code sees to none of
this: `SetSlavePolicies` takes what the configuration says. A mount below the section
would let a release lie on a slave that cannot have all of its files, and an archive that
becomes writable would be held to files that went elsewhere while it was one.

`ArchiveInv` adds to `ArchiveStays` what a session at work may still do to an archive: nothing
but resume a file that lies there (`ArchivesKept`). `PlacedInv` is for `StaysTogether`, which
alone is not inductive: it says nothing of a session between its choice and its entry.
`AsChosen` says what was chosen: the slave that the release had at that moment, if it had
one that is not an archive; `Enters` compares the two moments, and what differs is `shaken`.
That the choice finds this slave needs that it is there (`OwnersAreThere`), that its mount
takes the whole release (`InItsMount`), and that an owner found further down is the same
(`StaysTogether` itself, by `ChoiceKeepsTogether`). `RouteSound` has the types, and that the
sections and only they belong to nobody. The proof assumes `RoutingAssumption`: what begins
a path is a directory of the tree, what a slave has at first lies in its directories, and
the markers `None` and `Nobody` are two and no slaves.

`SlaveTransferProofs` proves about `SlaveTransfer`, for any finite set of transfers, any
number of kicks and any size of the file:

* `TypeCorrect` - `TransferTypeOK` is invariant.
* `WhatIsStoredStays` - `StoredStays`.
* `LiveUploadsAreFollowed` - `FollowsLiveUpload`: only `Find` with no entry in `uploadByPath`
  ends a download that stands at the end of the file, and a live upload has the entry.

They hold in every setting, with links that are lost and callers that give up; what becomes
of the uploads whose callers have given up (`forsaken`) is in the statements.

The inductive invariant is `TransferInv`. `Matched` says where the goroutine of a transfer and
its caller can be together, `Callers` that a caller which has not given up waits as long as
its transfer is on the slave, and that the uploads of the path have one caller at a time.
`Files` is about the file: the inode of a fresh upload was made by that upload, is open to
others only after it and has not failed (`MadeByOwner`); what is open has the name, unless the
upload that made it was given up and has wiped it (`Named`, `Wiped`); what an upload has
written, and no failed resume has cut, is in its file (`KeptIsThere`); and the file is as long
as an upload has made it or as it was cut (`Accounted`). `Alone` is what a fresh upload needs
whose caller is there: nobody else has opened its file, so that its clean-up harms nobody.
`Entries` says that what a download forgets is finished (`Forgetting`) and that what is received
is entered in `uploadByPath` (`Entered`), which alone needs that no upload goes on without its
caller. Most steps change none of this (`Plain`, `UploadStep`, `DownloadStep`), and one lemma
each says so. The proof assumes `SlaveTransferAssumption`.

The second part of `SlaveTransferProofs` is about `TransferWait`, for any set of transfers:

* `WaitTypeCorrect` - `TypeOK` is invariant.
* `SleepersAreWoken` - while the slave is online, no status comes to lie beside a
  caller that sleeps (`SleeperIsWoken`).
* `PromiseIsKept` - initial states are initial states of `TransferResult`, and every
  step is one of its steps or a stutter. (Its fairness is model-checked, by `Promised`.)

The inductive invariant is `WaitInv`: a caller that is inside `WaitTransferStatus` has a
channel (`HasBell`); a status that was sent is on the wire, in the read loop's hand, in
`completedTransfers`, or was taken, or the slave has gone offline (`StatusKept`); a
caller past its look at the completed statuses has either not been overtaken or has its
channel closed or about to be (`LookedBeforeStored`); and a `RemoteTransfer` is finished
only after its status was sent (`FinishedSent`). `SleeperIsWoken` alone is not inductive:
it says nothing of a caller between its look and its sleep, which is where a status
could slip by. The proof assumes `TransferWaitAssumption` (the marker is no transfer).

The third part of `SlaveTransferProofs` is about `DataSetup`, for any number of set-ups and every setting:

* `SetupTypeCorrect` - `SetupTypeOK`.
* `LastSetupAlwaysUsed` - `LastSetupIsUsed`.
* `NothingIsForgotten` - `NothingForgotten`.

`LastSetupIsUsed` speaks of a transfer that runs; the inductive invariant is `SetupInv`, which
follows the last announcement there. `PreparedIsTold` says of each field of the Session
(`listener`, `active`, `slave`) that it holds what was announced last, or nothing.
`UsedIsTold` says the same of the handler that has taken the set-up from the field: a kick may
clear the field between the handler's steps, so that the field alone no longer tells.
`WaitsAsTold` is what a relay through the slave needs, whose TLS role is kept by the slave and
not by the Session: the waiting transfer is there until the handler runs it, in the role that
was announced. The proof assumes `DataSetupAssumption`: what a setting is, and that
`MaxSetups` is a natural number.

`SitePluginsProofs` proves about `SitePlugins`, for any tree, rules, users and requests and any
number of jobs:

* `TakenByOne` - `TakenOnce` of `Spacekeeper`, whatever the bridge, uploads, requests and
  the pre plugin do in between.

`TakenOnce` compares jobs with each other and with the loop; the loop, however, looks only at
its marks. The inductive invariant `KeeperInv` adds `Marked`: the release of each job at
work, and the one the loop deletes, is marked, or its mark has lapsed (`lapsed`), as
`pruneInflight` takes away any mark of more than 15 minutes. The steps that matter are the
ones that take marks away: the end of a job takes the mark of its path, whosever it is, and
what has lapsed stays so until nobody works on it; a release that has not lapsed has one
job, which is `TakenOnce` itself. Nothing is assumed but that the loop and the jobs are
callers of the bridge.

`RaceRecordsProofs` proves about `RaceRecords`, for any number of paths, payloads, racers,
uploads and operators' acts:

* `WindowsCoverWhatTheyNoted` - `WindowCovers`.

`WindowCovers` speaks of a system at rest, and so of what every thread has left to do before.
The inductive invariant `RecordsInv` speaks of all states. `Covered` is `WindowCovers` without
the rest: a file whose times the window was told is covered, or the operator's rename has still
to move its window (`winmove`). `Harmless` says of each step still to come for a window that it
uncovers nothing: what forgets or moves a window away is for a directory that is gone, a
reset is for one without noted files and without a hook that would note one, and the window
that moves covers what is noted at its target. That this holds while other steps run is
`OneAtATime` - only the operator takes windows away or moves them, one command at a
time - and `Stamped`: a hook tells the window the times of the very entry it was queued for,
since no two transfers ended at once. Directories that are `loose` (see
"Windows that are carried on" below) are left out, as in the property. The proof assumes `RaceDBAssumption` and `RaceRecordsAssumption`: a race has its
home among the paths, its files among the payloads and natural lengths; what a SFV lists is
finite; and the marker `Nil` is no window.

`ReleaseHooksProofs` proves about `PostHookQueue` and `ReleaseHooks`, for any finite or
infinite set of uploads, any payload, and any capacity of the channel:

* `NoHookIsLost` - a hook that was queued has run, runs, or lies in the channel of a
  queue whose goroutine is alive (`NoTaskOrphaned`).
* `HooksRunAsPromised` - PostHookQueue implements `HookRuns` (`HooksRun`).
* `ReleaseUsesQueue`, `ReleaseHooksRun` - ReleaseHooks moves the queue only by the
  queue's own steps, so that both results hold of it.
* `ReleaseTypeCorrect`, `AnnouncedIsComplete` - `TypeOK` is invariant, and COMPLETE is
  announced only of a release that is complete (`CompleteIsTrue`).
* `CompleteIsSaid`, `BadFilesGo` - when all is quiet, a complete release has been announced
  (`CompleteIsAnnounced`) and one whose SFV is known has no file of known bad checksum but
  what the slave failed to delete at the parse (`BadIsGone`).

The invariant of the queue is `QueueInv`. What makes the idle goroutine's last look
sufficient is that `pending` counts exactly the uploads between `Reserve` and `GiveBack`
(`Books`), that only the queue in the map has a living goroutine (`OneLives`), and that
a hook sent to a queue is in its channel, running or done (`Placed`, `Contents`). The
order comes from `Ordered` and `After`: no hook in a channel stands before one that was
queued when it was given, and what runs has all of those behind it. `ReleaseInv` adds
that a bad upload's file is bad as long as it is being checked (`BadUpload`) and that a hook
which has counted a complete release still sees one, unless a client deletes
(`CountedIsTrue`); `OnlyBadGoes` is the step of that argument: checks and parses delete
only bad files.

The last two follow from `AheadInv`, which says who will still see to what: a bad file
beside a known SFV has a handler that has not checked it yet (`BadIsHandled`; a file that the
slave failed to delete at the parse is `spared` and no longer of these), an SFV that
nobody has parsed has its own hook ahead (`ParseAhead`, without failing look-ups), and a
complete release that has not been announced has a hook that has not counted, or has
counted it as complete (`CountAhead`). A hook that is past its statistics without having
seen the SFV is not such a hook: the later parse that made the release complete is by one
that is. The proofs assume `QueueAssumption` and `ReleaseAssumption`.

`AccountsProofs` proves about `Accounts`, for any users, groups, siteops, sessions, releases
and staff, and any number of commands, transfers, faults and nukes:

* `AccountsTypeCorrect` - `TypeOK`; with it, that credits stay in `0 .. MaxInt`.
* `TrafficIsKept` - `TrafficKept`.
* `HistoryAlwaysAgrees` - `HistoryAgrees`.

The inductive invariant is `AccountsInv`. `SiteSound` and `NukeSound` have the types and what
the steps of a command rely on: a command that saves a copy holds one, a nuke has its
multiplier, and one that gives back what it took does so to users it took from
(`SoundCommand`, `SoundNuke`). `TrafficKept` then follows step by step: what is written
over a file passes `validateUserfileRewrite` (`WrittenKeeps`), or changes the masks only; what is renamed
over one, the stashed file (`PutsBack`), is what the statement leaves out.

`HistoryAgrees` speaks of a release that no command is about to tell the database of;
`HistoryInv` speaks of all, and commands of several staff may overlap there in any way. Between
the rename of a release and its record a nuke is `Recording`, an unnuke `Restoring`. `Balanced`
is the law that survives the overlap: the active records of a release and the records still
to come are as many as the unnukes still to mark, and one more if it is nuked. Each rename
of the release and each word to the database moves one of these numbers and its counterpart
together: a nuke's rename needs a release that is there, an unnuke's one that is nuked. The
law fails where the code loses a record, and just there the release enters `lost`: a write
that fails, an unnuke that finds no record to mark because the nuke it undid has not written
it, and SITE NUKES that forgets a record in between. (`MarksGone`: what autonuke marks as
deleted is gone.) The proof assumes what the constants are (`UserFileAssumption`, `NoneAssumption`,
`SiteUserAssumption`, `NukesAssumption`, `AccountsAssumption`): there is a user and a release,
the first users are users, and `None` is neither a user nor a command.

Model-checked only are liveness under fairness, which rests on ENABLED and on leads-to
arguments that tlapm does not support (`StartupCompletes`, `Promised`, `BotDrains` and the
fairness part of each refinement), the violated properties, which there is nothing to prove
of, and these invariants:

* `NukesBalance`, `IndexHolds` and `Announced` are inductive only with strengthenings that
  have not been worked out. `NukesBalance` is besides a sum over the history, `IndexHolds`
  rests on folds over the tree and `Announced` on SelectSeq, for which the provers have no
  induction.
* `CreditKept`, `SavedIsCurrent`, `RootsAreOneDisk`, `StoredIsReachable`, `AcceptedIsListed`,
  `RewardedOnce` and `AccountsAgree` are not claimed for every value of the constants: they
  hold in the settings of the runs, where for instance one administrator works at a time and no
  file is moved while the roots of a slave fill up. With every kind of
  act in one setting of RaceRecords TLC finds `CreditKept` violated: by a file that is lost on
  the slave before a restart, and by a directory made anew whose rows a failed rename has left
  (section 5, Known departures).

## 5. Where the code departs from what it says

### Known departures

What follows was met while modelling; each that names a module can be seen there as a
TLC counterexample, and no run is kept for it.

* **An unreadable directory** (Remerge, with `Unreadable = {a}`: `IndexComplete` is
  violated). `scanRemergeDirectory` returns nil when `os.ReadDir` fails
  (`slave.go:1399-1402`), so the remerge is reported complete and PurgeUnseen removes
  every file below it; the comment at `slave.go:1364-1367` says that a root that failed
  to scan is reported as incomplete so that the master skips the purge, "otherwise files
  under the unscanned area would be wrongly removed from the index".

* **Answers of an old connection** (SlaveLink). Indexes restart at 1 with every
  connection (`remote_slave.go:214`), while slave goroutines outlive a reconnect and
  answer on the current stream (`slave.go:637-645`): the caller of the new
  connection's command *i* can be given the reply to the old one's. `AnswerIsOwn` says
  that no other foreign answer reaches a caller.
* **A buffered answer beside a waiter** (SlaveLink). `routeResponse` looks in
  `pendingCmds` (525) before `FetchResponse` stores there (241), which looks in
  `earlyResponses` (242) before `routeResponse` stores there (538): the caller sleeps
  until its timeout beside its answer. `AnswerNotLost` exempts these callers, recorded in
  the history variable `crossed` at the step where it happens, and no others.
* **A late remerge answer** (SlaveLink). Between FetchResponse's timeout and
  `markActiveRemergeTimedOut` (`slave_manager.go:1639`) a reply is buffered and the
  slave stays marked as remerging; `remote_slave_test.go:67-71` expects otherwise.
* **Aged uploads** (Remerge). A directory is listed before its entries wait for a
  remerge slot (`slave.go:1399, 1410`): a file uploaded into it more than 120 s before
  the listing is sent is pruned (`vfs.go:586-588`).
* **Listings after ClearSlave** (Remerge). `runRemergeQueue` finishes what it holds
  and may choose the queue over `remergeStop` (`remote_slave.go:404-424`): entries are
  added for a slave that is offline.
* **The wipe of the old connection** (Remerge). A new connection is accepted as soon
  as `online` is false (`slave_manager.go:902`), while SetOffline of the old one still
  has to call ClearSlave (`remote_slave.go:551-556`): it removes new entries.
* **The refused startup remerge** (Remerge). A scan inside a slow ReadDir outlives the
  reconnect; the new remerge is refused (`slave.go:1286`), taken as skipped, and with
  mode off the slave stays unavailable (`slave_manager.go:1629-1633, 1706`).
* **A stopped job's listings** (Remerge). They are still queued when the next job
  marks, and enter as seen: with several roots a ghost survives that job's purge.
* **Slots** (FtpTransfer). STOR counts the sessions whose transfer has begun
  (`commands.go:1662`) up to 10 s before its own begins (1683, 1777), PASS counts
  logged-in sessions (406) before it is one (426): the limits of `user.go:60-62` can
  be passed together.
* **A kick too early** (FtpTransfer). With PORT the transfer fields are set before the
  slave is known (`commands.go:1683`, attach at 1686): a disconnect in between aborts
  nothing, against `plugins/slowkick/handler.go:391`.
* **DELE against a resume** (FtpTransfer). DELE looks for uploads once
  (`commands.go:794`): a REST/STOR that reserves the path after that loses its file
  and is indexed all the same.
* **A part sent as the whole** (SlaveTransfer). A download reads the end of the file
  (`transfer.go:551`), the upload it does not yet follow writes its last bytes and ends,
  and the second look finds none: the download is reported as complete. The same between
  an upload's creation of the file and its `registerUpload` (`transfer.go:254-270`).
* **The follower of a failed upload** (SlaveTransfer). `isFinished` is true of an
  aborted upload (`transfer.go:759-763`): its follower ends with success, short of the
  file or past what the clean-up has left.
* **The orphan's clean-up** (SlaveTransfer, the `forsaken` of `StoredStays`). A link drops
  during an upload, or its caller gives up, and the client resumes it; when the orphan has
  idled out, its clean-up removes the file by path (`transfer.go:433-436`), be the resume
  stored and indexed by then.
* **A failed resume cuts** (SlaveTransfer, the `kept` of `StoredStays`). STOR takes any REST up
  to the size in the index (`commands.go:1586-1601`), and a receive that fails truncates the
  file to where it began (`transfer.go:433-442`): with a REST from before the end, what was
  stored after it is gone. The index keeps the old size (`bridge.go:2219`), so that a later
  REST may lie beyond the end of the file and leave a hole.
* **Two uploads in one entry** (SlaveTransfer; `FollowsLiveUpload` leaves them out). An upload
  that was given up and the next one of its path share the key of `uploadByPath`; the later
  `registerUpload` replaces the earlier, and a download no longer finds the one it follows.
* **A kick of a session that accepts** (DataSetup; the run `kick`, and a finding).
  `getRawDataConn` closes `s.DataListen` after Accept (`session.go:243`); a kick that has
  ended the Accept has set the field to nil by then (`session_abort.go:32-35`), and the
  daemon panics. The same where `PassthruSlave` is cleared between its check and its use
  (`commands.go:1758-1759, 2118-2119`).
* **Ports left open** (DataSetup, the `left` of `NothingForgotten`). A second PASV or a
  CPSV overwrites `DataListen` without closing it (`commands.go:231, 982`) or
  `PassthruXferIdx` without aborting it (196, 951); ABOR and a kick clear the index
  without an abort (`session_abort.go:41`); HandleSession returns without closing either.
* **A listing after CPSV** (DataSetup). With passthrough, CPSV after PRET LIST asks a
  slave to listen (`commands.go:177-197`), and LIST, which looks for a listener or an
  address only (`transfer_list_target.go:61`), answers 503.
* **A prepared path and another one** (DataSetup does not look at paths). With
  passthrough the slave is chosen for the path of PRET; STOR or RETR of another path uses
  it all the same, and a REST of a file on another slave resumes nothing there.
* **A status nobody takes** (TransferWait). The caller may take the status from the
  RemoteTransfer between `UpdateStatus` and `completedTransfers.Store`
  (`remote_slave.go:331-336, 634-640`), or be gone by its deadline: the entry stays.
* **A refused RECEIVE** (SlaveTransfer). When its acknowledgement fails,
  `SlaveConnectAndSend` aborts the transfer on the slave (`bridge.go:3028-3036`),
  `SlaveConnectAndReceive` and `SlaveReceivePassthrough` do not (2936-2947, 2800-2808).
* **A call after the sweep** (SlaveLink). A caller that stores its channel after
  SetOffline has swept `pendingCmds` (`remote_slave.go:566`) waits for its full timeout,
  although the sweep is there to unblock waiting callers (561).
* **A path released too early** (FtpTransfer, its `Orphans` and `tired`). When the link is lost
  during an upload, or the master is tired of waiting with the link up - 60 s for the
  acknowledgement, two hours for the status (`bridge.go:2806-2814, 2943-2950`,
  `remote_slave.go:651-652`) - the handler returns and releases the path
  (`commands.go:1609`) while the slave still writes, or begins to: the file can be
  downloaded, resumed and deleted beside the writer, whose clean-up removes by name what it
  finds there. `UploadsApart` names these writers, and `IndexedIsComplete` leaves out the
  paths of uploads that were given up.
* **An SFV that is not parsed** (ReleaseHooks). When the look-up of the SFV fails in the
  last hook of a release, nothing announces COMPLETE: where look-ups may fail,
  `CompleteIsAnnounced` speaks only of releases whose SFV has been parsed.
* **A bad file that is not deleted** (ReleaseHooks, its `spared`). When the deletion fails after
  the parse of the SFV, `verifyExistingPayloadsAfterSFVUpload` goes on to the next file
  (`zipscript_runtime.go:1264-1268`): the bad one stays in the index, is present, and is not
  looked at again until the SFV is parsed once more or somebody runs SITE RESCAN.
* **A bad file out of the index** (ReleaseHooks, its `left`). The handler and the hook of a bad
  upload take it out of the index whether the slave has deleted it or not
  (`zipscript_runtime.go:530-533, 1155-1156`): it stays on the disk, its name is refused to a
  new upload, and the next remerge indexes it again, with no checksum.
* **A file without a checksum** (ReleaseHooks, its `unknown`). Zero is taken for "not known":
  a file of zero checksum, empty or found by a remerge, is never deleted as bad (526-528,
  1145, 1258-1259), and a release that has one is not complete.
* **A race run again** (`core/events.go:666-682`). `completedRaces` is not cleared when a
  release is wiped: the same release with the same count and size, uploaded again within
  24 hours, is not announced. ReleaseHooks has one race and does not see this.

* **A good file deleted** (ReleaseHooks). `finalizeReleaseUpload` compares the checksum
  its upload had when it was queued and deletes by name (`zipscript_runtime.go:1155`):
  when that file has meanwhile been deleted by the SFV's own hook, uploaded again and
  answered 226, the older hook deletes the good file. `etc/config-example.yml:459`
  says of delete_bad_crc "delete uploaded files that fail SFV CRC".
* **A nuke that takes nothing** (Nukes, in the settings of users with few credits or none; the
  `sum` of `NukesBalance` is where it then leads). With credits not above the penalty the save of
  the user file is refused, the history says that nothing was taken, and UNNUKE then
  recomputes a sum and gives it (`nuke_helpers.go:253-277`), against
  `nuke_helpers.go:14-15` and `site_nuke.go:440`. CHRATIO to 0 is refused for the same
  reason (`user.go:769-826`).
* **A whole file saved over a newer one** (SiteUser). SITE commands load, edit and save a
  user file without its lock (`site_user.go:602`): credits changed by a nuke or an award
  in between are lost. The counters of traffic are not (`TrafficKept`).
* **A deleted user's transfer** (SiteUser). DELUSER and RENUSER do not end the sessions
  of the user; the statistics saved at the end of a transfer create the file again,
  and READD is refused because of it (`site_user.go:1908, 1935`). When DELUSER fails later, its
  undo renames the stashed file over such a new one (`site_user.go:1904-1905`), and so does
  READD when the transfer ends after its look: what the transfer has counted is lost
  (`PutsBack` in `TrafficKept`).
* **Unnuke by path** (Nukes, its `lost`). UNNUKE, NUKES and the nuke plugin find a record by
  the path of the newest one, and no lock holds a release while a command is at it: an
  unnuke that comes between a nuke's rename and its record gives back a recomputed sum and
  finds nothing to mark (`nuke_db.go:165`), and the record that is then written stands for a
  release that is back. SITE NUKES in between forgets the record of an unnuke under way.
* **A database that fails** (Nukes, its `lost`). NUKE and UNNUKE go on when the history cannot be
  written (`site_nuke.go:372-390, 449-456`), and say so in debug mode only: a nuked release has
  no record, which UNNUKE answers with a recomputed sum and autonuke by nuking what comes
  back; or one that is back keeps an active record, and autonuke skips it for ever.
* **Entries below a purged directory** (VfsTree). A purge of one slave's unseen entries
  takes a directory with everything below it (`vfs.go:548, 743-786`), the files of other
  slaves included, which are on their disks and are indexed again only by a remerge.
* **Overlapping saves** (VfsTree, the `overtaken` of its `drift`). The persist loop, the end of
  a remerge and Stop may call `SaveToDisk` at once (`bridge.go:2647`,
  `slave_manager.go:1687`): each writes its own temporary file, the older snapshot may be
  renamed last, and the saved version is the newer one's. `SavedIsCurrent` holds but for the
  time from such a rename to the next one.
* **Exclusions and a crash** (VfsTree, the `dropped` of its `drift`). `LoadFromDisk` drops the excluded paths and then
  counts as saved: when the exclusion is taken back and the master crashes before it
  saves, the old entries are loaded again.
* **A partial index as a cached one** (VfsTree, Remerge). A remerge that failed or was
  incomplete clears `remerging`, so the persist loop saves the index as it is; after a
  restart `startupCachedSlaves` (`slave_manager.go:764-767, 1541-1549`) takes it for the
  slave's cached index, against the mode that serves only after a remerge.
* **A lost answer while archiving** (SiteTree, the `astray` of `StoredIsReachable`). A delete on
  the source whose answer is lost has been done, and one that fails may be half done
  (`slave.go:763-788`); `relocateAcrossSlaves` takes it as failed and deletes the copies too
  (`bridge.go:1402-1404`): the files are gone. A move or rename whose answer is lost leaves
  the index at the old path.
* **Two REQFILLs of one request** (SiteTree, Requests; `StoredIsReachable` is violated with
  `verbs` = fill for both sessions). A request that lies on several slaves is brought
  together file by file onto the same path: the second session's copy fails on the file
  the first has copied, and its undo deletes that (`bridge.go:1397`) after the first has
  removed the source. The fill is recorded twice. With a subdirectory on another slave one
  REQFILL is enough: the directory is relocated after its files and its undo deletes them.
* **Requests saved over each other** (Requests). No lock covers reading, changing and saving
  the list (`request/handler.go:641`): with `do_not_create_dir_until_filled` a request that
  another session adds in between is lost; with directories a deleted one comes back, and a
  REQDEL of one request can drop a fill or a deletion of another.
* **Archive jobs of more than 15 minutes** (Spacekeeper, its `lapsed`). `pruneInflight` forgets
  their mark
  (`spacekeeper/handler.go:562-570`): a second job's copy fails on the first one's file, its
  undo deletes the first one's copies, and the first then deletes the source, against
  README.md:817-819. Victims are not marked at all.
* **Uploads while archiving** (SiteTree). A file that is uploaded into a release after
  `collectRelocateFiles` has looked is deleted with the source; the check for transfers is
  made once per evaluation (README.md:811).
* **Credits twice** (Pre; `RewardedOnce` is violated with keeper, pre and uploads in one
  setting). A file that lands in the pre-directory between the rename and its index keeps
  the directory's entry; when the destination has been archived meanwhile, a second PRE
  with its old statistics succeeds. Two pre-directories on different slaves can be moved to
  one destination at the same time.
* **Renames of a directory on several slaves** (SiteTree). `SlaveManager.RenameFile` asks the
  slave of the directory's own entry only (`ftp_handlers.go:251-283`); the files of other
  slaves stay at their old path while the index moves them.
* **Two affil commands at once** (`plugins/pre/handler.go:335-497`). ADDAFFIL and DELAFFIL
  load, edit and save the file of affiliations without a lock: one of two is lost.
* **A stopped startup remerge** (Remerge, `MaxJob = 2` with uncached: `AvailableIsIndexed` is
  violated). SITE REMERGE after it, with mode off, makes the slave available at once.
* **Events that are dropped** (Sitebot). A full sink queue drops the newest event
  (`events.go:222-231`); when that is the footer of a race, its lines stay and come with the
  next race's (`announce/handler.go:154`). Two races of one release that complete at once mix
  their blocks too. A line the writer holds when the bot dies is lost.
* **A release made anew** (Sitebot). The announce plugin knows a release by its name and never
  forgets that it has announced it (`announce/handler.go:759-764`): after a wipe a new
  directory of that name gets no NEW line and stays complete. A refresh forgets that releases
  are complete: late race lines are said.
* **A bot without a connection** (Sitebot). Nothing connects again after the IRC connection is
  lost (`irc.go:310-332`, `bot.go:436-446`): the bot goes on reading events and says nothing.
* **A client that does not answer** (Sitebot, the `owed` of `BotDrains`). Private lines wait for
  the finish of the exchange they have begun, without a time-out (`irc.go:560-620`). A client
  that never sends it, or sends one that HandleKeyExchange cannot use (`irc.go:289-304`, which
  forgets the exchange but not the lines), leaves them there until an exchange that a
  later private line begins is finished; a key the client sets with an exchange of its own
  (`irc.go:270-288`) does not send them either.
* **A key that is replaced** (Sitebot). A line that is queued between `takePendingDH` and
  `SetPrivateUserKey` begins a second exchange (`irc.go:569-598`); the lines that are flushed
  under the first key are not readable to a client that has answered the second.
* **A record written late** (RaceRecords; `CreditKept` leaves these directories out). The
  writer may record an upload after its file was deleted (`bridge.go:1015`,
  `race_db.go:304-333`): the row is present again, and the record of the next uploader of
  that name is ignored until the release is complete.
* **The id of a deleted release** (RaceRecords). `getOrCreateReleaseID` caches the id after
  its statement (`race_db.go:157-187`); when the directory is deleted in between, the dead id
  stays cached, and every record of that path fails its foreign key until a restart.
* **Renames onto rows** (RaceRecords). The rename of a directory onto a path whose release is
  still in the database, or of a file onto a name its SFV lists, fails its UNIQUE constraint
  (`race_db.go:540-597`): the index has moved and the database has not.
* **A file lost before a restart** (RaceRecords). `Reconcile` deletes the releases whose
  directory the index does not have, and looks at no file (`race_db.go:619-648`): what the
  slave has lost leaves the index in its remerge, and its row stays present.
* **Windows that are carried on** (RaceRecords; `WindowCovers` leaves these out).
  `RenameReleaseState` replaces what a hook has noted at the new path meanwhile
  (`slave_manager.go:1467`), and a hook that ends late leaves a window that MKD of the
  same path keeps (`slave_manager.go:1318-1344`).
* **A rescan beside an upload** (RaceRecords). SITE RESCAN acts on what `GetFileSize` and the
  checksum said (`site_rescan.go:472-566`): a file uploaded in between is taken out of the
  index, or deleted in place of the bad one.
* **Rows of an index that is behind** (RaceRecords). Reconcile deletes the rows of every
  directory the loaded snapshot does not have (`race_db.go:619-648`), those made after the
  last save included.
* **Audio checks once per release** (not modelled). The fields of a release are cached before
  `ValidateAudioRelease` judges them: after a rejected file, later ones of the release are
  given the cached fields and are not validated (`zipscript_runtime.go:1661-1690`).
* **Roots that fill up** (SlaveDisk, with writes in a setting with `room`). A file that is
  written again while its root is below free_space_mb goes to another root
  (`slave.go:2033-2039`), and the older copy on the earlier root is what is read. Below the
  mount of a full root it may go to the root at `/`, where scans do not look for it
  (`slave.go:387-412`).
* **Directories in two parts** (SlaveDisk, with moves in a setting with `room`, or with a
  directory that is made again after a relocation). `handleMakeDir` makes it on the first
  root, full or not (`slave.go:963-970`), and the files go to another one: a rename or a
  relocation of the directory moves the first part only (`slave.go:800-826, 841-885`).
* **A move that cannot remove** (SlaveDisk, `UnlinkFails`). When `RemoveAll` of the source
  stops half way, handleRelocate removes the complete copy too (`slave.go:879-882`): what
  had been removed by then is gone.
* **Two MKD at once** (Routing, the `shaken` of `StaysTogether`). Between `FileExists`
  (`commands.go:690`) and the entry of the index (`bridge.go:1676`) no lock is held: two
  racers, or a STOR that makes its directories, may make one release on two slaves, when
  transfers change the load in between. The entry names the later one; renames, moves and
  deletes of the directory ask its slave alone, the files on the other come back with its
  next remerge. The same holds for uploads to a release while its slave is away.
* **Resumes on an archive** (Routing). `SelectSlaveForDownload` does not look at ReadOnly:
  a STOR with REST appends to a file on a read-only slave (`bridge.go:856-861`, 2895-2897),
  against `slave_manager.go:2446` "Read-only archive slaves must never receive uploads".
  Routing has paths and no contents, so `ArchiveStays` does not see it.
* **Reads of archived files** (not modelled). `candidateSlavesForPath` resolves the owner
  as for a write: ReadFile, ChecksumFile, GetSFVInfo, ReadZipEntry and the probes are
  refused for files on read-only slaves (`bridge.go:1519-1522, 2176-2193`).
* **A missing file that is not marked** (Routing, FtpTransfer). `FetchResponse` turns
  AsyncResponseError into an error (`remote_slave.go:261-263`), so the branch that marks a
  file missing after a failed upload or download (`bridge.go:2234, 2254`) is never reached:
  an entry whose file has vanished stays until the next remerge.
* **A week that is not begun** (Quota). The week's uploads start again when a transfer or a
  login of the user saves his file (`user.go:986`, `commands.go:2496`): a user who stays
  away is judged by the total of the week he was last seen in, week after week.
* **A user file with two owners** (Quota). `setDisabledFlag` reads and rewrites the file
  (`quota/handler.go:762-801`) without the daemon's lock (`user.go:189`): a save in between
  takes the flag back, or an upload's count is lost. A staff command clears the flag before
  it takes the plugin's mutex, and the scan that holds it may set it once more.
* **A user the staff has just let in** (Quota). A scan that has read the file with the flag
  (`quota/handler.go:504`) marks the user as disabled after the command that cleared it
  (538): the account is open, and no scan looks at it again.
* **A failed disable** (Quota). `LastQuotaWeek` is set before the flag is written
  (`quota/handler.go:589-605`): when that fails the user is not judged again that week.
* **The other pre-directories** (Affils; `AclPaths`; `AclHolds` claims nothing of them). ADDAFFIL writes down `acl_path` of its
  first pre-directory (`pre/handler.go:412`), which `affilACLPaths` takes for all of them
  (1691-1698): the others get no rule, where `etc/affils.yml` says that the ACL path defaults
  to the predir.
* **Two siteops, one list** (Affils). ADDAFFIL and DELAFFIL read, change and write affils.yml
  without a lock (`pre/handler.go:348-424`): one of two added at once is lost, and
  permissions.yml may be made for either list.
* **A file that is cut** (Affils). permissions.yml is written by os.WriteFile (1621): a rehash
  that reads it empty gives every session no rules at all (`acl.go:259-291` takes it for an
  old-style file without lines), and a crash leaves it so. Two that write at once (Affils,
  its `torn`) may leave the tail of the longer one after the end of the shorter: the file no
  longer loads, and further affil commands fail on it until somebody edits it.
* **Two rehashes** (Affils). `config.go:519-521` says that a mutex protects the reload, but the
  hook that sets the rules runs before it is taken (534-540): the older of two may have the
  last word. A session that was accepted before and registers after keeps the old rules.
* **Private paths decide** (Acl). README.md:634-637, `etc/permissions.yml:9-12` and
  `pre/handler.go:1924` say that privpath rules are checked when no action rule matches;
  CanPerform looks at them first (`acl.go:851-860`). `AclHolds` claims of an affil's directories
  only what both orders give (`DocumentedPerform` is the documented one): who may list them.
  Of uploads there the two orders differ wherever an upload rule covers the directory, as the
  usual catch-all does, and nothing is claimed.


## 6. Not modelled

Data is abstract throughout: file contents, sizes, names and the wire encoding are
model values. Authentication, TLS, text output, configuration parsing, the media
probes, the import tools and the plugins that only query outside services have no
concurrent state worth a module. What is planned is in section 7.

## 7. Plan

Order: what carries the most state and concurrency first.

1. SlaveLink (done, proved), Remerge (done, proved), FtpTransfer (done, proved).
2. SlaveTransfer, TransferWait with TransferResult (done, proved).
3. VfsTree: the index, with SaveToDisk / LoadFromDisk and crashes (done); DataSetup (done, proved)
   and SlaveDisk (done).
4. PostHookQueue with HookRuns, and ReleaseHooks (done, proved); ReleaseState: the
   claims of announcements in the slave manager; RaceRecords has windows (done, proved) and
   records (done).
5. UserFile, SiteUser and Nukes, composed in Accounts (done; traffic and the history of
   nukes proved).
6. RemergeFlow: pause / resume / stop by queue depth.
7. Routing (done, proved).
8. The spacekeeper, request and pre plugins, composed in SitePlugins (done; the
   spacekeeper proved); autonuke is in Nukes.
9. Sitebot, composed with the plugins in MCSite (done); Quota (done).
10. Acl and Affils: the rules, who writes them and which a session has (done).

Runs are kept few: small modules that share a question share a run through settings,
and a violation run is dropped once its departure is only a matter of record.

Abstract specifications worth stating: the link as "each call gets its answer or an
error"; a saved index as an atomic register; a path
lock as readers and one writer, which FtpTransfer should implement.

Theorems to prove next: `IndexHolds` of VfsTree with its purges as one step over a set of
paths in place of a fold, and `SavedIsCurrent` for one goroutine that saves.

