# Conmuta, specified

Conmuta lets coding agents on different machines talk to each other over
Telegram. On each machine one daemon holds the bot tokens, polls Telegram, keeps
a SQLite ledger and serves short-lived local clients (MCP stubs started by an
agent host, a channel that rings a doorbell, a runner that wakes an agent). A
conversation is a set of threads: a REQUEST opens one, REPLY and ACK move the
turn, RESOLVED closes it. There is no server of our own: two daemons agree only
through what Telegram delivers to both.

This directory specifies that program in TLA+: modules translated from the
source, instances that TLC checks, and proofs that TLAPS checks. Paths below are
relative to `src/src/` unless they start with `channel/`, `channel-pi/` or
`runner/`.

## Inventory

| Component | State | Operations | Hard behaviour | Properties that make it correct |
|---|---|---|---|---|
| **Protocol state machine** `shared/protocol-apply.ts`, `ledger/threads.ts` | one row per thread and its history | apply one envelope to one row | authority by name and by user id, stale answers, trimmed history | nobody closes what is not his to close; an open thread waits for somebody |
| **Inbox** `daemon/poller.ts`, `daemon/admission.ts`, `ledger/inbox.ts` | `updates`, `threads`, `offsets`, `audit_log`, `unknown_senders`, checkpoint | poll, seven admission steps, batch transaction, checkpoint | crash between any two writes, redelivery, two planes delivering one message, several messages of a thread in one response, two daemons | write-ahead before confirmation; each message judged once; no batch that can never commit |
| **Send path** `daemon/send/*`, `daemon/transport/*` | mutex chain, rate windows, `retry_after_until`, rows written after delivery | validate, pace, deliver per plane and recipient, record or fail | awaits between reading and writing the ledger, partial delivery, 429 during a call, crash after delivery | sends of a binding do not overlap; an error means nobody was reached; the longest wait stands |
| **Debates** `ledger/debate-journal.ts`, `shared/debate-marker.ts` | journal of turns at each end | check a turn, append it after delivery | cap read before the await, counted by the sender alone, crossing turns, lost answers | no more rounds than the cap; a debate can be ended; both ends agree that it is over |
| **Client cursors and fetch** `ledger/cursors.ts`, `daemon/serve/fetch.ts` | cursor and surfaced threads per client | ensure, long-poll, read, select, trim, advance | cursor read before the wait, overlapping fetches, retention beside them, few places for many turns | no text passed over unseen; every turn is laid before the agent |
| **Doorbell and channel** `daemon/serve/doorbell.ts`, `channel/*` | watermark, cursor of the link's session | read a summary, ring, commit | a page that ends in the middle, a ring or a commit that fails, a new session | a call nobody was told of is never behind a position |
| **Wake runner** `runner/*` | shared watermark file, wake budget, ladder | read, wake, commit | turns that fail, levels that change, another project's runner rewriting the file, restarts | bounded wakes; every call heard in the end |
| **Daemon singleton** `daemon/lifecycle/*`, `daemon/bootstrap.ts` | lock file, run file | acquire, reclaim, heartbeat, stop | two reclaimers, suspended holder, crash while starting | at most one daemon; a dead one is replaced |
| **Spawn election** `client/run-state.ts` | spawn lock | elect, recheck, spawn, wait | timeout while the daemon boots | one spawn per need |
| **IPC sessions** `daemon/ipc/*`, `client/session-exchange.ts`, `client/ipc-stub.ts` | nonces, sessions, frozen bindings; the stub's shared attempt | issue, consume, open, sweep, call, reconnect, release | caps, expiry, daemon restart under a client, calls that share one handshake, death without a goodbye | slots are nobody's but living clients'; a restart is survived |
| **Bindings** `daemon/bindings.ts`, `registry/*` | last good registry, managed bindings, pollers | fingerprint, load, reconcile, stop all | awaits between steps, failure half-way, stop during reconcile, a file that changes while it is read | one poller per bound project and none besides |
| **Registry wizards** `installer/registry-commit.ts`, `installer/wizards/*`, `cli/project-sync-roster.ts` | `registry.json` | read, ask, decide, commit in a transaction, put back | each from a reading that may be old, beside an editor | what is on disk binds nothing twice |
| **Retention** `ledger/retention.ts` | all tables | one sweep | the cursor of a waiting client removed | part of the properties of fetch |
| Pi channel, views, ledger file, codec, installer, doctor, CLI, panel, migration, secrets | see `PROJECT.json` | | mostly sequential I/O or text | see "Not modelled" |

They interact through the ledger (one SQLite connection in one process), one
event emitter (`inbox:<project>`), `retry_after_until` (written by poller and
send path), Telegram, the files in `run/`, `registry.json` and the runner's
watermark file. JavaScript runs a function to its next `await`; so the steps of
the models are the stretches between awaits, cut further wherever a crash
between two writes can be told from a crash around them.

## Modules

| Module | Models | Depends on |
|---|---|---|
| `ThreadProtocol` | `applyEnvelope`, rejections and history of a thread, as operators | |
| `JudgedLog` | abstract: messages arrive, are judged once, are forgotten after | |
| `Inbox` | poll loop, admission, commit, crash; `Log` is its refinement mapping to `JudgedLog` | `ThreadProtocol` |
| `SendPath` | one binding's sends, with the poller beside them | `ThreadProtocol` |
| `Debates` | two ends, each with a ledger, a journal and a queue at Telegram | `ThreadProtocol`, twice |
| `Serving` | fetches, cursors, selection of turns, retention | |
| `Doorbells` | channel and wake runner over the doorbell routes | |
| `DaemonElection` | `daemon.lock`, `spawn.lock`, run file: how a home gets one daemon | |
| `Sessions` | handshake, sessions, tool calls, restarts of the daemon under its clients | |
| `RegistryFile` | `registry.json`, the wizards and a human with an editor | |
| `Bindings` | the loader, the reconciler, its pollers, over a changing file | `RegistryFile` |
| `MC...` | instances for TLC | |
| `DebatesProofs`, `InboxProofs`, `SendProofs`, `ElectionProofs`, `ServingProofs`, `DoorbellsProofs`, `BindingsProofs`, `SessionsProofs` | theorems | |

Definitions under a comment "Mutant:" are wrong on purpose. They name plausible
slips of the code, and show that a property would notice them.

### ThreadProtocol

`RowAfter(row, env)` is the row `applyEnvelope` leaves and `OutcomeOf(row, env)`
what it reports, as one operator per kind of message (`Opened`, `Acked`,
`Replied`, `Resolved`) guarded by `ClassifyRejection` in the code's order. A
thread row and its `thread_history` are one record, `NoThread` a missing row.
Envelope text, fingerprints and rendering are abstracted; instants are the
positions the messages have.

### Inbox

The variables are the tables (`updates`, `threads`, `offset`, `audits`,
`unknown`, `checkpoint`), the server's queue (`telegram`, `confirmed`,
`evicted`), and each poll loop's memory (`pc`, `asked`, `batch`, `entries`,
`seen`). `Ask` and `Receive` are the two halves of `getUpdates`; `Classify` is
one turn of the loop in `admitTelegramUpdates`, with its two writes outside the
transaction; `Commit` or `Rollback` is `commitInboxBatch`; `RecordCheckpoint`
follows it. `Crash` may come between any two. Admission runs without an await in
one process, so the finer steps only matter to `Crash` and to a second daemon.

A message without a date is in `Forms` but in no instance: Telegram dates every
message. (One that came in would be remembered by the batch before its date is
looked at, and could make a later copy a duplicate of nothing.)

`crowded` is a history variable: the threads of which one response has held two
messages, or one message in two copies. Admission judges these from one row, which
is what `LedgerMatchesItsInbox` and `AnchorIsCaptured` have to except (see
"Divergences noticed").

### SendPath

`Submit` puts a call on the chain of `BindingMutex`; `Refuse`, `HoldBack` and
`Begin` are the three ends of the code before the first await; `Land`, `Miss`,
`Limited` and `Unsendable` answer one HTTP request each, the group before the
recipients; `Record`, `RollBack` and `Fail` are the code after the last await: a delivered call is
recorded, unless it is a broadcast whose body carries turns of a debate
(`JournalRefuses`), whose transaction the journal's NOT NULL throws back. `existing` and
`before` in a call's record are the row and the wait it read before. `Poll` and
`PollLimited` are all the poller does to what a send reads. A poll may succeed at any
instant at which the poller is not asleep, which is more often than it does. The room
guard and the secret scan are text matching: an input has the flaw they look for or it
has not.

A `Crash` is the death of the process, here as in `Inbox` and `Debates`: it takes the
memory and leaves the ledger. The orderly stop of a daemon is in `Sessions` and `Bindings`.

`owed` is a history variable: the latest instant Telegram has named to a send
since the poller last wrote the column.

### Debates

Two ends of one project, each with the thread rows of `ThreadProtocol`, a journal
and one send that its mutex admits. `Begin` is the send up to its await, with the
checks of `checkDebateTurn`: who may COUNTER and who may AUDIT, the cap of rounds,
no patch in the text of a turn; `Land` and `Miss` are the two things Telegram may have done with
the message, `Miss` also when it took it and its answer was lost; `Record` writes
the row computed from what `Begin` read, and the journal rows; `Admit` takes any
number of queued messages as one batch, each applied to the row before the batch: of
those that change the row, the last one's write stands (`Writers`, `RowAdmitted`), and
an ignored or rejected message writes nothing.
Nothing in the code asks that a turn travel on the message it is meant for, so an
instance chooses which do. Nor does it ask that a body carry one turn: `turns` is a
sequence, `MaySay` judges it against the cap once, and `Land` and `Record` count each
COUNTER of it.

`countered` and `unrecorded` count the COUNTERs that reached the peer and those
of them no journal holds; `torn` and `untold` name the debates an end wrote from a
row it had read too early, and those closed with nobody told.

### Serving

A text is the row that carries it, and a thread's turn the row of its latest
message of a peer. `Answer` is the whole stretch from the reading of the rows to
the writing of the cursor: the batch, the log from its newest checkpoint, the
selection by tiers (`selectTiered` with its floors), the bodies that are left out
of threads already surfaced, and, if the fetch marks, the new position and the
surfaced threads. `FetchAtOnce` is a fetch that finds rows or does not wait,
`BeginWait` and `Wake` the two halves of one that does: what was read before the
wait is the call's record, everything else is read after it. `Admit` and `Say`
are all that the poller and the send path do to what a fetch reads, `Sweep` the
two deletions of `sweepRetention` that concern it.

`given` and `past` are history variables: the texts a client has had in an answer,
and the rows that a session of it began past when its cursor was made. Those are the
rows dated before its window (`BeforeWindow`) and, because the position is the
greatest row of that kind, every row admitted before one of them, also if dated
inside the window (`Overtaken`). `past` is computed from the dates and not from the
position that `CatchUpSeq` gives, so that a position further on would show.

### Doorbells

A tick of either satellite is `Look` (what its ladder and its memory allow),
`Seed` (the first watermark, from the runner's file or from the daemon),
`Read` (one page of the log through the gate of `doorbell.ts`), then `Deliver`
for the channel or a turn of the harness for the runner, and `Commit`. Every call
of the link may fail with or without effect, and the session behind it may be a
new one whose cursor starts over. `NeighbourReads` and `NeighbourWrites` are the
runner of another project that rewrites the watermark file as a whole.
`told`, `skipped` and `starts` are histories. At autopilot every turn is refused
(`Refused`), as `sendProofProfile` has a profile for `wake` alone; so is a wake
record of a harness that cannot be proved.

### DaemonElection

`lock` and `age` are the two lock files, `runFile` is `run/daemon.json`, `holds`
the processes `acquireLock` or `acquireSpawnLock` has returned a handle to. The
client repeats the daemon's algorithm line for line, so there is one set of
actions (`Create`, `Inspect`, `Unlink`, `Release`, `Remove`) and `FileOf(p)` says
which file they touch. Every file operation is a step; a file's content is the
pid in it (a process owns a lock at most once at a time, so `acquired_at` adds
nothing). A write is one step: a reader that finds a file empty judges it by its
modification time, which is now. A lock that vanishes between the failed create
and the read has infinite age. `TakesNoTime` lists the stretches of synchronous
code in which the clock may be neglected against seconds; a start, a stop and the
time to the next heartbeat may last. Pids are not reused.

The watch of the run directory starts before the first read, so no write of the
run file is missed and `FindRunFile` needs no event: it may happen whenever a live
run file is there.

`robbed` and `raced` are history variables: the files whose living owner was
judged too old, and those of which a reclaimer unlinked another lock than the one
it had read. They name exactly the two ways in which the locks do not exclude.

### Sessions

A handshake (`attempt`) finds the run file, asks for a nonce, opens a session and
hands its bearer to the calls that share it; a request and its handler are one
step, the answer another. An answer is lost with the daemon that gave it, or when
the client has stopped waiting: of a handshake's second request (`OpenedLost`), of
a tool call (`TimesOut`), of the release (`ReleaseFails`, which may also never have
reached the daemon). A tool call (`call`) takes the cached session or starts a handshake, is served,
refused because its binding changed, or answered 401, which lets it start one
more handshake. `Close` and what follows it is a client's orderly end, `Kill` its
other one. The daemon's tables are `nonces` (with those that are `expired`) and
`sessions`, each with the binding frozen in it; they die with the daemon. How a
client finds or spawns a daemon is `DaemonElection`; here it finds the one there
is. Proofs of possession succeed exactly for the daemon whose run file was read.

`excused` and `steady` are histories: the clients that lost track of a session of theirs
in one of the ways the code allows (each named above `SlotsAreAccountedFor`; five steps
of the module add to the set, and one that loses an answer does so only if the daemon
still has the slot), and the calls made under the daemon that still runs.

### RegistryFile and Bindings

`disk` is the document with a stamp for the time and size of the file. A wizard
reads it when it asks its questions, again when it commits, opens a ledger
transaction, renames its document into place, and on failure puts the text back
that it had read; each of these is a step, and `HandEdit` may come between any
two. Only the transaction excludes other wizards. `Bindings` adds the daemon:
`StatFile` and the three `Sync...` actions are the loader's fingerprint and its
reading, apart from each other; `RemoveBinding`, `VisitBinding`,
`TransportBuilt`, `StartPoller` and `AdoptPoller` the reconcile with an await
between each two; `BuildThrows` and `Collide` (Telegram's 409 for two pollers of a
bot) its faults; `RequestStop`, `StopAll` and `Boot` a stop that waits for the
tick or is tired of it, and the next daemon. Adding a bot is in the module and not
in the instance: it is the twin of adding a group.

## Runs

| Run | Question | Bounds |
|---|---|---|
| `InboxOneDaemon` | Does one daemon judge every message once, and keep the threads sound, wherever it dies? | 3 updates of 19 kinds, responses of 1 or 2, one crash, three starting ledgers |
| `InboxTwoDaemons` | Does the ledger stay the sum of its messages, and every group opening an anchor, when two daemons poll one bot? | 3 updates of 4 kinds, responses of 1 or 2, one crash, one eviction |
| `InboxProgress` | Is the inbox a judged log, and does it always get past every message? | 3 updates of 4 kinds; one crash, failure, conflict, eviction |
| `SendSerial` | What do two calls on a binding leave in the ledger, with a peer talking in between and a crash? | 2 calls of 17 inputs, 4 peer messages, 1 crash, any subset of deliveries failing |
| `SendPaced` | Are Telegram's waits and the daemon's own pace kept, and does every call end? | 2 calls, 3 instants, two 429s, waits of 1 or 2 |
| `Debates` | Is a debate capped, can it be ended, and do its ends agree that it is over? | 2 threads with a cap of one round, 4 sends, bodies with no turn, one or two COUNTERs, 1 crash, any answer of Telegram lost |
| `Serving` | Is a client given every text of its window, and the text of every turn that waits for it? | 2 rows of 4 kinds in 2 threads, dated now or a tick ago, a clock of 2 instants with windows of 0 and 1, one waiting fetch beside immediate ones, one place for turns |
| `Doorbells` | Is every call heard in the end, and within the budget? | 2 rows, pages of 1, a budget of 1 in 2 ticks, one restart, one change between five levels |
| `Election` | Do the two locks give a home one daemon, and every client that daemon? | 2 clients, 2 daemon processes, 1 login start, 1 death, leftover files, windows of one tick |
| `ServedSessions` | Who holds the slots of a daemon, and who is turned away? | 2 clients, 2 calls, 2 daemons on 2 ports, one slot, one rebinding |
| `SessionStranded` | Finding: a daemon that is replaced under a client | as above, no rebinding |
| `Bindings` | Does the daemon serve the registry on disk, and does the disk stay valid? | 2 wizards, 2 projects, bots and groups, 2 writes, 1 stop; documents that move a bot, swap two or are broken |

Why the bounds are enough.

* *Inbox.* Three updates make room for the shortest stories there are: a message,
  its copy from the other plane and a third message of the same thread; a close
  with something before and after it; a batch with one more update behind it.
  Responses of one and of two tell batching from its absence, and put a copy into
  the response of its opening or into the next. Two daemons and one
  crash give every order of two commits and a restart between them.
* *SendPath.* Every property is about one call or about a call and the next, and a
  queue of three adds only waiting (the theorem `SendsNeverOverlap` is for any
  number). A limit of one message per window and windows of one and two instants
  put every send at a boundary.
* *Debates.* Four sends make an opening, an audit, a counter and one turn too many,
  or two crossing pairs; with a cap of one round the first COUNTER reaches it. The
  second thread shows that journals do not mix.
* *Serving.* Two rows and fetches of one and of two: a batch that stops in the
  middle, a checkpoint with a text before it, a waiting fetch overtaken by another.
  One place for two turns makes them compete; windows of zero let one tick age
  everything, and the second row may be dated before the first, which then begins
  inside a window and behind its position.
* *Doorbells.* A page of one row is followed by a page with the other, so the first
  must be left behind correctly; a budget of one is spent by the first failure. One
  restart empties every memory once, and one change of level stands between any two
  steps.
* *Election.* Two processes contend for a file; a third would contend with a winner
  or a loser, which the theorems cover for any number. Windows of one tick put every
  timeout next to every expiry.
* *Sessions.* Two clients for one slot; two calls may be of one client, which then
  shares or races, or of two. Two lives of the daemon and two ports tell a reused
  port from another.
* *Bindings.* Two writes interleave a commit with an edit or with another commit,
  and any file change with the passes before and after. One stop is enough to
  overtake one reconcile and be followed by a boot.

`CHECK_DEADLOCK FALSE` where calls, posts, crashes, restarts or writes are used up
and the system rightly rests; the two safety runs of `Inbox` never do.

`SYMMETRY` is used in `Election`, and in `ServedSessions` and `SessionStranded`
over clients, calls, ports and bindings: no definition there tells one of them
from another, and the properties are invariants and step properties.

### Fairness

* `Inbox!FairSpec` is weakly fair to each poll loop (a `while` around awaits that
  all end: `getUpdates` has an `AbortSignal.timeout`, sleeps are bounded) and to
  the restart of a dead daemon, which the next client performs; strongly fair to a
  response that carries updates, since Telegram answers a poll with what it has. A
  conflict ends a loop and nothing restarts it, so the liveness property excepts
  it.
* `SendPath!FairSpec` is weakly fair to each call's own steps: every request to
  Telegram is answered or times out, and the process runs what is runnable.
* `Serving!FairSpec` is weakly fair to fetches that mark, and to nothing else:
  `EveryTurnSurfaces` is about a client that goes on working, whose agent asks again.
  It does not need the wait of another fetch to end.
* `Doorbells!FairSpec` is weakly fair to the loop (`while` around awaits and sleeps
  that end) and to time; strongly fair to what may fail at each attempt: the link,
  the host's notification and the harness's turn work again and again, or there is
  nobody to be heard by.
* `Bindings!FairSpec` is weakly fair to the heartbeat and to the reconcile it
  drives, and strongly fair to a build that is tried for ever: the token it needs
  may be put into the secret store.

Nothing is fair to Telegram, peers, clients that leave, wizards, editors, the
clock of `SendPath` or crashes.

## Findings

`SessionStranded` (`RestartIsHealed`): a stub caches its session with the port of
the daemon that gave it; every daemon listens on whatever port is free, and a
refused connection throws out of `postOnce` without clearing the cache. After a
restart of the daemon every later call of that client fails, though
`client/ipc-stub.ts:44` says that the stub heals itself. Only a 401 makes it shake
hands again, which takes a new daemon on the old port. `connect` can also keep a
port it read just before `performHandshake` finds a newer run file.

## Divergences noticed

What modelling showed besides, each in the model as the code has it. Where one of them
breaks what a property would otherwise say, the property names it as its exception
(`crowded`, `JournalRefuses`, `unrecorded`, `torn`, `untold`, `past`, `excused`,
`robbed`, `raced`, `skipped`): no property claims more than
this list leaves true.

*Inbox*
* `admitTelegramUpdates` applies each message of a response to the row in the
  database, which no earlier message of that response has reached
  (`daemon/admission.ts:520`): a RESOLVED followed by an ACK in one response
  leaves the thread open, and a REQUEST followed by its RESOLVED loses the close.
  ADR-0020 describes the ledger as the sum of what was admitted.
* For the same reason the anchor of a thread is lost when the group copy of its opening
  comes in one response with the direct copy: the capture finds no row yet, and the copy
  is a duplicate from then on (`daemon/admission.ts:457`). The comment at
  `daemon/admission.ts:261` says that the first group copy fills the anchor that a
  direct opening left null. It is lost too when a further message of the thread comes
  with the copy, whose row, computed without the anchor, is written over it.
  `AnchorIsCaptured` is about the threads that have not been `crowded`.
* A crash before `recordCheckpoint` loses the checkpoint for good
  (`daemon/admission.ts:655`): its message is a duplicate from then on.

*Send path and debates*
* A send writes the row it read before it awaited Telegram
  (`daemon/send/send-path.ts:534`). A RESOLVED the poller admitted meanwhile is
  undone, its history entry with it.
* An abandonment that reached nobody can never be announced: the re-send is
  refused as already resolved.
* A "failed" send may have reached its peer, when Telegram took it and only the
  answer was lost; the retry has a new eid, so the peer hears it twice. In a debate
  such a COUNTER is counted by nobody: `RoundsAreCapped` allows for it.
* An end that sends, or admits, from a row that lacks another message of that
  debate leaves both ends waiting for each other (`torn`): a reply crosses with the
  peer's, or the answer comes before the opening has written its row.
* A CONSENSUS and an ESCALATE that cross leave the two ledgers resolved on
  different bases.
* The turn's marker and the message's type are never compared: any turn may
  travel on any type.
* A body may carry several COUNTERs; only the first round they open is judged against
  the cap, while the journal counts each (`shared/debate-marker.ts:139`): two at the
  edge of the cap take the debate past it, with nothing lost (`shared/constants.ts:195`
  calls it the maximum one debate may reach). `RoundsAreCapped` says that no COUNTER
  goes out once the cap is reached.
* AUDIT rows of the journal carry the round of the sender's own journal, which holds
  no COUNTER, so always 0 (`daemon/send/send-path.ts:230`).
* A BROADCAST with a marker passes `validateSend`, is delivered, and then its
  transaction throws: the journal's `to_agent_id` is NOT NULL (`ledger/schema.ts:149`,
  `daemon/send/send-path.ts:585`). The caller gets an error though its peers have the
  message, and no audit row tells. `RefusedReachedNobody` excepts this call by name.
* `containsInlinePatchShape` looks at the text of a marker; its doc
  (`shared/debate-marker.ts:167`) speaks of its refs too.

*Serving*
* The text of a turn on a thread already surfaced may be given nowhere: it comes in
  the same batch as a newer checkpoint, so the log leaves it out, and the thread's
  entry omits its body; or retention takes the row before the client reads it.
  `NothingIsPassedOver` and `EveryTurnSurfaces` except just these turns.
* A new session begins after the greatest row dated before its window
  (`ledger/cursors.ts:293`). Rows are not in the order of their dates, so a row dated
  inside the window and admitted before that one is skipped, though
  `ledger/cursors.ts:23` says that a session sees exactly the window and
  `daemon/serve/fetch.ts:580` knows of the order. It is `past` in the model.
* Overlapping fetches can move the cursor back (`daemon/serve/fetch.ts:753`): the
  last to answer writes a position computed from what it read first. Texts are then
  given twice; none is lost.
* An answer lost with its connection is not served again, and the routes give no
  abort signal to a wait whose client has gone.
* A cursor swept during a long wait makes that fetch fail.

*Satellites*
* Losing the entry of a project from the shared watermark file (another project's
  runner writes an older reading back) makes the runner start again from the
  catch-up window: what was pending and older is skipped. Its doc
  (`runner/watermark.ts:73`) says that this costs a re-read and never a message.
* The wake budget is in memory only, and a restart grants a new one.
* At autopilot nobody is woken: `sendProofProfile` (`runner/harness.ts:109`) has no
  profile but for `wake`, so each call is refused as `profile_unavailable`, while
  `runner/ladder.ts:13` lists autopilot as a turn. `EveryCallIsHeard` promises nothing
  there.
* The pi channel's host swallows a failed ring, and its loop commits
  (`channel-pi/main.ts`, ADR-0038): a call can be behind its position and unheard.
* `daemon/ipc/routes.ts:746` says that the greatest `seq` only grows; retention
  deletes rows, and the greatest one left can be smaller.

*Daemon and registry*
* A living client can leave a slot behind: the answer to its POST /session comes after
  the timeout (`client/session-exchange.ts:200`) and its next attempt takes another, or
  its DELETE is abandoned (`client/ipc-stub.ts:275`). The latter its doc admits
  (`client/ipc-stub.ts:39`); but the comment at `client/ipc-stub.ts:262`, that an attempt
  that failed minted nothing, is not true of one that timed out. The slot is swept only
  once the client's process is gone.
* Two starters that have read one dead lock can both get it. The slower unlinks
  whatever bears the name, which is by then the faster's lock, and its exclusive
  create succeeds. Two clients elected one after the other cannot do this
  (`ElectionPreventsRaces`); launchd's start at login, and two clients reclaiming
  one dead `spawn.lock`, can.
* A client that starts while the daemon is stopping (run file erased, lock still
  held) spawns a daemon that is refused and then waits in vain. `GivesUpWithCause`
  counts a daemon that is leaving as a cause.
* A build that throws is not tried again until the file changes, unless nothing is
  managed at all (`daemon/bindings.ts:238`); `daemon/bootstrap.ts:241` promises the
  next heartbeat.
* Two bots swapped by hand start a second poller on a bot that is still polled:
  409, one loop ends for good and its binding stays managed. After a failed update
  an edit that is taken back also leaves a managed binding without a poller.
* The rename and the audit row of a commit are not one step: a crash after the
  rename and before COMMIT leaves the one without the other
  (`installer/registry-commit.ts:10` says it cannot).
* The document is computed from a reading before the transaction, so another
  wizard's commit in between is lost; the old text is put back in place, after the
  lock is released, and over whatever was written since.
* `bot add` and `group add` run twice append an entry twice; `conmuta.json` is
  written before the registry's commit and the token stored before it, and neither
  is taken back. `migration/main.ts` writes `registry.json` in place, without the
  lock, from an earlier reading.

## Proofs

For every value of the constants that satisfies the named assumptions
(`RosterAssumption`, `NoneAssumption`, `EidsAssumption`, `HistoryAssumption`,
`InboxAssumption`, `ReasonsAssumption`, `CallsAssumption`, `InputsAssumption`,
`PeersAssumption`, `InitialAssumption`, `BoundsAssumption`, `ResultsAssumption`,
`SayingAssumption`, `WireAssumption`, `ProcsAssumption`, `TimesAssumption`,
`ServingAssumption`, `DoorbellsAssumption`, `SessionsAssumption`,
`RegistryAssumption`, `BindingsAssumption`, `LimitsAssumption`, `FreshAssumption`,
`EndsAssumption`, `SaysAssumption`, `NullAssumption`), which TLC evaluates on every
instance:

| Theorem | Says | Argument |
|---|---|---|
| `TypeCorrect` | `Inbox!TypeOK` | `TypeInv` adds that a response being admitted is not empty, and that the entries of a loop are about the updates of its response |
| `NothingIsForgottenUnjudged` | `ConfirmedIsJudged`, any number of loops | `SafeInv`: no loop has asked past the ledger's offset, and up to the end of its response every update is in the response, below the offset or evicted; `Commit` judges the whole response in the step that moves the offset |
| `ClosesAreAuthorized` | `ThreadsAreSound` from sound rows | `SoundInv`: the row in every pending entry is sound too, because `RowAfter` keeps soundness from any sound row, however stale (`PeerKeepsRowSound`) |
| `NoBatchIsPoison`, `EveryAuditIsOnce`, `NothingIsReopened` | `NoPoisonBatch`, `ExactlyOneAudit`, `ThreadsOnlyMoveForward`, all for one loop (`OneLoop`) | `LoopInv`: what the loop asked for is the offset that stands, so nothing of its response is behind it; from the offset on there is neither a row nor an audit; the entries are about different updates, what they will insert is in `batchSeenEids` and in no row, and each row to be written moves on from the one that is there |
| `InboxIsAJudgedLog` | `ImplementsJudgedLog`, for one loop | from `LoopInv`: `Post` is `Arrive`, `Evict` is `Lose`, `Ask` is `Forget` or nothing, `Commit` is `Decide` for the updates that were pending and no longer are, and every other step stutters |
| `LedgerTellsItsInbox` | `LedgerMatchesItsInbox`, for one loop (`OneLoop`) and `[]MessagesAreApart` | `FreshInv`: every entry is what admission would decide now, because nothing else of its thread is in the response; so a commit applies each message it stores to the row it replaces (`CommitApplies`). `LedgerInv` carries the whole replay, a function from each update id to the thread tables after it, and says that the tables equal it, anchors aside, from the offset on. What a commit stores lies at or past the offset, so it extends the replay without touching what is behind. `ReplayIs` identifies that function with the recursive one |
| `AnchorsAreCaptured` | `AnchorIsCaptured`, for one loop and from tables whose unheld rows are blank; responses may hold anything, and the threads they crowd are the property's own exception | `AnchorInv`: unless its thread is crowded, a group opening behind the offset, or among the entries in hand, has an anchored thread or one its entry will anchor, and what `batchSeenEids` remembers is of this response |
| `ManyLoopsTellOneInbox` | `LedgerMatchesItsInbox`, any number of loops, `[]MessagesAreApart` and no starting history with a message still to arrive | `CrowdInv`, as long as nothing is evicted: an entry ahead of the offset is what admission would still decide, anchors aside (`EntriesStand`); one behind it is stored if it was admitted (`LateIsReplayed`); nothing at or past the offset is stored, and nothing behind it is still new. So what a commit inserts was decided from the rows it replaces (`CrowdAppliesInOrder`), and the replay grows as for one loop (`ReplayGrows`) |
| `ManyLoopsPoisonNothing`, `ManyLoopsReopenNothing` | `NoPoisonBatch` and `ThreadsOnlyMoveForward`, any number of loops, the same hypotheses and `[](evicted = {})` | from `CrowdInv`: what a loop still has to insert is ahead of the offset, so its eid is in no row and its row moves on from the one that is there |
| `SendTypeCorrect` | `SendPath!TypeOK` | `TypeInv` adds that a call that is not over has an input, and one that runs the row it read |
| `SendsNeverOverlap` | `SendsAreSerial`, any number of calls | `ChainInv`: calls arrive in order, each later call that is not over waits, linked to an earlier one that is not over, and the tail is the last. So the one call that may start is the first that is not over; ending it leaves no link behind that leads past it, because no link leads to a call before it |
| `TheLongestWaitStands` | `LongestWaitIsKept` | with the types: each writer of the column either takes the longer of two waits or is the poller, which clears what is owed |
| `ErrorsReachedNobody` | `RefusedReachedNobody`, any recipients | `ReachInv`: a call has a result only when it is settled, and has reached nobody before it has begun; the two ends of a call that report an error are those of a call that landed nowhere; the third, `RollBack`, is the exception the property names |
| `ClosesStayEntitled`, `OnlyAbandonmentsAreUntold` | `ClosesAreEntitled`, `UntoldCloseIsAbandonment`, from entitled rows | `CloseInv`: not only the rows of the table are entitled, but also the row each running call has read, and on that row its input is still allowed; so what it writes, from the row it read and not the one that is there, is entitled again. A peer's message keeps soundness (`PeerKeepsRowSound`) and never makes a close of ours |
| `ThePaceIsKept` | `PaceIsKept`, any limits | `PaceInv`: the windows are within their limits and remember every delivery of this life that is young enough, as seen from the clock and from the time each running call has read; one call runs at a time, so nobody changes the windows between the look and the entry |
| `OwnWordsStay` | `OwnWordIsKept`, while `[]HistoriesHaveRoom` | `WordInv`: what the client was told was sent is in the row of the table, in the row that any running call of that thread has read, and in no thread a call may yet open. It rests on `PaceInv`, through the chain: the call that reads next starts after the last one wrote |
| `DebatesInv` | `Debates!Inv` | `TypeOK`, and for each debate somebody who opened it, such that `InOrder`, `Counted`, `Agreeing`, `Capped` and `NothingStale` hold (below) |
| `CapHolds` | `RoundsAreCapped`, any cap, any sends and crashes, bodies of any number of COUNTERs | `Counted`: the COUNTERs told are no more than the rounds of the originator's journal, the one in flight and those that went unrecorded; `Capped`: the one in flight was allowed by the journal it will be written to |
| `EndIsReachable` | `DebatesCanEnd` | `InOrder`: an open row is of a REQUEST whose ends are the two, so the rules refuse neither end its own closing turn, which no cap is on |
| `AgreementHolds` | `EndsAgree` | `Agreeing`: a close, an opening or an acknowledgement that one end has made and the other has not is on its way, or excused; so with nothing on its way both have it |
| `ElectionTypeCorrect` | `DaemonElection!TypeOK` | inductive as it stands |
| `LocksExclude` | `ElectionExcludes`, any number of processes | `ElectionInv`: unless its file is robbed or raced, a holder's pid is in the file; and whoever is about to unlink has read a pid whose process is gone, and those do not return, so what it unlinks has no holder |
| `RunFileIsTheDaemons` | `RunFileNamesTheDaemon` | `ElectionInv` adds that the writer of the run file had won the lock before; if it lives, it has not let go of it |
| `SpawnLockIsNeverRobbed` | `SpawnLockOutlivesWait`, any wait and any window above zero | `PatienceInv`: a spawn lock whose owner lives is held, and is no older than its owner has waited |
| `ElectionsPreventRaces` | `ElectionPreventsRaces`, any number of clients and daemons | `OrderInv`: as long as no election was disturbed, each daemon that boots is one that the holder of the spawn lock waits for, a running one is named in the run file, and whoever is about to unlink the lock finds in it the pid it has read, or nothing |
| `ClientsGiveUpWithCause` | `GivesUpWithCause`, when there is a daemon to spawn (`Daemons # {}`) and waiting takes time (`SpawnWait > 0`) | `CauseInv`: a client that has waited at all was preceded by a spawn or by the death of a client; a daemon that was refused was refused by one that has left a trace; so once the time is up, somebody booted, left, failed or died |
| `ServingTypeCorrect` | `Serving!TypeOK` | with the rest of `ServingInv` |
| `CursorsPassNothingOver` | `NothingIsPassedOver`, any number of overlapping fetches | `ServingInv`: the position a waiting fetch began with is accounted for as a cursor's is, for rows may come but what is before a position stays given or `past`; a new session begins at a row that is dated before its window, so that whatever is at or before it is in `past` by its date or as overtaken (`PassedType`); a turn that awaits us has a row; and the texts of a batch are in the log or behind a checkpoint that is |
| `EveryCallIsAhead` | `NoCallIsMissed`, any depth, wire and faults | `DoorbellsInv`: every position there is (in memory, in the file, in the neighbour's copy, and where a commit under way will move to) is settled, that is, each call before it was told or skipped; and a summary reaches no further than one page, all of it examined |
| `DoorbellsTypeCorrect` | `Doorbells!TypeOK` | with `DoorbellsInv` |
| `TurnsAreBudgeted` | `WakesAreBounded`, any budget, window and cooldown | `TurnsAreCounted`: both lists of ages fall, and the k-th latest remembered end is no older than the k-th latest start, so a start that the window still shows is one that the budget still counts; the turn under way is the one start that has no end yet |
| `BindingsTypeCorrect` | `Bindings!TypeOK` | with the rest of `BindingsInv` |
| `RegistryStaysValid` | `WizardsKeepItValid` | `FileInv`: a wizard past its second reading holds a valid document and a valid successor, and these are all a wizard writes, besides what cannot be parsed |
| `NoPollerIsLeftBehind` | `PollersAreManaged`, any number of projects | `OthersAreStopped`: while a binding is built, no poller of its project polls, so adopting it overwrites nothing that lives |
| `SessionsTypeCorrect` | `Sessions!TypeOK` | `LinkInv`: a handshake under way has a call behind it and a round; a call starts each of its two handshakes once, so that a fresh one starts where none was |
| `NobodyIsTurnedAwayForTheDead` | `OnlyTheLivingFillTheHouse`, any capacity | `HouseIsBounded`: the table is finite and never above its capacity, so that a refusal after the sweep means that the living fill it; the one step that opens a session has swept and counted first |
| `SlotsAreGivenBack` | `SlotsAreAccountedFor`, any number of clients and calls | `TidyInv`: a client that is not excused has one handshake under way at most, its sessions are the one it caches or the one that handshake has just opened, and a leaving client connects no more; a call whose session was refused has no slot left. The steps that lose an answer keep it because they excuse the client exactly if the slot is still there |

None of the three properties of `Debates` is inductive. They are about what two
ledgers say of a debate, and the link between them is who opened it, which no
variable keeps: the invariant asserts that there is such an `origin`, and a step
that opens a debate extends it. From it follow the ends and the type of every row, of
every row a send has read and of every message in a queue (`InOrder`), that the
opening is the first that the peer hears of a debate (`OpeningsAreFirst`), and that only
the originator counters, so that one journal has all the rounds. Agreement further
needs `NothingStale`: unless the debate is excused, the row a send will be applied to is
the one it was judged by. `EndsAssumption` says that there are two ends, which is what
`Peer` stands for.

`SendsAreSerial` is not inductive: nothing in it says that a queued call's link
is still running. `ChainInv` does, and a crash, which clears the chain and every
call at once, keeps it. `ClosesAreEntitled` is not either: a send writes from a
row that is no longer in the table, so the invariant must speak of the rows that
are only remembered. The theorems that assume `OneLoop` need it: a second loop commits
from what it read before the first one did, and then a batch can collide, an audit
be doubled and a closed thread be written over. What of this any number of loops still
keep when each response keeps messages apart, the three `ManyLoops` theorems say. There an
entry goes stale only where it no longer matters: another loop can have stored a message
of its thread only by moving the offset past the entry too, and behind the offset the
insert guard makes it a replay. Two things are not in them. An audit is doubled even so,
since audit rows have no such guard. And a message that is in a history but in no row, as
the sweep leaves it (`retention.ts`), must not arrive again: one loop finds it in the
history and moves past it, a later message trims the history, and the other loop, which
still has the copy in hand, takes it for new and applies it out of order. TLC finds that
on two messages of one thread, so the theorems assume there is no such message.
`NoCallIsMissed` speaks of two positions, and the two others
come back as one of them.

`MessagesAreApart` says that no response of `getUpdates` carries two messages of one
thread or two copies of one message. It is a hypothesis of `LedgerTellsItsInbox` and of
the `ManyLoops` theorems, and names what the code does not keep: admission reads a thread
from the ledger, where what this batch decided of it is not written yet, so of two
transitions in one response the second replaces the first. The runs go without the
hypothesis: there the properties except the threads that have been `crowded`, and only
those. Everything else (batches of any size, other threads, redelivery, crashes,
failures) is covered. `HistoriesHaveRoom` excludes what the code drops on purpose, the
oldest entry of a full history. Both are hypotheses about behaviours.

Only model-checked:

* Liveness (`EveryCallIsHeard`, `EveryTurnSurfaces`, `EditsAreServed`,
  `EveryCallSettles`, `EveryUpdateIsJudged`): no prover here
  reasons about fairness with `ENABLED`.
* `LedgerMatchesItsInbox` of the threads that are not crowded, when others are; and
  `AnchorIsCaptured` with more than one loop.

## Not modelled, and why

* *Text*: envelope parsing, fences, secret patterns, schemas and rendering are
  inputs' attributes or absent. So are the status and thread views, which change
  no state, and the digest by which a fetch calls itself unchanged.
* *Run once and alone*: opening and migrating the ledger file, the v1 migration,
  the installer's edits of other programs' configuration, the doctor, the CLI and
  the panel. What they do to `registry.json` is under "Divergences noticed".
* *The pi channel*: the watcher of `Doorbells` under another host.
* *In Sessions*: a client and a daemon of different versions, whose handshake ends
  before it asks for a session, and a roster that drifted, which refuses nobody: the
  handshake raises a condition (`daemon/ipc/routes.ts:453`) and goes on. A stop that is
  asked for while the daemon boots is allowed more often than the code does.
* *In Bindings*: suspended bindings, which no wizard writes and no poller serves,
  and the permission checks of a group.
* *When the daemon is idle*: it decides only that a stop may happen.
* SQLite is trusted: a transaction is one step, and a constraint violation rolls it back
  (`Rollback`, `RollBack`). A disk that refuses a write is in no module. Telegram is
  what the code relies on it to be: ids in order, a queue that forgets what is confirmed
  and what is a day old.

## Plan

1. **Done.** `ThreadProtocol`, `Inbox` with `JudgedLog`, `SendPath`,
   `DaemonElection`; `Serving`, `Doorbells`, `Sessions`, `RegistryFile`,
   `Bindings`, `Debates`; their proofs.
2. `Conversation`: two daemons, each an `Inbox` and a `SendPath`, over a Telegram
   that reorders the two planes; `Debates` is its first half.
3. `Sessions` over `DaemonElection`, so that a client finds its daemon by electing
   one, and `Serving` behind its sessions.
4. The pi channel as an instance of `Doorbells` once its host reports failed
   rings.

The order is by what a wrong step costs: messages lost or thread state undone
first, then visibility to agents, then availability.
