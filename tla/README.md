# Companion Lobby in TLA+

Companion Lobby is a local MCP connector: one process per host that lets a model take
part in a forum service (Tangent) under personas ("companions") whose accounts the
operator signs in on a page served from the loopback interface. The program is a set of
threads around one shared hub, a state file, and a chain of network services that may be
slow, refuse, or never answer. The code paths are short; what is hard is what may happen
between two of their steps. These modules model those steps.

Contents: [inventory](#inventory) - [modules](#modules) - [runs](#runs) -
[fairness](#fairness) - [proofs](#proofs) - [disagreements found](#disagreements-found) -
[not modelled](#not-modelled) - [plan](#plan) - [running](#running).

## Inventory

Threads of a process: the MCP thread (reads standard input, one message at a time), one
thread per HTTP connection of the manager page (an event stream keeps its thread), a
checker thread per auto-check enrollment found at startup, the sweeper of pending
connects, the diagnostics journal, the tray. They share one `ConnectorHub` (`hub.rs`),
which owns

- the `StateStore` behind one mutex. The mutex is a leaf: no network call and no other lock
  is taken under it, so a handler is a chain of short critical sections with network calls
  between them, and whatever it read in one may be stale in the next;
- `bind_flights`, `pending_connects`, `optional_tools` and the event bus, each behind a mutex of
  its own;
- `refresh_locks`, one mutex per companion, which *is* held over a network call.

| Component | State | Operations | What makes it correct | Module |
|---|---|---|---|---|
| Credential custody (`hub.rs`, `store.rs`, `companion.rs`) | companions, bound account, account session with its grants, parked sign-ins, enrollments and their sessions | begin and complete a sign-in, disconnect, set services, forget, delete, enroll with silent refresh, restart | one sign-in parked per companion, used once; the binding and the session agree; a refresh token is presented once; one enrollment per place; nothing of a deleted companion comes back | `Custody` |
| Connect handshake and auto-resume (`hub.rs`) | pending connects, the sweeper's scan, the resuming threads | connect, pop sign-in, resume, sweep | one wait per place, taken once, never lost, always closed on the feed | `Handshake` |
| Attention inbox (`hub.rs`, `store.rs`, `attention.rs`) | records with a delivery state, checkpoint, revision, contexts | sync a digest, resync, evict, deliver, forget | items coalesce; delivered once; what the server lists stays | `Inbox` |
| Data directory (`lockfile.rs`, `store.rs`, `main.rs`, `manager.rs`, `start.bat`) | lock file, port, `state.json` and temporary files, each process's memory of it | start, take over, save by rename, fail to save, record and clear the page address, end, die | one long-running process per directory; an acknowledged save is in the file and stays there | `DataDir` |
| MCP stdio session (`mcp.rs`, `operations.rs`, `hub.rs`) | bytes read, readiness, stewardship names per context, the client's catalog | frame, decode, dispatch, answer, announce | every request is answered; the client's catalog is current or announced stale; a retried write applies once | `McpEdge` |
| Event bus and live feed (`bus.rs`, `manager.rs`, `manager.html`) | subscribers and their channels, the slots of open streams, the page's copy | subscribe, publish, stream, break, reconnect, load a snapshot | a copy at rest shows the store; a subscriber misses nothing after its head; streams and slots come back | `Feed` |
| OAuth client (`atproto_oauth.rs`, `auth/lib.rs`) | the two nonce caches, the calls under way | discover, push, exchange, refresh, mint a proof | a nonce costs one retry and never the call; nothing applied is sent again | `OAuthWire`, `TokenCall` |
| Background checker (`poller.rs`) | consecutive failures | check, back off | credential trouble is not retried tightly | a reader of `Inbox` |
| Diagnostics journal (`diagnostics.rs`) | log size | append, rotate | bounded log | - |
| Service adapter, presentation, references, tray, browser, command line | none to speak of | HTTP, rendering, parsing, operating-system calls | - | - |

Interactions: the page's routes call the hub's credential operations; a completed sign-in
calls the handshake's resume on the same thread; a handshake refreshes and enrolls in
custody, over the OAuth client, then arrives, which syncs the inbox, binds a context and feeds
the catalog; every mutation saves the whole store to the data directory and publishes the
companion's node on the bus.

The list of hazards is in `PROJECT.json`, each with the line where it bites and the
properties that watch it, or the reason why none does.

## Modules

Each component has a module that follows the code step by step, where a step is the code
between two releases of a mutex, or one network answer; most also have an abstract one that says
what the component promises as if its threads, files or reads did not exist. The detailed module
ends with the mapping to the abstract one (`INSTANCE ... WITH`) and the refinement as a property:

| Detailed | Abstract | Property, theorem | What the abstraction forgets |
|---|---|---|---|
| `Custody` | `Accounts` | `StoreAsPromised`, `StoreSeen` | who is at work: callbacks, refreshes, exchanges, the tokens |
| `Handshake` | `Accounts` | `SharesStore`, `StoreShared` | the waits and threads, leaving what the module assumes of the store |
| `Custody` | `Keyring` | `KeysComeOnce`, `KeysOnce` | all but which companion holds which grant for which account |
| `Handshake` | `WaitBoard` | `WaitsGoOnce`, `WaitsGoOneWay` | the threads a wait passes through |
| `Inbox` | `Mailbox` | `ItemsGoOneWay`, `MailboxKept` | the readers, their requests and the answers under way |
| `DataDir` | `Ledger` | `UpdatesKept`, `LedgerKept` | processes, locks, files and failures |
| `McpEdge` | `Dialogue` | `InTurn`, `AnsweredInTurn` | bytes, reads and frames, the catalog, the service |
| `OAuthWire` | `TokenCall` | `Promise`, `KeepsPromise` | documents, challenges, nonces and retries |

`Accounts` joins the two components that share the store: `Custody` implements it, and every step
`Handshake` takes on the store, or lets the operator and other threads take, is one of its steps. So
neither changes the store in a way the other has not been told of. That, the other way round,
`Handshake` lets every action of `Accounts` happen at any moment is read off its `OperatorStep` and
`Finish`; a run of two resumers and one caller has each of them but a companion's creation, which
happens before any wait of its own.

**`Custody`.** `companions`, `bound`, `account`, `enrollments` and `sessions` are the store's maps.
`flights` is `bind_flights`; a flight's `state` value is also the number of the OAuth grant it will
obtain. A *binder* is a connection thread in the bind route (`BeginBind`, `ParkFlight`, `TakeFlight`,
`CheckOwner`, `BindExisting`/`BindNew`, and the two ways to fail); a *worker* is a thread running
`connect_enroll` and `enroll_bound` (`ConnectEnroll`, `ForgetBroken`, `CheckEnroll`, `ReadSession`,
`RefreshAnswered`/`RefreshFails`, `StoreRenewed`, `ExchangeFails`/`StoreEnrollment`). Disconnect,
grants, forget and delete never leave the mutex and are single steps. `Restart` ends the process between
any two steps: parked sign-ins and threads are gone, the store is what was saved, every save being taken
to have succeeded (a failed save of a renewed session, `hub.rs:705-709`, followed by a restart is not
modelled). External: the authorization server, as `rotation` (the live refresh token of each grant) and
`lost` (its answer never came, or came to a process that ended before it stored it). Tokens are
counters, accounts and origins model values. **`Accounts`** sees of it the companions, those ever
`born`, the `usable` and `granted` ones and the `seats` (places with a session). **`Keyring`** sees
`spent`, the grants no parked or running sign-in can still obtain, and `keys`, what each companion holds
or a refresh is about to store again for it: a disconnect during a refresh does not take the key, which
is the disagreement of `Custody_disconnect_refresh` seen from here.

**`Handshake`.** `pendings` is `pending_connects`, each entry with a ticket so that two waits for
one place can be told apart. A thread that calls `connect` or resumes after a sign-in has a
step (`pc`), a place it works on (`at`), the companion it signed in (`bound`), whether it found the
account missing or expired (`missing`) and the waits it took (`queue`). `expired` is what the
sweeper took and has not announced; `open` is the places whose wait was recorded and not
closed. Of custody it keeps what `Accounts` keeps: whether a companion exists, is usable, is granted,
and whether a place has a session. A silent refresh on the way to an exchange stores the session
with the grants read before it (`StoreRenewed`), which may bring back one the operator took away
meanwhile (`hub.rs:434-446`); `Accounts` allows that, and a sign-in with any grants (`Bind`).
`AgesOut` is the clock passing `PENDING_CONNECT_TIMEOUT_MS`.

**`Inbox`.** `listings` is the server's own history of what it lists, one entry per revision
(external); a *reader* is a thread between its request, the answer, the store of the
digest (`Sync`) and the rendering that marks deliveries (`Finish`). An answer is a page of
the listing at one moment, so readers may store answers out of order. `handed`, `newest`
and `disturbed` are history variables. **`Mailbox`** has per enrollment the items that wait and those
that were delivered; past the limit any may go. That the delivered ones go first, as `store.rs:400` says, is
`DeliveredGoFirst`, which the run `Inbox_eviction` refutes.

**`DataDir`.** Processes with a phase from start to end; files are inodes behind names, so a
rename can move another writer's file. A save is `Create`, `Write`, `Rename`; a refused rename
takes the remove-then-rename fallback of `store.rs`. A save may fail at each of them, and its change
then stays in the process's memory for later saves to carry. `serve` has a second writer for the
copy its shutdown opens. `Crash` ends a process anywhere. `bare` and `uncleared` are history: the
fallback lost `state.json` for good; a save that would have cleared the page's address failed, or a
forced start was killed between removing the old lock file and creating its own. Request threads change and
save until their process is gone, also while it ends. `overran` is history too: a save of theirs was
under way when `serve`'s shutdown read the file for its own copy, or went on when the lock had been given
back. `main.rs:154-166` returns without waiting for them, and nothing is promised of the file from there on
(see [below](#disagreements-found)). **`Ledger`** has one
set of recorded updates: those of `state.json`, or between the two steps of a fallback those of the
copy about to replace it. An update a failed save left in memory may be recorded later, by a save
that acknowledges another one. Its `End` is the step that overruns.

**`McpEdge`.** `pipe` is standard input; a message is a head and a tail (a blank line only a tail) so
that a read can end inside one or reach into the next; `server` is the session's thread; `reported` is
`optional_tools`, `granted` whether any credential opens the forum ring. Writes carry the caller's key
(`OwnKey`) or one minted per attempt; the service applies a key once (external). Other threads change
grants and names at any moment (`ResumeArrives`, `GrantToggles`). A call may hang. **`Dialogue`**
numbers the messages: `unread` are those of which some text is on its way or collected, `turn` the one
worked on, `open` the requests without an answer.

**`Feed`.** `node` is one companion's node in the store, as a version; *writers* change or remove it
under the mutex and publish it after (`Change`, `ReadNode`, `PublishNode`, `Remove`), and answer the
page that asked. `ChangeUnannounced` and `RemoveUnannounced` are the changes no event tells of: a silent
refresh, which stores the session and does not publish, and an operation whose save fails, which leaves
its change in memory and answers the error before it would publish. `subscribers` and `channel` are the
bus; `stream` the connection threads of `stream_events`, counted in `slots`; `feed`, `copy` and `load`
are the page: its `EventSource`, the node it shows, the snapshot it waits for. `excused` and `untold`
are history: why a copy may be stale, and which pages the store's last change was kept from.

**`OAuthWire`** is the adapter on the wire. A call first reads the documents of its plan, then sends a
form or asks the PDS for a proof, with the nonce of its cache; a challenge is retried once.
`current` is the nonce each server asks for, which it may change at any moment (external); `applied`
counts what the server did. **`TokenCall`** is what a caller may rely on: a call ends once, is applied at
most once, and succeeds only when it was. `OAuthWire!Promise` is the refinement; it is the
assumption that `Custody` makes when it lets one sign-in answer obtain one grant.

`MC_*` modules declare the model values; `*_proofs` modules hold the theorems.

## Runs

Bounds are in the guards and named in the constants' comments. Passing runs, with the
order of their size and why the bounds reach what they are for:

| Run | States | Shows | Bounds |
|---|---|---|---|
| `Custody_handshake` | 620 thousand | `TypeOK`, `DeletedHoldsNothing`, `TokenCurrent`, `OneEnrollmentPerPlace`, `OneFlightPerCompanion`, `BoundMirrorsAccount`, `HandshakesKeepSessions`, `RefreshesEnd`, `StoreAsPromised`, `KeysComeOnce` | two workers compete for one companion's refresh and place; one rotation; a second sign-in; two enrollments, so one can be flushed, forgotten and replaced; a restart anywhere. Two connection threads, a second companion, a second account and a third sign-in over a flight limit of two: replacement, overflow, expiry and a callback against a newer start. The constraint `SignInsApart` keeps the second part from overlapping the first: a state with both is checked and not continued. `SecondAfterFirst` fixes which of two alike is called the first. No step they cut off has fairness, so `RefreshesEnd` loses nothing by them |
| `Handshake_waits` | 97 thousand | `TypeOK`, `FinishedNotResumed`, `NoWaitLost`, `WaitsAnswered`, `SharesStore`, `WaitsGoOnce` | one caller, two resumers, two places of a companion that can be deleted, two waits: enough for two takers of one wait and for a repeat |
| `Inbox_retention` | 6.2 million | `TypeOK`, `RecordsCoalesce`, `DeliveredOnce`, `ItemsGoOneWay` | three items over a record limit of two and pages of up to two; a caller and a checker; four revisions, three digests: overflow, overtaking and forgetting occur. The two directed items are interchangeable (symmetry) |
| `DataDir_exclusive` | 7.4 million | `TypeOK`, `LockExclusive`, `SnapshotWhole`, `UpdatesKept`, `PageUrlCleared`, `AcknowledgedOnDisk` | a forced manager, two `serve`, a one-shot, two interchangeable updates (symmetry), two crashes or failed writes, refused renames: a takeover that is itself killed, a start over a crashed one's lock. Requests go on while their process ends. A state in which one's save has overrun that end (`overran`) is checked and not continued (constraint `Promised`), since of what follows only the types and the lock are promised, and both are proved for it |
| `McpEdge_session` | 340 thousand | `TypeOK`, `ListCurrent`, `AppliedOnce`, `EveryRequestEnds`, `InTurn` | five messages (initialize, initialized, and three of list, call and retry), two contexts, one change by another thread |
| `Feed_copies` | 1.2 million | `TypeOK`, `SlotsBounded`, `CopyConverges`, `StreamsEnd`, `FramesDelivered` | two writers, one change and a removal, each announced or not; one page with two stream threads over one slot, so a reconnecting page meets its own old stream; two broken connections, one refresh by the operator |
| `OAuthWire_calls` | 1.3 million | `TypeOK`, `RetryRecovers`, `Promise`, `CallsEnd` | two calls of any kind that share both caches; three nonces per server: a challenge, a change before the retry and a change after it |

What the properties mean, beyond their comments in the modules:

- `TokenCurrent`: two refreshes from one token would have the second refused and a working sign-in
  reported as expired; the per-companion mutex and the re-read under it prevent it. Where the server
  rotated and the answer was lost the connector cannot know, and the property says so (`lost`).
- `HandshakesKeepSessions`: no step of a handshake, not even the removal of a broken record it read some
  steps earlier, ends a session another handshake has just stored.
- `RefreshesEnd`: the refresh mutex strands nobody, even when the exchange of another handshake of the
  companion hangs for good: the mutex is not held there.
- `WaitsAnswered`: every wait is closed on the feed whatever the operator does, short of deleting the
  companion, whose waits are skipped silently, and provided exchanges end: a resumer takes all the
  companion's waits and finishes them one after the other.
- `StoreAsPromised`, `SharesStore`: a credential goes with its grant and every session in one step, a
  session appears only at a place without one, and nothing comes back to a deleted companion but a
  session whose exchange was under way. The two disagreements of custody are not excluded:
  `StoreCredential` lets a refresh bind again.
- `KeysComeOnce`: a companion comes to hold an account by a sign-in of its own, and never again once
  neither it nor a refresh holds it. Two callbacks that both completed one sign-in would break it.
- `WaitsGoOnce`: a sign-in takes every fresh wait of its companion and none that aged out, the sweeper
  all of those, once it announced the last lot. `OnePendingPerPlace` and `TakenOnce` follow.
- `DeliveredOnce`: holds until a digest is stored out of the server's order or the records pass their
  limit; `disturbed` marks both. Within those lines no interleaving of caller, checker and forgetting
  delivers twice.
- `ItemsGoOneWay`: across that line too, an item goes from waiting to delivered and never back, each
  delivery is counted once; short of it an item goes only when a listing missed it or its enrollment is
  forgotten. `DeliveryKept` and `KeptWhileListed` follow.
- `UpdatesKept`: nothing that was recorded, acknowledged or not, is taken back until the fallback loses
  `state.json` (`bare`) or a request's save overruns the end of its process (`overran`).
  `DataDir_lost_update` refutes `SavedStays`, which has no such condition, within one process.
- `SnapshotWhole`, `AcknowledgedOnDisk`, `PageUrlCleared`: on the same condition. Without it each is
  false in the model, as TLC shows in fewer than twenty steps: a request's save and the shutdown's share
  `tmp-<pid>`, one truncates what the other renames over `state.json` and acknowledges, the second
  rename finds no temporary file and its fallback removes `state.json`; or the late save writes back the
  page's address.
- `InTurn`: messages are worked on whole and in order, a request is answered once, while it is the one
  worked on, and the next is taken only after that; a client that waits for each message to be read
  (`Paced`) loses none. It is proved for both values of `Paced`.
- `ListCurrent`: holds up to changes other threads make between calls (`outside`), which the code never
  announces.
- `CopyConverges`: nothing orders the publications of two operations, nor a snapshot against the events
  read meanwhile, and a page that reconnects fetches nothing; `excused` marks exactly these. A change
  nothing announces leaves a page stale until the next one or the next snapshot (`untold`). What is left
  is that no event a live stream was owed goes missing.
- `RetryRecovers`: whatever the other calls leave in the shared caches, a call ends on a challenge only
  if the server changed its nonce again, named none, or refused for another reason.

`CHECK_DEADLOCK FALSE` stands where the system may stop: all processes gone, the session
ended, every call made, the page left and its streams over, the bounded clock of digests used
up, or no ticket left and nothing waiting.

## Fairness

Safety runs use `Spec`. The runs with liveness use `FairSpec`. One fact shapes all of them: the
mint of a service proof sets a connect timeout and no read timeout (`auth/lib.rs:67-78`), so
an exchange, and a call that leads to one, may last for ever. No fairness is assumed of it.

- `Custody`: weak fairness of each worker's steps up to its exchange (the refresh's calls time
  out), and strong fairness of `ReadSession`, which waits for the refresh mutex: the holder
  releases it again and again and a blocked thread gets it. A standard mutex promises no
  order, but a holder here goes on to a network call and does not come back for it at once.
- `Handshake`: weak fairness of the started threads except in an exchange, of the sweeper (a loop on a
  timer) and of the clock. `WaitsAnswered` is conditional on exchanges that end.
- `McpEdge`: weak fairness of the session's thread except in a call; `EveryRequestEnds` is conditional
  on calls that end.
- `Feed`: weak fairness of each stream thread, which writes frames or, after `SSE_KEEPALIVE`, a comment, to
  a browser that reads. The writers, the page and the network owe nothing.
- `OAuthWire`: weak fairness of each call's own steps, among them the timeout of every read and form,
  which a mint does not have; `CallsEnd` leaves mints out. Nothing is assumed of the servers.

Nothing obliges the operator, a model's client, or a sign-in to do anything.

## Proofs

`tlapm` checks these for every value of the constants that meets the modules' named
assumptions (limits are natural numbers, sentinels differ from data, the sets whose members are
counted are finite, the forum service is in the catalog; and in `DataDir`, one-shot verbs run alone,
`OneShot \subseteq Solo`: they take no lock, and `README.md:156-157` expects them to be
"operator-driven, not concurrent", although `main.rs:135-137` has them read the page's address beside a
process that runs):

| Theorem | States | Argument |
|---|---|---|
| `Custody_proofs!TypeSafe` | `Spec => []TypeOK` | `TypeOK` alone is not inductive: a worker past its checks must carry an account, a binder past its exchange a grant. `TypeInv` adds `Learned`, which says so per program counter, and has one step per action |
| `OneFlight` | `OneFlightPerCompanion` | `ParkFlight` filters the companion's flight and the limit only drops; taking, ageing and a restart add none |
| `CredentialMirror` | `BoundMirrorsAccount` | inductive with the next one: every write of one map writes the other, and the store refuses a companion that is gone |
| `DeletedEmpty` | `DeletedHoldsNothing` | from the same invariant |
| `OnePerPlace` | `OneEnrollmentPerPlace` | strengthened by `IdsMinted`: records and sessions bear ids already issued, so a new enrollment's id is fresh, and a worker about to forget a record holds an issued id without a session |
| `StoreSeen` | `StoreAsPromised` | refinement, over `TypeInv`, `Mirrored`, `Enrolled` and `StoreInv` (enrollments differ in their ids, a worker at work has a companion that was born, a sign-in that creates one carries the forum's grant). The mapping derives usability from two maps, so that they agree (`Mirrored`) is what makes a disconnect one step |
| `SessionsKept` | `HandshakesKeepSessions` | from the same invariant: what a worker forgets has no session, since only a fresh id is given one |
| `Custody_grants_proofs!SignInOnce` | `FlightSingleUse` | strengthened by `StatesUnique` and `GrantsSpent`: state values are minted in order and each is in one place, and whatever is stored as an account, held by a refresh or ever rotated came from a sign-in that is over |
| `KeysOnce` | `KeysComeOnce` | refinement, over the same invariant: a grant about to be stored by a callback is nobody's key and not spent before, and what a refresh stores the companion held already through it |
| `TokensCurrent` | `TokenCurrent` | over the same invariant, `GrantsApart` (a grant is held by one companion, and one refresh at a time uses it) and `TokensLive`: only between the server's answer and its store does a companion hold a token the server has replaced. Needs `DeletedHoldsNothing`, for an answer that arrives after a deletion |
| `Handshake_proofs!TypeCorrect` | `TypeOK` | with `TicketsFit`, a ticket is left for each thread about to record a wait, and `QueuesOwned`, only a resumer's queue is ever filled |
| `OnePending`, `WaitsTakenOnce` | `OnePendingPerPlace`, `TakenOnce` | `Waits`: tickets are issued in order, and a ticket is in one hand, whether the list, the sweeper or one resumer |
| `FinishedOnce` | `FinishedNotResumed` | a thread's place does not change while it finishes, what it recorded earlier was dropped when it began to, and a wait keeps who recorded it |
| `NothingLost` | `NoWaitLost` | an open place is in a list or with a thread; each action moves it from one to the other or closes it |
| `StoreShared` | `SharesStore` | refinement: each step on the store is the one step of `Accounts` named for it, and a step on the waits is a stutter |
| `WaitsGoOneWay` | `WaitsGoOnce` | refinement, over `Waits` and `BoardInv` (`TicketsTold`: waits in one hand differ in their tickets; `DrainsForOne`: a resumer drains for the one companion that signed in). The mapping forgets all of a wait but ticket and place, so that two never look the same is what has to be known |
| `Inbox_proofs!TypeCorrect`, `ItemsCoalesce`, `DeliveriesKept` | `TypeOK`, `RecordsCoalesce`, `DeliveryKept` | each writer of `records` merges by item under the limit; the marks of what stays are carried over or set. The finite cardinalities come from the library's facts |
| `DeliveriesOnce`, `ListedKept` | `DeliveredOnce`, `KeptWhileListed` | `OnceInv`: a digest in hand says what the server listed at its revision (`JobsListed`), a record's item was listed no later than the newest revision stored (`RecordsListed`), so an item listed without a break and already delivered still has its record when it is reported again (`HandedOnce`) |
| `MailboxKept` | `ItemsGoOneWay` | refinement, over `OnceInv`: what a digest drops in good order was missing from a revision after one that listed it. The eviction is by number only, so the counts of waiting and delivered records come from the library's facts on finite sets |
| `DataDir_proofs!LockSafe` | `LockExclusive`, if `Forced \subseteq Solo` | `LockInv`: only forced processes remove a lock they do not hold, a process that starts alone is the only live one, and the holder is whom the file names. Without the condition the second half of a takeover removes a fresh lock |
| `DataDir_proofs!TypeCorrect` | `TypeOK`, without condition | with `HubsRead` (a process has its hub's state from opening it until its lock is given back) and `Tried` (a save's update was made). A fresh inode exists because `MaxFiles` exceeds what names and saves can refer to |
| `FileWhole`, `UpdatesStay`, `DiskBeforeAnswer` | `SnapshotWhole`, `~overran => SavedStays`, `AcknowledgedOnDisk`, if `Forced \subseteq Solo` | `DirInv`: the types, `LockInv`, and while nothing has overrun `FileInv`: one process works at a time and has one save at work, the hub's or the shutdown's (`BusyWhere`); names are never two of one inode (`NamesApart`), so a save writes its own temporary file, which holds its snapshot once written (`SavesAt`); the file, the working process's memory and its save each hold every acknowledged update (`Kept`). The steps that can end it are the ones that set `overran`: where none does, a request's save is over before the shutdown reads the file and before the lock is given back |
| `LedgerKept` | `UpdatesKept`, on the same condition | refinement, over `DirInv` and `LedgerInv`: the memory of the process that works, and what it is saving, hold everything recorded, acknowledged or not; an update that a failed save left in a memory enters the ledger with the rename that carries it. A step with `overran` true is the ledger's `End`, of which only the types are known |
| `AddressCleared` | `PageUrlCleared`, on the same condition | `PageInv`: without a lock file no copy at work names a page, a process about to release has a clean file or a save at work that clears it, and no request's save meanwhile brings the address back; one that starts over a crashed process's address finds its port free |
| `McpEdge_proofs!CatalogCurrent` | `ListCurrent` | between two waits for input the client's catalog is followed through the call: it was current when the call began, and the comparison starts from the names of that moment |
| `WritesOnce` | `AppliedOnce` | a write applied once has left its key with the service |
| `McpEdge_proofs!TypeCorrect` | `TypeOK` | with `Busy`: a thread that handles, lists or calls does so for a message it was given |
| `AnsweredInTurn` | `InTurn` | refinement, over `TypeInv` and `OrderInv`: the text collected and the text to come are one stream whose parts rise (`Rising`: by message, head before tail) and come after the message worked on; what was collected holds no newline (`OnlyHeads`); a request waits for an answer exactly until it was given (`Follows`, `AtWork`); a paced client has at most one whole frame in the stream (`OneAtATime`). A frame that parses is the text up to the first newline, hence a whole message, and all that follows it is later. The lemmas on frames and streams rest on the library's facts on sequences |
| `Feed_proofs!SlotsCorrect` | `SlotsBounded` | the counter is the number of threads that count themselves; a thread is served only if the count it met was below the limit |
| `Feed_proofs!TypeCorrect` | `TypeOK` | with the slot invariant, from which the counter is never negative |
| `CopiesConverge` | `CopyConverges` | `OnItsWay`: the store's node is shown by a page that is not excused, or is in its stream's channel, held by an operation or about to be read by one, or in its snapshot, or the page was not told of it (`untold`). Needs `NothingNewer` (nothing under way is newer than the store, so what replaces the current node is either it or excused) and `Attached` (a live page has a stream, and a stream that receives is on the bus) |
| `OAuthWire_proofs!TypeCorrect` | `TypeOK` | no nonce leaves the context of its server |
| `RetryCorrect` | `RetryRecovers` | a retry carries the nonce its own challenge named, not the cache's |
| `KeepsPromise` | `Promise` | refinement of `TokenCall`: every step of the wire is one of its steps or a stutter, given that a form on its second try was refused unread the first time |

`SignInOnce`, `OnePending`, `WaitsTakenOnce`, `DeliveriesKept` and `ListedKept` state properties no run
checks by themselves, because a refinement the runs check would fail with them; `UpdatesStay` states
the one that `DataDir_lost_update` refutes, on the condition `~overran`. They say directly what the
refinements say through a mapping. A refinement's
theorem has one lemma per action or group of actions, each naming the abstract action it takes or
the stutter, so a change of the code's model shows where the promise breaks.

Only model-checked: liveness (`RefreshesEnd`, `WaitsAnswered`, `EveryRequestEnds`, `StreamsEnd`,
`FramesDelivered`, `CallsEnd`), which is outside what the prover's backends can do, as is `ENABLED`.
Every other property a passing run checks has a theorem above. No module uses a recursive operator.

## Disagreements found

Five runs exhibit a behaviour of the code that a comment or a doc rules out:

- `Custody_callbacks` (`hub.rs:573`): two overlapping callbacks of one account each find no owner and
  both bind; the README promises one companion per account.
- `Custody_disconnect_refresh` (`hub.rs:705`): a refresh that was under way when the operator
  disconnected stores its session and binds the companion again.
- `Handshake_lost_wakeup` (`hub.rs:1299`): a sign-in between the check and the recording of the wait
  resumes nothing.
- `DataDir_lost_update` (`main.rs:160`): the shutdown's second copy overwrites a save of the same
  process.
- `Inbox_eviction` (`store.rs:402`): at the limit an item that waits is evicted while a delivered one
  stays, against "evict the oldest delivered records first".

Others are plain in the code, or are the exceptions the properties above name; most have a note in the
list of hazards:

- custody: the flushed enrollment is removed before the exchange that is to replace it; an exchange in
  flight over a disconnect or a deletion stores its session; an enrollment may name one account and hold
  the session of another after a re-bind (`hub.rs:1000`, `:926`); one-shot verbs save without the lock
  (`main.rs:195`);
- handshake: a repeated connect narrates again; a wait is narrated after it was recorded, so its end may
  be told first (`hub.rs:1300`); a deleted companion's wait ends in silence;
- data directory: "Atomic snapshot write: unique temp file" (`store.rs:96`), but the file is unique to
  the process (`tmp-<pid>`, `store.rs:513`), and at `serve`'s shutdown two saves of one process use it:
  a torn `state.json` can be renamed into place and acknowledged, or the file removed by the second
  rename's fallback; a request's save that lands after the shutdown's writes the page's address back,
  against "the recorded URL is cleared on clean shutdown"; one that lands after the lock was given back
  may overwrite what the next process saved (`overran`);
- inbox: a resumed connect marks the items of an answer nobody reads;
- session: a bare newline ends it (`mcp.rs:78`), which the model's blank message does too; what a read
  returns beyond the first newline is dropped (`mcp.rs:299`), so two requests in one write lose the
  second, which the model shows with `Paced = FALSE`; the names of a context that ended stay in
  `optional_tools` (`hub.rs:320`);
- feed: a silent refresh changes a companion's node (`hub.rs:705`) and an operation whose save fails has
  changed it in memory (`hub.rs:425`, `:461`, `:771`, `:1593`, `:1618`), and neither publishes it,
  against "the node-change event every open manager copy converges on" (`hub.rs:836`); the README speaks
  of at most four clients, `SSE_CLIENT_LIMIT` is 64; `bus.rs` says a slow subscriber is dropped, the
  channels are unbounded and it is not; a page fetches nothing after a reconnect, and one that was given
  the 503 never reconnects;
- sign-in: the mint has no read timeout, against "it terminates, always" (`README.md:305`); a 401 for an
  expired token that carries a nonce is reported as a server that kept challenging (`hub.rs:2636`);
  `resource_nonces` is keyed by the request's address, not its origin as its doc says;
- checkers: they are started only for the enrollments found at startup, and the announced back-off is
  shorter than the one slept (`poller.rs:48`).

## Not modelled

HTTP parsing and the manager's HTML, JSON and rendering, reference and origin syntax: stateless data.
PKCE, the bytes of a DPoP proof, and the app-password mint, which takes no nonce, are answers `OAuthWire`
and `Custody` choose from. The journal's rotation and the checker's back-off are counters of one thread.
Server cards are read for display only; handle edits change a name nothing here depends on. The tray, the
browser and the Bluesky stub have no state. `McpEdge` has no error on standard output.
`Feed` follows one companion's node and leaves out the events that only narrate. Time is abstract: an age
is a flag a clock action raises.

## Plan

Done, in this order: `Custody` (who holds which credential comes first), `Handshake`, `Inbox`,
`DataDir`, `McpEdge`; failed saves and restarts; `Feed`; `OAuthWire` with its abstract `TokenCall`; the
invariants above; the abstract specifications with their refinements: `Accounts` (which took the
place of a composition of `Handshake` with `Custody`), `Keyring`, `WaitBoard`, `Ledger`, `Mailbox`, `Dialogue`.

Next: an abstract specification of `Feed`, the one component without one: a page that sees the
companion's versions in the order they were stored, as far as `excused` allows, with the invariant of
`CopiesConverge`.

## Running

    tlc -config Custody_handshake.cfg MC_Custody.tla
    tlapm Custody_proofs.tla

Each run's module and configuration are listed in `PROJECT.json`, with a mutation of the model per
property that the run must refute.
