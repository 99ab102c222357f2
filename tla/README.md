# TLA+ verification of matrix-bot-sdk

This directory models the parts of matrix-bot-sdk whose correctness depends on
the order of asynchronous steps: the sync loop, the appservice's transaction
endpoint, the rooms a client believes it is in, direct chats, encryption; and the smaller
parts around them: intents, storage, identity, logins, power levels, spaces,
replies, mixins, metrics. TLC
checks the models on small instances; TLAPS proves their safety properties for
every value of the constants.

All paths below are relative to the repository's `src/` directory of code
(`MatrixClient.ts` is `src/MatrixClient.ts` there).

## 1. Inventory

JavaScript runs one continuation at a time, so there are no data races: the
unit of atomicity is the code from one `await` to the next. Everything hard in
this code base comes from what may happen *while* something is awaited: another
call of the same method, `stop()`, a retry by the homeserver, an exception, the
end of the process.

| Component | State | Operations | Interacts with | Hard behaviour | Correct when |
|---|---|---|---|---|---|
| Sync loop (`MatrixClient.start/stop/startSync/doSync`) | `stopSyncing`, `filterId`, local `token`; token and filter in the storage | start, stop, sync, persist, retry | storage, homeserver, `processSync` | crash between persisting and processing, overlapping loops, three-write filter change | no event lost (or none repeated), stop stops, token belongs to the filter |
| Sync processing (`processSync`, `processEvent`) | `lastJoinedRoomIds` | dispatch of left, invited and joined rooms | listeners, crypto, preprocessors | membership read before an await, out-of-order events, listener failures | join and leave emissions alternate and agree with the membership |
| Appservice transactions (`Appservice.onTransaction`) | `pendingTransactions`, completed transactions in the storage | handle a transaction | homeserver (retries), crypto, listeners | concurrent retries, failures inside the promise executor, crash | processed once per process, acknowledged only when processed, no hang |
| Appservice membership and intents (`Intent`, `processMembershipEvent`, `getIntentForUserId`) | `knownJoinedRooms`, registration in the storage, `cryptoSetupPromise`, LRU of intents | ensureRegistered, ensureJoined, joinRoom, leaveRoom, enableEncryption | homeserver, storage | refreshes that return out of order, memoised failure, evicted intents | a user acts only when registered and joined; set-up happens once and can be retried |
| Direct chats (`DMs`) | `cached`; `m.direct` on the server | update, getOrCreateDm, persistCache, handleInvite | sync loop, account data | lost update, concurrent creation, wiped cache, calls before the first read | one room per user, no mapping is lost |
| Room encryption (`CryptoClient`, `RoomTracker`, `sendEvent`) | room configs in the crypto store | prepare, queueRoomCheck, isRoomEncrypted, encrypt, decrypt | homeserver, `RustEngine` | failed state fetch, check before use | nothing is sent in clear to a room known to be encrypted |
| Outgoing crypto requests (`RustEngine`) | the OlmMachine's outgoing queue, locks | run, prepareEncrypt, addTrackedUsers | homeserver | the same request taken by two runs, lock order | every request is answered once; the room key is shared before it is used |
| Storage providers | tokens, filters, registered users, completed transactions, key-value | get and set | everything | rotation, namespacing, asynchronous writes | a namespaced store reads what it wrote and nothing else |
| Identity of the client (`getUserId`, `impersonateUserId`, `getWhoAmI`) | `userId`, impersonation | read, impersonate | homeserver | an answer that arrives after the identity changed | requests are made as one user |
| Power levels and room upgrades (`userHasPowerLevelFor...`, `getRoomUpgradeHistory`) | room state on the server | reads and a read-modify-write | homeserver | check then act; cycles of predecessors | the bound computed is one the server accepts |
| Profile cache (`ProfileCache`) | LRU of profiles | get, update from events | homeserver, sync | an old fetch overwrites a newer event | the cache is not older than the last event seen |
| Bridge mapping (`MatrixBridge`) | account data of bot and of the user | create and read both directions | account data | two writes, one fails | both directions agree |
| Key queries (`onKeysQuery`, `onKeysClaim`) | `responded` | answer the homeserver through a callback | listeners | late or double callback | answered exactly once |
| Metrics (`Metrics`, decorators) | registered metric listeners | start, end, increment | every timed call | instance replaced during a call | starts and ends pair up |
| Join strategies | none | retry with back-off, invite by the bot | client | retry of what already happened | gives up after the schedule; what the caller is told is true |
| Mixins | none | accept invites, follow upgraded rooms | client, appservice | joins nobody waits for | who follows is who the mixin chose |
| Event dispatch (`processSync`, `onTransaction`, `SynchronousMatrixClient`) | none | preprocess, decrypt, emit | preprocessors, crypto, listeners | an exception between two emissions | each event told once, in its final form |
| Sent events and members | `requestId` | send, redact, state, to-device; list members | homeserver | repeated requests, parallel reads | one event per call; no membership that never was |
| Logins (`MatrixAuth`, `PantalaimonClient`) | stored token | register, log in | homeserver, storage | lost answers, crash before the write | the token kept is one that was issued |
| Spaces | child events | create, add, remove, list | homeserver | two requests, one fails | a space made is a child |
| Replies (`RichReply`, `RichRepliesPreprocessor`) | none | make, take apart | events | replies to replies | what is written is read back |
| Identity server client | terms | lookup, accept terms, e-mail invite | identity server | pepper, terms and rooms change between requests | what is told was true during the call |
| `http`, decorators | timers | one request | metrics | errors in a 200, overlapping calls | a call resolves only for a good answer |
| Admin and unstable APIs, media, directory | none | one request per method | homeserver | - | - |
| Event models, permalinks, HTML, logging | none or trivial | pure conversions | - | boundaries of parsing | - |

## 2. Plan

The modules and what composes them:

1. `EventStream`: what both transports promise - a stream of events, delivered
   and acknowledged. `SyncLoop` and `Transactions` each implement it.
2. `SyncLoop` (`MCSyncLoop`), `SyncLoopProofs`: the sync loop.
3. `Transactions`, `TransactionsProofs`: the appservice endpoint.
4. `SyncRooms`, `SyncRoomsProofs`: `processSync` and `lastJoinedRoomIds`,
   composed with the server's membership history.
5. `DirectRooms` (`MCDirectRooms`), `DirectRoomsProofs`: `DMs` against account data written by others.
6. `RoomCrypto` (`MCRoomCrypto`), `RoomCryptoProofs`: `RoomTracker`, the crypto
   store, `sendEvent`'s check-then-send.
7. `AppserviceParts`: `Intents`, `JoinStrategies`, `IntentCrypto`, `Queries`,
   `BridgeMap`, `Autojoin`, `Machines`; `AppserviceProofs`. `MCAppservice` runs
   them and `Transactions`.
8. `ClientParts`: `Storages` (with `KeyValues`), `Profiles`, `OutgoingRequests`
   (`OutgoingRequestsProofs`),
   `PowerLevels`, `ClientIdentity`, `Logins`, `Sends`, `Members`,
   `RoomUpgrades`, `Spaces`, `Replies`, `Timeline`, `IdentityServer`,
   `Requests`; `ClientProofs`. `MCClient` runs them and `SyncRooms`.

Bounds are the smallest that let every hazard listed for a part happen: two or
three concurrent calls, two or three events. The parts of 7 and 8 share no
state with each other.

Every safety property the passing runs check is proved for all values of the
constants (section 5). Worth doing next: `RustEngine` and the rooms it encrypts
for as one composition, and the appservice's transactions with what the Intents
hear of them. Liveness stays with TLC.

## 3. What is modelled

### EventStream

The abstract specification. `delivered` is the set of events the bot was
given, `acked` the prefix of the stream the client has told the other side it
is done with. With `AckFirst` a prefix is acknowledged before it is delivered
(at most once), otherwise after (at least once). `Reset` starts over.

### SyncLoop

State and code: `stopSyncing`, `filterId` are the fields of `MatrixClient`;
`stored`, `storedFilter` what the `IStorageProvider` holds; `pc`, `want`,
`token`, `asked`, `cur` the local state of one call of `start()` and of the
loop it leaves running. A slot is one such call, so two slots are a client on
which `start()` was called again before the previous loop ended. The labels of
`pc` are the `await` points. `Start` ... `ReadToken` are the stretches of
`start()`, `Respond`, `Save`, `Dispatch`, `Processed`, `LoopFails`, `Retry`
those of `startSync`. `Crash` ends the process; a new client starts on the same
storage. `emitted` and `since` are history variables.

A sync token is a position of the stream and the filter it was obtained under.
One `Dispatch` stands for the dispatch of one event in `processSync`; a
`handler` fault is anything that makes `processSync` throw.

| Run | Question | Bounds |
|---|---|---|
| `SyncLoop_modes`, default mode | `TypeOK`, `NotTwice`, `TokenMatchesFilter`, `StreamRefined`: one loop, all faults, two filters | 2 events: one acknowledged, one in flight; two filters make a change and a change back |
| `SyncLoop_modes`, `persistTokenAfterSync` | `AckedIsDelivered`, and `StopEnds`, `EventuallyDelivered` under `Fairness`: two overlapping calls of `start()`, both of which may create the filter | 2 events, so that the two loops hold different tokens |
| `SyncLoop_skip` | finding: a failed batch is lost with `persistTokenAfterSync` | 2 events: the lost one and the one whose token is persisted |

`MCSyncLoop` has both modes in one run: it extends `SyncLoop` for the default
one and instantiates it as `After` for the other, with constants and variables
of its own, so the run calls the properties of the second `AckedIsDeliveredAfter`,
`StopEndsAfter` and `EventuallyDeliveredAfter`. The mode is chosen at the start,
and what belongs to the other one stays as it started.

The filters of the default mode are two real ones. A `start(null)` in between
keeps a token that belongs to no filter, in the storage and on the client (a
later `start(filter)` that matches the stored filter goes on from it): the
model has that behaviour, and the filter property is about callers that always
pass a filter.

At-most-once and the filter property are checked with one slot: with two, an
old loop persists its older token over a newer one, and the code has nothing
against it. That is the price of calling `start()` before the old loop is done.

Fairness: `WF` on the continuation of each slot, because every promise awaited
settles (requests carry a timeout, the back-off is a timer), and `SF` on a
complete response, because a homeserver that fails now and then still answers
in the end. No fairness on calls of `start`, `stop`, on crashes or new events.

### SyncLoopProofs

`TypeCorrect`; `AtLeastOnce` and `RefinesAtLeastOnce` from the inductive
invariant `Covered` (the token each loop holds, not only the stored one, covers
only dispatched events: without it a save would not preserve the claim);
`AtMostOnce` and `RefinesAtMostOnce` from `Ahead` (everything dispatched is
below what the loop holds, and the storage never runs ahead of the loop);
`FiltersMatch` from `Fits` (the token, the stored filter and `filterId` change
in three writes, and the invariant says at each `await` between them which of
the three may already be new). They assume `SyncAssumption` and the mode:
`AtLeastOnceMode` excludes a `processSync` that throws - the run
`SyncLoop_skip` shows that it must - `AtMostOnceMode` has one slot, and
`FilterMode` one slot and callers that pass a filter, as in the run.

### Transactions

`hsTxn`, `awaiting` are the homeserver: the next transaction, and the request
whose answer it waits for. `completed` is the storage's record (with the
rotation of the in-memory list), `pending` the promises of
`pendingTransactions`, `pc`, `txn`, `found`, `cur` a handler's local state.
The read of the record (`CheckCompleted`) and its use are separate steps, as
they are with an asynchronous storage. A part that throws leaves the promise
unsettled, because its executor is an async function whose rejection nobody
sees; `DiesOnUnhandled` says whether Node then ends the process (its default)
or an application handler keeps it alive.

| Run | Question | Bounds |
|---|---|---|
| `Appservice_parts`, while `receives` | safety with three requests in flight, every fault, a process that survives | 2 transactions of 2 parts; owner, a joined retry and the next transaction; a record of one entry rotates at once |
| `Transactions_live` | nothing in a record on disk is processed again; every handler answers; the homeserver gets all acknowledged | 3 transactions, 2 requests: one joins the other; `TransientSpec` |

`TransientSpec` adds `SF` on each kind of step of a handler: what is tried
again and again finally works, although failures restart the process and lost
connections drop answers in between. Deadlock
is not checked: the homeserver may have nothing left to send, and a transaction
that hangs in a surviving process stops everything (`HungIsNotAcked`).

### TransactionsProofs

The inductive invariant is `IInv`, which adds to `TypeOK`: `RequestInv` (a
handler works on a transaction the homeserver has sent, the awaited one on the
current), `DoneInv` (what counts as done - a resolved promise, a record, a
handler that found one - was processed to the end), `OwnerInv` (a running
promise belongs to at most one handler, and exists for every transaction that
was started) and `RecordInv` about `KnownTxns`, the transactions this process,
or the next one with a record on disk, knows to be done: a handler that checks
an older transaction will find it there. Without `OwnerInv` a retry could start
a second processing; without `RecordInv` the answer of an asynchronous record
could be stale when it is used. From it follow one-at-a-time, once-per-process,
no acknowledgement of a hung transaction, no replay of a recorded one, and the
refinement of `EventStream`, from `TxnAssumption` alone. That handlers end and
that the homeserver gets everything acknowledged is liveness and stays with
TLC.

### SyncRooms

The log of a room is what the homeserver has for the user; `Respond` answers a
request with what `processSync` would use of the real response: the left rooms
it finds an event for, the invited rooms, and how many own join events the
timelines of joined rooms carry. `Gaps` names what a homeserver may leave out
of that. `TellLeave`, `TellInvite`, `TimelineJoin` are the emissions, in the
order of the code; `Told` is the point where the listeners are done and
`lastJoinedRoomIds` follows. `BatchFails` is a rejection, by a listener of a
membership event or by anything else in `processSync`. `view`,
`lastNews`, `flaws`, `spotless` are history.

The properties say what a bot may conclude: after a clean `start()`, from
`getJoinedRooms()`, `room.join` and `room.leave` it knows exactly the rooms it
is in once the client caught up (`ViewIsTrue`); no invite or departure stays
unheard across crashes with `persistTokenAfterSync` (`NewsHeard`); `room.join`
is news, gaps or not (`JoinIsNews`). The exceptions in them are real: after a
`room.join` listener threw, the room is not in the list and the next own join
event, such as a new display name, is announced as a join again; after a
response with a gap a departure is never announced.

| Run | Question | Bounds |
|---|---|---|
| `Client_parts`, while `syncs` | all of the above, every gap and fault, `persistTokenAfterSync` | 1 room of 5 events: join, leave, invite, join and one more, in any split over responses. Rooms do not interact except through the order of dispatch; two rooms of 2 events were explored too |

### SyncRoomsProofs

`JoinsAreNews` rests on `ListFollowsView`: `lastJoinedRoomIds` is the bot's
view, or becomes it when the listeners of the event being announced are done,
until a membership listener throws. `ViewHolds` and `NewsHolds` rest on
`Follows`, which says for each room what the bot still has to hear: tokens are
not ahead of the log (`TokensAreOld`); what is left of a response is true of the
room, or the room has changed since and the next response says so
(`PendingIsTrue`); where the bot's view is wrong, this response or the next one
holds the event that puts it right (`ViewCatchesUp`), and the same of what it
has not heard (`HeardCatchesUp`), also from the persisted token on
(`HeardSurvives`). The last one is what crashes need: that token must not cover
news nobody heard. Between responses nothing is pending (`Drained`).
Assumption: `RoomsAssumption`, the types of the constants.

### DirectRooms

`cached` and `ready` are the fields of `DMs`; `account`, `members` the
homeserver. A GET is sent (`SendGet`), read by the homeserver (`AnswerGet`) and
returned (`Load`, `LoadFails`), three steps, so that reads overlap. `CallGet`
... `Saved` are `getOrCreateDm` with `fixDms`, `Invite` is `handleInvite`,
`ExternalWrite` another client of the same user. The order in which two reads
return is a constant, `InOrder`: HTTP does not promise any.

A new client has read nothing: `ready` is undefined until somebody calls
`update()`, or `start()` does, which waits for the read before it syncs
(`CallUpdate`, `Update`, `BeginSync`). Calls of `getOrCreateDm` may come before
that, and on a client that is never started, such as the one behind an Intent,
they all do; what they await is then `undefined`, and they go on at once with
the empty cache. `loaded` is a history variable: a read has come back.

`Reflected`: once `m.direct` was read, with nothing in flight and no failure,
cache and account data agree. `CreatesWhenNeeded`: a call of `getOrCreateDm`
made after `update()` creates a room only for a user it has no usable room for
in the map, or while something else is under way. `GetsTheDm` is the same of
any call, as `DMs.ts:107` promises it, and does not hold.

| Run | Question | Bounds |
|---|---|---|
| `DirectRooms_map` | both, reads in order, every failure | 2 users, 2 rooms, 2 calls, 2 reads, with symmetry: two calls about one user, a reload that overlaps a write |
| `DirectRooms_stale` | finding: reads that overtake each other leave the cache stale | the same, reads in any order |
| `DirectRooms_unready` | finding: a call before the first `update()` creates a second room | the same, reads in order, nothing fails but `createFn` |

### DirectRoomsProofs

`TypeCorrect` holds for reads in any order. `ReflectedHolds` and `CreatesHold`
assume `InOrder`, since the run `DirectRooms_stale` shows that they fail
without. `CreatesHold` is about calls that did not find `ready` undefined; the
run `DirectRooms_unready` shows the others. Their invariant: reads in flight are
distinct, and only they have answers (`ReadsInv`); only a call that has not gone
on waits for a read, and until the first one came back a call that awaited a
read cannot have gone on (`AwaitInv`), so what it looks at was loaded; a map is on its way to the homeserver only in a
call that waits for it (`PutInv`); with no change left to report, the reads
from the last one an event caused are answered with what the account data is
(`AnswersInv`), because every change makes an event, and the event's read is
sent after it; and once something was loaded, with none of these reads, changes
and writes on its way, the cache is the account data (`CacheInv`). `AnswersInv` is where the order is
used: an older read that returned after that last one would undo it.

### RoomCrypto

One room. `store` is its config in the crypto store, of which the algorithm is
there whenever the config is, so the model keeps the `historyVisibility`. A
slot of `Calls` is one call of `queueRoomCheck` (by `prepare`, an event or
`onRoomJoin`) or of `sendEvent`; `pc` is the `await` it stands at and `goal`
the reason: `sendEvent` asks for the config to decide (`"send"`), again inside
`encryptRoomEvent` (`"encrypt"`) and a third time for `prepareEncrypt`
(`"share"`). A read of the homeserver takes effect when it is served; what
follows up to the next `await` changes nothing another call sees, so both are
one step. The checks of events are not awaited by the sync loop: `See` only
starts one. `marks` remembers what was true when `sendEvent` was called.

| Run | Question | Bounds |
|---|---|---|
| `RoomCrypto_checks` | no message in clear without a reason, encryption noticed, only encrypted rooms stored | 3 calls: a send, a check that stores and a check that fails; 2 state events and a join |
| `RoomCrypto_clear` | finding: a failed read sends in clear | one failing read |

`EncryptionIsNoticed` needs `prepare()`: a crash loses checks whose events the
sync token already covers, and only the checks of the next `start()` find out.

### RoomCryptoProofs

All properties of `RoomCrypto_checks`, and that a send to a room found
encrypted is not refused, for any number of calls, from one
invariant: `PlaceInv` (where a call stands says what it is for; one `prepare`
at a time), `StoreInv` (a check past its first read belongs to an encrypted
room: needed because it stores later), `CallInv` (what a send found stays true
until it acts; a send that re-reads an empty store failed to read the
encryption event), `NoticeInv` (as long as the store does not know, an event or
a check is on its way). Assumption: `CryptoAssumption`, which only tells the
model values apart.

### The small parts, and the two modules that run them

The other modules model parts that share no state with each other. Two
modules put them side by side: `AppserviceParts` those of an appservice,
`ClientParts` those of a client. `part` is chosen at the start and only the
chosen part moves, so a behaviour is one of one part, and a run explores each
part whole. A property of the run says for each part what that part's module
says; a module states it once, as its last definition.

`MCAppservice` (run `Appservice_parts`) and `MCClient` (run `Client_parts`) run
them, and with them, in the same way, the module that the parts stand beside:
either `Transactions` moves (`receives`), and all the parts stay as they
started, or a part does and no transaction is sent; either `SyncRooms` moves
(`syncs`) or a part. Deadlock is not checked in either: every part has bounded
inputs and ends.

Two more runs of `MCClient` check what the documentation says of one part each
and the code does not do: `Client_members` and `Client_history` (section 4). The
properties of `Client_parts` about these parts say what holds instead.

Two sets of interchangeable values, `Objects` and `Calls`, stand for whatever a
part needs two of. Two is enough for what the properties are about: a pair of
calls that overlap, an old object beside a new one, an older answer after a
newer one, one user's data beside another's.

#### Parts of an appservice

| Module | Models | State and code | Property | Bounds |
|---|---|---|---|---|
| `Intents` | `Intent.ts` without encryption, `getIntentForUserId`, `processMembershipEvent` | `intent` is the entry of the LRU, `used` the objects callers still hold, `knownJoinedRooms` per object; `recorded` is `isUserRegistered`; a call stops at each `await` of `ensureRegistered`, `ensureJoined`, `refreshJoinedRooms` and the request itself | `KnownIsTrue`: settled, the list of the LRU's Intent is the user's rooms, unless its last read failed or an older answer overwrote it. `SendsFromInside`: `sendEvent` sends registered, and from inside unless the list was wrong at the call | 2 rooms, one public; 2 objects; 2 calls and the handler; 1 change by others; registration that is done but not answered, failing reads and joins, eviction, crash |
| `JoinStrategies` | `joinRoom` with no strategy, `SimpleRetryJoinStrategy`, `AppserviceJoinRoomStrategy` around either | `step`, `attempt` are the place in the two strategies | `JoinIsTold`: resolved means inside; rejected means outside unless an answer was lost, and only after the whole schedule | the real schedule of 5 delays, all settings |
| `IntentCrypto` | `enableEncryption`, `CryptoClient.prepare` | `setup` is `cryptoSetupPromise`; `storedDevice` the crypto store on disk, `loaded` the copy of the client; `acting` the device the requests carry, `machine` the device of the keys | `DeviceAgrees`: a ready Intent has the keys of the device it acts as, after any failures and half-finished set-ups, except for three named upsets | 2 objects, 2 devices, each fault |
| `Queries` | the endpoints other than transactions, and their callbacks | `responded`, `response`; `answers` the calls of the callback, at once or later, with a value or a promise | `AnsweredOnce`: one response, the right one, nothing unhandled; only the hs_token is let in | 2 answers; all requests |
| `BridgeMap` | `MatrixBridge.ts` | `info` and `mapping` are the two account data events | `MappedBack`: settled, both directions agree unless the last call for the pair stopped between its writes | 2 IDs, 2 remote IDs, 2 calls |
| `Autojoin` | both mixins | `asked` are the joins nobody waits for, `place` the listener of `room.archived` | `Followed`: the users in the upgraded room are the ones the mixins decided on, less failed joins and removals | the bot, 2 users, a stranger; 1 removal; any members |
| `Machines` | the crypto part of `onTransaction` | `byUserId` what was gathered, `heard` what each machine was handed | `MachinesHear`: each machine a transaction names hears all of it at once, in order, with the device lists; again only after a failure | 2 users, 2 to-device messages, 1 failure |

`KnownIsTrue` and `DeviceAgrees` name their exceptions because the code has
them: `refreshJoinedRooms` assigns whatever answer comes last, and two Intents
of one user set up at once each take a device. In `Machines` the homeserver
sends a transaction again after the process ended, which is how a machine hears
it twice.

#### Parts of a client

| Module | Models | State and code | Property | Bounds |
|---|---|---|---|---|
| `Storages` | the four storage providers, for bot and users | `row` by the name the provider gives a value, `file` the lowdb file, `tables` Postgres' `waitPromise` | `StoreRefined`: each implements `KeyValues` | 1 key, 2 users and the bot, 3 writes; failing writes and tables |
| `KeyValues` | (abstract) cells, what a read returns now and after a restart | | | |
| `Profiles` | `ProfileCache.ts` | `cache` by user and room; `fetch` the reads under way | `CacheIsCurrent`: settled, a cached profile is the current one unless overtaken or failed | 2 changes, 2 reads, eviction |
| `OutgoingRequests` | `RustEngine.ts` and the calls `CryptoClient` makes of it | `syncLock`, `roomLock` are the `AsyncLock` keys; a task is one `run`, `prepareEncrypt` with its encryption, or `addTrackedUsers`; the OlmMachine (`tracked`, `known`, `session`, `outgoing`, `toShare`) is external | `KeyBeforeMessage`: when a message is encrypted every member read for it has the room key or had no one-time key, unless a call with other members gave out a new key in between. `SentForSure`: the machine's own message arrives twice only if a run outside the lock sent it or an answer was lost; none is dropped | 2 users, 2 tasks, 2 messages |
| `PowerLevels` | the power-level functions of `MatrixClient` and `PowerLevelsEvent` | `levels` the content, any field of which may be missing; `call` the read-modify-write | `BoundsHold` against the homeserver's rules, `NothingUndone`, `GettersAgree` | levels 0, 50, 100; 2 users; 1 change by others |
| `ClientIdentity` | `impersonateUserId`, `getUserId`, `getWhoAmI`, `getServerVersions` | the fields of the same names | `MemoryHolds`: the cached user is the acting one unless a `whoami` of an earlier identity was answered since; the device is the one given with the user; versions told are at most the cache's time and one request old | 2 impersonations, clock to 2 |
| `Logins` | `MatrixAuth.ts`, `PantalaimonClient.ts` | `flows`, `account`, `issued` the homeserver; `stored` the token kept | `LoginsHold`: with Pantalaimon every login after the first is owed to a fault or an overlap; the token kept is one that was issued, and the client's, unless calls overlapped; a registered client has an account | 3 calls, 1 fault |
| `Sends` | `sendRawEvent`, `redactEvent`, `sendToDevices`, `sendStateEvent` | `requestId` the counter; `answered` what the homeserver remembers of transaction IDs | `SentOnce`: one event per call, and each call its own | 2 clients, 2 calls, 1 repeated request, 2 instants |
| `Members` | `getRoomMembers` and its callers | `queries`, `answers` the parallel requests | `MembersAreTrue`: nobody twice, nobody with a membership not had during the call, nobody missing who did not change; exact at a batch token. What the documentation says of `notMembership` is `NotSearchedFor`, in the run `Client_members` | 2 users, 1 change between answers |
| `RoomUpgrades` | `getRoomUpgradeHistory` | `previous`, `newer` the two lists; rooms refer to each other in any way | `HistoryIsAWalk`: each list follows the references, nearest first, without a repetition, and so ends; events come only with references that agree. In a cycle the given room is in its own history: `GivenRoomInNeither` in the run `Client_history` | all references of 3 rooms, 1 upgrade during the call |
| `Spaces` | `Space`, `createChildSpace` | `child` the `m.space.child` events | `ChildrenHold`: the children listed are the rooms last added rather than removed; a new space is a child, about to be, or orphaned by a failed request or a refused order | 2 rooms, 2 calls, 1 failure |
| `Replies` | `RichReply.createFor`, `RichRepliesPreprocessor` without its option to fetch the parent event | text as lines of tokens, HTML as pieces; `said`, `shown`, `seen` of an event are what its sender meant | `RepliesAreRead`: what is written is read back, through any chain of replies; the HTML quoted only if it is one line, and the sender without more only if there is no `>` in the first line quoted. The documentation says more (section 4) | 3 events; texts plain, with a quote of their own, with a word that ends in `>` |
| `Timeline` | the end of `processSync`, `onTransaction` and, as the step that tells listeners, `SynchronousMatrixClient.handleEvent` | `form` the event in hand, `passes` its preprocessings, `told` the emissions | `EventsAreTold`: `room.event` once in final form, the typed emission likewise, decrypted or undecryptable, once and rightly | every setting of one event |
| `IdentityServer` | `IdentityClient.ts` | `pepper`, `algorithms`, `bound`, `accepted` the server; `state` the room an invite describes | `IdentityHolds`: a lookup's results are of one moment and in order; addresses go in clear only if allowed and needed; terms accepted were offered; an invite tells what the room was | 2 addresses, 1 change |
| `Requests` | the metrics decorators, `Metrics.start/end`, `doHttpRequest` | `requestStartTimes` the timers; `heard` the parent's listener | `CallsAreTold`: a call resolves only for a good answer; every timer ends once, its own, and success or failure is counted as the caller is told | 2 clients, 2 calls, 2 instants |

In `Storages` a cell is one value of one user; its name, prefix and form are
what a provider makes of it. The refinement says that whatever that is, two
cells do not share a name and a restart brings back what was persisted. A cell
of the in-memory record may be forgotten: that is `Write`'s second alternative
in `KeyValues`.

`PowerLevels`, `RoomUpgrades`, `Members` and `Replies` are algorithms on data
somebody else changes or wrote, so they start in every state of that data.

### OutgoingRequestsProofs

`KeysAndMessages` rests on three facts. Up to the claim a call holds the sync
lock, so what the machine learnt for its members still holds when it claims;
afterwards it owns nothing, but sessions and keys are only taken away by a call
that marks it as overtaken (`Keys`). A message in the queue of a run, unless
excused, has not been sent and is in no other queue, because that run has the
sync lock (`Queue`). And a message that was sent but is still with the machine
is the one the holder of the lock is about to mark (`Marking`): without it the
next run could take it again.

### AppserviceProofs

Every property of `Appservice_parts`, for every value of the constants, as
theorems of the composition: each part has an invariant of its own under
`part = "..."`, and the steps of the other parts leave its variables alone.

| Theorem | Invariant | Why it is needed |
|---|---|---|
| `MappingsAgree` | `BridgeInv`: a call under way remembers its pair (`SetterInv`); each direction holds only what was set, and the first is followed by the second, but for rivals and torn pairs (`MappingInv`) | between the two writes the directions disagree, and another call may read either |
| `JoinsAreTold` | `JoinInv`: inside before the call resolves only if an answer was lost; the schedule begins once. `MixinInv`: who is asked for was decided on (`ChosenInv`), who was decided on is in, refused or still to come (`DecidedInv`), users follow the bot (`OrderInv`), a refusal has a reason (`RefusedInv`) | joins of the mixins are awaited by nobody |
| `QueriesAnswered` | `QueryInv`: nobody is asked about a refused request (`RefusalInv`), who sends what while the event is emitted (`EmitInv`), and how far the one usable answer has come (`SingleInv`) | a callback may come before, during or after the end of the emission |
| `DevicesAgree` | `CryptoInv`: one Intent at a time is set up (`AloneInv`), what is on disk (`DiskInv`), what an Intent knows on its way against it (`WayInv`), all until one of the named upsets. `MachineInv`: what was gathered (`GatherInv`), and that the machines passed by the loop heard it, once per attempt (`HeardInv`) | a set-up that failed half-way is continued by another Intent |
| `SentFromInside` | `RecordInv`: past `ensureRegistered` a user is registered and on record; `CalmInv`: a call that nothing went wrong for believes what is true | the check and the send are two requests |
| `IntentKnows` | `VersionInv`: nothing is known of a version of the membership to come, and what is known of the present one is true; `BroughtInv`: the Intent of the LRU knows of every change transactions brought, or is about to, or whatever answer it gets knows of it | answers overtake each other, and an evicted Intent starts over |

Assumption: `AppserviceAssumption`, which tells model values apart (`Nothing`
from objects, the stranger from users, the handler from calls) and says that
the schedule of retries is not empty.

### ClientProofs

Every property of `Client_parts` in the same way, the refinement of `KeyValues`
included.

| Theorem | Invariant and argument |
|---|---|
| `KeysAreThere` | `KeysAndMessages`, for this part |
| `ProfilesAreCurrent` | `ProfileInv`: an answer in time is the present profile, or an event is on its way that will mark it late; so is a cached one |
| `PowersHold` | `PowerInv`: as long as nobody changed the content a call holds what there is (`Current`), and what it is about to write is well-formed |
| `SendsHold` | `SendInv`: transaction IDs of calls differ (`TxnsDiffer`), an event is the answer to its ID (`EventsAreAnswers`), and so is what a call returns (`ResultsAreAnswers`); the repeated request makes the middle one necessary |
| `IdentityAndLogins` | `IdentityInv`: how old what a request brings back may be (`InTime`). `LoginInv`: tokens that calls hold were given to them (`Held`), calls that never overlapped take turns (`TakeTurns`), and the logins made and under way are paid for by the first one, the faults and the overlaps (`Budget`) |
| `RoomsHold` | `MemberInv`: each answer holds memberships had during the call, one per user, and everyone who did not change and matches (`AnswerHolds`). `UpgradeInv`: the lists are walks among the rooms that can be reached, as many as their rooms, and where the code stands it knows the last one. `SpaceInv`: the property itself, with the types |
| `CallsAreHeld` | `RequestInv`: every call under way has its own timer (`TimersHold`), and what the listener counted is what was told, as cardinalities of sets of calls (`CountsHold`). `ServerInv`: the pepper, answers, names and terms a step goes on with were had during the call |
| `StoreHolds` | `StoreInv`: types, and which provider uses which store. That the names of two cells differ (`NamesDiffer`) and that each form is read back (`FormsAgree`) is a case per provider; so a write sets one cell, and a step is one of `KeyValues` or changes nothing a reader sees |
| `RepliesHold` | `TimelineInv`: how often each name was told follows from the settings, the place, the passes made and whether a listener threw (`Counted`, `InTurn`), and after decryption only the clear event is told (`InClear`). `RepliesInv`: an event's body is the quote of what it replies to and then its text; from the position of the first line that is no quote, and of the first end of a fallback in the HTML, follows what the preprocessor cuts, whatever is behind it |

Assumptions: `ClientAssumption` tells model values and the providers' own names
apart, and gives numbers their range. `RepliesAssumption` says what a text is:
lines without the tokens that mark a fallback, none of them empty. A text that
is itself the fallback of a reply is a reply to the code too. `Arrows` are the
words with a `>` in them: up to the last of them in the first line quoted goes
what the preprocessor takes for the sender, and the theorem says that this
begins with the sender and is the sender when there is none. The final
`trim()`, which takes empty lines off the ends, is not modelled, and a text
without them is not touched by it.

## 4. Findings

| Run | Where | What |
|---|---|---|
| `SyncLoop_skip` | `MatrixClient.ts:711` | with `persistTokenAfterSync` a batch that fails is skipped by the next success |
| `DirectRooms_stale` | `DMs.ts:45` | an older read of `m.direct` can replace a newer one |
| `DirectRooms_unready` | `DMs.ts:117` | before the first `update()` a chat that exists is not found: a second room is created and `m.direct` replaced |
| `RoomCrypto_clear` | `e2ee/RoomTracker.ts:64` | any failure to read the encryption event counts as no encryption |
| `Client_members` | `MatrixClient.ts:1111` | two memberships not to search for give the union of two complements, which is nearly everybody |
| `Client_history` | `MatrixClient.ts:1704` | when rooms refer to each other in a cycle, the given room is in its own history |

Each run checks one property that quotes the repository's own words; TLC's
counterexample is a run of the code as it is.

Seen while modelling, in the models, and stated by no run of their own:

- `MatrixClient.ts:644` against the comment at 630: a `stop()` while `start()`
  awaits is forgotten, because `start()` sets `stopSyncing` to false first and
  does not look at it again before the loop; and a filter given to one
  `start()` is still sent after a later `start()` without one (677).
- `e2ee/RoomTracker.ts:55` against 47-48: a changed history visibility is never
  stored for a room whose config is known.
- `appservice/Appservice.ts:827`: changed device lists reach only machines of
  users the transaction names otherwise. 823-824: the stored counts are read
  where none are ever written, and a list of fallback types with
  `signed_curve25519` in it becomes an empty list. 854: the "other intents"
  that may decrypt include the bot's again.
- `Appservice.ts:843`, `MatrixClient.ts:893`: a listener of
  `room.decrypted_event` that throws makes the event undecryptable, or
  decrypted a second time. `MatrixClient.ts:882,887`: an own join is
  preprocessed twice.
- `mixins/`: a join that fails is a rejection nobody handles.
- `e2ee` storage: two lowdb copies of one user's crypto store write over each
  other (`storage/RustSdkCryptoStorageProvider.ts:37`).
- `MatrixClient.impersonateUserId(null, device)` throws after it has cleared
  the user, and keeps the device.
- `PowerLevelsEvent.defaultEventLevel` is 50 where the client and the
  homeserver use 0; `calculatePowerLevelChangeBoundsOn` passes over
  `users_default`.
- `createChildSpace` with an invalid order leaves a space that is no child.
- `RichRepliesPreprocessor.ts:128` against 40 ("The user ID that sent the parent
  event, as determined by the fallback"): the expression goes on to the last `>`
  of the first line quoted, so a reply of the library's own to a text with a `>`
  in its first line names nobody. `RepliesAreRead` says when the sender is named
  and with what he is named otherwise.
- `RichRepliesPreprocessor` takes the first line of a reply without fallback,
  and loses the HTML of a reply to a reply that still has its own.
- The expression for the quoted HTML (`RichRepliesPreprocessor.ts:105`) does not
  match line breaks, and `createFor` quotes a text without HTML with its line
  breaks as they are (`RichReply.ts:24`): the library's own reply to a plain
  text of several lines is read back as lenient, without `fallbackHtmlBody`.
- Two clients of one user in the same millisecond with the same counter send
  with one transaction ID. A body of `null` in a successful answer rejects with
  a `TypeError`. The parent of two `Metrics` hears equal IDs from both.

The properties name these as exceptions, or are stated about what is left, so
that they hold of the code as it is.

## 5. What is proved, checked, left out

Proved for all values of the constants: every safety property of every passing
run, and the refinements of the abstract specifications (`EventStream` in both
modes of the sync loop and for transactions, `KeyValues` for the storage
providers). The assumptions are those named with each module of proofs; the
modes of the runs (one slot, reads in order, a `processSync` that does not
throw) are hypotheses where a finding or the code shows that they are needed.

Model-checked only: liveness under fairness (`StopEnds`,
`EventuallyDelivered`, `HandlersEnd`, `StreamMoves`), which is out of the
prover's reach.

Not modelled: admin and unstable APIs, media, account data, room state,
directory and receipts, which are one request per method whose arguments are
its parameters (what other parts use of them is in those parts); event models,
permalinks and other text conversions without state; logging; the calls of
`CryptoClient` that only pass their arguments to native code (`sign`,
`encryptMedia`, `decryptMedia`). The OlmMachine is native code outside the
repository: `OutgoingRequests`, `Machines` and `IntentCrypto` model it from how
the code uses it, `RoomCrypto` stops at its calls.
