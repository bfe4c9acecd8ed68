# Verification of the Carbonio connector for Thunderbird

The connector lets Thunderbird read a Carbonio (Zimbra) mailbox. It is a Rust
crate (`src/new-files/rust/carbonio_xpcom`), which talks SOAP to the server, a
set of C++ classes (`src/new-files/mailnews/protocols/carbonio/src`), which are
the Thunderbird account, folder and message channel, and an XPCOM interface
between the two (`ICarbonioClient.idl`). This directory holds TLA+ models of the
parts in which something can go wrong that a unit test would hardly reach, TLC
configurations that check them on small instances, and TLAPS proofs for all
instances. `IS`, `FO`, `CH` and `LIB` below stand for
`CarbonioIncomingServer.cpp`, `CarbonioFolder.cpp`, `CarbonioMessageChannel.cpp`
and `lib.rs`.

How to run, from this directory:

    tlc -workers 2 -config FolderSyncClean.cfg MCFolderSync
    tlapm FolderSyncProofs.tla

## 1. Inventory

**How the parts interact.** All C++ code and all of the bridge in `lib.rs` runs
on Thunderbird's main thread. A C++ class calls a method of `ICarbonioClient`;
the bridge spawns a local future (`moz_task::spawn_local`), which awaits the
network, and when it has the whole answer calls the C++ listener back, once per
item and then once for success. There is no await between two callbacks of one
answer, so a delivery is one turn of the event loop; everything else interleaves
at the awaits. Errors of callbacks are only logged (`report_xpcom_error`). State
is in memory except for the local folders and headers (message store and
database) and the preferences.

| Component | State | Operations | Hard part | Correct when |
|---|---|---|---|---|
| Folder hierarchy sync (`IS`, `sync_folder_hierarchy.rs`, `deliver_folder_sync` in `LIB`) | local folder tree with a Carbonio id per folder, the `syncStateToken` preference | start, answer, folder upserted / deleted, token changed, success, failure | deltas against a token, callbacks that fail while the token moves on, overlapping syncs, crashes between store and preference | the listing ends up as the server's; nothing is lost without being sent again |
| Session (`client/authenticate.rs`, `client.rs`) | cached token and local expiry behind an async mutex | ensure_session, login, use of the token | two looks at the cache with the mutex released between them, a request awaited under the mutex, expiry | one login at a time, none without need, no token sent too late |
| Message download and reading (`CH`, `client/get_message.rs`) | in-progress markers (one set for the process), output stream per folder, Offline flag, what the consumer heard | AsyncOpen, data, stop, read, cancel | concurrent channels share the markers and the store's streams; many error paths | markers and flags exact; consumers hear one start and one stop |
| Message list sync (`FO`, `sync_messages_for_folder.rs`) | headers in the folder's database, the pages so far | page after page, one callback a message | paging by offset while the folder changes, page limit, overlapping syncs | no header twice as long as ids can be read; what one sync misses a later one brings |
| Account orchestration (`IS`, `FO`, bridge) | the client, `running`, `idle` | GetNewMessages, SyncAllFolders, GetProtocolClient, Shutdown | nested event loop of the password prompt, follow-ups after failures | one client per account; every folder sync is followed up, however it ended |
| URIs (`CarbonioService.cpp`, `CarbonioProtocolHandler.cpp`) | none | conversions of message URIs, keys and channel URIs | two encodings of a key, folders whose names are numbers | a URI leads back to its message |
| Local folder discovery (`FO` 119-166) | `mSubFolders`, `mHasLoadedSubfolders` of each folder | GetSubFolders, CreateChildrenFromStore | lazy, recursive, breaks off at the first failure; the folder sync walks over what is known | what is known is a part of the store's tree, and not to be found means to be gone |
| SOAP transport (`soap.rs`, `types.rs`, `error.rs`) | none | send, decode, faults | faults come with any HTTP status; one bad member spoils an answer | a listener is told what happened |
| Protocol info, registration, outgoing server stub, account wizard and core patches, deployment script, explorer tool | constants, UI, build | - | - | - |

The last row is not modelled (section 6).

## 2. Modules

| Module | Role |
|---|---|
| `Mirror` | abstract promise of a folder sync: the listing is the mail part of some version of the server, and moves forward only |
| `FolderSync`, `MCFolderSync`, `FolderSyncProofs` | folder hierarchy synchronisation against a changing server; implements `Mirror` |
| `Discovery`, `MCDiscovery`, `DiscoveryProofs` | local folders coming to be known, and the folder sync's walks over them |
| `Session`, `MCSession`, `SessionProofs` | the authentication session |
| `Account`, `MCAccount`, `AccountProofs` | the server object: its client, password dialogs, syncs and their follow-ups |
| `AccountSync`, `MCAccountSync`, `AccountSyncProofs` | folder sync, follow-ups and message syncs of one account together |
| `MessageFetch`, `MCMessageFetch`, `MessageFetchProofs` | opening messages |
| `MessageList`, `MCMessageList`, `MessageListProofs` | synchronising one message list |
| `Soap`, `MessageUri` | pure definitions: one exchange with the server; message URIs and the way back |
| `ReadPath`, `MCReadPath`, `ReadPathProofs` | operations of the client over `Soap`, from the answers of the server to a header and its URI (`MessageUri`) |

Three compositions tie them together. `ReadPath` runs the pure modules in the
operations of the client. `AccountSync` puts the folder sync, seen as one folder
brought up to date at a time, beside the message syncs it starts. `FolderSync`
takes the local tree to be known completely; `Discovery` says what its callbacks
do when it is not.

Every module keeps the names of the code for its actions. Definitions headed
*Broken variant* are plausible bugs of the definition that follows them; they
are not part of the specification. Putting one in the place of its original must
make a property fail, which shows that the property depends on that piece of
code.

### FolderSync

`hist[v]` is the server's tree at version `v`, and a sync token is a version
(0: no token). `loc` maps each Carbonio id to the place of the local folder that
carries it, `untagged` holds the places of local folders whose id was never
written, `token` is the preference in memory and `saved` on disk, `sync` the
tasks in flight, each with the token it asked with and what is still to be
delivered. `missed` is a history variable: the ids a callback failed to bring up
to date.

| Action | Code |
|---|---|
| `SyncFolderList` | `IS` 268-340: read the token, start the operation |
| `SyncResponse` | `sync_folder_hierarchy`: the server's answer, flattened, deletions behind the folders, none after a request without a token |
| `OnOperationFailure` | any error before the delivery |
| `DeliverFolderSync` | beginning of the delivery |
| `OnFolderUpserted` | `MaybeCreateFolderWithDetails` or, for a known id, `UpdateFolderWithDetails`, with every early return |
| `OnFolderDeleted` | `DeleteFolderWithId`, which takes the subfolders along |
| `OnSuccess` | token stored if there is one, then success |
| `SavePrefs`, `Crash` | preferences reach the disk on their own schedule; the process dies between any two callbacks, or inside a creation |
| `ServerPlaces`, `ServerDeletes` | the server, outside this repository |

The constant `Faults` names the hard conditions of the environment: overlapping
syncs, reuse of a freed name, changes directly below the account root, deltas
listing children first, mail folders under other folders, store failures,
answers without a token, crashes. The runs combine them, so that each result
says under which conditions it holds.

The account root is not a folder with properties: `GetStringProperty` on it
fails, as the comment at `IS` 167-174 says, which is why `CanUpdate` asks for a
parent other than `Root`.

### Session

A token is known by its number `gen`, and by the time at which the server stops
accepting it. `ensure_session` is `EnsureSession` (mutex taken and released
within one step), `login` is `Login` (second look, then the request goes out
under the mutex), `ServerIssues`, and `LoginSucceeds` or `LoginFails`.
`RequestArrives` is the operation's own request at the server; `NextPage` is the
one operation that sends several requests with one token. `Revoke` is the server
making a token invalid before its time; nothing tells the client, and `Finish`,
the end of an operation, leaves the session alone however it ended: until its
local expiry every operation fails (`UsableKept` states this as what the code
does). `since` bounds how long a message is under way (`MaxDelay`), and the
assumption `2 * MaxDelay < Margin` says the safety margin is larger than a login
and a request take. Client and server clocks run at the same speed; only
differences of the local clock are used, as in the code (`Instant`).

### Account

One record of state per request to the server object. `mClient` is the member of
that name, a client being named by the request that made it; `ready` are the
bridges whose `Initialize` came to its end. `GetPasswordWithUI` opens a modal
dialog and runs an event loop of its own, so requests and callbacks go on while
the calling request stands still. `prompts` is the stack of those calls: the one
made last returns first, as C++ frames do.

| Action | Code |
|---|---|
| `GetProtocolClient` | `IS` 236-258, entered by every request: reuse, create with the known password, prompt, or one of the early returns |
| `PasswordEntered`, `PasswordCancelled` | the rest of `Initialize` (`LIB` 124-146) and of `GetProtocolClient` after it |
| `OnSuccess`, `OnError` | the callbacks of `SyncFolderList`: both run the follow-up, `PostSyncCallback`, on purpose (`IS` 325-331) |
| `OperationEnds` | the end of requests without follow-up (`VerifyLogon`, one folder's messages, a download) |
| `Shutdown` | `IS` 442-447 and `client.rs` 118-127: a flag that nobody reads; the client stays |

The module justifies two assumptions of the others. A follow-up finds a client
(`FollowUpHasClient`), so a callback never opens a dialog and a delivery is
indeed one turn of the event loop. And a sync reads its token before it asks for
the client (`IS` 278 and 338), so a dialog may come between the two; to
`FolderSync` that is a task that started with an old token, which its
`"overlap"` condition covers.

### AccountSync

`server` and `local` map a Carbonio id to a place, `db` each place to the
headers in the database there, `syncs` are the message syncs under way, each
with the path it began with. `PullFolder` is the outcome of a folder sync for
one folder: `CreateFolder`, `MoveFolder` (a folder moves with its database),
`DeleteFolder`. `FollowUp` is `PostSyncCallback`: `SyncMessages` for one folder
(`FO` 168-192) or `SyncAllFolders` (`IS` 404-440), which goes on after a folder
that fails, but does not get below one whose `GetSubFolders` fails (`IS`
430-433): `reached` is the set of places the walk comes to, any set. Like the
code, a follow-up holds on to the object it was asked for
(`IS` 400): `target` is a path, and whatever is there when the follow-up runs
gives the id to ask for. `OnMessage` writes to the database at the path the sync
began with. The messages of a folder are one message named like the folder; what
a list sync does with several is the matter of `MessageList`. A place is given
to another folder only when it is free on the server and here; otherwise finding
2 applies.

### MessageFetch

A state per channel; a finished channel stands for the next one.

| Action | Code |
|---|---|
| `AsyncOpen` | up to where it returns or stands still: the look at the Offline flag (`CH` 263-267), then the read from the store, or `GetProtocolClient` (`CH` 368) |
| `PromptForPassword` | the account has no client yet and no password is known: `CH` 368 opens the dialog of `Account`, and other channels run in its event loop |
| `WithClient` | what comes after `CH` 368, at once or when the dialog returns: the marker (`CH` 380), the stream, the request. The flag is not looked at again |
| `PasswordEntered`, `PasswordCancelled` | the innermost dialog returns |
| `FetchSucceeds`, `FetchFails` | `deliver_message_fetch` with all of its callbacks, in one step, because no await separates them |
| `ReadStarts`, `ReadStops` | the read from the store, which alone hears of a cancellation |

`clients` are the accounts that have a client and `prompts` the stack of open
dialogs. `overtaken` is a history variable: the messages that were stored while
some channel stood at the dialog to download them. The message store is outside this repository: a second
`GetNewMsgOutputStream` of one folder closes the stream of the first, as the
comment at `CH` 373-379 says. `IdOf` need not be injective, because the markers
are shared by all accounts of the process.

### MessageList

`got[s][m]` counts how often the pages fetched so far list `m`; `Rank` is a
message's position in the answer (newest first). `steady`, `shrunk` and `cut`
are history variables. `OnMessage` is the look for a header and its creation in
one; `OnMessageFails` is the database refusing. `UpsertOverlooking` is the look
that passes over a header whose id cannot be read (`FO` 254-256) and so creates
another; `overlooked` remembers the messages it happened to.

### Discovery

`disk` is the message store: at each place (numbered in the order of a walk from
the root down) a Carbonio id or nothing. `known` are the places whose folder is
in its parent's `mSubFolders`, `loaded` those with `mHasLoadedSubfolders`.
`CreateChildrenFromStore` gives the set of what a call may come to: success, or
the store failing at any folder the recursion reaches, or `AddSubfolder` failing
for any child; `skipped` remembers the latter. A callback of the folder sync is
a `walk` in stages, each a breadth-first `FindFolderWithId`:

| Stage | Code |
|---|---|
| `delete` | `DeleteFolderWithId` looks for the folder |
| `update`, then `move` | `UpdateFolderWithDetails` looks for the folder, then for its new parent |
| `again`, then `parent` | after the update did not find it, `MaybeCreateFolderWithDetails` looks for it once more, then for the parent |

`Scan` looks at one folder and lists its subfolders, which may discover them or
fail; `NotFound` is a walk that came to its end. `lost` holds the ids for which
a callback did not bring the store to where the server is. `Browse` is anybody
else who lists subfolders, `Restart` a new start with only the topmost folders
known.

### Soap, MessageUri and ReadPath

`Send` keeps the order of tests of `soap.rs`: the body is decoded first, the
HTTP status is looked at only for the log, a fault comes before content, and
content that does not fit is no content. `Fits` says which members `types.rs`
insists on, those of the members of lists included. In `MessageUri` a URI is a record and its path a sequence of
segments; a segment may be a number, like a key.

`ReadPath` keeps the client's session, one operation with its document and
pages, and the folder's database. `Call` begins an operation of the client,
`LoginAnswered`, `Answered` and `PageAnswered` take any answer there can be:
none, no JSON, faults with and without a text, content for another document,
members missing, each with a good or a bad HTTP status. `Tell` is the callback
that ends an operation. `ToSummary`, `Author` and `NewHeader` are `to_summary`
and `UpsertMessageHeader` as far as they change anything: the first sender, the
quoting of a name, milliseconds and microseconds, the width of the size field,
the read flag. At the end of a listing `Delivered` calls `OnMessage` for one
message after the other; any set of these calls may fail, which is logged, and
the rest goes on (`LIB` 451-464). History variables: `listed` (each message as a
listener was first given it), `seen` (what was wrong with the answers), `named`
(the messages the pages named) and `refused` (those of them that a call of
`OnMessage` failed for).

## 3. Runs

| Run | Shows |
|---|---|
| `folder_sync_clean` | with `Faults = {}`: `MirrorInv`, the refinement `ImplementsMirror`, `MirroredIfAnswered`, `SyncsEnd` |
| `folder_sync_crash` | reuse of names, top level, children first, mixed kinds, store failures, answers without tokens, crashes: `Covered`, `LocalTree`, `ListingMatchesExceptMissed` |
| `folder_sync_overlap`, `folder_sync_reuse` | `ListingMatches` fails, each with one condition only (findings 1 and 2) |
| `discovery` | the store fails anywhere, restarts at any time: `KnownTree`, `NotFoundExplained`, `DiskFollows` |
| `session` | operations of one or two requests, one revoked token: `SingleLogin`, `NoRedundantLogin`, `FirstAccepted`, `UsableKept`, `OperationsEnd` |
| `account` | `ClientsReady`, `FollowUpHasClient`, `OneClientUnlessNested`, `SyncsFollowed` |
| `account_sync` | folders come, move and go while messages are fetched, one folder always fails, walks that reach only some folders: `OnlyStrayed`, `ListedIfAnswered` |
| `message_fetch` | overlapping channels, and dialogs while a channel opens: `MarkersExact`, `OfflineIsStored`, `StartThenStop`, `OpensEnd`, no deadlock |
| `message_fetch_stream` | `StreamKept` fails (finding 3) |
| `message_list` | two overlapping syncs, headers whose id cannot be read: `NoDuplicates`, `CompleteUnlessShrunk`, `ListedIfAnswered` |
| `read_path` | any answers to any operations, any `OnMessage` failing: `ToldWhatHappened`, `AllListedUnlessRefused`, `HeadersFaithful`, `UrisLeadBack` |

**Bounds.** Folders: three ids and two names give chains, siblings and name
clashes, and in the clean run one folder is not a mail folder; three versions
give an initial sync and two deltas, of which one can be stale. What longer
chains do, the proofs say (section 5): with four mail folders the refinement
fails on deltas that list parents first but not everything above the parent,
which the clean run is too small to meet. The crash run
has two folders, because its faults multiply the states. Overlaps need two
tasks. Discovery: a topmost folder with two chains of two below it is the least
tree in which a failure on one branch leaves another undiscovered, at depth one
or two, and in which a folder can move across; two changes of the server. Session:
two operations are enough for a login race, the lifetimes 3 and 5 lie below and
above the margin 4, and time 5 lets the short one end and be renewed. Account:
with three requests two dialogs can be open while a third request finds the
client of one that was answered. AccountSync: two places, so that a folder can
take the place another left while the messages of that one are under way, and
three folders, one of which always fails. Messages: three channels, two messages
of one folder and one of another account with the same id as the first; three
channels are what it takes for one to wait at the dialog while a second stores
its message and a third disturbs the second. Lists:
three messages, pages of one message and two pages give lists that fit, lists
that do not, and arrivals and removals between pages; two changes suffice for
each to push a message over a page border; and a message gets at most two
headers (`MaxHeaders`), enough for the second one that must not be. ReadPath:
two messages of six kinds (a named sender behind a recipient, no sender, a large
message from a sender without a name, a name with a quote in it, senders without
a name whose address is quoted in part or looks like a name and an address), two
pages, a field of two bits for
sizes up to five, and a folder whose name is a number. Symmetry is used only in
the crash run, for folder ids and names. Every run checks for deadlock.

**Fairness.** Only the connector's own futures, the event loop and the async
mutex are fair. A future ends its request with an answer or an error, and the
event loop runs the callbacks that are ready, hence weak fairness of answers and
deliveries (strong for the folder sync's, which wait for each other).
`async_lock`'s mutex hands itself to waiters in order, hence strong fairness of
taking it. Nothing is assumed of the user, the server's changes, crashes, or
dialogs, which may stay open for ever.

Nothing in the connector starts a sync by itself: the check for new mail is off
by default (`CarbonioProtocolInfo.cpp` 123-132) and `PerformBiff` is missing
(`CarbonioIncomingServer.h` 33-34, `docs/limitations-connues.md` 32). So that a
listing is right in the end is not promised, and the three properties about it
are implications, whose premises say what is needed: that syncs keep being
answered (`MirroredIfAnswered`, and `ListedIfAnswered` of `MessageList`, where
the database must not refuse a header for ever either); in `AccountSync`, that
the user keeps asking, that the folder syncs have caught up, that the walk comes
to all folders now and then, and that the folder's own requests and writes do not
always fail. `AccountSync` itself has one fair step: a folder sync that the user
asked for ends and is followed up, which is `SyncsEnd` of `FolderSync` and
`SyncsFollowed` of `Account`.

## 4. Findings

1. `IS` 275: nothing keeps two folder syncs from overlapping. Two initial syncs
   that straddle a deletion leave the deleted folder in the listing for ever.
2. `sync_folder_hierarchy.rs` 86: deletions are delivered last, so a new folder
   with the name of a folder deleted in the same delta cannot be created; the
   token moves on.
3. `CH` 380: the guard against two downloads disturbing each other looks at the
   message, the store's stream belongs to the folder.

Not findings of a run, but worth knowing; the models contain each of them:

- `IS` 325-331 and 268-273: a failed folder sync runs its follow-up like a good
  one. For the message syncs that is intended, as the comment there says; but the
  follow-up of `SyncFolderHierarchy` is `OnOperationSuccess` of its listener, so
  that listener never hears `onOperationFailure`, which `ICarbonioClient.idl`
  240-254 has for that case. No property here says that callers of
  `SyncFolderHierarchy` are told the truth; `SyncsFollowed` says that they hear
  something.
- `CH` 368: the password dialog may come between the look at the Offline flag and
  the look at the marker. If another channel downloads the message meanwhile, the
  first one downloads it again and the store has it twice (`OfflineIsStored`
  excepts `overtaken`).
- `FO` 254-256: a header whose id cannot be read is passed over, so its message
  gets a second header (`NoDuplicates` excepts `overlooked`).
- `LIB` 451-464: a message that `OnMessage` fails for is left out, the rest of
  the listing gets in, and the listener hears of success
  (`AllListedUnlessRefused` excepts `refused`).
- `FO` 132: `MOZ_ASSERT(!mHasLoadedSubfolders)` can fail. A folder sync creates a
  folder below a parent whose children were not looked for yet, somebody lists
  the new folder's subfolders, and then the parent is discovered, which recurses
  into the new folder once more. `Discovery` models release builds, where the
  assertion does nothing.
- `sync_folder_hierarchy.rs` 39-44: an answer without a token is to be treated as
  "resync from scratch next time"; `LIB` 323-329 leaves the old token in place, so
  the next sync asks for the same changes again. That is harmless (`Covered`
  holds with `"tokenless"`), but it is not what the comment says.
- `IS` 134: a rename or move of a folder directly below the account root is
  never applied, since reading the id of its parent fails first; the token moves
  on (`"topLevel"` in `FolderSync`).
- `IS` 139-145: a delta that lists every parent before its children may still be
  in the wrong order. Let `f` contain `q` and `q` contain `p`, and let `q` move
  out of `f` and `f` below `p`. If the delta lists `f` first, `p` is still below
  `f` here; the move would put `f` below itself, the store refuses it, and the
  token moves on. So `FolderSync` without `"childFirst"` means that everything
  above a folder comes first.
- `sync_messages_for_folder.rs` 88: paging by offset skips a message when
  another one leaves the folder between two pages; a later sync brings it
  (`CompleteUnlessShrunk`, `ListedIfAnswered`).
- `sync_messages_for_folder.rs` 54 asks for a token once and sends up to a
  hundred requests with it, longer than the margin of `authenticate.rs` 13-15
  allows for. That is why `NeverRefused` is proved for operations of one request
  only, and `FirstAccepted` for all.
- `authenticate.rs` 40: a session the server has revoked is used until its local
  expiry (`UsableKept`).
- `FO` 153: when `AddSubfolder` fails, the remaining subfolders are not looked
  for again before a restart, because the flag is set; when
  `DiscoverChildFolders` fails they are (`KnownTree`). A folder sync meanwhile
  takes such a folder for deleted, or tries to create it (`NotFoundExplained`).
- `FO` 277: a sender's name is put between quotes as it is, and an address without
  a name stands alone. A name that has a quote in it, or a lone address that
  looks like a name and an address, cannot be read back from the header
  (`HeadersFaithful` excepts both, by `Writable`).
- `FO` 194: a message sync that outlives its folder writes to the database at
  the folder's old path, where another folder may be (`OnlyStrayed`).
- `GetUrlForUri` turns a message URI without a key into a channel URI whose last
  folder segment `MsgKeyStringFromChannelURI` then takes for the key; such a URI
  is refused as a message URI, but not as a channel URI. `UrisLeadBack` is about
  the URIs of messages, which have a key.

## 5. What is proved

All theorems hold for any sets of folders, tasks, channels and messages and any
bounds, under the named assumptions on the constants.

- `FolderSyncProofs`: `TypeCorrect`; and, for syncs that do not overlap
  (`"overlap" \notin Faults`; finding 1 is why) but under all other faults,
  `NeverSilentlyStale` (`Covered`) and `SettledListingMatches`
  (`ListingMatchesExceptMissed`). `Covered` is not inductive: whether the token
  may move on in `OnSuccess` depends on what the answer left out and on what was
  delivered. The invariant `SyncInv` adds `Serial` (the one sync in flight asked
  with the token still stored, and disk never runs ahead of memory),
  `AnswerComplete` (what an answer does not list did not change since its base)
  and `DeliveredIsNew` (what is not listed any more is as new as the answer).
  `CallbackKeepsInv` is the common part of all callbacks. `LocalTreeKept`
  (`LocalTree`) holds under all faults, overlapping syncs included.
  With `Faults = {}`, `DeliveriesExact` (`MirrorInv`), `MirrorImplemented`
  (`ImplementsMirror`: the observed listing starts as a mirror and every step is
  a step of `Mirror` or leaves it alone) and `ListingMatchesWithoutFaults`.
  `SyncInv` bounds what may be stale; a refinement needs the listing exactly, so
  `MirrorInv` says that a folder an answer still lists is as at the answer's
  base and any other as at its version, that nothing was missed, and what the
  server's history is like (`ServerHistory`). The hard step is that no callback
  is refused: `ParentThere` finds the parent, since everything above a folder
  is delivered before it, and `NoCycle` shows that the new parent is not below
  the folder, since a path up from the parent is already the server's new path.
  Each single fault breaks the refinement, which is why it is stated without.
- `SessionProofs`: `TypeCorrect`, `OneLoginAtATime`, `LoginNeeded`, `CacheGood`,
  `FirstRequestAccepted`, `UsableSessionKept`, and `OneRequestNeverRefused`
  (`NeverRefused` for `MaxPages = 1` and `MaxRevoked = 0`). Their invariant
  `SessionInv` says who holds the mutex, how far the local expiry stays
  below the server's, and how old the messages under way can be.
- `AccountProofs`: `TypeCorrect`, `ClientsStayReady`, `FollowUpNeverPrompts`,
  `OneClient`. The invariant `AccountInv` adds `Stacked` (every
  open dialog belongs to one waiting request), `ClientKept` (once there is a
  client the server object has one, and it is initialized) and
  `AloneWhilePrompting` (without nesting, an open dialog means no client yet).
- `MessageFetchProofs`: `TypeCorrect`, `MarkersStayExact`, `FlagsStayExact`,
  `ConsumersHearOnce`. A message is stored once, unless it was overtaken, because
  a download, and a channel that waits at the dialog to begin one, is for a
  message not yet flagged (`DownloadsMissing`, where whoever flags it makes those
  who wait `overtaken`), and because the marker keeps a second download of it
  away meanwhile.
- `MessageListProofs`: `TypeCorrect`, `NoSecondHeader` (but for `overlooked`
  messages), `ListComplete`. The
  invariant `StillToCome` says that a message not listed yet has a rank that a
  page still to be fetched covers; `RankGrows` says arrivals only increase ranks.
- `ReadPathProofs`: `TypeCorrect`, `ListenersHearTheTruth`,
  `ListingsGetIn` (`AllListedUnlessRefused`), `HeadersStayFaithful`, `UrisAlwaysLeadBack`, for any set
  of messages, path, tokens and number of pages. `ToldWhatHappened` needs
  `UnderWay` beside it:
  while an operation goes on nothing was wrong so far, for every answer with
  trouble ends it. `ListingsGetIn` adds `AllCollected`: the summaries so far are of
  all the messages the pages so far named, so the delivery (`HeaderMade`) leaves
  out only what was refused. `HeadersFaithful` needs `HInv`: the pages so far are summaries
  of the mailbox as it is, which no page that fits can break, and a header is
  what `NewHeader` makes of the message first listed. `HeaderSays` is the rest:
  `SenderReadBack` shows that `SenderOf` takes apart what `Author` put together,
  for names and addresses of any length, if they are `Writable`. `MailAssumption`
  only says what messages are; no address and no name is ruled out.
- `AccountSyncProofs`: `TypeCorrect`, `OwnMessagesOnly` (`OnlyStrayed`). The
  invariant adds `OneFolderAPath`; without it a deletion could empty the
  database of another folder, and a move could carry its messages along.
- `DiscoveryProofs`, for any tree of places: `TypeCorrect`, `DiscoveredTree`
  (`KnownTree`), `NotFoundMeansGone` (`NotFoundExplained`), `StoreFollows`
  (`DiskFollows`). The first two need `DiskNearServer`: a folder that is not
  where the server has it has nothing below, before and after, so the parent a
  walk finds is at the right place. The third adds `WalkCovers` (what the walk
  wants is below a folder it still has to look at, or below a skipped one), the
  fourth `LostMovable` (a folder that a callback failed on has nothing below
  either, so a deletion takes along nothing that is in its place). That every
  place is reached from the root is an assumption of its own
  (`ReachedAssumption`); it follows from the numbering of the places by
  induction, which is beyond the prover.

Only model-checked: the liveness properties (`MirroredIfAnswered`, `SyncsEnd`,
`OperationsEnd`, `OpensEnd`, `SyncsFollowed`, both `ListedIfAnswered`), which are
beyond the prover, and what the violation runs refute. The type invariants of
`FolderSync` and `AccountSync` are only proved.

## 6. What the models leave out

- Message contents; that a short write is taken for a complete one (`CH` 422):
  the store's stream writes all or fails, as a blocking file stream does.
- A folder whose `GetStringProperty` fails is passed over by `FindFolderWithId`
  (`IS` 193-195); the models take properties that were written to be readable.
- Representation: strings, numbers in JSON, percent-encoding in URIs, time zones.
- Late failures of `StartMessageReadFromStore` after the read began, load groups
  and content types.
- Callbacks of the message store that spin the event loop: a delivery is taken to
  be one turn of it.
- The attributes `running` and `idle` (`LIB` 94-105): they only repeat whether a
  client was set, against `ICarbonioClient.idl` 32-46 and 61-68, and nothing in
  the connector reads them.
- Local changes to the folder tree made by the user; the phase modelled has no
  such operations towards the server.
- The functions of `CarbonioService` that only forward to the ones modelled
  (`LoadMessage`, `StreamMessage`, `FetchMimePart`, `StreamHeaders`) and those
  that return `NS_ERROR_NOT_IMPLEMENTED`.

Not modelled at all: protocol information and registration (constant answers and
tables), the outgoing server (preference names here, the rest a patch of another
project's crate), the account wizard and core patches (user interface and build
files of Thunderbird), the deployment script and the explorer tool (not part of
the running connector).

## 7. Plan

What would be added next:

1. `AccountSync` with places that are reused at once, to see what finding 2 does
   to the messages; the two clients, hence two sessions, that nested dialogs make.
2. The deployment script as an operation on a checkout that may be repeated and
   interrupted, and the outgoing server once it has code here.
