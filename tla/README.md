# pushme-server: TLA+ models and proofs

pushme-server is a self-hosted push server: HTTP requests are published to MQTT
subscribers, over TCP or WebSocket, through an embedded router (rumqttd). A web
panel edits its configuration, one JSON file. This directory models its core in
TLA+, checks it with TLC and proves its main invariants with TLAPS. Paths below are
relative to the repository; `src/` is the Rust source.

## The system

| part | source | state | operations |
|---|---|---|---|
| MQTT hub | `src/mqtt.rs` 107-230 | `subscriptions` (topic -> count), `offline` (topic -> queue), `connections` | `publish`, `subscribe_topic`, `unsubscribe_topic`, `take_offline`, `handle_client` |
| MQTT session | `src/mqtt.rs` 232-494 | its link to the router, the set `subscribed`, the packet identifier | CONNECT, SUBSCRIBE with replay, UNSUBSCRIBE, PUBLISH, forwarding, cleanup |
| WebSocket bridge | `src/mqtt.rs` 28-101, `src/push_api.rs` 186-234 | two byte channels, the session's task handle | frames in and out, abort at the end |
| Push API | `src/push_api.rs` 268-417 | none of its own | parameter checks, whitelist, one `publish` per key |
| Configuration store | `src/config.rs` 158-230 | cached configuration, message counter, `data.json`, `data.json.tmp` | `load`, `get`, `update`, `persist`, `incr_message_count` |
| Panel | `src/panel.rs` | none of its own | install, login, keys, test push, settings, certificates, log |
| Accounts | `src/auth.rs` | `LoginGuard` (failures, lock), the signed cookie | `verify_login`, `install`, `issue`, `verify`, `ip_allowed` |
| Push log | `src/push_api.rs` 41-97 | ring of 200 entries, broadcast channel of 512 | `push`, `recent`, `clear`, `subscribe` |
| Certificates | `src/certs.rs` | `cert.crt`, `private.key` | generate, ensure, load |
| Startup and sniffing | `src/main.rs` | listeners | bind, accept, route a connection by its first bytes |
| Webhook translation | `src/third.rs` | none | detect and translate Feishu, WeCom, DingTalk bodies |

How they interact. Every session, publisher and panel request is a tokio task on a
multi-threaded runtime; they share the hub (two `RwLock`s, a `Mutex` around the
publishing link, an atomic counter) and the store (an `RwLock` around an `Arc`
snapshot, an atomic counter, two file names). No lock is held across two of the
hub's maps, and none at all across a configuration update, so a handler is a sequence
of atomic steps with anything in between.

What is hard here:

- The offline queue. `publish` decides by a count it has read and released whether
  to queue; SUBSCRIBE links, counts, takes the queue, in this order, while publishers
  run. Does a message fall between the two? Is one replayed twice, or out of order?
- The subscription count. It is kept apart from the links it counts; a session may end
  at any await, in the middle of a packet, or be aborted.
- The configuration file. Readers take snapshots; updates clone, change, write,
  rename and then publish the clone, without a lock, through one temporary name.
  Reads and writes fail; the process may die at any system call. Every setting, the
  account and the key list travel in one clone, so an update may undo another's.
- Progress. `select!` shares a session between packets and routed messages.
- Time. A session's read deadline runs against keepalives the code replaces, writes that
  block and messages that interrupt the read.
- Requests that check and act on different snapshots: a push resolves an alias in one and checks the
  whitelist in another; the panel adds a key after a check made before.
- Two views of one log: a page merges the history with a stream that may lag, fail and reconnect.
- Certificates. Two files, written one after the other, by a start and by panel requests, loaded twice by a start.

## Modules

| module | contents |
|---|---|
| `MqttHub` | the hub, its sessions, publishers, the panel's edits, and the router's links |
| `MCMqttHub` | symmetry for TLC |
| `MqttHub_proofs` | type correctness, exact counts, reachability of counted topics; the queue's limit, the handover, one replay, its order |
| `ConfigStore` | the store down to its system calls, with failures and crashes |
| `AtomicConfig` | what the store promises: one persistent variable that changes a field at a time, or forgets all |
| `MCConfigStore` | symmetry for TLC |
| `ConfigStore_proofs` | type correctness; with one updater: no torn file, cache = disk, no lost update, key and count, refinement of `AtomicConfig` |
| `PanelAccount` | install, login behind the guard, upgrade of an official account, password change, the updates that carry the account along, session tokens |
| `MCPanelAccount` | symmetry for TLC |
| `PanelAccount_proofs` | type correctness, the rate of failed logins, what becomes of a saved password |
| `Transport` | one public connection from its first byte to the packets of its session, over TCP or WebSocket |
| `MCTransport` | the module the transport runs name |
| `Transport_proofs` | type correctness, the protocol found; both streams intact |
| `MqttSession` | one session with its clock: CONNECT checks, keepalive, identifiers, every packet and its answer |
| `MCMqttSession` | what its client sends |
| `MqttSession_proofs` | type correctness, fresh identifiers, no punctual client timed out; answers in order, codes that tell what is subscribed |
| `PushLog` | the ring, the broadcast channel, and the pages that follow them |
| `MCPushLog` | the module its run names |
| `PushLog_proofs` | type correctness, the ring, the order of a stream |
| `PushApi` | a push request, webhooks included, against the panel's unlocked updates of the key list |
| `MCPushApi` | the requests sent; symmetry |
| `PushApi_proofs` | type correctness, deleted keys, duplicates, aliases, replies and webhooks |
| `IpAllow` | the CIDR masks of the panel's whitelist, and a reference definition of them |
| `Lifecycle` | the process from start to end: settings, certificates, listeners, the panel's requests about them |
| `MCLifecycle` | the settings and addresses considered |
| `Lifecycle_proofs` | type correctness, matching certificate files, what a start serves, whom the whitelist lets in |

### MqttHub

One action per lock acquisition or await. `pc[c]` says where the session task of slot
`c` is:

| pc | the session is | actions |
|---|---|---|
| closed | not there | `Accept` |
| handshake | before CONNACK | `Handshake`, `LeaveLoop` |
| loop | in `select!` | `ReceiveSubscribe`, `ReceiveUnsubscribe`, `ClientPublish`, `ClientPublishRefused`, `Forward`, `LeaveLoop`, `WsAbort` |
| filter, count, take, replay | inside SUBSCRIBE, per filter | `LinkFilter`, `CountSubscription`, `TakeOffline`, `Replay`, `EndFilter`; `LeaveLoop` where the code writes or calls the router |
| unlink, uncount | inside UNSUBSCRIBE, per topic | `Unlink`, `Uncount` |
| cleanup | after the loop | `Cleanup` per topic, `FinishSession` |

A publisher `p` runs one request: `StartPush` (push API, one snapshot for whitelist and
offline flags) or `StartTest` and `ReadFlags` (panel test, two snapshots), then per key
`ReadOnline`, possibly `Store`, and `Route` or `RouteFails`. The panel's part is
`SetOffline`, `AddKey`, `DeleteKey`.

Abstractions:

- A message is its source and a number. `issued` counts them.
- The filters of one SUBSCRIBE, the topics of one UNSUBSCRIBE and the keys of one
  request are sets handled in any order. The code goes through a list: every order
  of the list is an order of the set; a topic listed twice in a packet behaves like
  two packets.
- The router (rumqttd) is external: a link is a set of topics with a FIFO inbox;
  publishing appends to every inbox whose link holds the topic. The session calls it
  through synchronous channels, so `LinkFilter` takes effect when it returns.
- A configuration edit is one step here; how it reaches the disk is `ConfigStore`. What an
  unlocked update puts back is an edit like another: the panel adds and deletes keys, and
  turns the switch, at any time.
- "Written" is bytes accepted by the socket, or by the bridge for a WebSocket client.
- Ordinary clients subscribe to what they do not hold and unsubscribe what they hold.
  What else may happen is named in the constant `Moves`.

### ConfigStore

`fs::write` is `Open` (create or truncate the inode named `data.json.tmp`) and `Write`
(to the inode opened, whatever its name is by then); `fs::rename` is `Rename`. Bytes
written over another writer's bytes give the writer's file or `Torn`. `PersistFails` is
an error of any of the three, or a rename whose source is gone. `Begin` and `SetCache`
are the two ends of `update`; `Start`, the same three system calls by the actor `Boot`,
and `Loaded` are `load`. A start may fail to read a file that is good: `ReadsAs` then gives the defaults, as
`Err(_) => AppConfig::default()` does, and the start saves them over it. `Crash` ends the process between any two steps; files stay as they are.
Settings are a function from a few fields to values; the message counter and the
session key are kept apart because `update` and `load` treat them apart.
The history variable `expected` holds, per field, the values that an acknowledged
update, or one a crash cut off, may have left; `unread` is whether the last start failed to read a good file,
whose rename then makes the defaults all that may be left.

### PanelAccount

Each handler `h` is one panel request; `req[h].pc` says where it waits:

| pc | the request is | actions |
|---|---|---|
| idle | not there | `InstallSubmit`, `LoginSubmit`, `ChangeSubmit`, `SettingSubmit` |
| body | waiting for its body, after the check of `installed` or of the token | `InstallDraft`, `InstallFails`, `ChangeBody`, `ChangeRejected`, `SettingDraft`, `SettingFails` |
| guard | waiting for the mutex around `LoginGuard` | `TurnAway`, `EnterGuard` |
| verify | in `verify_login`, before its snapshot | `Verify` |
| upgrade, upgrading | in `verify_login`, before and after the clone of its update | `UpgradeDraft`, `Upgrade`, `UpgradeFails` |
| accepted, rejected | back from `verify_login` | `LoginAccepted`, `LoginRejected`, `ChangeDraft`, `ChangeFails`, `ChangeRejected` |
| saving | with a changed clone of the configuration, before it becomes the configuration | `InstallSave`, `InstallFails`, `ChangeSave`, `ChangeFails`, `SettingSave`, `SettingFails` |

A login holds the mutex (`holder`) from `EnterGuard` to its record, as the code holds its
`MutexGuard` over the bcrypt computation; the other requests hold nothing. A hash is the
password it was made from. An update is two steps, as `ConfigStore::update` takes no lock: the clone with its change (`Draft`), and later
the clone becoming the configuration, or the update failing; what is written in between is `ConfigStore`'s. A "setting" is any update that is not about
the account, the key list's included: it writes back the account of its clone.
The clock is one variable for both clocks the code reads. `failedAt` and `saved`
are histories: the failures since the last success, and the passwords that may open the
panel since the last install or change was saved: its own, and those that updates under way at that moment carry (`Carried`). Not modelled: a restart, after which lock and
count are forgotten while tokens stay good, because the session key is saved.

### Transport

A byte is its number in what the client has sent, so any loss, repetition or change of order
shows. All MQTT packets have one length, `PacketLen`; what is inside a packet is `MqttHub`'s.

| phase | the connection is | actions |
|---|---|---|
| sniff | in the loop of `handle_public_conn` | `SniffRead`, `SniffEnds` |
| tcp | MQTT behind `SniffedStream` | `TcpRead`, `TcpEof` |
| http | with the HTTP library, its request incomplete | `Upgrade` |
| ws | in the loop of `handle_ws` | `BridgeIn`, `BridgeOut`, `BridgeEnds`; the session reads by `WsReadPending` and `WsReadFrame` |
| dropped, closed | over | |

`ReadPacket` is `Packet::read` finding a whole packet in `read_buf`; `Reading` is its asking for more.
`Reply` is `write_packet`, which over WebSocket makes frames of `FrameMax` bytes (`Written`), and `SessionEnds`
any way out of the session's loop. A read ends where the buffer has no room: `room` is any number up to `ReadMax`.
`select!` may drop a read that has not completed; since a read completes in one poll, nothing is lost with it, and
the model has the read as one action. `opening` is what the first bytes are: a CONNECT as `is_mqtt` expects it, one whose
remaining length takes two bytes, an HTTP request, or neither. TLS and the HTTP library are transparent:
`sent` starts again at the upgrade. A client that opens with a request waits for the upgrade before it sends frames. A frame may be empty,
which the reader takes for the end of the stream (`WsReadFrame`).
The module stands beside `MqttHub` and is not composed with it: what they share is the end of a
session, which each may take at any time.

### MqttSession

`MqttHub` has what sessions share and no time; this module has one session and its clock. `pc` and `out` say where it is:

| pc | the session is | actions |
|---|---|---|
| connect | waiting for its first packet | `ReadConnect`, `NoLink`, `PeerClosed` |
| refused | answering a CONNECT of version 5 | `EndRefused` |
| loop | in `select!`, or writing an answer | `ReadEcho`, `ReadAck`, `ReadEnd`, `ReadPublish`, `ReadUnsubscribe`, `ReadSubscribe`, `Forward`, `Timeout`, `PeerClosed`, `RouterCloses` |
| subscribe | inside SUBSCRIBE | `Filter`, `FilterFails`, `Replay`, `EndSubscribe` |
| ended | over | |

`out` is the packet being written: `Write` when the socket takes it, `WriteFails` when it cannot. A peer that does not
read lets neither happen until TCP gives it up. `idle` is how long the read of the loop has waited; `Tick` is a unit of time, and waits for a
session whose deadline has come, as a timer fires before the clock moves on. The history variables are the client's:
`asked` (what waits for an answer), `view` (what the codes told it it holds), `recent` (identifiers seen), and
`silent`, how long it has sent nothing. The queue and the link are numbers of messages, which of them is `MqttHub`'s.

### PushLog

`Push` and `Send` are the two halves of `PushLog::push`, one mutex around both. A page is `OpenPage`, `ServeHistory`
(`recent_n`), `ShowHistory`, `Clear` and `ClearRows`, `ClosePage`; its stream is `Subscribe`, `Receive`, `Lag`,
`StreamFails` and `Reconnect`, in any order with the history, as the page's script starts both. An entry is its number in the ring's
order. `got` is what the stream has delivered since it was opened, `rows` what the page shows.

### PushApi

| pc | the push request is | actions |
|---|---|---|
| idle | not there | `Ask` |
| lookup | parsed; the first snapshot, for an alias | `LookUp` |
| check | the second snapshot: `Checks`, in the order of the code | `Check` |
| publish | in the loop over its keys | `SkipPart`, `PublishKey`, `Reply` |
| answered | done | `Close` |

A parameter is the sequence of its comma-separated parts; a JSON object is the empty sequence. `Feishu` and `Weiding`
say which webhook kinds give a title or a content, not what the text is. `Retain` is `Vec::retain`, by the
recursive function `Sift`; `Names(e)` are the names an entry answers to. The effect of a publish on the hub is `MqttHub`'s.

A panel request `h` is an update `op[h]` of the configuration, in the two steps of `ConfigStore::update`: a clone of the list with
its change, and the clone becoming the list (`Save`), or not (`SaveFails`).

| pc | the panel request is | actions |
|---|---|---|
| idle | not there | `CheckEntry` (`api_keys_add` up to its update), `DraftDelete` (`api_keys_delete`), `DraftOther` (`api_keys_update`, and every other setting) |
| checked | between the snapshot of `api_keys_add` and its update | `DraftEntry`, `SaveFails` |
| draft | with a clone | `Save`, `SaveFails` |

Notes are left out, so `api_keys_update` is the update of a setting: it writes back the list of its clone. `gone`, `barred`, `owners` and
`overlapped` are histories: what was deleted while no other update had it in its clone, what of that was deleted when a request came,
which keys its alias has named since, and which names were found free while another update was to list them (and are listed, or to be, ever since).

### IpAllow and Lifecycle

`IpAllow` has no state: `ipv4_match` is the mask arithmetic of `auth.rs` on `Width` bits, `Covered` what a CIDR
means. `Power` is the power of two that a shift makes, and `IsEntry` what a line of the list parses as. `Lifecycle` follows main by `phase`:

| phase | main is | actions |
|---|---|---|
| down | not there | `Start`, `EditByHand`, `PlaceFiles` |
| tls, tls load | at the message port's certificate | `EnsureMessage`, `LoadMessage` |
| panel tls, panel load | at the panel's | `EnsurePanel`, `LoadPanel` |
| spawn, bind | starting the listeners | `Spawn`, `BindPanel`; `BindPublic` in the task spawned |
| up | serving the panel | `Connect`, `Save`, `CertGenerate` |

`job[w]` is a run of `generate_self_signed`, by the start or a panel request: per file `OpenFile` (which truncates) and
`WriteFile`, or `GenerateFails`. A file holds the key pair it was made with, or is missing or cut. `Crash` is any end
of the process. `disturbed` and `found` are histories: whether the last generations overlapped or were cut off, and what the files
were at the start, while no other has been made since.

## Runs

| run | shows |
|---|---|
| `hub_counted` | counts exact for well-behaved TCP clients; a positive count means a link or a session on its way out |
| `hub_wild` | with clients that subscribe twice, unsubscribe what they never held, or are aborted, a router that refuses and a switch that turns: no message falls between queue and live delivery, none is replayed twice, replay keeps the order, the queue keeps its limit |
| `hub_live` | what a session holds is written or the session ends; a counted subscriber drains the queue while the switch is on |
| `session` | a client that sends any packet, stalls and goes: answers in order, codes that tell what is subscribed, fresh identifiers, a session ended for silence neither early nor never |
| `push_api` | a push of each kind against two updates at once: replies are true, webhooks come through, deleted keys stay out unless an update under way puts them back, aliases reach their owner, a name is listed twice only by updates that overlap |
| `push_log` | ring, stream and page together: latest entries, in order, and delivered |
| `lifecycle` | starts, stops and crashes under all settings considered: matching files, one certificate for both services, exact masks, a start that comes up or ends |
| `store_serial` | one update at a time, with failures and crashes: file never torn, cache = disk, refinement of `AtomicConfig`; updates, session key and count survive all but a start that cannot read the file |
| `account` | two requests at once, from an empty or an official account: the documented rate of failed logins, no lock without cause, no old password revived but by an update under way |
| `transport` | bytes cut anywhere on either side: none lost, repeated or displaced, the protocol found whatever the cuts, packets read |
| `hub_ws_leak` (violated) | an aborted WebSocket session stays counted |
| `store_race_torn` (violated) | two updates at once can leave a truncated `data.json` |

Further counterexamples, each a `.cfg` with one property that TLC finds violated, for `tlc -config account_setting.cfg MCPanelAccount` and the like.
They show findings and are no part of the regular runs:

| cfg | module | property | shows |
|---|---|---|---|
| `hub_twice` | `MCMqttHub` | `SubscriptionsCountConnections` | a topic subscribed twice by one session is counted twice |
| `hub_off` | `MCMqttHub` | `OffReplaysNothing` | with the switch off, what was queued before is still replayed |
| `store_race_lost` | `MCConfigStore` | `CacheLosesNone` | two updates of two settings at once: the later undoes the earlier |
| `store_unread` | `MCConfigStore` | `KeyOnFirstRun` | a start that cannot read a good file replaces it by the defaults and a new session key |
| `account_setting` | `MCPanelAccount` | `SettingKeepsPassword` | the update of another setting puts an old password back |
| `account_upgrade` | `MCPanelAccount` | `UpgradeKeepsPassword` | so does an upgrade that verified the old password |
| `account_install` | `MCPanelAccount` | `InstalledOnce` | two installations at once both succeed |
| `transport_empty` | `MCTransport` | `EofMeansClosed` | an empty frame of an open client is read as the end of the stream |

All of these are disagreements of the code with its comments or its README. The other findings in `PROJECT.json`
quote what they disagree with, and name the line, and where one models it the action, that shows it.

Bounds, and why they are enough:

- Two sessions: every interleaving of the hub is about one session against another, or
  against one publisher. Slots are reused, so a reconnect meets leftovers.
- Two topics and requests with two keys in `hub_counted`; one topic elsewhere, since no action
  relates two topics but the loops over a packet and a request.
- `MaxMsgs` 1 to 3 messages per source: two overtake each other, three overflow a queue of limit 1 or 2 twice.
- `MaxCount`, `MaxConns` cut what leaked counts would let grow for ever; they are
  above what the clients of a run can reach without a leak.
- Two publishers at once are left to the proofs; the runs have one
  publisher and, in `hub_live`, a publishing client.
- Session: one push key and a name that is none, in one SUBSCRIBE, so that a packet has a refused and a granted filter and a code between two edits
  of the whitelist; identifiers of 1 and 2, so that they wrap in three messages; keepalive 0 and one that is replaced, deadlines of 1 and 5 units, so that one runs
  out while the other does not; silence counted to 2, past one and a half of the longest keepalive.
- Push API: two keys and one alias, and a list of two entries, which holds a duplicate, empty at the start or with one bare key (`Bare`). Each
  request in `Sent` differs from another in one check or in the keys it reaches; of the webhook kinds there are three, and `HooksGoOut` is proved for all.
  Two updates, interchangeable, change the list between the two snapshots and meet every race of two clones of it; one push, since pushes share nothing here.
- Push log: ring and channel of two, a page of three rows and five entries, so that each overflows twice; two
  writers for one mutex; one page, since pages share only what they read.
- Lifecycle: addresses of three bits, on which every prefix, 0 and 3 included, and one too long are tried; one port taken by
  another program; two panel requests, so that two generations overlap each other and neither the start; four key pairs, two on the disk or served and one for each generation.
- Store: two settings of two values, two updaters in the racing cfgs, as many inodes as can be
  open or named at once, two session keys, two pushes.
- Account: two requests, one user name, two passwords (the old one and a new one); a lock of two
  seconds after two failures and a clock of four, so that a lock is earned, expires and is earned again.
- Transport: two packets of three bytes each way of cutting them, with reads and frames of one or two
  bytes, so that a packet spans reads and frames, a frame spans packets and a prefix spans both; one empty frame on its way at a time; one reply, of two frames.

`CHECK_DEADLOCK FALSE` in the transport and session runs, where a connection ends, and in the hub runs: when the message bound is spent and no slot may
connect the model stops, and so may a server nobody talks to.

Fairness:

- `hub_live`: weak fairness of `SessionStep` and `PublishStep`, because tokio polls
  every task that is ready and these steps wait for nothing outside the process but the
  socket; strong fairness of `Forward`, because `select!` picks at random among its ready
  branches. A peer is assumed to read or to go away: `write_packet` has no timeout of its
  own. Nothing is assumed of what peers, publishers or the panel begin.
- `session`: weak fairness of `SessionStep`, for the same reason; of `Write` or `WriteFails`, because TCP takes a packet or gives a
  silent peer up; of `Timeout` and `Tick`, because timers fire and time passes.
- `transport`: weak fairness of the session's reads (`ReadStep`) and of the two directions of the bridge, whose
  `select!` starts each poll at a random branch.
- `push_log`: weak fairness of `StreamStep`, the generator behind an open event stream.
- `lifecycle`: weak fairness of `BootStep` and `BindPublic`: main and the task it spawns go on. Nothing makes the process start.

## Properties

Hub:

- `SubscriptionsCountConnections`: the comment of the `subscriptions` field, as an invariant.
- `OnlineIsReachable`: why it is sound to publish without queueing when the count is positive.
- `HandoverLosesNothing`: a message left in the queue behind a subscriber that has already taken
  the queue has reached that subscriber live, or is about to. It holds because SUBSCRIBE links before it
  takes, and `publish` stores before it routes, and fails if either order changes. The price is
  a duplicate: the same message is replayed to the next subscriber.
- `ReplayedOnce`, `QueueBounded`, `ReplayNotOvertaken`: what replay and eviction promise.
  A *live* message can still come after replayed successors, when it is evicted from the
  queue between link and take; `ReplayNotOvertaken` is about the replayed ones.
- `HeldIsWritten`, `QueueDrainsToSubscriber`: progress; the second while the switch is on, as the README promises nothing of it otherwise.
- `OffReplaysNothing`: what the README promises of the switch being off; violated by `hub_off.cfg`.

Session:

- `AnswersInOrder`: MQTT matches answers to requests by kind and identifier; replays and forwarded messages come between.
- `ViewIsSubscribed`: the codes of a SUBACK are from the snapshot its filters were handled with. It fails if a code looks at the whitelist again.
- `IdsNotReused`: two places count one identifier, which wraps and must skip 0.
- `PunctualKept` and `SilentIsReaped`: the two directions of the deadline. The second holds only when nothing is routed to the
  session, because each round of `select!` makes the timeout anew (see the findings).

Push API:

- `AliasReachesOwner`: what two snapshots of one list may do to one request.
- `DeletedStaysOut`: no push that comes after a deletion was saved reaches the key. Two things bring it back: its being added again, and an update that had it
  in its clone at that moment. It says that nothing else does, in particular no update that begins later.
- `TwiceOnlyIfOverlapped`: a name is listed twice only if it was found free while another update was about to list it: two additions at once, or
  a stale clone that brings the name back; and only as long as it stays listed, or about to be, from then on.
- `RepliesAreTrue`: a refusal publishes nothing, not even to keys before the refused one; success of one key means it was published.
- `HooksComeThrough`: a webhook is not refused for the object its content is. One whose `title` is an object is: no documented kind has that.

Push log: `RingIsLatest` (also under pushes at once), `StreamInOrder` (order, no entry twice, none skipped that the channel still
keeps), `EntriesReachStreams` (progress). What a page *shows* can hold an entry twice, once from history and once from the stream, and
has the history in the opposite order (see the findings).

Lifecycle: `PairMatches`, `StartLeavesPair` and `ServedIsDownloaded` relate the two files, the running services
and what is downloaded over starts, crashes and generations; `ComesUp` is progress; `WhitelistIsPrefix` compares the masks with `Covered`.

Store: `DiskNeverTorn`, `NoLostUpdate`, `CacheIsDisk`, `SavedKeepsKeyAndCount`, and `SavedIsAtomic`, the
refinement of `AtomicConfig` with the mapping `saved <- OnDisk.set`. What they excuse is one step, the rename of a start that could not read
a good file; `KeyOnFirstRun` excuses nothing and is violated by `store_unread.cfg`. `CacheLosesNone` is the half of `NoLostUpdate` about memory,
which two updaters violate (`store_race_lost.cfg`).

Account:

- `RateLimited`: five failures lock for three minutes, read as a rate that no interleaving of
  requests may exceed. It fails if the mutex is released during the verification.
- `LockEarned`: the other direction, no lock without its failures, none longer than it should be.
- `PasswordIsLastSaved`: which password opens the panel after installs, changes, upgrades and other settings that overlap.
  It allows what the code does although it should not: an update under way when a change is saved may put the password it has verified
  or cloned back. It says that no update that begins later revives an old one.
- `SettingKeepsPassword`, `UpgradeKeepsPassword`, `InstalledOnce`: what the comments promise without that exception; each is
  violated by a cfg of its own, outside the regular runs.

Transport:

- `StreamIntact`: at every moment the packets, the read buffer, the rest of the prefix and of the frame, the channel and
  the wire together are what the client sent, in order. It fails if a reader keeps the rest of nothing it was given.
- `RepliesIntact`: the same for what the session writes.
- `ProtocolFound`: the decision depends on the opening, not on how it arrived.
- `EofMeansClosed`: an open client is never taken for a closed one; violated by an empty frame (`transport_empty.cfg`).
- `PacketsAreRead`: a packet sent whole is read, even if no more bytes follow it.

Each module but `AtomicConfig` and `IpAllow`, whose state is not their own, has a type invariant `TypeOK`; that of `PushApi` is stated
with its proof. The hub's is in a run, because that a count stays a natural number under any UNSUBSCRIBE is a question about the code;
the others are theorems only.

## Proofs

`MqttHub_proofs`, for any number of clients, publishers and topics:

- `TypeCorrect`: `Spec => []TypeOK`. `TypeOK` alone is not inductive: `CountSubscription` counts
  `cur[c]`, which must be a topic. `TypeInv` adds that (`CurInv`), and the like for a publisher's key.
- `CountsAreExact`: for `WellBehaved` constants (no WebSocket slot, no second SUBSCRIBE, no foreign UNSUBSCRIBE)
  every count is exact. The strengthening `HoldInv` says what a session in the middle of a packet
  holds: the filters still to do and the one being counted are not in its set, those
  of an UNSUBSCRIBE are. Each step then adds one session to one set or removes it,
  and the cardinality follows (`CountUp`, `CountDown`, `CountSame`).
- `OnlineReachable`: with `LinkInv`, a held topic is linked unless the session is leaving it;
  an exact positive count gives a holder.
- `ConnectionsExact`: without WebSocket slots the connection counter is the number of live sessions, by the same count of a set that
  gains or loses one member; no assumption on what clients send.
- `QueuesBounded`, `EachReplayedOnce`, `HandoverIsSafe` and `ReplayKeepsOrder` assume nothing of what clients do: they may
  subscribe twice, unsubscribe what they do not hold, or be aborted. `QueuesBounded` needs, with the types, that a
  publisher about to store has a limit above zero (`LimitInv`, in `JobInv`). The other three follow from `MessageInv`:
  a message is nowhere before it is routed or queued (`SourceInv`, `FreshInv`), which makes it new to a queue that it joins; queues and
  replays ascend per publisher, and a replay is earlier than what its topic has queued since (`QueueInv`); for a session linked
  and past its taking of the queue, every queued message has reached it or is in the hand of its publisher
  (`SyncInv`, which is where link before take and store before route are used); and what a session may still be replayed after a later
  message of the same publisher, it has been written or routed before that one, unless the router refused it (`InboxInv`, `WroteInv`).

`ConfigStore_proofs`:

- `TypeCorrect` needs no assumption beyond the constants'.
- `SerialDiskNeverTorn`, `SerialCacheIsDisk` and `SerialSavedIsAtomic` assume `Serial`: there is one
  updater. `store_race_torn` shows that the first is false without it, and `store_race_lost.cfg` the loss of updates. The invariant `SerialInv` says that one
  actor at most is at work (`OneActor`), what each status means for boot and updaters (`StatusInv`), that
  only that actor has a file open and that what it renames is what it drafted (`FileInv`),
  and that the draft differs from the disk by the field being set, or is the defaults of a start that could not read it (`DraftInv`).
- `SerialLosesNoUpdate` and `SerialKeepsKeyAndCount`, under `Serial` too. `ValueInv` allows the disk to be ahead of what was acknowledged in
  one field, between rename and acknowledgement; `KeyInv` says that every draft carries the key on the disk and a count between the saved
  and the live one, the boot's draft included unless it could not read them. Both theorems name their one exception, the rename of such a
  start, in the property (`expected`, `Replaces`); `store_unread.cfg` shows it.

`PanelAccount_proofs`, for any number of requests, users and passwords and any limits:

- `TypeCorrect`: `TypeOK` with `ReqInv`, what a request carries by its kind.
- `PasswordLastSaved`: `SavedInv` adds that every update under way is `Harmless`: what it carries is among the good passwords, and what an
  install or a change has drafted is what it was to save.
- `LoginRateLimited` and `LockIsEarned` from `GuardInv`: a login between check and record holds the
  mutex and finds no lock (`HolderInv`); failures are in the order of the clock (`OrderInv`); and the
  count is either all the failures since the last success or those after a pause of `LockSecs`, which is
  the expired lock, or, while a lock is remembered, it is zero and the last failure locked (`CountInv`).
  `RejectedGuardInv` is the step that matters.

`Transport_proofs`, for any lengths and bounds:

- `TypeCorrect`: `TypeOK` is inductive; the work is in the lengths that slices and reads leave behind.
- `ProtocolIsFound`: from the decision of `SniffRead` alone, once the phase is known to be final.
- `StreamIsIntact` and `RepliesAreIntact`: `PlaceInv` says which of the places that hold bytes are empty in which phase; `Intact` is the
  property itself with the places named. Each action moves bytes from one place to the next in the concatenation, and a lemma about two
  neighbours (`Moved`, `Joined`) says that the whole is the same. `FlattenSeq` is recursive in the community modules: that it
  exists, appends and splits (`FlattenIs`, `FlattenAppend`, `FlattenConcat`, `FlattenHead`) is proved by induction over lengths, as is that
  the frames of a reply are its bytes (`WrittenIs`). Empty frames are included.

`PushLog_proofs`, for any capacities, writers and pages:

- `TypeCorrect`: `TypeOK` is inductive; the work is in the rows, which are cut from reversed histories.
- `RingLatest`: inductive with the types; appending to a full ring is the arithmetic of a shifted window.
- `StreamsInOrder`: what is sent is what was logged, in its order, but for the entry of the writer that holds the mutex (`SentInv`); a stream has got
  nothing from its position on (`GotInv`), so the next entry is larger than all it has, and it has skipped none of those kept (`KeptInv`).

`MqttSession_proofs`, for any packets, keepalives, grace and any largest identifier:

- `TypeCorrect`: `TypeOK` is inductive, with the widths of the clocks from the assumption on the constants.
- `FreshIds`: `IdsNotReused` is not inductive. `RecentInv` says that the identifiers remembered are the last ones
  counted down from `pkid` (`Earlier`, the circular predecessor), and the distinctness of a whole cycle follows by arithmetic.
- `Punctual`: with `SilentInv`, a session that has waited `idle` for a read has a client silent at least that long; the assumption
  on the constants, that silence is counted past one and a half keepalives, keeps the bound `MaxSilent` out of the way.
- `InOrder` and `ViewExact` from `RequestInv`: the requests that wait are those among the packets on the wire that expect an
  answer, in order, behind the one at work (`OrderInv`, by the relation `Sifts`); an answer is that of the first (`AnswerInv`);
  a SUBSCRIBE has a code for each filter handled, and the rest to do (`HandlingInv`); what is subscribed is what the client knows, with what
  the answer at work will tell it (`ViewInv`).

`PushApi_proofs`, for any requests, keys, aliases and numbers of pushes and panel requests:

- `TypeCorrect`: `TypeOK` is inductive; `SiftIs` gives the equations of the recursive `Sift`, by induction over the list, and `RetainIs`
  says where the elements that remain come from.
- `DeletedStays` from `OutInv`: what is gone is not listed nor in any clone but that of an update that adds it (`Clean`), and what was gone when a
  request came is not among what it will publish.
- `AliasReaches` from `OwnerInv`: what the alias names now is among what it has named since the request came, whichever of the two snapshots is read.
- `TwiceOnlyOverlapped` from `TwiceInv`: in the list and in every clone, two entries share a name only if they overlapped (`Apart`), and so does an
  addition that has been checked with what is listed by then or about to be.
- `RepliesTrue` from `ReplyInv`, which says of each request what it has published: the keys before its position that are not empty, in order.
- `HooksGoOut` from `HookInv`, and that each documented kind has its words where `third.rs` looks for them.

`Lifecycle_proofs`, for any settings, key pairs and number of panel requests:

- `TypeCorrect`: `WriterInv` adds that a writer at work has a pair, and that main waits for its own generation.
- `FilesMatch`: `FilesInv` says that undisturbed generations are alone, and what the two files are at each step of one (`Progress`).
- `StartKeepsPair` and `DownloadIsServed` from `FoundInv`: what the files and the boot's job are, phase by phase, when the start found two files
  (`Kept`), when a file is missing and no pair was asked for yet (`NotYet`), while one is made (`Making`) and after (`Made`).
- `WhitelistExact`: `VisitorInv` keeps the last visitor admitted while settings are saved. The rest is arithmetic, for every width: a number is its
  bits (`NextQuotient`), two numbers with the same bits from the k-th on have the same quotient by 2^k (`HighBits`, by induction downwards from
  the width), and the mask has exactly those bits (`MaskBits`). The equations of `Power` and its laws are proved by induction too (`PowerIs`, `PowerSum`).

Induction over numbers is `AllNumbers` in the three modules that need it: a set of numbers that has 0 and with n also n + 1 has
all, because the numbers are well-founded (`WellFoundedInduction`). It speaks of a set and not of an operator, and each use defines the set it is about.

Every safety invariant and every action property of the passing runs is a theorem, some under hypotheses the runs' constants meet: `WellBehaved`, `Serial`.
Only model-checked is liveness: `HeldIsWritten`, `QueueDrainsToSubscriber`, `SilentIsReaped`, `EntriesReachStreams`, `ComesUp`, `PacketsAreRead`. Its
proofs would reason about ENABLED, which the installed provers do not.

## Not modelled

- HTML pages but for the log page's script; the texts of messages, and the Markdown that webhooks are translated to: formatting
  without state. `api_setting_message` changes two texts of the banner.
- The HMAC of a cookie, bcrypt and MD5, TLS handshakes, the HTTP library: external, taken as transparent or as ideal.
- `public_panel`, with which the message port serves the panel's routes too; the panel connections of `Lifecycle` come to the panel's own port.
- The router's own limits (connections, segment size).
- A power loss, as opposed to the end of the process: the code never calls fsync.
- The packaging: shell glue around a container engine.

## Plan

Done: every component with state of its own has a module, a run and proofs of all its safety properties. Left:

1. A refinement of `MqttHub`'s session by `MqttSession`, whose queue and link would have to hold messages.
2. Which hypotheses can be weakened: `CountsAreExact` with WebSocket clients that are never aborted; the store's
   file, with two updaters, is torn only if they overlap.

Small modules are checked together where they interact (`IpAllow` with `Lifecycle`, the page with `PushLog`), so that a run
stays a question about the system.
