# A TLA+ model of ChiJie

ChiJie (`src/`) is a forward gateway written in Go. A client names, in request
parameters or a JSON body, the target it wants and how to get there (region,
pool, node class, premium, TLS fingerprint); the gateway chooses nodes from
pools that come from files or from subscriptions, tries them one after the
other, and keeps a record of what it did. Health checks, subscription refreshes
and an Admin API change those pools while requests run.

This directory holds the specification of its stateful parts, the TLC models
that check them, and the theorems TLAPS proves about them.

## 1. Inventory

| Component | Source (`src/internal/...`) | State | Operations |
|---|---|---|---|
| Node health | `pool/health.go`, `pool/manager.go` | `NodeEntry{Enabled,Alive,FailCount}` in `Pool.Entries`; `Manager.pools`; the checker's defaults and options | a round of probes (`checkAll`), a probe and its result, a manual test, `MarkNodeUnavailable`, `SetNodeEnabled`, `UpdateDefaults`, replacement of entries by a refresh or a reload |
| Subscription pool | `pool/manager.go`, `status.go`, `subscription.go`, `subscription_cache.go` | a pool's entries and failure flag, `subscriptions.json` | `RefreshSubscription`, `LoadFromFile` (fetch, cache, restore, keep the previous nodes, swap), restart |
| Subscription updater | `pool/manager.go` 1085-1141, `admin/api.go` | `updaterCancel`, `updaterWG`, one goroutine per pool with an interval | start, stop, tick, refresh, exit; called by edits, reloads, main |
| Egress selection | `pool/manager.go` 355-910 | round-robin counters | candidate groups by region, class, pool, node, premium; templates; `try_offline`; strategies |
| Proxy requests | `server/server.go`, `redirect.go` | one request: route, attempts, response | resolve the egress, attempt after attempt, mark a failed node, hop to another gateway, record the trace |
| Tunnels | `server/tunnel.go` | two connections and two relays per tunnel, the counter of connected ones | raw tunnels and WebSocket, refuse or open, relay, tear down, record |
| Traffic store | `traffic/*.go` | ring of traces, writer's queue, files on disk | record, group, fold, flush, rotate, load, close |
| Admin API | `admin/api.go`, `yaml_io.go`, `traffic_api.go` | `nodes.yaml`, `gateway.yaml`, `fingerprints.yaml`, `fileMu`, the running configuration | edits of pools, nodes, node metadata, fingerprints and settings; switches; reload; refresh; login |
| Login limiter | `admin/login_limiter.go` | failures and lockout per address | allow, record a failure, reset |
| TLS fingerprints, HTTP/2 | `fingerprint/*.go` | one connection per request, frames of one stream | send the request, read the response |
| Dialers | `dialer/*.go` | none of its own (sing-box) | connect through SOCKS, HTTP, Shadowsocks, VLESS, ... |
| Name resolution, address guard | `dnsresolver`, `netguard` | none | look up, refuse private addresses |
| Tokens | `auth`, `server/auth.go` | none | verify |
| Logging, helpers | `util` | a level | |
| Gateway process | `cmd/gateway/main.go` | | order of start-up and shutdown |
| Web console | `web/` | browser state | |

How they interact:

- **Shared objects.** `Manager.pools` maps names to `*Pool`. Everybody takes the
  pointer under `m.mu` and keeps it after the lock is released: refreshes across
  a fetch of up to 45 seconds, `MarkNodeUnavailable` and `SetNodeEnabled`
  between two locks, probes on single entries across a network round trip. A
  reload builds new objects and swaps the map, so that the old ones live on in
  the goroutines that still hold them.
- **Calls.** The Admin edits a file under `fileMu`, then calls `LoadFromFile` and
  restarts the updater; `handleReload` does so without `fileMu`; `addNodePool`
  does not restart the updater; settings are put into use after `fileMu` is
  free, a node's switch and the log level before it is taken. The proxy calls the manager to choose candidates
  and to give a node up.
- **Goroutines.** One health loop, its probes; one updater goroutine per pool
  with an interval; the HTTP handlers; the trace writer; two relays per tunnel.
- **Persistence.** `nodes.yaml`, `gateway.yaml`, `fingerprints.yaml`,
  `subscriptions.json` (each written to a temporary file and renamed); one
  traffic file per day, written through a buffer.

What is hard: a probe, a refresh or a mark that lands after the world it started
in was replaced; two fetches that end in the other order; a crash between a
fetch, its write and its use; one address of several failing; restarts of the
updater that overlap; an attempt that fails after the target has handled it; a
trace that is numbered under one lock and queued under another; two relays that
end in either order; a file that is edited while it is reloaded; logins that are
compared at once; header blocks that come in pieces, before and after the one
that counts. Section 8 and the list of hazards in `PROJECT.json` give the lines.

What makes each part correct:

- *Node health*: records never contradict themselves; only an answered probe
  revives a node; a node that answers is used again, a dead one is taken out.
- *Subscription pool*: a failure is visible and takes no nodes away; the cache
  is not behind the nodes in use; the updater catches up with the source.
- *Updater*: restarts that do not overlap leave one goroutine per pool with an
  interval and none leaked, and return; what overlapping ones break is confined.
- *Egress selection and requests*: candidates in the documented order, attempts
  bounded, no retry once the target has answered for good, a caller that leaves
  costs one node at most, a usable node is not missed.
- *Tunnels*: each ends unless a peer stops reading for ever, is counted once and
  recorded with all it carried; the last word of a side that closes arrives.
- *Traffic store*: no trace lost but by a crash, the disk or its age; order kept;
  numbers fresh; close returns; the views of the dashboard agree, also when the
  page shows less than there is.
- *Admin API*: no edit is lost; success means that file and process agree; no
  edit puts an alias on a second server or leaves a node a second one; every
  request is answered.
- *Login limiter*: the wrong passwords of an address are bounded in every span.
- *HTTP/2*: the request sent is the caller's whatever the fingerprint lists; a success is the whole answer; the
  timer for headers is honest; nothing stalls that fits the windows.

## 2. Plan

| Module | Models | State |
|---|---|---|
| `NodeHealth` | health records under the checker, requests, the Admin, refreshes and reloads | done, proved |
| `SubscriptionService` | what a subscription pool promises (abstract) | done, implementation proved |
| `SubscriptionPool` | the pool in detail, shown to implement it | done, proved |
| `SubscriptionUpdater` | restarting the goroutines that refresh | done, proved |
| `EgressSelection` | candidate lists as operators | done, except strategies |
| `ProxyAttempts` | requests over `EgressSelection` | done, safety proved |
| `TrafficLog` | what the store promises of its files (abstract) | done, implementation proved |
| `TrafficStore` | ring, queue, writer, files, crash; shown to implement it | done, safety proved |
| `TrafficView` | totals, rows and series of the dashboard, rules and their merging | done, proved with `Sessions` |
| `Sessions` | requests and tunnels that leave traces, over `TrafficView` | done, proved |
| `ConfigFiles` | what each edit makes of a file | done |
| `LoginLimiter` | the table of failed logins | done, proved with `AdminServer` |
| `AdminServer` | handlers over `ConfigFiles` and `LoginLimiter` | done, safety proved |
| `HTTP2Request` | settings and header fields of a fingerprint | done |
| `HTTP2Exchange` | one request and its answer, frame by frame | done, proved |
| `EgressStrategies` | round-robin counters over lists whose length changes | left |
| `HealthLoop` | `Start`, `Stop`, `Wake` and the timers, composed with the rounds of `NodeHealth` | left |
| `ChijieHops` | gateways that are each other's template and the hop header | left |

The order was: what decides which node a request gets first (health,
subscriptions, selection, attempts), then what persists (traces, configuration
files), then the protocol of one connection (tunnels, HTTP/2).

Composition:

- `ProxyAttempts` extends `EgressSelection`, whose operators it applies to what
  it read; its actions `Check` and `MarkAttempt` stand for the actions of
  `NodeHealth` that change `Alive`.
- `SubscriptionPool` implements `SubscriptionService`, and `TrafficStore`
  implements `TrafficLog`, each by INSTANCE with a refinement mapping.
- `Sessions` extends `TrafficView`: the traces that tunnels and requests leave
  are what the dashboard counts. It keeps them all; what becomes of them in the
  ring and the files is `TrafficStore`.
- `AdminServer` extends `ConfigFiles` and `LoginLimiter`. A load of pools in it
  takes an arbitrary outcome of those `SubscriptionPool` allows; restarting the
  updater after an edit is `SubscriptionUpdater`.
- `HTTP2Exchange` extends `HTTP2Request`: the fields that are sent are those the
  operators build.

Nothing but those three modules is left of the plan. Liveness stays with TLC.

## 3. Modules and code

### NodeHealth

One named pool. A Go pointer outlives what `m.pools` names, so the model keeps
Pool objects (`pools`) and entry slices (`slices`) apart and numbers them in the
order in which they are built; `current` is the one in the map, `published` those that
were, and a probe holds the slice and node it started on. An `Entry` is a
`NodeEntry` with `present` for "listed" and the ghost field `marked` for "given
up by a request since its last success".

| Action | Code |
|---|---|
| `StartRound` | `checkAll`: targets and options are captured before the first probe |
| `AnswerProbe`, `ApplyProbe` | `probeNodeConnectivity` ends; `updateNodeHealth` on the captured entry, whoever owns it now |
| `StartTest` | `TestNodeConnectivity`, which compares with the compiled-in threshold |
| `UpdateDefaults` | the run-time `max_fail`, read by the next round |
| `MarkNodeUnavailable`, `SetNodeEnabled` | on a Pool object looked up earlier, hence any published one |
| `RefreshSubscription` | a new slice in the same Pool object |
| `BeginLoad`, `BuildFresh`, `BuildPreserved`, `FinishLoad`, `AbortLoad`, `AddPool` | `LoadFromFile`: note the old pool, build (or keep the old entries with their health), swap |
| `ToggleNode` | environment: a node starts or stops answering |

`newNodeEntry` builds every entry alive (`manager.go` 1225), whatever was known of
the node before, and the updater refreshes a subscription pool for ever
(`manager.go` 1115). A dead node of such a pool comes back with every refresh and
is offered to requests until enough rounds have failed with it again. `DeadIsDetected`
therefore speaks of entries in use that from some time on are no longer replaced,
whichever slice they are in; of a pool that goes on being refreshed it says nothing.

### SubscriptionService and SubscriptionPool

`SubscriptionService` has four variables an operator can see: is the process up,
the nodes in use, the failure flag, the nodes on disk. `SubscriptionPool` has the
calls: a task is one `RefreshSubscription` or `LoadFromFile` in progress, holding
the Pool object it noted at its start. Content is abstracted to the version each
address of the url had when it was fetched. Three ghosts say what a failure flag has
to be true to: `heard` is what the source answered to a call, `last` and `brought`
are the result of the last attempt that ended on a Pool object and what it brought.
`FailureVisible` compares flag and nodes of every object with them.

| Action | Code |
|---|---|
| `BeginRefresh`, `FetchAddr`, `SaveCache`, `ApplyRefresh`, `FailRefresh` | `RefreshSubscription`: `Fetch` goes from address to address without a lock; the cache is written before the entries change; success and failure set the flag |
| `BeginLoad`, `BuildFetched`, `BuildRestored`, `KeepPrevious`, `Swap`, `Abort` | `LoadFromFile`: `buildPool`, restore from the cache, `preserveSubscriptionEntriesOnError`, the swap under `m.mu` |
| `Crash` | the process ends anywhere; only `subscriptions.json` stays, which is replaced by a rename and so never half written |
| `Publish`, `Turn` | environment: the provider's list changes; an address answers with nodes, with an empty document, or not at all |

### SubscriptionUpdater

Every step of `StartSubscriptionUpdater` between two locks is an action of a
caller: `Cancel`, `Wait` (and `Wake`, when the last `Done` releases it), `Start`,
`Spawn` for each pool, `Return`. The kinds of caller differ in what they hold:
edits `fileMu` throughout, `handleReload` nothing, `addNodePool` only loads,
main only stops. A goroutine is `Tick`, `Refreshed`, `Exit`; `select` may pick
the tick although its context is done. `sync.WaitGroup` is modelled from its
documentation: a waiter that is released and finds the counter in use panics.

Callers of every kind are in the run at once. Two ghosts tell what the code's
locking leaves apart: `overlapped` are the callers that another restart has
overlapped outside `fileMu`, and `served` is what the last restart that none
overlapped found in `m.pools`, and None after one that was.

### EgressSelection and ProxyAttempts

`EgressSelection` has one operator for each function that turns what is known of
nodes and templates into a list: `TemplateChoices`, `OfflineEntries`,
`EgressCandidateGroup`, `PremiumCandidateGroup`, `ProxyAttemptRoutes`.
`EntryOrders` is the set of orders a strategy may return: all of them.

`ProxyAttempts` is the request: `ReadEntries`, `ReadOffline`, `ReadTemplates` (or
`ReadAny`) are the critical sections of `resolveEgress`, between which others
change who is alive; `FinishPass` looks at the residential class when the
ordinary one gave nothing or premium was asked for. An attempt may fail to
connect, be given up at once, or receive a status and then a body, lose the
body, or (from another gateway) receive that gateway's error. A status that is a
redirect to follow is none to the caller: `FollowRedirect` goes on with the next
address inside `client.Do`, at most `max_redirects` times, and what fails there fails
as the first address would have. `Judge` is the question `doProxyWithRetry` asks of
`isRetryableProxyAttempt` (`server.go` 562), `MarkAttempt` the next line, which gives
the node up without asking again, and `Retry` the second look at the context; the
caller may leave before each of them. `steady`, `replied` and `doomed` (the candidate
that had been judged when the caller left) are ghosts.

### TrafficLog and TrafficStore

`TrafficLog` is the promise: a trace handed to the store is saved, and is missing
only with an excuse (its day has run out, or the disk or a crash hit the file of
that day). `TrafficStore` keeps the locks apart: `Store.mu` covers id, time and
ring, `closeMu` the queue.

| Action | Code |
|---|---|
| `Record` | `Store.Record` up to the unlock: prune, number, append or overwrite |
| `Enqueue`, `Send` | `enqueue`: the read lock on `closeMu`, the send that blocks on a full queue while holding it |
| `Snapshot` | the prune that every reader of the ring does first |
| `UpdateConfig`, `UpdateRetention` | the settings under `Store.mu`, then the writer's retention and its prune under another lock |
| `Rotate`, `RotateFails`, `Write`, `WriteSplit` | `writeTrace`: another day's file, an open that fails, a line into the buffer, a line that pushes the buffer out and is itself cut in two |
| `Flush`, `FlushFails`, `EndWriter` | the ticker, an error that bufio keeps from then on, the drain and the deferred flush |
| `BeginClose`, `CloseQueue`, `CloseReturns` | `close` asks for the write lock, closes the channel, waits for the writer |
| `Restart` | the process ends anywhere; `NewStore`, `EnablePersistence`, `loadRecent`, with or without its directory |
| `NextDay` | the clock |

A line glued to a torn one cannot be read (`glued`, `torn`); an open file that a
prune has removed swallows what is flushed to it (`linked`). `hurt` and `floor`
record the excuses.

### TrafficView and Sessions

`TrafficView` has the three loops of the dashboard (`Metrics`, `DisplayTraces`,
`BuildSeries`), each with its own notion of failures seen before, and the merging
of rules (`MergeGroupingRule`, `MergeFoldingRule`). A loop is a recursive function
over the traces, newest first, and one turn of it is an operator of its own
(`CountTrace`, `PlaceTrace`, `BucketTrace`). A row is its key, the number of traces
it stands for and whether the totals leave it out. A url is a scheme, a base and a
sequence of parameters (a folded success goes by the base alone, a failure by the
whole url), and `NormalizeURL` drops and sorts as the code does: sorting
happens only when something is dropped or a rule asks for it, and it goes key by
key, so that the parameters of one key stay in their order (`Encode`). `Traces(limit)`
in `Sessions` is what `Snapshot` hands to the page: all traces to the totals and the
series, the newest `limit` to the rows. A folded or repeated failure may be beyond
the limit, so that the rows say less than the totals then, but never more.

| Action of `Sessions` | Code |
|---|---|
| `Reject`, `EgressFails`, `Answer` | `handleProxy` and the start of `handleTunnel`: with or without a trace |
| `OpenFails` | blocked, unreachable or refused target of a tunnel; a WebSocket tunnel without an answer is recorded with status 101 and an error |
| `Open`, `CloseBoth`, `TunnelClosed`, `RecordTunnel` | the handler of a connected tunnel: the counter, both connections closed after the first relay, the wait for the second, the deferred calls in their order |
| `Read`, `ReadEnds`, `Write`, `WriteFails`, `Cut` | one relay, message by message; a write that was under way when the connections were closed may have been made |
| `PeerSends`, `PeerCloses` | environment |

No write of a tunnel has a deadline (`tunnel.go` 180, 193, 311). A peer that stays
connected and reads no more holds its relay in `Write` for as long as nothing else
closes the connections; `Stuck` is that state.
| `AddGroupingRule`, `AddFoldingRule`, `Tick` | the Admin adds a rule; the minute |

### ConfigFiles, LoginLimiter and AdminServer

`ConfigFiles` has, for each kind of request, which files `Refused` it and what an
accepted one makes of the file (`Edited`): a static node's own switch, the list
of disabled nodes, aliases and labels kept by name and by server. A server stands
for a `server:port`. Which node is at which server is part of what a source lists
(`Listings`) or of a static node's entry (`Home`), so two nodes may share one and a
refresh may move a node; a pool of the running process has its configuration, the
switches of its nodes (`own`) and their servers (`at`). A request for metadata may name
the server of another node, one the node has left, or none, in which case the
handler takes the node's (`KeysOf`).
`LoginLimiter` is the table of `login_limiter.go`: `AfterAllow`, `AfterFailure`
with the removal of stale entries, `AfterSuccess`.

| Action of `AdminServer` | Code |
|---|---|
| `Take` | a request arrives in a goroutine of its own |
| `SwitchNode`, `SwitchLog` | `SetNodeEnabled` and `SetLogLevel`, before the file is touched |
| `Lock`, `EditRefused`, `Save` | `fileMu`, the read, the checks and early returns, the rename |
| `LoadSaved`, `LoadFails` | pools and fingerprints are loaded under `fileMu` |
| `Apply` | settings are put into use after `fileMu` is free |
| `ReloadRead`, `ReloadSkip`, `ReloadApply`, `ReloadEnds` | `handleReload`, section by section, without `fileMu` |
| `Refresh` | `RefreshSubscription`: new entries or an error |
| `LoginAllowed`, `PasswordCompared` | the two critical sections of a login |
| `Restart`, `Tick` | the process starts on the files it finds; the limiter's clock |

`raced` and `keys` are ghosts: another request had a hand in the same section
meanwhile; the servers the request meant when it was accepted.
`guesses` counts the wrong passwords compared for an address since its first one
after a login or a restart.

### HTTP2Request and HTTP2Exchange

`HTTP2Request` translates what `http2_transport.go` makes of a fingerprint:
`Settings` and `WindowUpdate` (an unknown setting is dropped, a number that does
not parse is 0, later settings win), the order of the pseudo headers, and
`HeaderFields` (header lines of a profile, its order, the caller's own values,
forbidden names). Of several agents of the caller the first is sent, and the
default where it is empty (`Values`). A profile is any list of lines: one may name a header twice, leave a
pseudo header out or put it behind ordinary ones, as `buildHTTP2HeaderFields` does
nothing against it. The model has what it sends then: each line gets all the values,
a pseudo header the lines lack is added behind them, and one that an order lacks is
not sent. `HTTP2Exchange` is `RoundTrip` on a connection of its own. `MaySend`
says when the server's next frame may go: data only within both windows.

| Action | Code |
|---|---|
| `Dial`, `WriteFrame`, `StartRead` | `dialTLS`; settings, window, headers and the whole body are written before anything is read; the deadline for headers |
| `ReadSettings`, `ReadHeaders`, `ReadContinuation`, `ReadData`, `ReadRefusal`, `ReadIgnored`, `ReadEnds` | the loop of `readHTTP2Response`; every complete block replaces the status |
| `HeaderTimeout`, `TotalTimeout` | the two deadlines |
| `ServerReads`, `ServerSends`, `ServerCloses` | environment: a server that follows the protocol, never sends more data than its windows allow, and may answer early |

## 4. Runs

| Run | Shows |
|---|---|
| `nodehealth_probes` | A proxied and a direct node, probes, tests, marks, switches, changing thresholds: records stay coherent, a node that answers is used again, one that does not is taken out |
| `nodehealth_reload` | The same while refreshes and a reload replace slices and Pool objects: only an answered probe revives, and a dead node is taken out once its entries stay |
| `subscription_single` | One call at a time, two addresses, all configurations, crashes: implements `SubscriptionService`; the cache is not behind the nodes in use |
| `subscription_overlap` | The updater beside a load or manual refresh, a disk that may refuse a read or a write: every Pool object is shown as failed just when the last attempt on it failed, and otherwise has just what that attempt brought; once the source stays reachable the pool gets the newest nodes for good |
| `subscription_emptied` | *Violated*: finding 1 |
| `updater` | Two edits, a reload, an added pool and the shutdown in every order: only restarts that overlap outside `fileMu` leak goroutines, meet a WaitGroup in use or wait in vain; after every other one each pool it found has exactly one goroutine |
| `proxy_all` | Every combination of options: documented order and limits, no usable node missed, a status that is no redirect to follow is final, leaving costs one node at most, every request ends |
| `traffic_store` | Two handlers, two days, a stop or crash and a restart, a failing disk: implements `TrafficLog`; the queue is not used once closed; the ring is in order, also after a load; numbers are unique; everything settles |
| `sessions` | Two requests and a tunnel: counted while connected, recorded once it is over and in full, the last word arrives, it ends unless a peer stops reading for ever; the three views of the traces agree under every configuration the rules lead to, on a page that shows two of three traces; adding a rule only joins groups |
| `admin` | Two requests at a time, eight workloads, servers that nodes share or move between, failing saves and loads, a restart: no edit is lost, success means done, no edit makes aliases ambiguous, guesses are bounded, every request is answered |
| `http2` | Six fingerprints, orderly and not, four requests, answers with interim blocks, pieces, trailers and noise: the request is the caller's, a success is the whole answer, the header timer is honest, only an answer beyond the windows stalls |
| `http2_status` | *Violated*: finding 2 |

`TypeOK` of `ProxyAttempts`, `TrafficStore`, `Sessions`, `AdminServer` and
`HTTP2Exchange` documents the state and is not among the properties of a run.

### Bounds

- *NodeHealth*: thresholds 1 to 3 around the compiled-in 2 make "above one limit,
  below another" happen; `MaxCount` stops failing requests from counting past the largest
  threshold, after which nothing in the code tells counts apart. Two Pool
  objects and three slices give a probe on the current slice, on one replaced by
  a refresh and on one replaced by a reload; two loads in
  progress at once do not fit (more than five million states); that they keep
  the records coherent is `HealthRecordsCoherent`, which holds for any number of
  loaders, Pool objects and slices. In `nodehealth_reload` the bounds also end the
  refreshes; `DeadIsDetected` holds only from where they end, and says so.
- *SubscriptionPool*: two addresses (one fails, the other does not) with two
  versions where calls do not overlap, a reliable disk there, since a cache that
  was not written is behind. Where they overlap, one address, whose empty
  document is a success, and two calls, hence three objects: one current and one
  noted by each. Objects nobody holds are reused.
- *SubscriptionUpdater*: two edits, which `fileMu` keeps apart, and one caller of each
  other kind; three contexts, so that leaked goroutines of one restart are beside
  those of two later ones. Every caller calls again and again, and a restart that
  finds no context free waits. One pool, which has an interval or not; more pools are
  left to the theorems.
- *ProxyAttempts*: one node of each kind the code tells apart (type direct,
  premium, residential with `try_offline`), a premium gateway template serving
  both classes and an ordinary one of higher priority; two attempts by node, so
  that three candidates exceed the limit; two redirects by attempt. One slot is reused by request after
  request; other requests act on it only through who is alive, which `Check`
  changes at any time. The number of requests is arbitrary in the theorems.
- *TrafficStore*: two handlers are enough to enter the queue out of the order of
  their numbers; a queue of one is full with the first trace; rings of one and
  two overflow; two days and retentions of one and two make a file expire while
  it is open; two lives give a load. `MaxID` bounds the traces of one life. About
  780,000 states, two and a half minutes.
- *Sessions*: one message each way and one tunnel are all a relay tells apart
  (nothing in the code relates two tunnels but the counter, which the theorem
  covers for any number). Two requests for the same page, with the parameters in
  another order and different tokens, are what grouping is for. The page shows two
  traces of three, so that one is beyond its limit. About @SESS@ states.
- *AdminServer*: two handlers, up to three requests of a workload whose members
  meet in a file, so that one overlaps with two; two nodes and two servers, one
  listing with a server for each and one where both are at the second, so that a
  request may name the server of a node, of the other, of both, or one that its
  node has left; a limit of two wrong passwords with up to five logins, a window of
  one tick and a lock of two, a clock of five ticks, so that a window and a lock
  both end while logins go on. About 360,000 states, two and a half minutes. With the window longer than the lock the bound of
  `GuessesBounded` follows the lock instead; its formula has both.
- *HTTP2Exchange*: windows of one to three units against answers of none to three
  and a body limit of two reach each of: fits, stalls, too large. One answer
  never ends (`MCUnfinished`) and leaves the client waiting. Two frames under way
  let a writer block. Fingerprints: a preset, an Akamai string, a captured profile,
  one with header lines only, and two that put pseudo headers behind others, leave
  one out or name a header twice. About @HTTP@ states.

### Fairness

- The checker's loop starts rounds for ever and each probe has a timeout: weak
  fairness of `StartRound` and of each probing goroutine. (That `Wake` may
  postpone rounds for ever is listed as a hazard and belongs to `HealthLoop`.)
- The updater's calls go on because its HTTP client times out after 45 seconds.
  Loads and manual refreshes are not fair in `SubscriptionPool`.
- A caller of the updater that has begun goes on. A goroutine's exit is strongly
  fair: `select` picks among ready cases at random, so that it does not take the
  tick for ever.
- A request goes on: it waits for no lock for long and the client of an attempt
  has a timeout.
- Handlers that record, the writer and a close that has begun go on
  (`TrafficStore`); files that cannot be opened or flushed are never fair, and
  weak fairness of the writer is enough because its `select` is random.
- The handler and the relays of a tunnel go on, but for one thing: a write to a
  peer that has not closed is not fair, because the peer may never read and the code
  sets no deadline. Such a relay keeps the tunnel for ever, and `TunnelsEnd`
  promises the end of all the others.
- A handler of the Admin goes on with the request it has: weak fairness of
  `Serve(h)`, not of each of its steps. `fileMu` needs no more because requests
  are bounded in number; a Go mutex is fair to a waiter after a millisecond.
- `HTTP2Exchange` has no fairness: `NoStall` says that the client or the server has
  a step to take, timers aside. `StallFree` spells out when, and `GuardsSuffice`
  that the actions ask for no more.
- Users, the Admin, sources, nodes, peers, servers and crashes are never fair.

## 5. Theorems

All hold for every value of the constants that satisfies the named assumptions
of the modules; the bounds are constants, too. Where a theorem needs more, its
ASSUME says so, and the assumption is part of what is claimed. The hypotheses
are types of what is sent to the handlers and listed in a fingerprint, finiteness,
and for two theorems about `SubscriptionPool` that calls do not overlap. The constants
of the runs satisfy them, those of the overlapping runs of that module excepted:
there `subscription_emptied` shows what overlapping calls do.

- `NodeHealthProofs`: `TypeCorrect`, `HealthRecordsCoherent`. The invariant
  `TypeOK /\ HealthRecordOK` is inductive as it stands because it speaks of all
  slices, orphans included: a probe may land on any of them. The lemmas say that
  every way of making or changing an entry keeps the record coherent, whichever
  admissible threshold it is compared with. `RevivalNeedsAnswer` is an action
  property over all slices; it adds only that slices not yet made list no node
  (`RevivalInv`), or making one would revive something.
- `SubscriptionPoolProofs`: `TypeCorrect`, `FailureStaysVisible`, for any number of
  overlapping calls, disk faults and crashes. `TypeOK` says what a call holds at each stage
  (a call that has saved something holds nodes unless there is a single
  address), which `FailureVisible` needs for the pool a load has built and not
  yet swapped in, and that what a call has heard from the source is what it is about to
  show (`heard` at each stage). `OneCallKeepsPromises` is the implementation of
  `SubscriptionService`, `OneCallKeepsCache` that the disk is not behind. Both assume
  that calls do not overlap (`OneCall`): run `subscription_emptied` shows what two
  calls do. `CallInv` relates what the one call holds to the nodes in use and on
  disk; `AgeInv` adds that versions on disk, in use and on their way were served,
  and that none on its way is older than the one in use. The second also assumes that
  the disk does not fail.
- `SubscriptionUpdaterProofs`: `TypeCorrect`, `OnlyOverlapsPanic`, `OnlyOverlapsLeak` and
  `RestartsCover`, for any number of callers of every kind; none of them assumes
  anything about who calls. What a reload without `fileMu` breaks is in the
  properties: they say what a restart can rely on that no other overlaps. The
  invariant says that two restarts at once know of each other (`Alone`, which
  `fileMu` gives edits for free), and of a restart that is alone that from its cancel
  on nobody else stores a context (`NothingToCancel`), that nothing runs between its
  wait and its start (`NobodyLeft`), and that it spawns with the stored context
  (`OwnContext`). It says nothing of what earlier overlaps have leaked, which may be there
  all the time. `RestartsCover` needs finitely many pools, to count: `Serving` says
  that no two live goroutines are for one pool, and which pools have theirs while a
  restart starts them.
- `ProxyAttemptsProofs`: `PlainStatusStays` and `LeavingCostsOne`, for any number of
  requests at once and any number of redirects. `PlainStatusIsFinal` is not inductive: an attempt gets back to
  `trying` through `broken`, `judged` and `marked`. `Settled` excludes all four once the
  target has replied, and adds that the answer being read is then not another
  gateway's, whose error alone may lead on from there. For the second, a request that
  is about to give a candidate up after its caller has left had judged it before
  (`KnownBefore`). `PlansStayInOrder` and
  `StayingNodesCount` follow from `PlanInv`, which says of each request what its
  reads so far have seen (`SelectsWell`), that what it has tried and has yet to
  try is one documented plan, and that no node that stayed alive all along goes
  before its first candidate. Half of the proof is about `EgressSelection`: what
  ranking, limiting and joining lists keep of their order and their elements,
  whatever order the pools are walked in. The nodes and templates are assumed
  finite.
- `TrafficStoreProofs`: `NobodySendsOnClosed`, for any number of handlers, and
  `RetentionFollows`, for any number of updaters. The first is inductive as it stands:
  a recorder gets to its send only while the queue is open, and `CloseQueue` waits
  for those that are there. The second is about `WatchedSpec`, the specification with a history
  variable `crossed`: the last update began while another was under way. Two updates
  at once can apply their retentions in the other order (section 6); when the last one
  was alone, the writer has followed. That needs that an update under way goes on to
  apply the retention of the configuration. `FilesKeepTheirPromise` is the
  implementation of `TrafficLog`: `StoreInv` says that each trace is at one
  place, a hand, the queue or the buffer (`OnePlace`), that what the writer may lose
  has its excuse (`Torn`, `Opened`) and that a writer that has ended has written
  everything (`Drained`). `RingStaysInOrder` and `NumbersStayFresh` need the other
  direction, that nothing is twice in the files or in them and under way (`Once`),
  that days go with numbers (`Dated`), and that the ring ends with an unbroken run of
  this process's numbers (`Run`). The lemmas say what pruning, sorting the loaded
  lines and flattening the days do.
- `SessionsProofs`: `TunnelsAlwaysAccounted` and `LastWordAlwaysDelivered`, from
  one invariant. It relates the messages of a relay to how it ended (`RelayOK`:
  one that came to its end has written all there was, one whose write failed has
  one in hand, one that was cut was cut by the handler), says that the first end
  a handler sees is not a cut one (`StageOK`), counts the connected tunnels
  (`Counted`, which needs that `Tunnels` is finite), and says of each trace what
  `TunnelsAccounted` needs after the tunnel is over (`Covers`). That a target's
  last word arrives follows: the other relay cannot have been the first to end,
  having a silent client that is still there. `GroupsNeverSplit` rests on
  `NormalizeAgain`: under a configuration with more rules, or more keys in one of
  them, a url goes where what the old rules made of it goes, so that two urls
  that have been one stay one. That needs what `Encode` and `Keep` do one after the
  other (`KeepTwice`, `KeepEncode`, `EncodeTwice`) and that both merges only add
  (`Extends`), whatever the order of the rules. The parameters are assumed finite, and
  the urls and rules to be of their forms. `ViewsAlwaysAgree` compares the three loops
  over any sequence of traces and any limit of the page. Each is a function that exists (`LoopExists`), and
  the loops are compared turn by turn: totals and rows stand for the same
  traces and have met the same failures (`SameTraces`), and the series has counted
  what the totals count of the traces it keeps (`SameRequests`). What a turn does to
  the sum over rows or buckets is in the lemmas on `SumTo` (`SumStep`, `SumMore`,
  `SumsEqual`). Rows of fewer traces say less because the totals only grow with each
  further trace. That no failure has the key of a folded success is `KeysApart`. The
  invariant says only that rules and urls are of their form and that the minutes
  of traces are within those the clock reaches (`MinutesOK`), or the sum over these
  would leave buckets out.
- `AdminServerProofs`: `NoEditLost`. Between the read of a file and its
  replacement one handler at most holds `fileMu` and the disk holds what it
  read; each other step leaves both alone. It assumes that `Free` is no handler
  and that the files are a function of the sections. `AliasesStayUnambiguous`
  builds on the same invariant: since each save is one edit of the file as it is,
  it is enough that no single edit gives an alias to a second server or a second
  alias to a node, whatever servers it names (`EditOneEach`). That a pool was
  unambiguous before is part of the property, and so is the exception of a pool that
  is sent in one piece, which nobody checks.
  `GuessesStayBounded` adds to the property what makes it inductive: how the
  failures counted for an address, its lock and the handlers that have passed
  `allow` and not yet compared bound the guesses that may still come (`Within`).
  `AnswersMeanDone` follows what each handler has brought about so far
  (`Progress`): who has raced is marked (`Rivals`), and as long as a handler has
  not, the sections it reloaded are in use and the file shows its edit. Both assume
  `TypedRequests` alone: requests are of the kinds there are and, like the pools of
  the first file, have the fields they are decoded to. What a request names, other
  nodes' servers included, is anything.
- `HTTP2ExchangeProofs`: `TimeoutIsHonest` and `BodyIsBounded`. The deadline is lifted
  by the frame that completes the headers, whichever kind it is.
  `StreamsStayIntact`: the server has read some number of the frames of the request,
  the rest of them are under way or unwritten, with acknowledgements among those
  under way (`WireInv`), and what it makes of any beginning of them is known
  (`Heard`). `RequestsStayIntact` adds what `buildHTTP2HeaderFields` makes of a request,
  line by line, for every fingerprint and request of the right types
  (`TypedRequest`, `TypedFingerprint`: a header has values, of whatever number, and
  lines, orders and settings are sequences). What a disorderly fingerprint does to a
  request is in the property: the values under each name are the wanted ones in
  any case, and a pseudo header is missing, twice or late only where the order or the
  lines have it so (`PseudoIntact`, `ValuesIntact`). `AnswersComeWhole` is the same argument for the answer (`AnswerInv`, `ReadAt`),
  where a block that goes on belongs to the fragments kept (`BlockAt`). It rests on
  the assumption that answers are lawful, which the run's are. `NothingStalls` says
  that, until the exchange is over, the client or the server has a step to take if the answer ends
  and fits the windows. `StallInv` adds to the two sides of the wire how far each is
  (`ProgressInv`), that what is left of the windows and what was sent are what the
  fingerprint opened (`WindowInv`). It assumes that the windows are natural numbers.
  `StallFree` is proved outright; `NoStall` follows from it wherever `GuardsSuffice` holds,
  which is about ENABLED and left to TLC.

The provers know nothing of induction for their own sake. `ProxyAttemptsProofs`,
`TrafficStoreProofs`, `SessionsProofs` and `HTTP2ExchangeProofs` get induction over
the natural numbers, for sets instead of predicates, from the well-foundedness of
`<` (lemmas `LeastOne` and `Induction`), and use it to say what the recursive
functions `Keep`, FlattenSeq and the dashboard's loops and sums compute. `Keep`
takes the place of SelectSeq wherever a theorem needs it, because the provers cannot
instantiate an operator parameter.

Only model-checked: liveness (`Recovers`, `DeadIsDetected`, `CatchesUp`,
`StopReturns`, `Ends`, `Settles`, `TunnelsEnd`, `Answered`) and `GuardsSuffice`, the
half of `NoStall` that is about ENABLED: TLAPS cannot prove these.

## 6. Where code and documents disagree

Two runs keep a disagreement on record:

1. **A failed reload empties a pool** (`pool/manager.go` 191, run
   `subscription_emptied`). The load looks at the old Pool object, finds it empty
   after its own failed fetch, and swaps in an empty pool; a refresh that filled
   the old object just before is lost.
2. **Trailers turn a status into 200** (`fingerprint/http2_transport.go` 553, run
   `http2_status`). Every complete header block replaces the status, also the
   trailers after the body, which have none; the caller then gets 200. The same
   replacement is what makes interim responses work.

Others follow from the same models and are described by the actions named:

- Overlapping reloads leak a goroutine (`pool/manager.go` 1090). Two calls pass the
  stop, each stores its cancel function over the other's; the goroutines of the
  first cannot be cancelled, and the next stop waits for them for ever (`Cancel`,
  `Start` of a caller in `overlapped`). A waiter may hang or panic in the same overlap.
- A pool added by the Admin is not refreshed on its interval (`admin/api.go` 364)
  until something else restarts the updater (`Adders`).
- Premium is more than a preference (`pool/manager.go` 906). With no node alive
  and a premium template beside an ordinary one, a premium request is not given
  the ordinary template that a request without premium would use
  (`PremiumCandidateGroup`).
- A status is not always final (`server/server.go` 713). The HTTP/2 transport reads
  the body inside `client.Do`: a body that breaks off after the status is retried
  elsewhere, and the node is given up. Nor is a redirect that is followed
  (`redirect.go` 48): when the next address fails, or the Location cannot be parsed,
  `client.Do` fails although the target has answered, the request is tried elsewhere
  and the node is given up (`FollowRedirect`, `ConnectFails`). `PlainStatusIsFinal` is
  about the others.
- Settings saved last need not be those in use (`admin/traffic_api.go` 122): they
  are applied after `fileMu` is free. A reload may likewise put an older file
  into use. `AnswerMeansDone` leaves out requests that met such a one. Of two such updates
  the writer of traces may also get the older retention (`traffic/store.go` 101).
- An alias need not name one node (`admin/api.go` 594-666). The conflict check
  compares servers, and two nodes at one `server:port` share the alias kept for
  it, one check or not. A request may name another node's server, which then gets the
  alias beside the node it meant. A page older than a refresh names the server the
  node has left: the answer is success, and the alias of the server it is at goes on
  outranking the new one. `MetadataInUse` says what holds beside that.
- A switch of a node that `nodes.yaml` lists for a subscription pool is kept with that
  entry, and the next refresh, which takes nodes from the source, forgets it
  (`pool/manager.go` 1194, 1208, `admin/api.go` 1399). `SwitchInUse` leaves those out.
- A dead node of a subscription pool is offered again after every refresh
  (`pool/manager.go` 1225) until the checker has failed with it often enough.
- A tunnel whose peer stays connected and stops reading is kept for ever, with both
  relays, its handler and its place in `activeTunnels` (`Stuck`).
- The rows of the dashboard add up to less than its totals when there are more traces
  than the page shows (`traffic/store.go` 219; 100 of up to 1000 by default).
- A fingerprint may send pseudo headers behind ordinary ones, twice or not at all, and
  the values of a header twice, if its lines or its order are so
  (`fingerprint/http2_transport.go` 384-414); nothing checks them when they are saved.

## 7. What is not modelled

- *Node health, subscriptions, selection, requests*: the parsing of documents and
  of names into regions and classes; times, intervals and `total_timeout`;
  `max_latency_ms`; switched-off nodes and settings that change during a
  selection in `ProxyAttempts`; the strategies' counters; the addresses a redirect
  leads to; hops between gateways; a second url in the cache file; filters that
  reject some nodes and not others; the health loop's timers.
- *Sessions and traffic*: the content of a trace beyond what the dashboard tells
  apart; the regular expressions of rules (a pattern is the set of bases it
  matches); a tunnel is not relayed through more than one exit. The ring of
  `Sessions` is never full; that of `TrafficStore` is.
- *Admin API*: the export and import of the configuration; the check of the token
  before a handler and its expiry; tests of nodes and fingerprints, which change
  nothing; pools of source direct and template; a pool's own switch and the
  difference between urls when a pool is renamed; region and tags of a node
  apart (they are one label); a `gateway.yaml` that is empty or by hand made
  invalid; the loads that a save triggers in the health checker.
- *HTTP/2*: the bytes of frames and of HPACK (an indexed field is known or not
  known); the requests of other streams, as there is one per connection; padding
  and priorities. ClientHello specifications, JA3 and JA4 are conversions for a
  library. Of the store of fingerprints `AdminServer` has the file and the set in
  use.
- *Not planned*: dialers (the state lives in sing-box), name resolution and address
  tests, token verification (stateless), logging, the web console.

## 8. Hazards

The list in `PROJECT.json` names each hazard at its line with the properties that
would catch it, or why none does. Without a property: the health loop's timers,
which are not modelled; and four where the code does go wrong and no document
promises otherwise or section 6 says so: what premium drops when nothing is alive
(`manager.go` 906), a reload without `fileMu` (`api.go` 956), settings used after it is
free (`traffic_api.go` 122), and an edit that fails to load and stays in the file
(`api.go` 1426).

Hazards of lesser weight that were looked at and are not in the list: a direct
node that a manual test took down stays down until the next one (`health.go` 337);
a partly failed fetch is a success; a cache file that cannot be read is rewritten
with a single url (`subscription_cache.go` 70); a negative interval reaches
`time.NewTicker` (`manager.go` 1113); a node of a `try_offline` pool that revives
between two reads (`manager.go` 579); one round-robin counter for lists that change
(`manager.go` 835); `total_timeout` is given to each attempt (`server.go` 731);
gateways that are each other's template; a restart forgets locked-out addresses;
concurrent updates of the traffic settings (`RetentionFollows`); a trace recorded
after the close is in memory only; a
WebSocket client that vanishes is noticed by a write only; a request body is
written in full before the answer is read; PING is not answered.
