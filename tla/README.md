# Verification of daql

TLA+ modules, TLC configurations and TLAPS proofs about the Go packages of
`xelf.org/daql`. daql is a framework for projects described by schemas: it
keeps data models, evolves them by migrations, queries them, and distributes
changes as events to connected clients. The part with behaviour worth a model
is the last one: an event server that publishes transactions to a ledger and
sends their events to subscribers over a hub of connections. That part is
modelled first and in most detail.

1. [The system](#1-the-system): components, their state, how they interact, what is hard about them
2. [Modules](#2-modules): which module models what
3. [Runs](#3-runs): what TLC checks, with which bounds
4. [Fairness](#4-fairness)
5. [Proofs](#5-proofs)
6. [Where the code differs from its description](#6-where-the-code-differs-from-its-description)
7. [Not modelled](#7-not-modelled)
8. [Plan](#8-plan)

## 1. The system

    websocket clients           one-off requests (hub.Req)
        |  ^                        |  ^
        v  |                        v  |
     wshub: a reader and         a channel of one place
     a writer per connection        |
        |  ^                        |
        v  | Conn.Chan()            v
     hub.Hub  -- Router -->  evt.Server / evt.Satellite / other services
     (one goroutine)         (one goroutine each, a bounded Input)
                                   |            |
                                   v            v
                             Ctrl, Subscribers  Ledger (MemLedger)
                             timer -> Input       |
                                                  v
                                            qry.MemBackend

### Event server (`evt/srv.go`, `evt/ctrl.go`)

State: the ledger; the input channel; the revision of the last broadcast, the
time a trigger was last armed and its timer; the subscriber registry.
Operations, each one message taken by `Server.Run`: `evt.pub` publishes a
transaction, `evt.sat` is the first message of a satellite with its offline
transactions, `evt.sub`/`evt.unsub` and `evt.mon`/`evt.unmon` change
subscriptions and monitors, `_signoff` ends a connection, `_bcast` is sent by a
timer, `_btrig` and `_stop` by a host.
Hard: events reach a client in three ways (the reply to its own publication, the
history of a new topic, broadcasts) and must arrive once; the trigger of a
broadcast is throttled to one per 200 ms and the broadcast itself is skipped
when its revision was sent before, so a lost trigger is silent; timers run on
goroutines of their own.
Correct when: every event of a held topic reaches its subscriber exactly once, a
client may resume from the revision of its last update, a pending event always
has a broadcast on its way, and a connection that left is forgotten, or is at
least never registered again.

### Subscriber registry (`evt/subs.go`)

State: subscribers by connection, by topic and, through monitors, by event
signature; each subscriber's topics, monitors, buffered events and revision.
Operations: `Show`, `Sub`, `Unsub`, `Mon`, `Unmon`, `Bcast`, `Update`.
Hard: three maps and the records behind them are kept in step by hand; slices are
shortened in place while other slices share their array.
Correct when: the maps agree with the records and with what clients were granted.

### Ledger (`evt/ledger.go`, `evt/lit.go`, `evt/evt.go`)

State: the list of events; the backend's records by topic. Operations: `Publish`
gives a transaction the next revision, applies its actions to the records and
rolls back when one fails; `Events` reads from a revision on; `NewMemLedger`
opens a backend; `Merge` makes one action of two.
Hard: revisions must grow strictly on a clock that does not; a failing action
comes after applied ones.
Correct when: the events recreate the records, a revision stands for whole
transactions, and a failed transaction leaves nothing behind.

### Hub (`hub`)

State: the connections by id; a channel of 128 messages. Operations: `Run` routes
each message to the services and, after a signoff, sends nil to the
connection; `Req` is a request from a connection of its own with a timeout;
`Services.Handle` replies on the sender's channel.
Hard: every channel is bounded and nearly every send blocks its goroutine, the
hub's own included.
Correct when: a signoff is the last of a connection, messages keep flowing, and
a late answer harms nobody.

### Websocket hub (`hub/wshub`)

State: per connection a reader and a writer goroutine, a channel of 32 messages
and a context; a client keeps its channel over reconnects. Operations:
`ServeHTTP`, `readAll`, `writeAll`, `Client.run`, `RunWithBackoff`.
Hard: reader and writer end apart and for different reasons.

### Satellite (`evt/sat.go`)

State: a replicated ledger, a controller as the server's, the connection to the
server, requests waiting for an answer, an online status. Operations: local
`pub`, messages of the remote server, local subscriptions.
Hard: two message sources in one goroutine that also sends to itself; offline and
online phases; replies matched by token; connections that end with messages
under way, one after the other on a channel they share.
Correct when: no event is left out between the replicated revision, the history
asked for from there and the next update; a request is answered by what became
of it; the status is that of the connection.

### Migration (`mig`)

State: a manifest with a version and two hashes for the project, its schema and
each model; a history folder with `manifest.json` and a folder per record;
datasets in directories, zip files or memory. Operations: `Versioner` numbers
what changed, `ReadHistory` reads the folder, `Commit` records the current
version file by file, `WriteDataset` copies a dataset.
Hard: models go and come back over many commits; a commit is several writes;
what is in a file is known by its name only.
Correct when: a version stands for one definition for ever, what was committed is
read back in order, and a dataset gives back the rows it was written from.

### Sessions (`ses`)

State: the store's sessions, the codecs, a browser's cookie. Operations: `Read`,
`ReadOrCreate`, `Save`, `Clear`.
Hard: requests overlap, a cookie is sent before the session is stored, codecs
come and go.
Correct when: the cookie a browser holds opens the session it was set for.

### Query backend (`qry/lit.go`, `qry/sel.go`, `qry/spec.go`)

State: lists of records, shared with the ledger. Operations: resolve a query's
selection, order and bounds; execute it on a list.
Hard: selections are edited step by step and fields are replaced in place; a list
is sorted along with another it may be the same as.
Correct when: the answer is the rows the query asks for, in its order.

### Relations (`dom/rels.go`)

State: none beyond a call; `Relate` fills a map from models to their relations
and extends it while ranging over it.
Correct when: each side of a relation lists it, whatever order the map has.

### Others

| component | state and operations | what is hard |
| --- | --- | --- |
| policies (`pol`) | roles with groups, permits and denies; add rules, police | which of several matching rules decides |
| one time tokens (`ott`) | none; generate, validate | days in 16 bits |
| query language, domain declarations | expression resolution over the xelf language | no state of their own |
| code generation, plugins, logging | text, loader, output | no behaviour to check |

`PROJECT.json` lists the components with their files, and under `hazards` each
place in the code where this goes wrong easily and a test hardly reaches.

## 2. Modules

| module | models | state and actions in the code |
| --- | --- | --- |
| `EvtLedger` | events, signatures and revisions, the ledger as the server sees it | `NextRev`, `MemLedger.Rev`/`Events`, the part of `Publish` that appends |
| `UnsubTopics` | the outcomes of `Subscribers.Unsub` on sets of topics | one operator |
| `Subscribers` | the registry | `sub`, `smap`, `tmap`, `mmap` are the maps and the records behind them; `Update`, `Shown`, `Sub`, `Unsub`, `Mon`, `Unmon` are the methods |
| `EvtServer` | the server, the controller and its timers | one action per subject; `SatBegin`, `SatPublish`, `SatFails` and `SatEnd` cut `Server.sat` where a timer can fire; `WindowCloses` and `TimerFires` are time and the timer goroutine |
| `EventFeed` | the abstract feed: what a client is promised, without buffers and timers | none; `EvtServer` implements it (`Feed`, an instance with the client's view of the server) |
| `Satellite` | the satellite on its reconnecting client, with the hub between and the server at the other end | `Dial` to `SignsOff` is `RunWithBackoff` with `run` and `readAll`, `Writes`/`WriterEnds` is `writeAll`, `Routes`/`Parts` is the hub, `HandlesLocal` and `handleRemote` are the two inputs, `Sends` what a handler waits to send |
| `EvtServerProofs`, `EvtFeedProofs` | theorems about `EvtServer`: types, triggers and registry; what clients are sent and the refinement of `EventFeed` | |
| `Hub` | the hub, server side websocket connections, one-off requests and a service over bounded channels | `SignOn` to `SignOff` is `ServeHTTP` with `readAll`, `Write`/`WriterEnds` is `writeAll`, `CallerSends`/`CallerReturns` is `Req`, `Take`/`Deliver`/`Part` is one turn of `Hub.Run`, `Handle`/`Reply` is `Services.Handle` |
| `MemLedger` | the memory ledger on its backend | `Publish` with `applyEvent`, its reverts and `insertEvents`; `Open` is `NewMemLedger` on a used backend |
| `UnsubLoop` | the loop of `Unsub` on Go slices that share an array | one action per turn of the loop |
| `SigsToWatch` | `sigsToWatch` with its pointers into a growing slice | one action per signature |
| `EvtMerge` | `Merge` and `MergeDeltas` on actions of any signature and command | operators |
| `RulePolicy` | policies built from rules and what they decide (`pol`) | `Add`, `Police` and what they call, as operators |
| `TokenDays` | the validity of a one time token in days (`ott`) | operators |
| `MigHistory` | versions, manifests and the history folder (`mig`) | `Open` is `ReadHistory`, `Commit` to `WriteProject` is `Commit` cut at each write, `Edit` and `Stops` are the user |
| `Backups` | datasets and streams (`mig/dataset.go`) | `WriteDataset` from memory or from files; reading is operators |
| `Sessions` | the session manager, its codecs, cookies and store (`ses`) | one action per method, `Rotate`, `Forget` and the browser's end |
| `ListQuery` | queries on lists (`qry`) | `Exec`, with `reslSel`, `evalOrd`, `orderFunc` and the rest as operators |
| `Relations` | `Relate` (`dom/rels.go`) | `RelationsInit` is its first loop, `Intermediate` a turn of the second |
| `HubProofs`, `SatelliteProofs`, `MemLedgerProofs` | theorems about `Hub`, `Satellite` and `MemLedger` | |
| `Lists` | the elements of a list that meet a condition, for the models that filter one (`Only`) | none of its own |
| `SequentialProofs`, `DataProofs` | theorems about the components without goroutines; the second about `Relations` and `ListQuery` | |
| `SeqLemmas` | what the proofs use of sequences and of `Only`; induction over numbers and lists, and definition by recursion | |
| `MCEvtServer`, `MCMemLedger`, `MCAlgorithms` | instances for TLC | `MCAlgorithms` follows one of the components without goroutines in each behaviour |

How they compose: `EvtServer` extends `Subscribers`, which extends `EvtLedger`
and `UnsubTopics`. `UnsubLoop` shows that the loop on slices ends in exactly the
outcomes `UnsubTopics` lists, which lets the registry keep a subscriber's topics
as a set. `EvtServer` takes the last message of a connection to be its signoff;
`Hub` shows that this is what the hub delivers (`SignoffLast`). `Hub` in turn
has a service that answers at most once per request, after an update that waited,
and sends at any time to its subscribers, which is how `EvtServer` uses
connections. It keeps subscribers as the registry does: any connection that asks
for a topic or a monitor, of the one-off callers the first as they share an id, and
after a signoff those whose topics or monitors `UnsubTopics` leaves (`stays`). `Satellite` takes
of the server at the other end what `EventFeed` promises: a history answers with
everything since a revision, the sender of a publication gets what was buffered
before its own event, a broadcast gets the rest. `Backups` has `MemBackend`,
whose lists `ListQuery` queries, as the dataset in memory.

What is abstracted:

- Event arguments, users and audit entries: no subscriber tells them apart.
- The order of a subscriber's buffer and of a topic's subscribers: sets and
  multisets. The lists of monitors by signature keep their order, since
  `dropMon` removes the first that matches.
- The input channel of the server: requests are taken from the connections
  directly, in any order, which covers every order the channel can hold.
  Queued `_bcast` messages are counted.
- Time: the 200 ms window is open or closed, an armed timer of an open window is
  not due. The clock is a set of readings, below and between milliseconds.
- In `Hub` a subscriber's topics and monitors are whether it has any (`subs`) and whether
  it has more than a signoff drops (`stays`).
- In `Satellite` an event is its revision and topics are left out. What a server had
  received of a lost connection is handled before the next one is accepted.
  Requests are well formed. The replica is the host's; it never fails.
- In `MigHistory` what is hashed for a model is a pair of contents, one for each hash.
  A project has one schema, which never goes. The numbers of a version are written
  in a base of the instance, so that they gain a digit soon.
- In `Backups` a stream's rows are one value; a write that fails leaves any of the
  files it was to write, complete. An archive written onto itself and streams that end in
  the middle give an error, an emptied file is a stream without rows.
- In `Sessions` a token leads to its session through the codec that made it; the
  store gives each session a new id and `New` does not fail. `Provider` within
  another one is left out. The configurations all have the same codecs.
- In `ListQuery` a field's value is a number and comparisons and conditions do not fail.
  A selection that comes down to no field lists the rows whole (lit.go:143), a key before
  the first mark does nothing (sel.go), and a bound below zero is none: all
  three as in the code, whose comments do not speak of them.
- `SatBegin` is taken by a connection that has no subscriber: `evt.sat` is the
  first message on a satellite's connection.

Some constants choose between the behaviours of the code and a host's:
`Dispatch` is the service table of the loop (see 6.1), `Internal` the messages a
host sends, `Transient` the one-off connections, `LedgerFails` lets `Events` and
`Publish` fail, and `LateHistory` lets a client ask for history that the code
holds back (see 6.6). A history variable (`got`, `mark`, `since`, `gone`) is what
a client can know.

Operators with a comment *Mutant of X* are X as a plausible mistake would have
it. No action uses them; replacing X by one must break the property named in
`PROJECT.json`, which shows that the property watches that line.

## 3. Runs

| run | bounds | shows |
| --- | --- | --- |
| `evt_feed` | 2 connections, 2 topics, 3 events, transactions of 1 and 2 actions, one satellite batch of 2 transactions | `ExactlyOnce`, `Watermark`, `OnlySubscribed`, `RegistryAgrees`; every broadcast flushes (`BcastFlushes`); the server implements `EventFeed` (`ImplementsFeed`) |
| `evt_trigger` | 2 connections, 1 topic, 2 events, 1 monitor each on a key and on new records, a satellite transaction, failing ledger, `_stop` | `NoLostTrigger` and the invariant `TriggerInv` of its proof; `NotesFlagged`; `SignoffOutcome` |
| `evt_live` | 2 connections of which one is one-off, 2 events, 2 overdue timers and 2 queued broadcasts, `_btrig`, a clock that jumps | `EventuallySent` under fairness; `MarkGrows` |
| `hub` | a websocket client, a one-off caller, channels of 1 and 2 places | `SignoffLast`, `ConnsKnown`, `NilAfterSignoff`, `LateReplyFits`; `MessagesFlow` and `RequestsReturn` under fairness |
| `mem_ledger` | 2 topics, 2 keys, 3 events per opening, 2 openings, transactions of 1 and 2 actions, failing ones among them | `Recreates`, `WholeTransactions`, `OneTakenBack` |
| `satellite` | 1 request, 3 events, 3 connections, channels of 1 to 3 places | `UpdatesComplete`, `AnswersTell`, `StatusFollows`, `FirstWriterStays` |
| `algorithms`: `evt` | up to 5 topics in any order, requests of up to 2; up to 5 signatures of 3 topics; records of 2 fields and 2 signatures | `LoopOutcome`, `WatchesFaithful`, `MergeFaithful` |
| `algorithms`: `pol`, `ott` | policies of 3 rules; days of 3 bits up to day 20 | `AssociationsAnywhere`, `ValidDays` |
| `algorithms`: `mig` | 2 models with 3 contents each, 3 commits, base 2; 2 directories and an archive, 2 models with 2 streams, 2 versions, 2 writes | `VersionsIdentify`, `ReadsBack`, `BackupFaithful` |
| `algorithms`: `ses` | 2 sessions, 2 codecs, 2 overlapping requests, 2 rotations, a header and a cookie | `CookieOpens` |
| `algorithms`: `qry`, `dom` | lists of up to 3 rows of 2 binary fields, any up to 3 declarations, up to 2 order keys, bounds from -1 to 2; 3 models in 2 schemas with up to 2 fields | `QueryAnswers`, `RelationsMirror` |
| `evt_unsub_all`, `evt_dispatch`, `hub_stuck`, `mem_rollback`, `sat_replicates` | as above | a description the code does not meet, section 6 |

Why the bounds are enough for what they are used for. Subscribers are
independent but for the sender of a publication, which differs from the others:
two connections show both roles, and with symmetry either may play either. Three
events are needed for a transaction of two after or before another one, which
is the least in which a revision could split a transaction, a history could
overlap a buffer and a broadcast could come between. Two topics separate an
event that is held from one that is not. `OnlySubscribed` and `RegistryAgrees`
hold in `evt_feed` because it has two topics: from three on they fail (6.2), and
`evt_unsub_all` has three. Of the cases they leave out `evt_trigger` has monitors, on
one topic; `SignoffOutcome` on three topics and more is proved (`SignoffIsFinal`), and
`algorithms` runs the loop of `Unsub` that it depends on with up to five. In `evt_trigger` two events suffice: one a broadcast
sent and one it has yet to send. `MaxLate` bounds the timers that are overdue and the
broadcasts that wait. With one of each the next window opens while an old timer
has not fired, with two (`evt_live`) a second one overtakes it. In `hub` a circle of waiting
needs full channels only, so small ones show all; with a capacity of 2 one place
is filled by another goroutine between two sends. A second caller
would be one that finds the first stored; the theorems of `HubProofs` have any number. In `mem_ledger` three events
let a key be created, deleted and created again, and the second opening
separates old records from new events. A policy of
three rules has an association between two others; days of 3 bits wrap around
twice before day 20 as those of 16 do before day 140000. In `satellite` three
connections let a nil left over from the first end the second one's writer and
its successor still connect, and three events are one in the history, one lost
and one that comes after. Three commits are what a model needs to be there, be removed and
come back, and in base 2 the third may gain a digit. Two writes copy a dataset
on. A second codec is introduced and the first dropped while a cookie of either
is out. Three rows are what a stable order by two keys needs to be told from
others; in three declarations a field is taken, given up and taken again. Three models
are two related ones and one in between.

Deadlock is not checked: the models stop when their bounded events, connections
or openings are used up.

What each property says is at its definition. The ones to read first:

- `ExactlyOnce`: what a client holds the topic of was sent to it once or
  waits in its buffer once.
- `Watermark`: nothing a client is owed up to the revision of its last update
  is still on the server, so a client may resume from there.
- `NoLostTrigger`: until the server is stopped, a subscriber with newer events or
  notes has a timer armed or a broadcast queued, and that broadcast's revision
  was not sent before.
- `ImplementsFeed`: each step of the server is a step of the feed, in which a
  client that is sent anything is brought up to date.
- `UpdatesComplete`: whatever is lost with a connection, the replica has every
  event up to its revision but those the server sent in answers, which do not get
  through (6.5).
- `VersionsIdentify` and `ReadsBack`: what a recorded version stands for, and that
  it is found again.
- `CookieOpens`: a browser's cookie works as long as its session and its codec do.
- `SignoffOutcome`: who a signoff leaves registered, and that nothing that comes later,
  such as the end of a satellite's request, changes that.
- `MessagesFlow`: hub, service and connections never wait for each other in a
  circle, as long as the hub runs and nobody waits to send to a full connection that
  nobody drains (`Abandoned`). Both exceptions are needed: `hub_stuck` shows what a
  writer that ended does, and a stored caller that returned does the same (6.9).
- `Recreates`: the records follow from the events and the records the ledger was
  opened with.

## 4. Fairness

`evt_live` (`FairSpec` of `EvtServer`): `WindowCloses` is time passing;
`TimerFires` is `time.AfterFunc`, which runs its function once due (in the code
it may then wait for room in `Input`, which the server goroutine makes);
`HandleBcast` is the server goroutine taking its next message: a queued
message is taken once those before it are, and the channel is first in, first
out. `SatPublish` and `SatEnd` are the rest of a handler that has begun. No
fairness is assumed of clients.

`hub` (`FairSpec` of `Hub`): goroutines that can go on do. Sends have strong
fairness, because Go serves the senders that wait on a channel in the order they
came, so one is not overtaken for ever while room comes and goes. A reader
of a closed socket returns and a writer notices its cancelled context. Nothing
is assumed of clients: they need not send, close or stay. A caller of `Req`
sends, as it has nothing else to do. `HubStops` and the disjuncts of `Write`
and `ReadEnds` that end a goroutine are never forced.

## 5. Proofs

The theorems hold for all values of the constants that meet the named assumptions
of the modules: sets of the right kind, bounds that are numbers, and what is
said below of a single one. Each is proved from an inductive invariant: the
property itself is hardly ever inductive. An action has a lemma or a step of its
own, with a step below for each part of the invariant it can disturb.

### The event server

`EvtServerProofs` (`ServerAssumption`, `BoundsAssumption`, `MsAssumption`):

- `TypeCorrect`: `TypeOK`, inductive by itself. Lemmas give the type of
  each operator of the registry: `Update`, `Shown`, `Filter`, `DropMon`,
  `Orphaned` and `UnsubOutcomes`.
- `NoTriggerLost`: `NoLostTrigger`. That an armed timer's
  broadcast will not be skipped needs `bcast` to lag behind the ledger
  whenever something is pending, which after a publication follows from
  revisions growing strictly (`LedgerLeads`); that `Btrig` may drop a trigger
  needs the open window's timer to be still to come (`WindowArmed`); that only
  events of the ledger wait needs `BuffersLogged`; that `Show` reaches
  registered subscribers only, through topics and monitors, needs
  `OnlyRegistered`; and a satellite's request that is half done has published
  events nobody was shown yet (`SatAhead`). The conjunction is `TriggerInv`, which TLC
  checks too (`TriggerAlways`).
- `RegistryConsistent`: `OnlyRegistered /\ BuffersLogged`, from the same invariant.

`EvtFeedProofs` is about what clients were sent. It begins with a lemma for each
operation on what it does to a subscriber's topics, monitors, revision and buffer
and to what its client was sent; the proofs of the invariants use these and
not the operations.

| theorem | property | invariant besides `TypeOK` and `TriggerInv` | under |
| --- | --- | --- | --- |
| `MarksNeverGoBack` | `MarkGrows` | `MarksBehind`: no client is told a revision the ledger has not reached | |
| `NotesStayFlagged` | `NotesFlagged` | `NotesInv`: the flag is set as long as a monitor has notes, registered or not | |
| `NothingBehindTheMark`, `BroadcastsFlush` | `Watermark`, `BcastFlushes` | `FreshInv`: what waits is newer than its subscriber and its client's mark, and so is what a satellite being served has published | `~LateHistory` |
| `OnlyTheSubscribed`, `RegistryAlwaysAgrees` | `OnlySubscribed`, `RegistryAgrees` | `HeldInv`: the topics of a record are those its client was granted, the topic map agrees, and only held topics wait | `~LedgerFails`, `[]FewTopics` |
| `SignoffIsFinal` | `SignoffOutcome` | `SatStays`: a satellite being served has not signed off | finitely many topics |
| `EveryEventOnce` | `ExactlyOnce` | `HeldInv`, `OnceInv`: an event that is owed was sent or waits, once; one not yet shown is nowhere | `~LedgerFails`, `[]FewTopics` |
| `ServerImplementsFeed` | `ImplementsFeed` | `FeedInv`: all of the above | `~LateHistory`, `~LedgerFails`, `[]FewTopics` |

The hypotheses are where the code breaks the property, and each is one of section 6:
without `~LateHistory` a subscriber's own history is passed over (6.6); a ledger
that fails in the middle of `Sub` leaves the topics granted and their
events unsent; `FewTopics` says that no subscriber holds three topics, or two and a
monitor, as long as `Unsub` may be asked to give up all of them (6.2, which
`evt_unsub_all` shows with three).
All states of `evt_feed` meet them. `FewTopics` is about states and not about what clients
ask: it excludes any client that holds three topics, or two and a monitor, also one
that always names the topics it gives up, because its signoff names none. Hosts whose
clients hold one topic meet it, and those with two and no monitors.
`SignoffIsFinal` needs none of this: it speaks of the cases the others exclude, and
says what is kept in them. The loop of `Unsub` keeps something just of three topics and more
(`NoneKept`), and the steps after a signoff leave its registration as it is because
no message comes after it and no satellite is half served at that time.

The last part of `EvtFeedProofs` maps the steps of the server to those of the feed: `Pub` to
`Publish`, `SatPublish` to `PublishOffline`, `SubReq` and `SatEnd` to `Subscribe`
or, if no topic is new, to a step that changes nothing; `Unsub` and `Signoff` to
`Unsubscribe`, `HandleBcast` to `Broadcast`; timers, triggers, monitors and failed
requests change nothing.

### Hub and satellite

`HubProofs` proves `HubTypes`, `SignoffIsLast`, `HubKnowsConns`, `NilIsLast` and
`LateRepliesFit` for any connections, callers and capacities from `HubInv`. For each
client it says where its messages can be when its reader is at a given
place: everything in front of the signoff while it is on the way (`Trails`), the hub's
entry from signon to signoff (`Knows`), at most one nil, and that last
(`Nils`); for each caller of `Req`, stored or not, that nothing was sent to it before its
one answer, which so finds the place its channel has (`Asked`). That the service sends to
nobody but the sender of the request and its subscribers is `Addressed`; a subscriber
that signed off is one of `stays`.

`SatelliteProofs` (`Other \notin Requests`: the events of others are not the
satellite's):

- `SatelliteTypes`, with that a connection is made before it is announced (`Dialled`).
- `StatusFollowsConnections`: `StatusInv` splits the signons and signoffs on the way at
  the status: replayed from it through the satellite's input and the hub they end
  in the state of the connection.
- `FirstWriterKept`: an action property, from where a first nil can come from (`FirstInv`).
- `UpdatesLeaveNothingOut`: `UpdatesInv` is `Gapless`, each update on the
  way leaves nothing out up to its revision but what the replica has, an update
  before it brings or an answer was sent; `AsksFromOwn`, a satellite asks
  from a revision it has reached; `Buffered`, what a subscribed satellite was not
  sent yet is in the server's buffer.
- `AnswersAreTrue`: for each request one place at most is it, its event or its answer
  (`AnswersInv`).

### Memory ledger

`MemLedgerProofs` (`MemAssumption`, `MsAssumption`):

- `MemTypes`.
- `OneIsTakenBack`: a transaction that fails after one applied action
  leaves the records as they were. Two are not taken back (6.4).
- `TransactionsAreWhole`: `WholeInv`, ids that count the events and a revision for
  each successful publication.
- `EventsRecreate`: applying the events to the records the ledger was opened with
  gives the records. `Publish` refuses an action just when the replay would
  (`RefusedAlike`), and both end alike by induction over a transaction's actions (`Told`).

### Components without goroutines

`SequentialProofs`:

- `CookiesOpen`: a browser's cookie is backed by a session that is stored or was
  lost (`SesInv`). `SessionsAssumption` has requests read from the header and
  the cookie.
- `LoopEndsAsModelled`: the loop of `Unsub` on shared arrays ends in an outcome of
  `UnsubTopics`. With topics, what it named is gone and the rest keeps its order
  (`Named`). Without, the loop first removes each topic it reaches and so
  skips every second (`Removing`), then finds nothing left (`Emptied`).
  The theorem holds for any number of topics, so the registry may keep sets.
- `WatchesAreFaithful`: after each signature a watch is some of its topic's keys
  from the first on, all of them if it is in the last array (`Filled`),
  and as long as the signatures come grouped by topic the last one is (`Complete`).
- `MergeIsFaithful`: a merged action is on the record of both and applying it is applying
  both; actions of two signatures or of an unknown command are refused. Deltas are lists that
  name a field once, `Written` and `Applied` are related by induction over them. `MergeAssumption`
  has a record with at least one field: one without would equal none.
- `TokensExpire`: the days in a token, of any width, tell a valid token from others on
  every day that is less than a turn away; a difference of days truncated twice is
  as good as one truncated once (`DaysApart`).
- `AssociationsAreAnywhere`: the roles and groups of a policy depend on which rules
  there are, its entries on the rules that are no associations in their order (`ViewOf`,
  `PolicyView`). Regrouping the rules keeps both (`SameRules`, `Regrouped`), and so
  the whole policy, not only what it decides.
- `BackupsGiveBack`: by the path, whatever was written there and however, a read gives
  back the rows (`GivesBack`), from `OneWritten`, `ZipWritten` and `DirWritten`. `BackupAssumption`
  keeps the value for a broken stream out of `Rows`.
- `VersionsStandForOne`: a manifest of the folder is below that of a later commit node by
  node (`RecordsInv`, `CommitsInv`), and wherever the program stopped, a folder that can
  be read has a manifest nobody is ahead of (`StepInv`). The last record exists
  because the order of strings is one (`BeforeOrders`) and sets are finite.
- `CommitsReadBack`: versions grow (`Increasing`), the folder has just the
  records of the commits unless one was interrupted (`FolderInv`), numbers with
  as many digits sort as they count (`LessIsBefore`), and there is one
  way to put records in such an order (`OneOrder`).

`DataProofs`:

- `RelationsAreMirrored` (`ProjectsAssumption`: models have names). `RelInv` says, for
  every set of models still to be looked at, how often each relation is listed at
  each end (`Listing`): as often as it is declared (`Due`), and once
  more for a model in between that was looked at. The first loop establishes it
  (`CollectedIsView`: what is listed of a model is what concerns it of all that is
  declared, in that order), and a turn of the second keeps it because what it adds
  to a list is not what makes a model one in between (`Keying`, `BetweenIsKeyed`), so
  that the order of the map does not matter. The invariant is needed since the second loop
  extends the lists it reads.
- `QueriesAreAnswered` (`ListQueryAssumption`, `QueriesAssumption`: what a resolved query can
  be; bounds are any numbers). One step takes a query from its list to its
  answer, so that the proof is about what the operators compute: by induction over the
  declarations the fields selected are those the last mention of each key asks
  for (`GoodSel`, `Selection`); comparing by the first value that differs, and by place where
  none does, is a strict total order (`LexOrders`), of which there is one
  sorting (`SortExists`, `SortedRank`), which `orderResult` finds (`OrderResultIs`) and in which
  a row's place is its rank; the bounds leave the rows from the offset on (`CutIs`). What
  `orderFunc` compares in projected rows and their subjects is what
  the query names (`ValueShown`).

`SeqLemmas` proves induction over numbers and that a recursion has a solution
(`Induction`, `Recursion`) as lemmas about sets and functions. What a recursive
function computes is proved with them: `Width`, `SetKey`, `Applied`, `KeysOf`,
`Policy`, `Only`, `Collected`, `ReslSel`, `OrderFunc` and the replay of the ledger. `SeqInduction` is the same for lists that
grow at their end.

### Model-checked only

- Liveness: `EventuallySent`, `MessagesFlow`, `RequestsReturn`. The provers know neither
  fairness nor `ENABLED`.
- The descriptions of section 6 are refuted by runs. Nothing is proved of them.


## 6. Where the code differs from its description

Five differences have a run whose property states the description, and TLC's
counterexample is the code's behaviour:

1. `evt_dispatch`: `Server.Run` (srv.go:32) takes the table of the embedded
   controller and not the server's own (srv.go:24-29). `evt.pub` and `evt.sat`
   are logged as unknown and never answered. All other runs use the full
   table, as a host that drives `Services` itself does.
2. `evt_unsub_all`: `Unsub` without topics ranges over the slice it shrinks
   (subs.go:130-146) and keeps every second topic but the last. With
   three topics one stays, also after a signoff, whose subscriber is then never
   dropped; nor is that of a connection with a monitor, which a signoff does not
   touch. `SignoffOutcome` says that these are the only ones.
3. `hub_stuck`: conn.go:26-28 promises a nil after a signoff. A writer that ended
   before its reader leaves a channel that fills; the service waits to send to it,
   the hub waits for the service, and everything waits.
4. `mem_rollback`: the loop in lit.go:126 counts up instead of down. A failure
   after two applied actions leaves the first applied and panics.
5. `sat_replicates`: the server answers `evt.sat` and `evt.pub` with the update
   inside `{"res": ...}` (msg.go:89-98, evt_gen.go:119, 170), and the satellite decodes the
   body as the update itself (sat.go:133). The history it asks for and the events
   of its own publications are replicated as nothing, and the next broadcast moves its
   revision past them. `UpdatesComplete` says what is left of replication.

Others were met while modelling and have no run of their own. The models follow
the code in each:

6. Late history (subs.go:30 against 202): a subscriber that is up to date and
   asks for the history of another topic gets it into its buffer but not in the
   reply, and a broadcast at that revision passes it over; the next
   publication brings it. `BcastFlushes` and `ExactlyOnce` are checked
   with `LateHistory = FALSE`, `NoLostTrigger` with `TRUE`.
7. A satellite's failing offline transaction (srv.go:46) leaves the earlier ones
   in the ledger without showing their events: subscribers advance past them.
8. `dropMon` (subs.go:227-235) matches a monitor by its number, which is counted
   per subscriber: `Unmon` of one subscriber can remove another's monitor from a
   signature's list.
9. One-off connections share the id -1 and "must not be stored" (hub.go:17-18);
   `Sub` and `Mon` store them (subs.go:110, 161). The first update after
   the caller returned fills its one place, and the service waits for good with the
   next (`Abandoned`). The answer to a caller itself always finds its
   place free (`LateReplyFits`).
10. `sigsToWatch` (subs.go:248-260) loses keys of a topic that comes back after
   `append` moved the slice. `WatchesFaithful` says when it does not.
11. `MergeDeltas` (evt.go:67-73) merges by position where its comment speaks of
    keys; `lit.Delta` is a slice of key and value (lit_test.go:31). It
    overwrites other fields and is out of range for a longer second delta.
    `Mergeable` in `EvtMerge` says which pairs it is right for.
12. `NewMemLedger` reads the list `evt.Model` (lit.go:35) while `insertEvents`
    writes `evt.event` (lit.go:151): a ledger opened again starts without events.
    A changed record is written field by field in place (lit.go:239), so a
    failing one may stay half written.
13. In a policy the first entry that matches decides for a role and its groups
    (rules.go:113-139). A rule of a role's own can so take away what its group
    grants, or undo what its group denies, and a rule on a topic counts only
    before one on `*`. The package does not say whether that is meant. Groups
    that form a cycle are followed without end.
14. `Req` (conn.go:56) has a timeout for the answer only: the send to a hub that
    is stuck waits without one. `RequestsReturn` therefore needs the hub to run.
15. The satellite's `pub` refuses to forward when it is online and forwards when it
    is not (sat.go:88-89); the nil it returns with the comment "async" is sent
    as an answer of its own, before the real one; the token of a request whose
    answer is lost is kept for ever. `New` drops the authority it is given
    (sat.go:26-36), so nothing is published locally. `evt.stat` is sent to the own input
    but not in the table. Replicated events are not shown to local subscribers. `Router` matches the prefix
    "evt." as a whole subject (sat.go:39-43), so that of local messages only signoffs get
    through; the model has them arrive as from a host that puts them into the exported
    `Input` itself, so that `pub` can be looked at.
16. A client's connections share one channel, and each gets two nils, from the
    client (cli.go:109) and from its hub (hub.go:57). One ends the writer, the other
    is left over and ends the next connection's (`FirstWriterStays` is about the
    first one only). A writer that is still there may take what is meant for the next
    connection.
17. The history is sorted by versions as strings (history.go:99-101): with
    `v0.10.0` the last record is taken for an earlier one and `ReadHistory` fails
    from then on. A commit that was interrupted when there are records leaves a folder
    that can not be read, or panics on an empty manifest (history.go:104).
    `ReadsBack` excepts both by name; the proof showed that it has to count the digits
    of the minor and the patch number each, since `v0.9.10` and `v0.10.0` are as long
    and sort the wrong way round. `Record` opens `project.json` where
    `Commit` writes `project.json.gz` (history.go:184, 236).
18. Copying a dataset with gzipped files to a directory gzips them again
    (dataset.go:70-76), and reading gives an error. A dataset copied onto itself is emptied.
    Files of models that are gone stay.
19. token.go:74-76 has codecs tried "from first to last both for decoding and
    encoding"; all of them encode and the last one decides (manager.go:121-132),
    so a new codec put first encodes nothing until the old one is dropped. A header token
    whose session is gone hides a valid cookie. A session stays new after it was saved.
20. A query with an order and without a condition sorts the backend's own list
    (lit.go:127, 175-176), that of the ledger included.
21. `Relate` never sets the bits of a relation with a model in between and relates
    the first two models only (rels.go:104-106, which says so).

## 7. Not modelled

- Message encoding, JSON, HTTP upgrades and the socket itself: input and output.
- Subject filters of the hub: the table in `Dispatch` stands for them.
- `Collect`, `CollectAll`, the sort orders of event lists.
- In the satellite: local publication, which `New` makes unreachable, and local
  subscribers, which are the controller's (`EvtServer`).
- In the query packages: sub queries and the environment of a nested job, the
  registry of backends, the documentation of queries. In `dom`: schema
  declarations and the search for project files. Code generation. These are
  translations of text into structures of the xelf language, without state that
  outlives a call.
- `Record`, `ReadRecord`, `Manifest.Set` and the project's status report (`daql.go`):
  readers of what `MigHistory` has.
- Plugins and logging: calls into the Go runtime and output.
- The text form of policy rules and the hash in one time tokens: `RulePolicy`
  begins with rules, `TokenDays` with the day a token holds.

Hazards without a property, and why: that local subscribers of a satellite see
replicated events, that a client always reconnects and that cyclic groups end do not
hold in the code, and only comments or nothing at all promise them; each is
described in section 6 or at its module.

## 8. Plan

Done: all parts with behaviour of their own are modelled and checked; all safety and
action properties of the event server, the hub, the satellite and the ledger are
proved, the refinement of `EventFeed` included, and those of all components
without goroutines.

Next:

1. Without `FewTopics`: which events still reach a subscriber that `Unsub` without
   topics left with some, as a weaker form of `ExactlyOnce`. Who stays registered is
   `SignoffOutcome`.
