# TLA+ specifications of yaneMedia

yaneMedia is a film catalogue with a torrent player and a community: a NestJS
backend on PostgreSQL (`src/backend`), a React client (`src/frontend`), and an
external torrent engine, TorrServer (`src/torrserver`). This directory models
the parts whose correctness depends on the order in which things happen:

- the life of a torrent session, from admission to the last clean-up, with the
  FFmpeg workers that play it, the background tasks that repair it, the engine
  behind it and the page in front of it;
- the catalogue: its revisions, files, works and their merges, and the caches
  between the providers and the lists;
- what users write, rate, save and watch, on the server and in the pages that
  show a change before it is confirmed;
- how a page finds and chooses what to play.

Everything is translated from the code; `PROJECT.json` names, for every
definition, the lines it stands for. A helper whose lines lie within those of the
definitions that use it is mapped with them.

## 1. Inventory

Backend paths are relative to `src/backend/src`, the client's to `src/frontend/src`.

| Component | State it keeps | Operations and interactions | What makes it correct |
| --- | --- | --- | --- |
| Session records: `torrent/torrent-session.repository.ts`, `.entity.ts`, `.state.ts` | rows of `torrent_sessions`, files, probe, engine binding, idempotency keys | one transaction per operation; `reserve` and `beginPlayback` hold an advisory lock, `transition` is a compare-and-set on `version` | admission limits, idempotent creation, one torrent per session, versions and generations that mean what readers assume |
| Stream gateway: `torrent/torrent-stream.gateway.ts` | maps `workers`, `completed`, `starting`, `stopping`; FFmpeg processes; artefact directories; subtitle jobs | `start`, `stop`, `waitReady`, `waitComplete`, exit handlers, the monitor, directory clean-up, shutdown | two workers, one video transcode; no lost process; a stop that stops; artefacts that stay while they are served |
| Playback service: `torrent/torrent-playback.service.ts` | a detached task per generation | select file, playback; the task starts the worker, waits, publishes `ready`, and revokes it on failure | a late task does not disturb a newer generation; somebody always reports |
| Reconciler: `torrent/torrent-session-reconciler.ts` | `startup`, `running`, timers, ages of orphaned torrents | sweep, polls, `stop` | every closed session is cleaned up, repairs do not hit what is healthy |
| Input service: `torrent/torrent-input.service.ts` | start tasks, rate limits | reserve, add the torrent, bind it, fetch metadata | a torrent is dropped only if nobody is bound to it, and some time if nobody is |
| HLS service and segment buffer: `torrent/torrent-hls.*`, `torrent-segment-buffer.ts`, `torrent-playback-window.ts` | manifests, counters of active requests, the window of segments, the viewer's position | playlists and segments of the current generation; the buffer evicts behind the viewer | bounded space, and what the player asks for next is there |
| Subtitles: `torrent/torrent-subtitle.*`, `matroska-subtitle-index.ts` | one job per session, caches | extraction, aborted by a stop | at most one job, no job after a stop |
| Engine client: `torrent/torrserver.client.ts` | none | HTTP to TorrServer; an answer may be lost | its errors are classified |
| Discovery: `torrent/torrent-discovery.service.ts`, `torrent-catalogs.service.ts`, `jacred.client.ts`, `torrent-candidate-ranking.ts` | results of a minute, candidates per owner, catalogues and mirrors that are avoided | search, claim of a candidate | a candidate is claimed by its owner and in time; old results are marked; the list keeps its order and shares its places |
| Policies, validation, metrics: `torrent/torrent-*-policy.ts`, `torrent-input.validation.ts`, ... | none, counters | a torrent file or magnet is checked and rewritten | nothing private leaves, and the torrent stays the same |
| Authentication: `auth/`, `users/`, `mail/`, `app/providers/AuthProvider.tsx` | login sessions, tokens, the account a page shows and its cached data | register, verify, login, logout, reset | a token is used once, a reset ends all sessions, no page shows another account's data |
| Media registry: `media/registry/` | works, aliases, redirects | resolve, register, merge | an alias has one work, old references resolve, saved rows follow |
| Editorial catalogue and artwork: `media/catalog/editorial-*`, `media/assets/` | revisions, entries, files and their rows | synchronize, publish, import, clean up | the published revision is complete, what is referenced has its file |
| Summaries: `media/catalog/media-catalog.service.ts` | a cache with a stale window, loads under way | `resolveMediaRefs` | the cache does not go back |
| Details, seasons, availability, search: `media/media.service.ts`, `anime-season-chain.ts` | the chains of seasons | composes external sources | parts of a franchise agree on their numbering |
| User library: `favorites/`, `history/`, `continue-watching/`, `user-media/` | rows per user | upsert, trim, canonicalization when works merge | what a user saved last survives |
| Reviews, comments, ratings, moderation | rows, versions, snapshots of lists, reports | one or two transactions per request | edits are based on what their author saw, lists skip nothing |
| Profiles: `profile/` | texts, handles, avatar files and rows | update, upload, removal, clean-up | the file in use is never removed |
| Page: playback session, history, favourites (`features/playback-session`, `opening-history`, `favorite`) | local lists, cached account lists, queues of changes | optimistic changes, roll-back, retry, migration at sign-in, accounts that switch | the last change wins, and nothing of one account reaches another |
| Page: reviews, ratings, discussions, profile (`features/review-editor`, `user-rating`, `review-discussion`, `media-comments`, `media-reviews`, `pages/profile`) | drafts, cached pages, requests under way | save, edit, delete, load more, reload in the background | a draft is not lost, a text is not overwritten unseen, what is told is shown |
| Page: sources (`pages/media`, `features/source-selection`, `entities/media-source`) | selected player, track, episode, lookups | a chain of effects; answers that come while the viewer chooses | the viewer's choice holds, late answers change nothing |
| Page: torrents and helper (`features/torrent-launch`, `entities/torrent-session`, `features/companion`, `widgets/media-player`) | session, commands under way, pairing token, local torrent | launch, play, seek, switch, pair, disconnect | commands take effect once and in order, a cancelled pairing grants nothing |
| Page: search and catalogues (`widgets/media-catalog`, `pages/search`, `entities/media`) | field, address, cached pages | typing, filters, back, load more | what is shown is what was asked for |
| Platform, config, database, health, scripts; other pages and widgets | none | wiring, rendering | out of scope |

The hard part is the same everywhere: several parties act on shared rows
without a common lock and meet each other's results late. A torrent session is
one row, one worker and up to five concurrent tasks that coordinate only by a
version, a generation number, and what the gateway's `stop` promises. A page
shows a list that it has changed already, whose answer is under way, while the
account may change. `PROJECT.json` lists the hazards at their lines with the
properties that cover them; section 6 names those left open.

## 2. Modules

| Module | Models |
| --- | --- |
| `SessionSlots` | abstract: what admission promises. Slots are held by accounts, at most `MaxActive`, at most one each, and a session id is used once |
| `TorrentSession` | the session records: one action per repository transaction |
| `StreamGateway` | the worker gateway: an action is what one call does between two awaits |
| `TorrentPlayback` | both composed (`DB == INSTANCE TorrentSession`, `GW == INSTANCE StreamGateway`) with the playback tasks, request handlers, the sweep, and restarts |
| `TorrentEngine` | TorrServer's torrents against the sessions: creations, clean-ups, the sweep's search for orphans, restarts and lost answers |
| `HlsDelivery` | one generation from the encoder through the bounded buffer to the viewer |
| `TorrentClient` | the page: the launch panel, the player's commands, its queries of the session, another tab |
| `TorrentDiscovery`, `ReleaseRanking`, `TorrentEpisodes`, `TorrentMetainfo` | the search for releases; their order; which file is which episode; what a torrent file or magnet becomes |
| `EditorialCatalog`, `ArtworkStore` | the revisions and their synchronization; the files of their artwork |
| `MediaRegistry` | works, aliases, redirects, and the rows of users that follow merges |
| `MediaSummaries`, `AnimeSeasons`, `AvailabilityStream`, `MediaSearch` | the cache of summaries; the shared chain of seasons; the stream of sources; the pages of a search |
| `Accounts` | accounts, mails, sessions, resets, and the account a page shows |
| `Community`, `PagedLists`, `Ratings` | reviews, comments, moderation; lists read page by page; the rating of a work |
| `ReviewEditor`, `DiscussionPage`, `Profiles`, `ProfileAvatars` | the forms that write them and the profile, with their drafts and late answers; avatars and their files |
| `WatchProgress`, `OpeningHistory`, `Favorites` | the three lists of a user on the page and on the server |
| `SourceSelection` | the effects by which the page of a series chooses what to play |
| `Companion`, `LocalTorrent` | pairing with the helper on the viewer's computer, and one torrent loaded there |
| `MC...` | instances for TLC. `MCSite` and `MCStreaming` hold many small ones: Init chooses one part, and only that one moves |
| `TorrentSessionProofs`, `StreamGatewayProofs`, `TorrentPlaybackProofs`, `CatalogProofs`, `ServiceProofs`, `EditProofs`, `MediaRegistryProofs`, `SiteProofs` | theorems (section 4) |

A definition introduced by a comment "Mutant:" is not part of a model: it is a
wrong version of the definition after it, with which a property must fail.

### TorrentSession

Variables are the columns of the tables, functions over a pool of session ids;
`replay` is the set of live idempotency rows. `unused` and `purged` stand for
"no row". A transaction that throws rolls back, so only the successful outcome
is an action. The two deadlines of a row are one flag `lapsed`. Position, audio
track and output profile are one value, `output`; the probe is the file it was
made of. The routes `magnet` and `file` of creation differ only in their
input and are one route, `create`. Background tasks pass the time their round
began, so `Transition` takes `late` from its caller: a session that lapsed since
may still be moved.

### StreamGateway

`worker`, `completed`, `starting` and `stopping` are the gateway's maps with the
generation as value (0 for no entry); `process` is the operating system's side,
which the maps may disagree with: after SIGTERM (`term`) the entry is gone and the
process is not. `call[c]` is the program counter of the call a caller is
making. `start` is split at its awaits (stop of the old worker; input server and
measured seek; creation of the directory and spawn), `stop` at the wait for the
process. A wait in `Promise.race` with a timer may end either way.

### TorrentPlayback

`task[s, g]` is the task detached for generation `g`, `handler[h, s]` a request
under way with what it read, `sweep` the sweep with the rows it listed.
`Actors` chooses who acts besides the player; the code has all of them, and each
run takes the ones its question is about. A restart keeps the rows and the
directories and forgets the rest. The module starts with probed sessions, of
different accounts and torrents, no more than the slots.
Abstractions: one request of a kind per session at a time; a sweep handles its
listed rows in any order; the engine is external and may lack the torrent or not
answer (`SweepFails`, `SweepDefers`, `StopDeferred`, `BootWithoutEngine`).

### TorrentEngine, HlsDelivery, TorrentClient

`TorrentEngine` reduces a row to its state, its binding and whether it is older
than the orphan grace, and keeps for each start, clean-up and sweep the step it
is at with what it has read: each asks first and acts later. Its races may drop
the torrent of a session that has just been bound; `StrandedResolves` says that
the next sweeps end such a session. `HlsDelivery` counts in segments of minimal
length; a film gives the time and bytes at which segments end. A segment near
64 MiB is excluded. When a segment is evicted between the reading of a playlist
and its sending, the code asks for `segments/undefined.m4s`, which is harmless.
In `TorrentClient` a command is a record with the await it is at, the version it
last saw and its idempotency key; `late` holds requests whose caller has gone
but that may still be served. Two lanes (panel and player) are not ordered
among each other. After a lost answer of a creation, a refocus that stops that
session makes the retry with the same key answer 404 until the page is
reloaded; a late DELETE after a failed choice may stop a watched session.

### The catalogue

`EditorialCatalog`: a synchronization is a process of transactions that may stop
anywhere. Two in progress together may drop items carried over from the
published revision; the promise about these is limited to behaviours without
overlap (`overlapped`). `ArtworkStore`: a clean-up may delete what a
synchronization works on while it is garbage past its grace period: taken up again
as such, or no longer referenced by the item that had it (`excused`).
`MediaRegistry`: a registration locks the aliases it was given, then reads; the
rows of users are copied to the canonical work by select and delete, and what
changes while a merge holds rows it has read is lost (`unsafe`). Two merges
through disjoint aliases may take the same third work: the second writes its
redirect over the first one's, and the old route no longer passes the work the
aliases have moved to (`retaken`). `Trail(w)` is the least set that contains a
work and follows its redirects, so that one definition serves TLC and the
proofs. `MediaSummaries` assumes that the engine's
answers do not go back in time; an error other than an outage rejects every list that
awaits the load, whose other workers go on. In `AnimeSeasons` the relations are data chosen
in Init among those that respect the order of release; chains of equal length
that are incomplete may disagree while they are kept for recovery (15 s), and
chains longer than the limit are cut differently from each part.
`TorrentDiscovery` has a tick as long as a search may last; the limit of 500
candidates may evict those of others early, so a reference promises its time
only while that limit is not reached. `ReleaseRanking`, `TorrentEpisodes` and
`TorrentMetainfo` are one-step machines: Init takes an input, the step computes
the answer, and the properties compare it with what it must satisfy. In
`AvailabilityStream` pending answers carry no flags, so an incomplete answer
may be kept as settled.

### Users, forms and pages

`Accounts` cuts every handler where it awaits. A login that overlaps a reset
leaves a session (`overtaken`); a token is stored before its mail is sent.
`Community` models a creating transaction in two actions, because the row lock
and the clock decide which place in a list a comment gets; ties within a
millisecond are assumed absent. In `PagedLists` a snapshot deleted between its
two queries ends a list early (`cut`). `Ratings` has two places of a page that
share one cache. `ReviewEditor` has several tabs: a review adopted under an
unsaved draft is overwritten by the next save without having been seen (`under`).
In `DiscussionPage` a load in flight may undo what was appended until the next
full load (`crossed`). `Profiles` compares with a cached profile, so another
tab's change may be reverted silently (`behind`). `ProfileAvatars`: a commit
whose answer is lost counts as failed, and its file is deleted (`unsure`).

`WatchProgress`, `OpeningHistory` and `Favorites` follow the three providers: a
queue with one request in flight, one change at a time with an undo, and
concurrent changes. Effects of a render are taken with the change that caused
them. Exempt are: progress of a guest that is queued behind waiting progress at
sign-in, a removed entry that is still in the guest's list, migrations repeated
after a failure while removals are in flight, a list read before a change and
answered after it (`crossed`). A 401 to a change of the history signs the page out and
neither puts the list back nor leaves anything to retry (`Refused`). `Favorites` counts the changes in flight of all accounts together, as
the page does: another account's change may keep the list from being read again, and
then it may be stale (`skipped`).

`SourceSelection` makes each effect a step that may come after other events;
choices made before the saved progress is read, or between two effects, are
exempt (`hasty`). `MediaSearch`: a navigation is rendered later than it is made;
what is typed in between may be lost (`hasty`). `Companion` and `LocalTorrent`
treat the helper as external: it has one open pairing request at a time, and
cancelling takes its token back; lost answers may leave a request behind
(`unsure`), and with two pages one may replace the other's token (`kept`).

## 3. Runs

| Run | Question | Instance |
| --- | --- | --- |
| `session_admission` | do the admission limits, idempotent retries and engine bindings hold, and is `SessionSlots` implemented | 3 accounts, 3 sessions, 2 slots, 2 keys, 1 torrent, no files |
| `session_playback` | does a playable session have its source; do versions and generations identify what they should | 1 session, 2 files, 2 outputs, 2 keys, 3 generations |
| `gateway_calls` | every interleaving of calls and exits: no lost process, no overlap, artefacts kept, stops effective, reservations released | 1 session, 3 callers, 2 generations |
| `gateway_capacity` | two workers and one video transcode in the maps | 3 sessions, 2 callers, 1 generation each |
| `transcode_budget` | the same for processes: **violated** | 2 sessions, 2 callers |
| `playback_restart` | is somebody responsible for every preparing session, are ready artefacts kept | sweep, 1 restart, 2 generations, 2 outputs |
| `playback_requests` | do late tasks and handlers spare newer generations | select file and broken playlists, 3 generations, 2 files, database faults |
| `playback_ends` | liveness of clean-up and of playback | stop, logout and sweep, 1 generation |
| `stale_sweep` | does the sweep spare the current generation: **violated** | sweep, 2 generations |
| `streaming` | is the viewer served, do commands take effect in order and once, do films end, orphans go and stranded sessions resolve | two films of 5 and 7 segments; 2 sessions for 1 torrent, 1 event; 1 release, 2 files, 2 positions, 2 commands, 1 fault or another tab |
| `site` | do the parts of the catalogue, the community and the pages keep their promises | 30 instances, listed in `MCSite` with their bounds; `MediaRegistry` has one with two works and one with three, of which two merges may take the same |
| `redirect_cycle` | do old references resolve after concurrent merges: **violated** | 2 works, 2 registrations |

The properties of `site` gather what the parts promise:

| Property | Promises of |
| --- | --- |
| `PublishedComplete` | the published revision is complete and nothing ever published is forgotten (`EditorialCatalog`); old results are marked and cooling ends (`TorrentDiscovery`); places are shared, fresh releases listed once, the page keeps the order, evidence counts (`ReleaseRanking`) |
| `FilesKept` | what is referenced has its file (`ArtworkStore`, `ProfileAvatars`) |
| `SavedSurvives` | what a user saved last survives merges, and an old route passes the work its aliases point to, but for what section 2 excepts (`MediaRegistry`, `unsafe`, `retaken`) |
| `ReadersMissNothing` | nobody who reads to the end has missed what was there from the beginning (`Community`, `PagedLists`); a work is shown once, the last page is the last (`MediaSearch`) |
| `NoLostEdit` | edits are based on what the author saw (`Community`, `DiscussionPage`), drafts are kept and texts not overwritten unseen (`ReviewEditor`, `DiscussionPage`), what is saved is what was typed (`Profiles`) |
| `AccessEnds` | a reset revokes, no foreign data, what is shown is who is signed in (`Accounts`); nothing of a cancelled pairing stays open (`Companion`); nothing private leaves, and a rewritten torrent is accepted again (`TorrentMetainfo`) |
| `LastChangeWins` | the last change of a user is what stays: positions and sessions (`WatchProgress`), undo (`OpeningHistory`), favourites of one account and of two that follow each other (`Favorites`), ratings, comments told and sent once (`DiscussionPage`), the resumed source (`SourceSelection`), the profile, the local torrent, the search |
| `PartsAgree` | the parts of a franchise share their numbering (`AnimeSeasons`); a file opened for an episode is sure (`TorrentEpisodes`) |
| `LateAnswersHarmless` | late answers do not take back newer ones: summaries, what is playing, sources, the pairing token, references of releases |

**Bounds.** `MaxActive` is 2 as in the code. Three accounts and three sessions
are then the least that can exceed the limit without an account holding two,
and lapsing, retiring and retrying all meet; with one torrent every session
contends for it. A torrent without files stays in `fetching_metadata`, which is
as active as the states after it and keeps the instance small;
`session_playback` goes through the others. Three callers are a start, a stop that interrupts it, and one that joins the stop; two
generations are an old and a new worker. Three generations let a late handler
of the first meet the worker of the second while the third is being prepared.
Generations are bounded by `MaxGeneration` in the guards of `BeginPlayback` and
`SelectFile`, restarts by `MaxRestarts`; sessions, callers and keys by their
sets. In `TorrentPlayback` the key of a playback request is its generation, a fresh
key for each, because replays are `TorrentSession`'s subject.
The instances of `site` take two of everything that can compete (two
synchronizations, two registrations, two tabs, two requests), because each
hazard is between two parties, and the least number of acts, faults and ticks
that lets the third of them see the result. A guest's list is taken up to the names
of the films, and what was watched last is an embedded player or a track of the
second episode: to the page, nothing watched is like the player. Each counter has its bound as a
CONSTANT (`MaxActs`, `MaxFaults`, `MaxTime`, ...) in the guard that spends it.
`CHECK_DEADLOCK FALSE` stands where the pool of ids, of generations or of acts is used
up and nothing is left to do, which happens in every instance.
`SYMMETRY` is used in safety runs only, over sets that no definition orders.

**Fairness.** `StreamGateway`: each call goes on, because every await inside it
has a timeout (five seconds for the exit of a process), and an
exited process has its handler run; processes themselves need not exit. In
`TorrentPlayback` also: the tasks and handlers go on for the same reason, the
sweep runs again every minute (`setInterval`), and the engine is not unreachable
for ever (strong fairness of `SweepClearsEngine`). `HlsDelivery`: the encoder
encodes while it runs, the monitor's timer fires, requests are answered, the
viewer watches what is there and the page reports. `TorrentEngine`: a start and
a stop go on (their calls have timeouts), the sweep's timer fires, and time
passes. `TorrentClient`: requests end, with an answer or without, and the
server's tasks and the page's polls go on. Users, clocks, restarts, other tabs
and faults are not fair.

**Violations.**
`transcode_budget`: `OPERATIONS.md` allows one video transcode on the server.
`stopWorker` deletes the worker from the map and only then signals it and waits
up to five seconds; in that window another session's start finds room, and two
processes encode.
`stale_sweep`: the sweep stops workers by session. While it awaits between its list
and its stop, the user may have begun another generation: its worker dies,
and then the sweep's own write loses the version race. The comment in the code
("the next sweep retries safely") considers the write only. The shortest trace
is a ready session whose first worker ended; the sweep lists it, the user seeks,
the new worker starts, and the sweep kills it.
`redirect_cycle`: two registrations bridge the same two works through disjoint
aliases, one as a film and one as an anime. Each chooses another canonical work,
locks only its own aliases, and commits its redirect; the two works redirect to
each other, and neither reference can be resolved again, though a test says
that a merge "keeps old routes as redirects".

`tlc -config X.cfg MCModule.tla` repeats a run, `tlapm MProofs.tla` the proofs
of a module.

## 4. Proofs

TLAPS checks what follows for every value of the constants. What a theorem asks
of them is the `ASSUME` of its module (`ConstantAssumption`, `GatewayAssumption`,
`PlaybackAssumption`: finite pools of sessions, natural bounds, `None` different
from the values it stands in for) or a hypothesis it names (`CatalogConstants`,
`RegistryConstants`, `Addresses`, `TorrentInputs`, and two without a name in `CatalogProofs`: natural bounds,
a finite set of providers, some place that shows a rating, editions of items,
requests of known types and aliases, inputs that are torrent files and magnet
links with trackers that are public or local, not both). TLC found each inductive invariant to hold on an instance before it was
proved.

| Theorem | States |
| --- | --- |
| **`TorrentSessionProofs`** | |
| `RowsAreWellFormed`, `TypeCorrect` | `Spec => []RowsOK`, `Spec => []TypeOK` |
| `OneActive`, `Capacity` | no account has two active sessions; at most `MaxActive` are active |
| `EngineOnce` | a torrent is bound to at most one session |
| `PlayableSource` | who is told to play finds a bound torrent, its file and the probe of that file |
| `RetryFinds` | the retry of a creation finds the session it created, and no other |
| `VersionsAdvance`, `GenerationsNameOneOutput` | actions: every write bumps the version; a generation keeps its file and output |
| `ImplementsSlots` | `Spec` implements `SessionSlots` |
| **`StreamGatewayProofs`** | |
| `GatewayInvariant`, `TypeCorrect` | `Spec => []GatewayOK`, `Spec => []TypeOK` |
| `NoneLost`, `NoneOverlap` | no process runs that the maps lost; no two of one session |
| `ArtifactsStay` | a generation in the maps has its directory |
| `StopsAreEffective` | a stop that returned has stopped what it was called against |
| `WorkersStayBounded`, `OneEncoder` | the limit on workers; one video transcode in the maps |
| **`TorrentPlaybackProofs`** | |
| `PlaybackInvariant`, `TypeCorrect` | `Spec => []AllOK`, `Spec => []TypeOK` |
| `ArtifactsAreThere` | what a ready session offers is on disk |
| `PreparingWatched` | no session waits in preparing for nobody, while the database answers |
| `TasksSpeakForTheirOwn`, `StopsSpareOthers` | actions: a late task or handler leaves a newer generation alone |
| `ImplementsSessions` | every step is a step of `TorrentSession`, or leaves the rows alone |
| `SessionsStaySafe`, `SessionsAdvance` | so what was proved of `TorrentSession` holds of the composition |
| **`CatalogProofs`** | |
| `CatalogInvariant`, `PublishedIsComplete`, `ListedIsKept` | `[]CatalogOK`; readers see complete revisions; nothing listed is forgotten |
| `SummariesGoForward` | action: the cache of summaries goes back to no older version |
| `UsableAreKept` | action: a reload of sources loses none that can be used |
| `RatingIsStored` | a settled page shows the stored rating and summary |
| `ChosenIsStored` | a settled page has the favourites that were chosen last, and shows them |
| **`ServiceProofs`** | |
| `ArtworkInvariant`, `ReferencedIsKept` | `[]ArtworkOK`; artwork an item references has its row and file |
| `AvatarInvariant`, `AvatarsAreKept` | `[]AvatarsOK`; the avatar of an account has its file |
| `AccountsInvariant`, `AccessOfAccounts` | `[]AccountsOK`; a reset revokes, no page has data of another account, what it shows is what it is signed in as |
| `PairingTyped`, `PairingClosed` | types of the pairing; a pairing that was not completed leaves nothing open |
| `TokenForgotten` | action: a token is forgotten only when it is revoked, its cancellation got no answer, or another one replaced it |
| `NothingPrivateHanded`, `HandedIsAcceptedAgain` | of every torrent file and magnet: all public trackers and nothing private; validating twice changes nothing |
| **`MediaRegistryProofs`** | |
| `RegistryInvariant` | `[]RegistryOK` |
| `RoutesAgree`, `LibrarySurvives` | an old route passes the work of its aliases; what was saved last survives |
| **`EditProofs`** | |
| `EditsOfCommunity` | action: an edit replaces only the text its author was shown |
| `EditsOfDiscussions`, `EditsOfReviews` | actions: the same in an open discussion and in the form of a review, and what is typed stays |
| `ProfileShownIsStored` | a settled profile page shows what is stored |
| `ProfileSavedIsTyped` | action: the form says "saved" only of what is stored as typed |
| **`SiteProofs`** | |
| `PicturesAreKept`, `LibraryIsKept`, `AccessIsEnded` | the composed site keeps `FilesKept`, `SavedSurvives` and `AccessEnds` |
| `TextsAreKept` | the composed site satisfies the action property `NoLostEdit` |

**Sessions.** The type invariant is not inductive: `BeginPlayback` files a row
under the session's owner, which must be an account, so `RowsOK` adds that every
existing row has one. The seven background actions are one lemma
(`TransitionRowsOK`). Admission rests on two facts about the set of active
sessions: `Reserve` replaces the overdue ones by the new one after checking the
rest, and every other step only removes from the set (`Releases`). For
`PlayableSource` the invariant follows the states (`SourceOK`): the torrent is
bound before its metadata is fetched, the selected file is one of the torrent's
from the moment it is probed, and a playable session has the probe of that file.
`RetryOK` says that every session that has not lapsed has its creation's row, and
that an account and a key have one such row only.

**Gateway.** It has no lock; `GatewayOK` says what a call leaves in the maps before
each await. A start holds the reservation of its session to its end (`CallsOK`,
`OneStart`); while a session is reserved or being stopped its worker is out of
the maps (`MapsOK`), so a process that still runs is one the maps name, and one
that was sent SIGTERM is waited for (`ProcessesOK`); a stop that came too late for
a process has cancelled the start that would have spawned it (`TargetsOK`).
`WorkersStayBounded` counts the union of two maps.

**Playback.** The invariants come in layers: types, with `GatewayOK` of the
gateway's own proof, used through an instance of `StreamGatewayProofs`; what a
task knows of its row, by the version it last wrote (`TasksOK`); what is on disk
for whom (`DiskOK`); what the sweep still owes the sessions that a restart left
behind (`SweepOwes`, for `PreparingWatched`). That last theorem assumes `~Faults`,
the setting of the run that checks it: a task whose write the database refuses
gives up, and with faults the property is false. The refinement needs in addition
what tasks, handlers and the sweep have read (`SeesOK`): then each of their writes
meets the guard that the transaction has in `TorrentSession`.

**Catalogue and files.** Syncs share no lock but that on a revision being written.
What one has stored before its current step stays as long as its revision is
staging (`FilledOK`); while syncs run one after the other, what was listed has been
carried over before the last step (`CarriedOK`). The latest revision of a finite
set is found by minimal counterexample (`MaximumExists`, from `WFMin`). For files the
argument is age: what an import or upload has taken up is too young for a
clean-up that looks now or has looked before (`HeldOK`, `PassOK`), and a key that
stops being live never is again (`RequestsOK`).

**Registry.** A redirect, once written, stays, unless a second merge takes the work
(`retaken`). So a trail only grows at its end (`TrailGrows`), and aliases and rows
move along trails. `RegistryOK` adds that a merge holds the current rows, on the works
it touches, of all users who are safe (`RowsCurrent`), and that what registrations
have chosen exists (`TxOK`). The attempt to prove the two properties for any number of works showed
that they were false with three: the instance with two works could not have two
merges that take the same one. `retaken`, the extent of `unsafe` and the second
instance in `MCSite` come from that.

**Access.** Serials of sessions are used once, so a cookie whose session is gone
never gets one; a login under way has verified the current password, or is marked
as overtaken (`LoginsOK`). An answer of `/auth/me` that a page waits for names the
user of the cookie it still has, because what changes the cookie cancels it
(`AskOK`), and a form that will write into the page's cache under its user's key
has that user's cookie (`SaveOK`). The pairing with the helper holds no lock over its calls;
`PairingOK` says which request or token each page holds at each of its awaits
(`HoldsRequest`, `KnowsToken`): whoever drops one that is still open is about to
abort or revoke it.

**Torrent inputs.** `TorrentMetainfo` is a function of its input, so these two theorems
are about all of its data: tiers of any length with any trackers, not the lists TLC
tries. They need induction over sequences, which the library states with an
operator as parameter; the lemma `Lists` states it with a set instead - a set of
sequences that has the empty one and is closed under `Append` has them all - and
is proved from the well-foundedness of `<` on the numbers (`WFMin`). From it come the facts about
`FlattenSeq`: what filtering the tiers keeps, and that filtering twice is
filtering once.

**Texts.** On the server nothing needs to be known but what the rows look like: the
check that counts is in the update itself (`Matches`), and every other action
leaves texts alone. The pages are harder. In the editor of reviews every review that is
cached, fetched, open or sent is one that was stored, and the active one has no other text under the same version (`HeldAt`); what a save replaces is then the text its form
has shown, or has adopted under a draft (`TabHolds`). On the profile page every
query is either as stored, or something is still under way that will make it so
(`Covered`): its own load, a load that is owed after one in flight, the answer of
the form or of the avatar; changes made elsewhere and lost answers are the
exemptions (`behind`). `ProfileSavedIsTyped` needs of a form that was submitted again what
its first half has stored already (`SubmissionOK`).

**Caches.** What is cached was read at some moment; what counts is what may still
arrive after it. What a load of a summary has read is no older than what is cached, and
only one load of a work runs at a time (`SummariesOK`). What a reload of the sources has
brought of a provider lasts at least as long as what is shown (`AvailabilityOK`). A
cached rating is the stored one, or a load that will bring it is owed or on its way
(`Covered`). Favourites are the stored ones when no change of the account is in flight
(`ListIsStored`), and what was chosen last for a film is stored, or its request is on its
way and none that undoes it (`ChoiceIsSent`).

**Site.** A behaviour of `MCSite` is about one part. `SiteProofs` shows for thirteen of
its instances that Init, Next and the property are those of the part (two
instances of one component agree definition by definition), and takes over
the invariants, for the constants of the run. The modules with the proofs rename
variables and constants of their parts (`INSTANCE ... WITH`) where two parts use a name
differently; the definitions are those of the component.

Model-checked only:

- liveness, which is out of the prover's reach together with `ENABLED`:
  `ReservationsReleased`, `EndedIsSilenced`, `CleanupCompletes`, `PlaybackResolves`,
  `OrphansDropped`, `StrandedResolves`, `ViewingSettles`;
- of the run `site`: `TypeOK` (its parts for the modules above are proved),
  `PublishedComplete` (its part about the catalogue is `PublishedIsComplete` and
  `ListedIsKept`), `LastChangeWins` (its parts about the profile, ratings and favourites are
  `ProfileShownIsStored`, `RatingIsStored` and `ChosenIsStored`), `LateAnswersHarmless` (its
  parts about summaries, sources and the helper's token are `SummariesGoForward`,
  `UsableAreKept` and `TokenForgotten`), `ReadersMissNothing`, `PartsAgree`; of `streaming`:
  `StreamingTypeOK`, `PlayerServed`;
- the three properties that are violated.

## 5. Not modelled

- FFmpeg's arguments, the probe, parsers, formatting and metrics: pure functions
  the properties do not distinguish; name patterns and titles are data of
  `TorrentEpisodes` and `ReleaseRanking`.
- Subtitle jobs and shutdown of the gateway; the admission of concurrent HLS
  requests and the 64 manifests. The start of the process itself and PostgreSQL:
  transactions are atomic, or as many steps as their locks allow. Rows that
  `ON DELETE CASCADE` removes with an account.
- The pages of editorial collections and the copies of queries kept across
  visits; the renewal of a session after a 401; `localTracks.ts`; rendering,
  layout, focus, captions and filters by resolution and quality. Several
  providers of direct video at once in `SourceSelection`.
- Trimming of lists to their limits (5, 100), which the instances do not reach.

## 6. Open hazards and plan

Hazards the code has and no property covers: the exit handler of a worker reads the
playlist and must then find itself still in the maps (`torrent-stream.gateway.ts:821`;
`StreamGateway` keeps an exit with its entry, so the check cannot fail there); the last write of a playback task
is not retried (`torrent-playback.service.ts:180`); two tasks of a session may
reach the gateway in the opposite order of their generations (147; the older
then loses its write); a stop waits for a subtitle job before it cancels a
reservation (`torrent-stream.gateway.ts:967`); a start in flight at shutdown
(1038); the 65th manifest (`torrent-hls.service.ts:233`); a creation in flight
at a logout stays open until it lapses (`auth.repository.ts:67`); a login that
overlaps a reset (158); two merges that take the same work part its old route
from its aliases (`media-registry.service.ts:206`). The exemptions of section 2 are of this kind too: what
should happen then is said nowhere, and the models reach it.

Next, in this order: `HlsDelivery` (what the player asks for is there:
`first <= fetched + 1`) and the order of commands in `TorrentClient`, which are
`PlayerServed`; `NothingOldUnmarked` of
`TorrentDiscovery`, with which `PublishedComplete` would be proved but for the
ranking; what positions and the opening history settle to (`LastChangeWins`). Then subtitle
jobs, the admission of HLS requests, shutdown, and the pages of collections.
