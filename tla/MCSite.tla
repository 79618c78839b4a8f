------------------------------ MODULE MCSite ------------------------------
(***************************************************************************)
(* Instances for TLC of the parts of the site that do not share state: the *)
(* media catalog, what users write, their accounts and lists, the pages on *)
(* which they do, and how sources are found, chosen and checked.  Each     *)
(* behaviour is about one part, that Init chooses: x1, x2 ... are then the *)
(* variables of that part, and those it does not have are None.            *)
(***************************************************************************)
EXTENDS Integers, Sequences

CONSTANTS NoRevision, Sync1, Sync2, Load1, Load2

\* Two editions of the catalog, each of one item.
ItemsOf == [e \in {"v1", "v2"} |-> IF e = "v1" THEN {"a"} ELSE {"b"}]

\* A film registered with two identifiers, an anime, a registration that merges them, and
\* one that disagrees with the film about its imdb identifier.
Alias == {"imdb1", "imdb2", "kinopoisk", "tmdb"}
Space == [a \in Alias \cup {"shikimori"} |-> IF a \in {"imdb1", "imdb2"} THEN "imdb" ELSE a]
Registrations == {[type |-> "movie", aliases |-> {"imdb1", "kinopoisk"}],
                  [type |-> "anime", aliases |-> {"tmdb"}],
                  [type |-> "movie", aliases |-> {"imdb1", "tmdb"}],
                  [type |-> "anime", aliases |-> {"kinopoisk", "imdb2"}]}

\* Three works, the middle one wanted by both others.
Known == {"imdb1", "kinopoisk", "tmdb", "shikimori"}
Bridges == {[type |-> "movie", aliases |-> {"imdb1"}],
            [type |-> "anime", aliases |-> {"kinopoisk", "tmdb"}],
            [type |-> "movie", aliases |-> {"shikimori"}],
            [type |-> "movie", aliases |-> {"imdb1", "kinopoisk"}],
            [type |-> "movie", aliases |-> {"tmdb", "shikimori"}]}

\* A writer with two tabs and a moderator who reads.
User == [t \in {"a1", "a2", "b1"} |-> IF t = "b1" THEN "b" ELSE "a"]

\* What a visitor types into the field of a catalog, and what it asks for.
Trimmed == [t \in {"", "a", "a "} |-> IF t = "a " THEN "a" ELSE t]

\* Lists of releases for ReleaseRanking: two of what the catalogs found, and a third, alike or
\* not; and three titles that claim different things.
Release == [hash |-> 1, guid |-> 1, tracker |-> 1, title |-> 1, size |-> 5, stale |-> FALSE,
            match |-> 100, years |-> {}, season |-> 0, episode |-> 0, quality |-> "none",
            resolution |-> 0, voice |-> 0, studio |-> 0, seeders |-> <<>>, recent |-> FALSE,
            suspicious |-> FALSE]
Releases == {[Release EXCEPT !.hash = h, !.tracker = t, !.stale = s,
                             !.seeders = IF h = 2 THEN <<3>> ELSE <<>>,
                             !.size = IF h = 2 THEN 250 ELSE h] :
               h \in 0..2, t \in {1, 2}, s \in BOOLEAN}
Wanted == [year |-> 2000, kind |-> "tv", season |-> 1, episode |-> 1]
Unfiltered == [tracker |-> 0, voice |-> 0, seeded |-> FALSE]
Lookup(rs, w, l, sort, f) ==
  [releases |-> rs, wanted |-> w, limit |-> l, sort |-> sort, filters |-> f]
Pages == {<<>>} \cup {<<a>> : a \in Releases} \cup {<<a, b>> : a, b \in Releases}
         \cup {<<a, b, [Release EXCEPT !.hash = 7, !.tracker = t]>> :
                 a, b \in Releases, t \in {1, 2}}
Found == {Lookup(rs, Wanted, l, "best", Unfiltered) : rs \in Pages, l \in {1, 3}}
Claims == {[Release EXCEPT !.match = m, !.years = y, !.season = s, !.episode = e,
                           !.quality = q, !.hash = 5] :
             m \in {40, 100}, y \in {{}, {2000}, {1999}}, s \in 0..2, e \in 0..2,
             q \in {"rip", "cam"}}
Dubbed == [Release EXCEPT !.hash = 6, !.seeders = <<0>>, !.voice = 1, !.size = 120]
Judged == {Lookup(<<Release, c, Dubbed>>, [Wanted EXCEPT !.kind = k], 2, sort, f) :
             c \in Claims, k \in {"tv", "movie"}, sort \in {"best", "seeders"},
             f \in {Unfiltered, [Unfiltered EXCEPT !.seeded = TRUE, !.voice = 1]}}

\* Torrents of two files for TorrentEpisodes, on the pages of an anime (with a release's
\* offsets or without), a film, and series of one and of two seasons.
NamedFile(ex, fo, n, extra, multiple) ==
  [explicit |-> ex, folders |-> fo, number |-> n, extra |-> extra, multiple |-> multiple]
OneFile == {NamedFile(ex, fo, n, FALSE, FALSE) :
              ex \in {<<>>, <<<<1, 1>>>>, <<<<2, 1>>>>, <<<<1, 1>>, <<1, 2>>>>},
              fo \in {{}, {2}, {1, 2}}, n \in {<<>>, <<1>>, <<3>>}}
           \cup {NamedFile(<<>>, {}, <<1>>, e, ~e) : e \in BOOLEAN}
OtherFile == {NamedFile(ex, {}, n, FALSE, FALSE) :
                ex \in {<<>>, <<<<2, 1>>>>, <<<<2, 3>>>>}, n \in {<<>>, <<1>>, <<3>>}}
             \cup {NamedFile(<<>>, {0}, <<1>>, FALSE, FALSE), NamedFile(<<>>, {}, <<1>>, TRUE, FALSE)}
Offset(n, season, absolute) ==
  <<[number |-> n, seasonOffset |-> season, absoluteOffset |-> absolute]>>
Series(t, seasons, count, offset) ==
  [type |-> t, kind |-> "tv", seasons |-> seasons, count |-> count, offset |-> offset]
MediaPages == {Series("anime", {}, c, o) : c \in {0, 2}, o \in {<<>>, Offset(2, 0, 2), Offset(1, 1, 1)}}
              \cup {Series("series", ss, 0, <<>>) : ss \in {{1}, {1, 2}}}
              \cup {Series("movie", {}, 0, <<>>)}
Torrents == {[files |-> <<a, b>>, media |-> m, requested |-> r] :
               a \in OneFile, b \in OtherFile, m \in MediaPages,
               r \in {<<>>, <<[season |-> 2, number |-> 1, absolute |-> 0]>>}}

\* Magnet links and torrent files for TorrentMetainfo: p and q are public trackers, l is a
\* local one, u is not sound.
MagnetSet ==
  {[kind |-> "magnet", xt |-> xt, tr |-> tr, optional |-> o, unknownKey |-> u] :
     xt \in {<<>>, <<"h">>, <<"malformed">>, <<"h", "h">>},
     tr \in {<<>>, <<"p">>, <<"p", "l">>, <<"p", "q", "p">>}, o \in {{}, {"dn"}}, u \in BOOLEAN}
TorrentFile(path, utf8, n) == [path |-> path, utf8 |-> utf8, length |-> n]
Torrent == [kind |-> "file", form |-> "canonical", announce |-> <<>>, tiers |-> <<>>,
            publisher |-> "none", unknownKey |-> FALSE,
            files |-> <<TorrentFile(<<"a">>, <<>>, 2)>>, pieces |-> 1, pieceLength |-> 2]
Tiers == {<<>>, <<<<"p">>, <<"q">>>>, <<<<"l">>, <<"p", "q">>>>, <<<<"l">>>>, <<<<"q", "l">>>>,
          <<<<"u">>>>, <<<<>>>>, <<<<"p", "q", "l">>>>}
TrackedFile(a, t, p, f) ==
  [Torrent EXCEPT !.announce = a, !.tiers = t, !.publisher = p, !.form = f]
Tracked == {TrackedFile(a, t, p, f) :
              a \in {<<>>} \cup {<<u>> : u \in {"p", "l", "u"}},
              t \in {<<>>} \cup {<<ts>> : ts \in Tiers},
              p \in {"none", "name", "long"}, f \in {"canonical", "loose", "broken"}}
FileLists == {<<TorrentFile(a, b, n), TorrentFile(c, d, k)>> :
                a \in {<<"a">>, <<"a", "b">>, <<"..">>}, b \in {<<>>, <<"b">>},
                c \in {<<"a">>, <<"b">>, <<"a", "b">>}, d \in {<<>>, <<"a">>, <<"..">>},
                n \in {1, 2}, k \in {0, 1}}
FiledFile(fs, k, u) ==
  [Torrent EXCEPT !.files = fs, !.pieces = k, !.unknownKey = u, !.announce = <<"l">>]
Filed == {FiledFile(fs, k, u) :
            fs \in FileLists, k \in {1, 2}, u \in BOOLEAN}

VARIABLES
  part,  \* the part of the system this behaviour is about
  x1, x2, x3, x4, x5, x6, x7, x8, x9, x10,
  x11, x12, x13, x14, x15, x16, x17, x18

vars == <<part, x1, x2, x3, x4, x5, x6, x7, x8, x9, x10,
          x11, x12, x13, x14, x15, x16, x17, x18>>

\* The variables that a part with fewer does not have.
None == "none"
Free18 == x18 = None
Free17 == x17 = None /\ Free18
Free16 == x16 = None /\ Free17
Free15 == x15 = None /\ Free16
Free14 == x14 = None /\ Free15
Free13 == x13 = None /\ Free14
Free12 == x12 = None /\ Free13
Free11 == x11 = None /\ Free12
Free10 == x10 = None /\ Free11
Free9 == x9 = None /\ Free10
Free8 == x8 = None /\ Free9
Free7 == x7 = None /\ Free8
Free6 == x6 = None /\ Free7
Free5 == x5 = None /\ Free6
Free4 == x4 = None /\ Free5
Free3 == x3 = None /\ Free4

Rest18 == UNCHANGED x18
Rest17 == UNCHANGED x17 /\ Rest18
Rest16 == UNCHANGED x16 /\ Rest17
Rest15 == UNCHANGED x15 /\ Rest16
Rest14 == UNCHANGED x14 /\ Rest15
Rest13 == UNCHANGED x13 /\ Rest14
Rest12 == UNCHANGED x12 /\ Rest13
Rest11 == UNCHANGED x11 /\ Rest12
Rest10 == UNCHANGED x10 /\ Rest11
Rest9 == UNCHANGED x9 /\ Rest10
Rest8 == UNCHANGED x8 /\ Rest9
Rest7 == UNCHANGED x7 /\ Rest8
Rest6 == UNCHANGED x6 /\ Rest7
Rest5 == UNCHANGED x5 /\ Rest6
Rest4 == UNCHANGED x4 /\ Rest5
Rest3 == UNCHANGED x3 /\ Rest4

Catalog == INSTANCE EditorialCatalog WITH
  Syncs <- {Sync1, Sync2}, Items <- {"a", "b"}, Editions <- {"v1", "v2"},
  ItemsOf <- ItemsOf, MaxRevisions <- 2, None <- NoRevision,
  revision <- x1, sync <- x2, listed <- x3,
  overlapped <- x4

Artwork == INSTANCE ArtworkStore WITH
  Assets <- {"a"},
  row <- x1, file <- x2, card <- x3,
  referenced <- x4, sync <- x5, cleaner <- x6,
  excused <- x7

Registry == INSTANCE MediaRegistry WITH
  MaxWorks <- 2, Alias <- Alias, Space <- Space, Types <- {"movie", "anime"},
  Requests <- Registrations, Tx <- {"t1", "t2"}, Users <- {"a"}, MaxTime <- 2,
  type <- x1, redirect <- x2, owner <- x3, tx <- x4,
  saved <- x5, target <- x6, clock <- x7,
  first <- x8, latest <- x9, unsafe <- x10, retaken <- x11

Merging == INSTANCE MediaRegistry WITH
  MaxWorks <- 3, Alias <- Known, Space <- Space, Types <- {"movie", "anime"},
  Requests <- Bridges, Tx <- {"t1", "t2"}, Users <- {"a"}, MaxTime <- 1,
  type <- x1, redirect <- x2, owner <- x3, tx <- x4,
  saved <- x5, target <- x6, clock <- x7,
  first <- x8, latest <- x9, unsafe <- x10, retaken <- x11

Reading == INSTANCE Community WITH
  Tabs <- {"a1", "a2", "b1"}, Writers <- {"a1", "a2"}, Readers <- {"b1"},
  User <- User, Verified <- {"a", "b"}, Admins <- {"b"}, MaxItems <- 3,
  MaxTime <- 2, MaxActs <- 1, PageSize <- 1,
  item <- x1, creating <- x2, view <- x3, edit <- x4,
  report <- x5, clock <- x6, acts <- x7

Editing == INSTANCE Community WITH
  Tabs <- {"a1", "a2", "b1"}, Writers <- {"a1", "a2"}, Readers <- {},
  User <- User, Verified <- {"a", "b"}, Admins <- {"b"}, MaxItems <- 2,
  MaxTime <- 1, MaxActs <- 2, PageSize <- 1,
  item <- x1, creating <- x2, view <- x3, edit <- x4,
  report <- x5, clock <- x6, acts <- x7

Account == INSTANCE Accounts WITH
  Email <- {"a", "b"}, Browser <- {"x"}, MaxSerial <- 4, MaxResets <- 1,
  account <- x1, token <- x2, mail <- x3,
  session <- x4, cookie <- x5, op <- x6,
  leaving <- x7, me <- x8, page <- x9, cached <- x10,
  serial <- x11

Avatars == INSTANCE ProfileAvatars WITH
  User <- {"a"}, Key <- {"k1", "k2"}, Request <- {"r", "s"}, MaxRestarts <- 1,
  file <- x1, asset <- x2, avatar <- x3, drawn <- x4,
  request <- x5, cleanup <- x6, unsure <- x7,
  restarts <- x8

Progress == INSTANCE WatchProgress WITH
  User <- {"a", "b"}, Media <- {"m"}, MaxPosition <- 3, MaxQueue <- 2,
  MaxSwitches <- 1,
  auth <- x1, session <- x2, guest <- x3,
  cache <- x4, get <- x5, queue <- x6, active <- x7,
  failed <- x8, paused <- x9, trailing <- x10,
  queued <- x11, server <- x12, position <- x13,
  switches <- x14, intent <- x15

History == INSTANCE OpeningHistory WITH
  User <- {"a"}, Media <- {"m", "n"}, MaxActs <- 2, MaxSwitches <- 1,
  auth <- x1, guest <- x2, cache <- x3, get <- x4,
  queue <- x5, active <- x6, failed <- x7,
  paused <- x8, undo <- x9, pending <- x10,
  attempt <- x11, server <- x12, cleared <- x13,
  crossed <- x14, acts <- x15, switches <- x16

Favs == INSTANCE Favorites WITH
  User <- {"a"}, Media <- {"m", "n"}, MaxActs <- 2, MaxFaults <- 1,
  auth <- x1, guest <- x2, cache <- x3, get <- x4,
  flying <- x5, failed <- x6, attempt <- x7,
  server <- x8, choice <- x9, acts <- x10,
  faults <- x11, updating <- x12, skipped <- x13

Taking == INSTANCE Favorites WITH
  User <- {"a", "b"}, Media <- {"m"}, MaxActs <- 2, MaxFaults <- 1,
  auth <- x1, guest <- x2, cache <- x3, get <- x4,
  flying <- x5, failed <- x6, attempt <- x7,
  server <- x8, choice <- x9, acts <- x10,
  faults <- x11, updating <- x12, skipped <- x13

Seasons == INSTANCE AnimeSeasons WITH
  Parts <- 3, Request <- {Load1, Load2}, MaxChain <- 3, MaxLoads <- 2,
  MaxFaults <- 1,
  tv <- x1, prequels <- x2, sequels <- x3,
  cache <- x4, request <- x5, loads <- x6

Summaries == INSTANCE MediaSummaries WITH
  Ref <- {"m"}, Batch <- {"b", "c"}, Concurrency <- 1, Ttl <- 1, Stale <- 1,
  MaxVersion <- 2, MaxTime <- 3, MaxAsks <- 3,
  clock <- x1, source <- x2, published <- x3,
  cache <- x4, flight <- x5, batch <- x6, asks <- x7

Lists == INSTANCE PagedLists WITH
  MaxEntries <- 3, PageSize <- 1, Ttl <- 1, MaxTime <- 2, MaxLoads <- 2, MaxActs <- 1,
  entry <- x1, snapshot <- x2, list <- x3, fetch <- x4, kept <- x5, clock <- x6,
  acts <- x7, loads <- x8

Rating == INSTANCE Ratings WITH
  Widgets <- {"w", "v"}, Values <- {1, 2}, MaxChanges <- 2, MaxFaults <- 1,
  row <- x1, cache <- x2, fetch <- x3, failed <- x4, widget <- x5, changes <- x6,
  faults <- x7

Editor == INSTANCE ReviewEditor WITH
  Tabs <- {"t1", "t2"}, MaxTexts <- 3, MaxSends <- 2, MaxReloads <- 1,
  review <- x1, cached <- x2, fetch <- x3, form <- x4, op <- x5, seen <- x6,
  under <- x7, typed <- x8, sends <- x9, reloads <- x10, reviews <- x11

Talking == INSTANCE DiscussionPage WITH
  PageSize <- 1, MaxRows <- 2, MaxTexts <- 1, MaxActs <- 2, MaxFaults <- 0,
  of <- x1, row <- x2, live <- x3, data <- x4, fetch <- x5, draft <- x6,
  creating <- x7, pending <- x8, form <- x9, op <- x10, told <- x11, crossed <- x12,
  unsure <- x13, typed <- x14, acts <- x15, faults <- x16

Sending == INSTANCE DiscussionPage WITH
  PageSize <- 1, MaxRows <- 2, MaxTexts <- 1, MaxActs <- 1, MaxFaults <- 1,
  of <- x1, row <- x2, live <- x3, data <- x4, fetch <- x5, draft <- x6,
  creating <- x7, pending <- x8, form <- x9, op <- x10, told <- x11, crossed <- x12,
  unsure <- x13, typed <- x14, acts <- x15, faults <- x16

Selection == INSTANCE SourceSelection WITH
  Episodes <- {1, 2}, Tracks <- {"t", "u"}, MaxActs <- 2,
  ready <- x1, saved <- x2, embed <- x3, listed <- x4, found <- x5, lookup <- x6, mode <- x7,
  initialised <- x8, episode <- x9, source <- x10, track <- x11, session <- x12,
  request <- x13, wish <- x14, hasty <- x15, acts <- x16

Availability == INSTANCE AvailabilityStream WITH
  Provider <- {"p", "q"}, Ttl <- 2, MaxTime <- 4, MaxLoads <- 3,
  clock <- x1, data <- x2, stream <- x3, waiting <- x4, watched <- x5, loads <- x6

Profile == INSTANCE Profiles WITH
  Names <- {1, 2}, Handles <- {"h", "k"}, Taken <- {"k"}, MaxTyped <- 2, MaxSends <- 2,
  MaxOthers <- 1, MaxFaults <- 1,
  row <- x1, cached <- x2, fetch <- x3, failed <- x4, form <- x5, op <- x6, avatar <- x7,
  edited <- x8, behind <- x9, sends <- x10, typed <- x11, others <- x12, faults <- x13

Pairing == INSTANCE Companion WITH
  Pages <- {"p", "q"}, MaxRequests <- 2, MaxActs <- 2, MaxRevokes <- 1, MaxFaults <- 1,
  request <- x1, granted <- x2, stored <- x3, op <- x4, shown <- x5, mounted <- x6,
  kept <- x7, unsure <- x8, acts <- x9, revokes <- x10, faults <- x11

Helper == INSTANCE LocalTorrent WITH
  MaxStarts <- 2, MaxChoices <- 1, MaxFaults <- 1,
  helper <- x1, run <- x2, current <- x3, selection <- x4, choice <- x5, snapshot <- x6,
  pending <- x7, closing <- x8, choices <- x9, faults <- x10

Search == INSTANCE TorrentDiscovery WITH
  Owners <- {"o", "p"}, Catalogs <- {1, 2}, Jacred <- 1, Mirrors <- 2, Titles <- 1,
  Minute <- 2, Stale <- 3, Ttl <- 2, MaxCandidates <- 3, MaxPerMinute <- 1,
  MaxTime <- 2, MaxSearches <- 2, MaxFaults <- 1,
  time <- x1, cache <- x2, cooling <- x3, mirror <- x4, admitted <- x5, searches <- x6,
  held <- x7, answer <- x8, failed <- x9, begun <- x10, faults <- x11

Titled == INSTANCE TorrentDiscovery WITH
  Owners <- {"o"}, Catalogs <- {1, 2}, Jacred <- 1, Mirrors <- 2, Titles <- 2,
  Minute <- 2, Stale <- 3, Ttl <- 2, MaxCandidates <- 3, MaxPerMinute <- 1,
  MaxTime <- 1, MaxSearches <- 1, MaxFaults <- 2,
  time <- x1, cache <- x2, cooling <- x3, mirror <- x4, admitted <- x5, searches <- x6,
  held <- x7, answer <- x8, failed <- x9, begun <- x10, faults <- x11

Ranking == INSTANCE ReleaseRanking WITH
  Inputs <- Found \cup Judged, input <- x1, shown <- x2

Files == INSTANCE TorrentEpisodes WITH
  Inputs <- Torrents, input <- x1, opened <- x2

Metainfo == INSTANCE TorrentMetainfo WITH
  Public <- {"p", "q"}, Local <- {"l"}, Names <- {"a", "b"}, MaxTrackers <- 3, MaxTotal <- 3,
  Inputs <- MagnetSet \cup Tracked \cup Filed, input <- x1, result <- x2

Finding == INSTANCE MediaSearch WITH
  Text <- {"", "a", "a "}, Trimmed <- Trimmed, Genre <- {"g"}, NoGenre <- "none",
  Work <- <<1, 2, 3, 4>>, Newcomer <- 0, Refused <- {}, PageSize <- 2, Window <- 3,
  MaxAsks <- 3,
  page <- x1, typed <- x2, route <- x3, past <- x4, shown <- x5, timer <- x6, cache <- x7,
  failed <- x8, last <- x9, fetch <- x10, changed <- x11, asks <- x12, wish <- x13,
  hasty <- x14, mixed <- x15

-----------------------------------------------------------------------------
\* A franchise of at least two seasons; any other has no chain.
SomeSeasons == \E p, q \in DOMAIN x1 : p # q /\ x1[p] /\ x1[q]

\* What was watched last on the page of a series: an embedded player (nothing at all offers
\* the same), or a track of the second episode.
LastSource == x2.source \in {<<"embed", 0>>, <<"u", 2>>}

\* The guest's list, up to the names of the two films.
GuestList == x2 \in {<<>>, <<"m">>, <<"m", "n">>}
GuestSet == x2 \in {{}, {"m"}, {"m", "n"}}

Init ==
  \/ part = "catalog" /\ Catalog!Init /\ Free5
  \/ part = "artwork" /\ Artwork!Init /\ Free8
  \/ part = "registry" /\ Registry!Init /\ Free12
  \/ part = "merging" /\ Merging!Init /\ Free12
  \/ part = "reading" /\ Reading!Init /\ Free8
  \/ part = "editing" /\ Editing!Init /\ Free8
  \/ part = "accounts" /\ Account!Init /\ Free12
  \/ part = "avatars" /\ Avatars!Init /\ Free9
  \/ part = "progress" /\ Progress!Init /\ Free16
  \/ part = "history" /\ History!Init /\ GuestList /\ Free17
  \/ part = "favourites" /\ Favs!Init /\ GuestSet /\ Free14
  \/ part = "taking" /\ Taking!Init /\ Free14
  \/ part = "seasons" /\ Seasons!Init /\ SomeSeasons /\ Free7
  \/ part = "summaries" /\ Summaries!Init /\ Free8
  \/ part = "lists" /\ Lists!Init /\ Free9
  \/ part = "rating" /\ Rating!Init /\ Free8
  \/ part = "editor" /\ Editor!Init /\ Free12
  \/ part = "talking" /\ Talking!Init /\ x2 # <<>> /\ Free17
  \/ part = "sending" /\ Sending!Init /\ Free17
  \/ part = "selection" /\ Selection!Init /\ LastSource /\ Free17
  \/ part = "availability" /\ Availability!Init /\ Free7
  \/ part = "profile" /\ Profile!Init /\ Free14
  \/ part = "pairing" /\ Pairing!Init /\ Free12
  \/ part = "local" /\ Helper!Init /\ Free11
  \/ part = "search" /\ Search!Init /\ Free12
  \/ part = "titles" /\ Titled!Init /\ Free12
  \/ part = "ranking" /\ Ranking!Init /\ Free3
  \/ part = "episodes" /\ Files!Init /\ Free3
  \/ part = "metainfo" /\ Metainfo!Init /\ Free3
  \/ part = "browsing" /\ Finding!Init /\ Free16

Next ==
  /\ UNCHANGED part
  /\ \/ part = "catalog" /\ Catalog!Next /\ Rest5
     \/ part = "artwork" /\ Artwork!Next /\ Rest8
     \/ part = "registry" /\ Registry!Next /\ Rest12
     \/ part = "merging" /\ Merging!Next /\ Rest12
     \/ part = "reading" /\ Reading!Next /\ Rest8
     \/ part = "editing" /\ Editing!Next /\ Rest8
     \/ part = "accounts" /\ Account!Next /\ Rest12
     \/ part = "avatars" /\ Avatars!Next /\ Rest9
     \/ part = "progress" /\ Progress!Next /\ Rest16
     \/ part = "history" /\ History!Next /\ Rest17
     \/ part = "favourites" /\ Favs!Next /\ Rest14
     \/ part = "taking" /\ Taking!Next /\ Rest14
     \/ part = "seasons" /\ Seasons!Next /\ Rest7
     \/ part = "summaries" /\ Summaries!Next /\ Rest8
     \/ part = "lists" /\ Lists!Next /\ Rest9
     \/ part = "rating" /\ Rating!Next /\ Rest8
     \/ part = "editor" /\ Editor!Next /\ Rest12
     \/ part = "talking" /\ Talking!Next /\ Rest17
     \/ part = "sending" /\ Sending!Next /\ Rest17
     \/ part = "selection" /\ Selection!Next /\ Rest17
     \/ part = "availability" /\ Availability!Next /\ Rest7
     \/ part = "profile" /\ Profile!Next /\ Rest14
     \/ part = "pairing" /\ Pairing!Next /\ Rest12
     \/ part = "local" /\ Helper!Next /\ Rest11
     \/ part = "search" /\ Search!Next /\ Rest12
     \/ part = "titles" /\ Titled!Next /\ Rest12
     \/ part = "ranking" /\ Ranking!Next /\ Rest3
     \/ part = "episodes" /\ Files!Next /\ Rest3
     \/ part = "metainfo" /\ Metainfo!Next /\ Rest3
     \/ part = "browsing" /\ Finding!Next /\ Rest16

Spec == Init /\ [][Next]_vars

-----------------------------------------------------------------------------
TypeOK ==
  /\ part = "catalog" => Catalog!TypeOK
  /\ part = "artwork" => Artwork!TypeOK
  /\ part = "registry" => Registry!TypeOK
  /\ part = "merging" => Merging!TypeOK
  /\ part = "reading" => Reading!TypeOK
  /\ part = "editing" => Editing!TypeOK
  /\ part = "accounts" => Account!TypeOK
  /\ part = "avatars" => Avatars!TypeOK
  /\ part = "progress" => Progress!TypeOK
  /\ part = "history" => History!TypeOK
  /\ part = "favourites" => Favs!TypeOK
  /\ part = "taking" => Taking!TypeOK
  /\ part = "seasons" => Seasons!TypeOK
  /\ part = "summaries" => Summaries!TypeOK
  /\ part = "lists" => Lists!TypeOK
  /\ part = "rating" => Rating!TypeOK
  /\ part = "editor" => Editor!TypeOK
  /\ part = "talking" => Talking!TypeOK
  /\ part = "sending" => Sending!TypeOK
  /\ part = "selection" => Selection!TypeOK
  /\ part = "availability" => Availability!TypeOK
  /\ part = "profile" => Profile!TypeOK
  /\ part = "pairing" => Pairing!TypeOK
  /\ part = "local" => Helper!TypeOK
  /\ part = "search" => Search!TypeOK
  /\ part = "titles" => Titled!TypeOK
  /\ part = "browsing" => Finding!TypeOK

\* What the published catalog shows is complete, and what it ever showed stays known
\* (EditorialCatalog); releases found for a work are marked when they are old and a catalog is
\* asked again in time (TorrentDiscovery), and each is listed once, fresh, in its order and
\* with the evidence it has (ReleaseRanking).
PublishedComplete ==
  /\ part = "catalog" => Catalog!PublishedComplete /\ Catalog!NothingForgotten
  /\ part = "search" => Search!NothingOldUnmarked /\ Search!CooldownEnds
  /\ part = "titles" => Titled!NothingOldUnmarked /\ Titled!CooldownEnds
  /\ part = "ranking" => Ranking!PlacesShared /\ Ranking!ListedOnceFresh /\ Ranking!PageKeepsOrder
                         /\ Ranking!EvidenceCounts

\* A picture that is referenced has its file, through every clean-up: the artwork of
\* catalog items (ArtworkStore) and the avatars of users (ProfileAvatars).
FilesKept ==
  /\ part = "artwork" => Artwork!ReferencedHasFile
  /\ part = "avatars" => Avatars!AvatarHasFile

\* A merge of two works loses neither what users saved nor an identifier (MediaRegistry).
SavedSurvives ==
  /\ part = "registry" => Registry!SavedSurvives /\ Registry!RouteAndAliasAgree
  /\ part = "merging" => Merging!SavedSurvives /\ Merging!RouteAndAliasAgree

\* A reader who pages through a discussion misses nothing (Community), nor does one of a list
\* that is loaded by pieces (PagedLists) or of what a search has found (MediaSearch).
ReadersMissNothing ==
  /\ part = "reading" => Reading!ReadersMissNothing
  /\ part = "lists" => Lists!ReachesAll
  /\ part = "browsing" => Finding!ShownOnce /\ Finding!LastPageIsLast

EditsAreBased == part \in {"reading", "editing"} => Reading!EditsAreBased
TextKept ==
  /\ part = "editor" => Editor!OverwritesSeen /\ Editor!DraftKept
  /\ part \in {"talking", "sending"} => Talking!EditsAreSeen /\ Talking!DraftKept
  /\ part = "profile" => Profile!SavedIsTyped

\* No edit overwrites one its author has not seen (Community), and nothing typed is lost
\* (ReviewEditor, DiscussionPage) or said to be stored when it is not (Profiles).
NoLostEdit == [][EditsAreBased /\ TextKept]_vars

\* Access ends when it should: with a password reset, and with the account on the page
\* (Accounts); with a pairing that was not completed (Companion).  And the torrent engine is
\* handed nothing but public trackers and what a check would accept again (TorrentMetainfo).
AccessEnds ==
  /\ part = "accounts" => Account!ResetRevokes /\ Account!NoForeignData /\ Account!ShownIsSignedIn
  /\ part = "pairing" => Pairing!NothingLeftOpen
  /\ part = "metainfo" => Metainfo!NothingPrivate /\ Metainfo!AcceptedAgain

\* What the user did last wins, on the server and on the page, whatever was in flight,
\* failed or was retried: viewing progress (WatchProgress), the history and its undo
\* (OpeningHistory), favourites (Favorites), ratings (Ratings), comments (DiscussionPage), the
\* source played (SourceSelection), the profile (Profiles), the local helper (LocalTorrent) and
\* the search of a catalog (MediaSearch).
LastChangeWins ==
  /\ part = "progress" => Progress!SavedIsLatest /\ Progress!OwnSession
  /\ part = "history" => History!ClearCanBeUndone
  /\ part = "favourites" => Favs!SettledIsChosen
  /\ part = "taking" => Taking!SettledIsChosen
  /\ part = "rating" => Rating!RatingSettles
  /\ part = "talking" => Talking!ToldIsShown /\ Talking!SentOnce
  /\ part = "sending" => Sending!ToldIsShown /\ Sending!SentOnce
  /\ part = "selection" => Selection!ResumesSaved
  /\ part = "profile" => Profile!ShownIsStored
  /\ part = "local" => Helper!ShownIsHeld /\ Helper!OneStart
  /\ part = "browsing" => Finding!SettledIsAsked /\ Finding!AnnouncedIsAsked

\* The parts of a franchise number their episodes alike (AnimeSeasons), and so do the files of
\* a torrent: what is opened for an episode is surely that one (TorrentEpisodes).
PartsAgree ==
  /\ part = "seasons" => Seasons!PartsAgree
  /\ part = "episodes" => Files!OpenedIsSure /\ Files!OneNumberEach

\* What arrives late takes nothing back: the cache of summaries never returns to an older one
\* (MediaSummaries); a lookup that was given up starts nothing, one that only adds sources
\* keeps what plays, and another episode keeps its track (SourceSelection); loading the
\* sources again loses none that can be used (AvailabilityStream); a token is kept until it is
\* revoked (Companion); and an answer's releases can be chosen, by who was answered, without
\* taking the place of newer ones (TorrentDiscovery).
SummariesAdvance == part = "summaries" => \A m \in {"m"} : x4'[m].version >= x4[m].version
PlayingKept ==
  part = "selection" =>
    Selection!OnlyAskedStarts /\ Selection!AdditionsKeepPlaying /\ Selection!TrackGoesOn
SourcesKept == part = "availability" => Availability!NothingUsableLost
TokenKept == part = "pairing" => Pairing!ForgottenIsRevoked
ReleasesKept ==
  /\ part = "search" => Search!AnswersCanBeChosen
  /\ part = "titles" => Titled!AnswersCanBeChosen
LateAnswersHarmless ==
  [][SummariesAdvance /\ PlayingKept /\ SourcesKept /\ TokenKept /\ ReleasesKept]_vars
=============================================================================
