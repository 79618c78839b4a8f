-------------------------- MODULE SourceSelection --------------------------
(***************************************************************************)
(* The page of a series chooses what to play (MediaView, source-selection, *)
(* useMediaEpisodeAvailability).  The catalog of the work names its players *)
(* (one embedded player here) and, for some episodes, a placeholder of the *)
(* direct video; a lookup of an episode then finds the tracks that can be  *)
(* played, one after the other, and they replace the placeholder.  All of  *)
(* that arrives while the viewer already chooses, and while the page        *)
(* restores what was watched last.                                         *)
(*                                                                         *)
(* A source is <<track, episode>>; Placeholder is the track of the         *)
(* catalog's own entry.  One provider has all the direct video, and every   *)
(* source is playable: qualities and unavailable sources only filter the    *)
(* same lists.  Torrents are TorrentClient's, the answers of a lookup       *)
(* AvailabilityStream's.  Each effect of the page is a step of its own,     *)
(* that may come after other events.                                        *)
(***************************************************************************)
EXTENDS Integers, Sequences, SequencesExt

CONSTANTS Episodes,    \* episodes of the work, numbered from 1
          Tracks,      \* tracks a lookup may find, none named "none", "catalog" or "embed"
          MaxActs      \* bound: choices of the viewer

NoSource == <<"none", 0>>
Embed == <<"embed", 0>>
Placeholder(e) == <<"catalog", e>>
NoSession == [source |-> NoSource, episode |-> 0]
NoRequest == [episode |-> 0, want |-> "none"]
Resolved == Tracks \X Episodes
Sources == {NoSource, Embed} \cup {Placeholder(e) : e \in Episodes} \cup Resolved

VARIABLES
  ready,        \* whether the saved progress of the viewer has been read
  saved,        \* what was watched last: source, episode (0 in an embedded player)
  embed,        \* whether the catalog names an embedded player
  listed,       \* the episodes of which the catalog has a placeholder: all or none
  found,        \* per episode, the tracks its lookup found, in their order
  lookup,       \* per episode: "none" not asked, "pending", "done"
  mode, initialised,           \* selectedPlaybackMode, isPlaybackModeInitialized
  episode, source, track,      \* selected key, sourceRef and preferred track, or none
  session,      \* the playback session of this work, or NoSession
  request,      \* the episode being looked up to play it, and the track wanted
  wish,         \* the episode the viewer asked for last, when nothing was chosen since
  hasty,        \* a default was taken for lack of what arrived later
  acts

progress == <<ready, saved>>
offers == <<embed, listed, found, lookup>>
selection == <<mode, initialised, episode, source, track>>
vars == <<ready, saved, embed, listed, found, lookup, mode, initialised, episode, source,
          track, session, request, wish, hasty, acts>>

-----------------------------------------------------------------------------
\* What the page derives from its state each time it renders.
Watched == IF session # NoSession THEN session ELSE IF ready THEN saved ELSE NoSession
SessionEmbed == embed /\ Watched.source = Embed
InitialMode == IF SessionEmbed THEN "embed"
               ELSE IF Watched.episode = 0 /\ embed THEN "embed" ELSE "direct"
InitialEpisode == IF Watched.episode # 0 THEN Watched.episode ELSE 1
Mode == IF initialised THEN mode ELSE InitialMode
Episode == IF episode # 0 THEN episode ELSE InitialEpisode

\* mergeEpisodeSources: what the lookup found replaces the provider's placeholder.
Merged(e) == IF found[e] # <<>> THEN [i \in DOMAIN found[e] |-> <<found[e][i], e>>]
             ELSE IF e \in listed THEN <<Placeholder(e)>> ELSE <<>>
Current == Merged(Episode)
HasDirect == Current # <<>>
Pending == lookup[Episode] = "pending"
Offered == HasDirect \/ embed

SelectedDirect == LET current == Current
                      playable == ToSet(current)
                  IN  IF source \in playable THEN source
                      ELSE IF Watched.source \in playable THEN Watched.source
                      ELSE IF current # <<>> THEN current[1] ELSE NoSource
Selected == IF Mode = "direct" THEN SelectedDirect ELSE IF embed THEN Embed ELSE NoSource

\* isPlayerStarted and directSourceUnconfirmed; a session that began with the placeholder
\* goes on with what replaced it.
SameSource == \/ session.source = Selected
              \/ Mode = "direct" /\ Episode \in listed /\ SelectedDirect # NoSource
                 /\ session.source = Placeholder(Episode)
Started == session # NoSession /\ SameSource /\ (Mode = "direct" => session.episode = Episode)
Unconfirmed == Mode = "direct" /\ SelectedDirect \notin Resolved
Playing == Started /\ ~Unconfirmed

-----------------------------------------------------------------------------
\* The page opens: what it knows already may be cached, and the viewer may come with a
\* session of this work.
LastWatched == {NoSession, [source |-> Embed, episode |-> 0]}
               \cup {[source |-> s, episode |-> s[2]] : s \in Resolved}

Init ==
  /\ ready \in BOOLEAN
  /\ saved \in LastWatched
  /\ session \in {NoSession, saved} /\ (session # NoSession => ready)
  /\ embed \in BOOLEAN /\ listed \in {{}, Episodes}
  /\ found = [e \in Episodes |-> <<>>] /\ lookup = [e \in Episodes |-> "none"]
  /\ mode = InitialMode
  /\ initialised = (ready /\ (embed \/ listed # {}))
  /\ episode = IF ready THEN InitialEpisode ELSE 0
  /\ source = IF ~ready THEN NoSource
              ELSE IF session.episode # 0 THEN session.source
              ELSE IF InitialEpisode \in listed THEN Placeholder(InitialEpisode) ELSE NoSource
  /\ track = "none"
  /\ request = NoRequest /\ wish = 0
  /\ hasty = (initialised /\ ~embed /\ saved.source = Embed)
  /\ acts = 0

-----------------------------------------------------------------------------
\* What arrives.  A request to play an episode is aborted when another source gets selected.
Reselect == IF Selected' = Selected THEN UNCHANGED <<request, wish>>
            ELSE request' = NoRequest /\ wish' = IF request = NoRequest THEN wish ELSE 0

ProgressRead ==
  /\ ~ready /\ ready' = TRUE
  /\ UNCHANGED <<saved, offers, selection, session, hasty, acts>>
  /\ Reselect

CatalogAnswers ==
  /\ \/ ~embed /\ embed' = TRUE /\ UNCHANGED listed
     \/ listed = {} /\ listed' = Episodes /\ UNCHANGED embed
  /\ UNCHANGED <<progress, found, lookup, selection, session, hasty, acts>>
  /\ Reselect

\* The page looks up the selected episode, and, once that has answered, its neighbours.
Lookup ==
  /\ \E e \in Episodes :
       /\ lookup[e] = "none"
       /\ e = Episode \/ (Mode = "direct" /\ found[Episode] # <<>>)
       /\ lookup' = [lookup EXCEPT ![e] = "pending"]
  /\ UNCHANGED <<progress, embed, listed, found, selection, session, request, wish,
                 hasty, acts>>

TrackFound ==
  /\ \E e \in Episodes, t \in Tracks :
       /\ lookup[e] = "pending" /\ t \notin ToSet(found[e])
       /\ found' = [found EXCEPT ![e] = Append(@, t)]
  /\ UNCHANGED <<progress, embed, listed, lookup, selection, session, hasty, acts>>
  /\ Reselect

\* The request of selectDirectEpisode ends with the lookup: its answer is used unless the
\* request was aborted meanwhile.  The track of the moment it was asked is preferred.
Preferred(e, want) == IF want \in ToSet(found[e]) THEN <<want, e>> ELSE Merged(e)[1]

PlayEpisode(s) ==
  /\ initialised' = TRUE /\ mode' = "direct"
  /\ episode' = s[2] /\ source' = s
  /\ session' = [source |-> s, episode |-> s[2]] /\ saved' = session'
  /\ UNCHANGED track

LookupEnds ==
  /\ \E e \in Episodes :
       /\ lookup[e] = "pending" /\ lookup' = [lookup EXCEPT ![e] = "done"]
       /\ IF request.episode # e THEN UNCHANGED <<saved, selection, session, request, wish>>
          ELSE /\ request' = NoRequest
               /\ IF found[e] = <<>>
                  THEN wish' = 0 /\ UNCHANGED <<saved, selection, session>>
                  ELSE PlayEpisode(Preferred(e, request.want)) /\ UNCHANGED wish
  /\ UNCHANGED <<ready, embed, listed, found, hasty, acts>>

-----------------------------------------------------------------------------
\* The effects of the page.
Initialise ==
  /\ ready /\ ~initialised /\ (Offered \/ Pending)
  /\ mode' = InitialMode /\ initialised' = TRUE
  /\ hasty' = (hasty \/ (saved.source = Embed /\ ~embed))
  /\ UNCHANGED <<progress, offers, episode, source, track, session, request, wish, acts>>

\* resolveAvailablePlaybackMode
AvailableMode == IF mode = "embed" /\ ~embed /\ HasDirect THEN "direct"
                 ELSE IF mode = "direct" /\ ~HasDirect /\ embed /\ ~Pending THEN "embed"
                 ELSE mode

ChangeMode ==
  /\ ready /\ initialised /\ (Offered \/ Pending) /\ AvailableMode # mode
  /\ mode' = AvailableMode
  /\ hasty' = (hasty \/ (AvailableMode = "embed" /\ saved.source # Embed))
  /\ UNCHANGED <<progress, offers, initialised, episode, source, track, session, acts>>
  /\ Reselect

Missing == /\ ready
           /\ \/ episode = 0
              \/ SelectedDirect # NoSource /\ (source = NoSource \/ track = "none")

FillIn ==
  /\ Missing
  /\ episode' = Episode
  /\ source' = IF source = NoSource THEN SelectedDirect ELSE source
  /\ track' = IF track = "none" THEN SelectedDirect[1] ELSE track
  /\ hasty' = (hasty \/ (SelectedDirect \in Resolved /\ source' # saved.source))
  /\ UNCHANGED <<progress, offers, mode, initialised, session, request, wish, acts>>

\* The preferred track, once the episode has it; never under a session.
Follows == /\ session = NoSession /\ <<track, Episode>> \in ToSet(Current)
           /\ SelectedDirect # <<track, Episode>>

FollowTrack ==
  /\ Follows /\ source' = <<track, Episode>>
  /\ UNCHANGED <<progress, offers, mode, initialised, episode, track, session, hasty,
                 acts>>
  /\ Reselect

\* The player aborts its command: the viewer gave it up, or the player left the page.
HostAborts ==
  /\ request # NoRequest /\ request' = NoRequest /\ wish' = 0
  /\ UNCHANGED <<progress, offers, selection, session, hasty, acts>>

-----------------------------------------------------------------------------
\* What the viewer does.
Act == acts < MaxActs /\ acts' = acts + 1

Press ==
  /\ Act /\ ~Started /\ Selected # NoSource
  /\ session' = [source |-> Selected, episode |-> IF Mode = "direct" THEN Episode ELSE 0]
  /\ saved' = session'
  /\ UNCHANGED <<ready, offers, selection, request, wish, hasty>>

\* The episode menu of the player (selectDirectEpisode).
ChooseEpisode ==
  /\ Act /\ Playing /\ Mode = "direct"
  /\ \E e \in Episodes \ {Episode} :
       LET want == SelectedDirect[1] IN
       /\ wish' = e
       /\ IF want \in ToSet(found[e])
          THEN PlayEpisode(<<want, e>>) /\ request' = NoRequest /\ UNCHANGED lookup
          ELSE /\ request' = [episode |-> e, want |-> want]
               /\ lookup' = [lookup EXCEPT ![e] = "pending"]
               /\ UNCHANGED <<saved, selection, session>>
  /\ UNCHANGED <<ready, embed, listed, found, hasty>>

\* resetPlayer
Reset == session' = NoSession /\ request' = NoRequest /\ wish' = 0

\* selectDirectSource
PlaySource(s) ==
  /\ source' = s
  /\ IF Started
     THEN /\ session' = [source |-> s, episode |-> Episode] /\ saved' = session'
          /\ request' = NoRequest /\ wish' = 0
     ELSE Reset /\ UNCHANGED saved

ChooseTrack ==
  /\ Act /\ Playing /\ Mode = "direct"
  /\ \E s \in ToSet(Current) \ {SelectedDirect} : track' = s[1] /\ PlaySource(s)
  /\ UNCHANGED <<ready, offers, mode, initialised, episode, hasty>>

\* The list of sources: an embedded player, or the provider of the direct video.
ChooseEmbed ==
  /\ Act /\ embed /\ Mode # "embed"
  /\ mode' = "embed" /\ initialised' = TRUE /\ Reset
  /\ UNCHANGED <<progress, offers, episode, source, track, hasty>>

ChooseProvider ==
  /\ Act /\ HasDirect
  /\ LET s == IF <<track, Episode>> \in ToSet(Current) THEN <<track, Episode>>
              ELSE Current[1] IN
     /\ track' = s[1]
     /\ IF s # SelectedDirect THEN PlaySource(s)
        ELSE IF Mode # "direct" THEN Reset /\ UNCHANGED <<saved, source>>
        ELSE UNCHANGED <<saved, source, session, request, wish>>
  /\ mode' = "direct" /\ initialised' = (initialised \/ Mode # "direct")
  /\ UNCHANGED <<ready, offers, episode, hasty>>

Next ==
  \/ ProgressRead \/ CatalogAnswers \/ Lookup \/ TrackFound \/ LookupEnds
  \/ Initialise \/ ChangeMode \/ FillIn \/ FollowTrack \/ HostAborts
  \/ Press \/ ChooseEpisode \/ ChooseTrack \/ ChooseEmbed \/ ChooseProvider

Spec == Init /\ [][Next]_vars

-----------------------------------------------------------------------------
TypeOK ==
  /\ ready \in BOOLEAN /\ embed \in BOOLEAN /\ initialised \in BOOLEAN /\ hasty \in BOOLEAN
  /\ saved \in LastWatched \cup {[source |-> Placeholder(e), episode |-> e] : e \in Episodes}
  /\ session \in {NoSession, saved}
  /\ listed \subseteq Episodes
  /\ \A e \in Episodes : ToSet(found[e]) \subseteq Tracks /\ IsInjective(found[e])
  /\ lookup \in [Episodes -> {"none", "pending", "done"}]
  /\ mode \in {"embed", "direct"}
  /\ episode \in Episodes \cup {0} /\ source \in Sources
  /\ track \in Tracks \cup {"none", "catalog", "embed"}
  /\ request.episode \in Episodes \cup {0} /\ wish \in Episodes \cup {0}
  /\ acts \in 0..MaxActs

\* No effect of the page is due.
AtRest == /\ ready /\ initialised /\ ~Missing /\ ~Follows /\ AvailableMode = mode
          
\* Without a choice of the viewer the page comes back to what was watched last, as soon as
\* it is offered, in whatever order the answers arrive: unless a default was taken already.
ResumesSaved ==
  AtRest /\ acts = 0 /\ ~hasty =>
    /\ saved.source = Embed /\ embed => Selected = Embed
    /\ saved.episode # 0 => /\ Episode = saved.episode
                            /\ saved.source \in ToSet(Current) => Selected = saved.source

\* The answer of a lookup that was given up never starts anything: an episode only starts to
\* play because the viewer presses play, or asked for it last.
OnlyAskedStarts ==
  session' # session /\ session'.episode \notin {0, session.episode} =>
    \/ acts' > acts
    \/ wish = session'.episode /\ request.episode = wish

\* An answer that only adds sources neither stops what plays nor changes it: the placeholder
\* a session began with is replaced under it.  The exception is the source selected before,
\* when it was not offered at the time the viewer pressed play and is found now.
AdditionsKeepPlaying ==
  /\ UNCHANGED <<acts, session>> /\ (found' # found \/ listed' # listed \/ embed' # embed)
  /\ source \in ToSet(Current)' => source \in ToSet(Current)
  => /\ Started => Started'
     /\ Playing => Selected' = Selected

\* Another episode plays with the track of the one before it when it has that track.
TrackGoesOn ==
  session # NoSession /\ session'.episode \notin {0, session.episode} /\ session.episode # 0
  /\ Playing /\ Episode = session.episode /\ SelectedDirect[1] \in ToSet(found'[session'.episode])
    => session'.source[1] = SelectedDirect[1]
=============================================================================
