---- MODULE HlsDelivery ----
(***************************************************************************)
(* One generation of playback from the encoder to the viewer: FFmpeg adds  *)
(* segments to a directory of bounded size, a monitor suspends and resumes *)
(* it, TorrentSegmentBuffer evicts what lies behind the position the       *)
(* viewer has confirmed, TorrentHlsService serves playlists and segments,  *)
(* and the browser reports its position now and then                       *)
(* (torrent-segment-buffer.ts, torrent-hls.service.ts, the monitor of      *)
(* torrent-stream.gateway.ts and the client's torrentStream.ts).           *)
(*                                                                         *)
(* The unit of time is a segment of the minimal length (-hls_time 2).  A   *)
(* segment ends at a key frame, so it may be longer, and heavier.  Whether *)
(* the generation is still the session's is TorrentPlayback's subject; the *)
(* viewer here plays forward, as a seek that leaves the buffer starts a    *)
(* new generation.                                                         *)
(***************************************************************************)
EXTENDS Integers, FiniteSets, SequencesExt

CONSTANTS
  Films,       \* sequences [end, bytes]: the second at which a segment ends
               \* and the bytes of the film up to there
  Startup,     \* TORRENT_STARTUP_SECONDS
  Window,      \* TORRENT_WINDOW_SECONDS
  LookBehind,  \* the seconds kept behind the viewer
  Target,      \* TORRENT_WINDOW_TARGET_BYTES
  Limit,       \* TORRENT_WINDOW_BYTES
  MaxSegments, \* TORRENT_WINDOW_SEGMENTS
  Brake,       \* segments below MaxSegments at which the encoder is held
  Slack,       \* segments below MaxSegments at which it may go on
  Burst,       \* bound: segments finished between two looks of the monitor
  MaxReports   \* reports of the position under way (one is aborted after
               \* five seconds, which does not undo it)

VARIABLES
  film,
  made,      \* segments on disk or evicted: 1..made
  since,     \* those the monitor has not seen
  first,     \* the buffer holds first..next
  next,
  position,  \* the confirmed position
  worker,    \* running, suspended, completed or failed
  answer,    \* the playlist a request has read and not sent yet
  listed,    \* the last segment the player has a handle of
  fetched,   \* segments the player has downloaded: 1..fetched
  shown,     \* what the viewer has seen, in seconds
  reports    \* positions on their way to the server

vars == <<film, made, since, first, next, position, worker, answer, listed,
          fetched, shown, reports>>

None == 0
EndOf(n) == IF n = 0 THEN 0 ELSE film[n].end
Upto(n) == IF n = 0 THEN 0 ELSE film[n].bytes
Bytes(a, b) == Upto(b) - Upto(a - 1)
Length == EndOf(Len(film))

Init ==
  /\ film \in Films
  /\ made = 0 /\ since = 0 /\ first = 1 /\ next = 0 /\ position = 0
  /\ worker = "running"
  /\ answer = None /\ listed = 0 /\ fetched = 0 /\ shown = 0 /\ reports = {}

(* read: take over the new segments, then drop those that end behind the   *)
(* viewer, and under byte pressure also the ones within the look-behind;   *)
(* the last one always stays.                                              *)
(* Mutant: measured from the end of what is there. *)
CutoffOfNext == EndOf(next) - LookBehind

Cutoff == position - (IF 4 * Bytes(first, made) >= 3 * Target THEN 0 ELSE LookBehind)
Retained == LET cutoff == Cutoff IN Min({n \in first..made : EndOf(n) > cutoff \/ n = made})
Overflows == \/ Bytes(Retained, made) > Limit
             \/ made - Retained + 1 > MaxSegments

(* Mutant: the buffer forgets to take the new segments over. *)
RefreshFirst == made > 0 /\ first' = Retained /\ UNCHANGED next

Refresh == /\ made > 0
           /\ next' = made /\ first' = Retained

(* FFmpeg finishes a segment; at the end of the film it publishes the end  *)
(* of the list and exits, and the generation is complete.                  *)
Produce ==
  /\ worker = "running" /\ made < Len(film) /\ since < Burst
  /\ made' = made + 1 /\ since' = since + 1
  /\ UNCHANGED <<film, first, next, position, worker, answer, listed, fetched,
                 shown, reports>>

Ended ==
  /\ worker = "running" /\ made = Len(film)
  /\ Refresh
  /\ worker' = IF Bytes(Retained, made) <= Limit /\ ~Overflows THEN "completed" ELSE "failed"
  /\ UNCHANGED <<film, made, since, position, answer, listed, fetched, shown, reports>>

(* The monitor: hold the encoder when enough lies ahead of the viewer and  *)
(* the budget is used, let it go on when the viewer has caught up.         *)
(* Mutant: the budget alone decides. *)
HeldByBudget ==
  LET ahead == EndOf(made) - position
      bytes == Bytes(Retained, made)
      count == made - Retained + 1
  IN  IF worker = "running"
      THEN bytes >= Target \/ ahead >= Window \/ count >= MaxSegments - Brake
      ELSE ~ (4 * bytes < 3 * Target /\ 4 * ahead < 3 * Window /\ count < MaxSegments - Slack)

Held ==
  LET ahead == EndOf(made) - position
      bytes == Bytes(Retained, made)
      count == made - Retained + 1
  IN  IF worker = "running"
      THEN /\ ahead > Startup
           /\ bytes >= Target \/ ahead >= Window \/ count >= MaxSegments - Brake
      ELSE ~ /\ \/ 4 * bytes < 3 * Target /\ 4 * ahead < 3 * Window
                \/ ahead <= Startup
             /\ count < MaxSegments - Slack

Monitor ==
  /\ worker \in {"running", "suspended"}
  /\ Refresh
  /\ since' = 0
  /\ worker' = IF Overflows THEN "failed" ELSE IF Held THEN "suspended" ELSE "running"
  /\ UNCHANGED <<film, made, position, answer, listed, fetched, shown, reports>>

(* serve: the playlist is read; a broken one ends the generation.          *)
Served == worker' = IF Overflows THEN "failed" ELSE worker

Media ==
  /\ worker # "failed" /\ answer = None
  /\ Refresh /\ Served
  /\ answer' = made
  /\ UNCHANGED <<film, made, since, position, listed, fetched, shown, reports>>

(* It is sent after the viewer's activity has been recorded, with the      *)
(* handles the manifest has by then.                                       *)
MediaSent ==
  /\ answer # None
  /\ listed' = IF answer >= first /\ answer > listed THEN answer ELSE listed
  /\ answer' = None
  /\ UNCHANGED <<film, made, since, first, next, position, worker, fetched, shown, reports>>

(* The player asks for its next segment by the handle it has.              *)
Segment ==
  /\ worker # "failed" /\ fetched < listed
  /\ Refresh /\ Served
  /\ Retained <= fetched + 1 /\ fetched' = fetched + 1
  /\ UNCHANGED <<film, made, since, position, answer, listed, shown, reports>>

Watch ==
  /\ shown < EndOf(fetched)
  /\ shown' = shown + 1
  /\ UNCHANGED <<film, made, since, first, next, position, worker, answer, listed,
                 fetched, reports>>

(* The browser reports where it is; reports may overtake each other. *)
Report ==
  /\ worker # "failed" /\ shown # position
  /\ Cardinality(reports) < MaxReports /\ shown \notin reports
  /\ reports' = reports \cup {shown}
  /\ UNCHANGED <<film, made, since, first, next, position, worker, answer, listed,
                 fetched, shown>>

(* confirm: a position beyond what the buffer has read is refused. *)
Confirm(p) ==
  /\ p \in reports
  /\ position' = IF p <= EndOf(next) THEN p ELSE position
  /\ reports' = reports \ {p}
  /\ UNCHANGED <<film, made, since, first, next, worker, answer, listed, fetched, shown>>

Next ==
  \/ Produce \/ Ended \/ Monitor \/ Media \/ MediaSent \/ Segment \/ Watch
  \/ Report \/ \E p \in reports : Confirm(p)

(* The encoder works and ends, its monitor is a timer, the player asks for *)
(* the playlist again and again and for its next segment, the viewer keeps *)
(* watching and the page reporting.                                        *)
Fairness ==
  /\ WF_vars(Produce \/ Ended) /\ WF_vars(Monitor)
  /\ WF_vars(Media \/ MediaSent) /\ WF_vars(Segment) /\ WF_vars(Watch)
  /\ WF_vars(Report) /\ WF_vars(\E p \in reports : Confirm(p))

Spec == Init /\ [][Next]_vars
FairSpec == Spec /\ Fairness

(* Properties *)

TypeOK ==
  /\ film \in Films /\ made \in 0..Len(film) /\ since \in 0..Burst
  /\ first \in 1..made + 1 /\ next \in 0..made
  /\ position \in 0..Length /\ shown \in 0..EndOf(fetched)
  /\ worker \in {"running", "suspended", "completed", "failed"}
  /\ answer \in 0..made /\ listed \in 0..next /\ fetched \in 0..listed
  /\ reports \subseteq 0..shown /\ Cardinality(reports) <= MaxReports

(* A viewer who plays forward never finds the next segment evicted, and    *)
(* the encoder, which cannot be slowed down in time by a monitor that      *)
(* looks at intervals, never fills the cache beyond its limit              *)
(* (torrent-segment-buffer.ts:87-101).                                     *)
NextSegmentIsThere ==
  /\ first <= fetched + 1
  /\ worker # "failed"

(* The film never stalls for good: when the viewer has seen all there is,  *)
(* the encoder is let go on, however heavy or short the segments are that  *)
(* fill the window.                                                        *)
FilmReachesItsEnd == <>(shown = Length)
====
