------------------------------ MODULE MCStreaming ------------------------------
(***************************************************************************)
(* Instances for TLC of the parts of a torrent session that must make      *)
(* progress: the way from the encoder to the viewer (HlsDelivery), the     *)
(* torrents in the engine (TorrentEngine), and the page that gives the     *)
(* commands (TorrentClient).  StreamingInit chooses one of them, and only  *)
(* that one moves.                                                         *)
(***************************************************************************)
EXTENDS HlsDelivery

\* A film whose key frames come every two seconds, and one with heavy and long segments.
Film(seconds, bytes) ==
  [n \in DOMAIN seconds |-> [end |-> FoldSeq(+, 0, SubSeq(seconds, 1, n)),
                             bytes |-> FoldSeq(+, 0, SubSeq(bytes, 1, n))]]
MCFilms == {Film([i \in 1 .. 7 |-> 1], [i \in 1 .. 7 |-> 1]),
            Film(<<1, 2, 3, 1, 1>>, <<8, 6, 6, 3, 1>>)}

\* Both sessions ask for the same torrent.
Wants == [s \in {"s1", "s2"} |-> "k"]

VARIABLES
  part,   \* the part of the system this behaviour is about
  \* TorrentEngine
  engRow, engEngine, engStart, engTask, engSweep, engSeen, engEvents,
  \* TorrentClient
  cliSrv, cliCreated, cliAdmitted, cliBegun, cliCmd, cliLate, cliPage, cliSerial,
  cliFaults, cliOthers

engVars == <<engRow, engEngine, engStart, engTask, engSweep, engSeen, engEvents>>
cliVars == <<cliSrv, cliCreated, cliAdmitted, cliBegun, cliCmd, cliLate, cliPage, cliSerial,
             cliFaults, cliOthers>>

Engine == INSTANCE TorrentEngine WITH
  Session <- {"s1", "s2"}, Torrent <- {"k"}, Wants <- Wants,
  Stopping <- {"s1"}, MaxEvents <- 1,
  row <- engRow, engine <- engEngine, start <- engStart, task <- engTask,
  sweep <- engSweep, seen <- engSeen, events <- engEvents

Client == INSTANCE TorrentClient WITH
  Candidate <- {"c"}, File <- {"f1", "f2"}, Position <- {"p0", "p1"},
  MaxTries <- 2, MaxCommands <- 2, MaxFaults <- 1, MaxOthers <- 1,
  srv <- cliSrv, created <- cliCreated, admitted <- cliAdmitted, begun <- cliBegun,
  cmd <- cliCmd, late <- cliLate, page <- cliPage, serial <- cliSerial,
  faults <- cliFaults, others <- cliOthers

-----------------------------------------------------------------------------
(***************************************************************************)
(* The part that is not chosen stays where nothing of it can happen, so    *)
(* that its fairness asks for nothing: no sweep, and an encoder that has   *)
(* failed before its first segment.                                        *)
(***************************************************************************)
NoDelivery ==
  /\ film = CHOOSE f \in Films : TRUE
  /\ made = 0 /\ since = 0 /\ first = 1 /\ next = 0 /\ position = 0
  /\ worker = "failed"
  /\ answer = None /\ listed = 0 /\ fetched = 0 /\ shown = 0 /\ reports = {}

NoEngine ==
  /\ engRow = [s \in {"s1", "s2"} |-> [state |-> "free", key |-> Engine!NoKey, old |-> FALSE]]
  /\ engEngine = {} /\ engSeen = [k \in {"k"} |-> "no"] /\ engEvents = 0
  /\ engStart = [s \in {"s1", "s2"} |-> "none"]
  /\ engTask = [p \in Engine!Tasks |-> Engine!Idle]
  /\ engSweep = [Engine!Asleep EXCEPT !.step = "never"]

\* A page that plays nothing, and one that plays a film: that one has no other tab.
NoClient == Client!Init
SomeClient ==
  \/ Client!Init
  \/ Client!InitPlaying /\ cliFaults = 0 /\ cliOthers = 1

StreamingInit ==
  \/ part = "delivery" /\ Init /\ NoEngine /\ NoClient
  \/ part = "engine" /\ Engine!Init /\ NoDelivery /\ NoClient
  \/ part = "client" /\ SomeClient /\ NoDelivery /\ NoEngine

StreamingNext ==
  \/ part = "delivery" /\ Next /\ UNCHANGED <<part, engVars, cliVars>>
  \/ part = "engine" /\ Engine!Next /\ UNCHANGED <<part, vars, cliVars>>
  \/ part = "client" /\ Client!Next /\ UNCHANGED <<part, vars, engVars>>

StreamingSpec ==
  /\ StreamingInit /\ [][StreamingNext]_<<part, vars, engVars, cliVars>>
  /\ Fairness /\ Engine!Fairness /\ Client!Fairness

-----------------------------------------------------------------------------
StreamingTypeOK ==
  /\ part = "delivery" => TypeOK
  /\ part = "engine" => Engine!TypeOK
  /\ part = "client" => Client!TypeOK

\* The viewer's next segment is never evicted, and the cache never fills up (HlsDelivery);
\* the commands of the page take effect in their order, and once (TorrentClient).
PlayerServed ==
  /\ part = "delivery" => NextSegmentIsThere
  /\ part = "client" => Client!InOrder

\* A film that is watched is watched to its end (HlsDelivery); what the page plays is in the
\* end what the server has (TorrentClient).
ViewingSettles ==
  <>[](/\ part = "delivery" => shown = Length
       /\ part = "client" => Client!PageIsCurrent)

\* A torrent no session is bound to does not stay in the engine (TorrentEngine).
OrphansDropped == Engine!OrphansDropped

\* A session whose torrent is not loaded does not stay active (TorrentEngine).
StrandedResolves == Engine!StrandedResolves
=============================================================================
