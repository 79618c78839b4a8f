----------------------------- MODULE TorrentClient -----------------------------
(***************************************************************************)
(* The film's page as a client of torrent sessions: the launch panel       *)
(* chooses a release and plays it, the player seeks and changes files.     *)
(* Aborting a request does not undo it: what was sent may still be         *)
(* admitted.  A command holds on to the version it last saw and, for       *)
(* playback, to one idempotency key over all its attempts.                 *)
(*                                                                         *)
(* A lane holds at most one live command: the panel refuses a second one   *)
(* while one is pending, the player aborts the previous one.  A command is *)
(* between two awaits in each state; its poll timers are left to the       *)
(* interleaving.  Another tab of the account may use the session as well.  *)
(***************************************************************************)
EXTENDS Integers, Sequences, FiniteSets

CONSTANTS
  Candidate,    \* releases found
  File,         \* files of a release
  Position,     \* positions to start from
  MaxTries,     \* attempts of one command to be admitted
  MaxCommands,  \* bound: commands of the user
  MaxFaults,    \* bound: requests without an answer, and playbacks that fail
  MaxOthers     \* bound: playbacks another tab begins

VARIABLES
  srv,      \* the account's session on the server
  created,  \* idempotency keys of creations, with their sessions
  admitted, \* idempotency keys of playbacks
  begun,    \* what each lane has made the server begin: [by, op], in this order
  cmd,      \* the live command of each lane
  late,     \* requests nobody waits for, not handled yet
  page,     \* what the page holds
  serial,   \* commands so far
  faults, others

vars == <<srv, created, admitted, begun, cmd, late, page, serial, faults, others>>

Lane == {"panel", "player"}
None == "none"

\* A session as a client sees it; gone is the absence of one.
Gone == [id |-> 0, state |-> "gone", version |-> 0, gen |-> 0, file |-> None, pos |-> None]
Selectable == {"awaiting_file", "awaiting_playback", "ready"}

NoRequest == [op |-> "none"]
Waiting == [kind |-> "waiting"]
Idle == [what |-> "idle", by |-> 0, step |-> "idle", key |-> 0, cur |-> Gone,
         file |-> None, pos |-> None, since |-> 0, tries |-> 0,
         req |-> NoRequest, reply |-> Waiting]

Init ==
  /\ srv = Gone /\ created = {} /\ admitted = {} /\ begun = [l \in Lane |-> <<>>]
  /\ cmd = [l \in Lane |-> Idle] /\ late = {}
  /\ page = [session |-> Gone, active |-> Gone, playing |-> FALSE,
             selected |-> FALSE, waiting |-> FALSE, candidate |-> None, key |-> 0, chosen |-> None]
  /\ serial = 0 /\ faults = 0 /\ others = 0

\* A film that plays from its start; MC modules begin with it, and choose the budgets left.
Found == CHOOSE x \in Candidate : TRUE
Start == CHOOSE p \in Position : TRUE
Started == [id |-> 1, state |-> "ready", version |-> 5, gen |-> 1,
            file |-> CHOOSE f \in File : TRUE, pos |-> Start]
InitPlaying ==
  /\ srv = Started /\ created = {[key |-> -100, id |-> 1]} /\ admitted = {}
  /\ begun = [l \in Lane |-> <<>>]
  /\ cmd = [l \in Lane |-> Idle] /\ late = {}
  /\ page = [session |-> Started, active |-> Started, playing |-> TRUE, selected |-> TRUE,
             waiting |-> FALSE, candidate |-> Found, key |-> 0, chosen |-> Found]
  /\ serial = 0

-----------------------------------------------------------------------------
(***************************************************************************)
(* The server handles one request: its session afterwards and the answer.  *)
(***************************************************************************)
Sees(id) == srv.id = id /\ srv.state # "gone"

Ok(s) == [to |-> s, reply |-> [kind |-> "ok", session |-> s]]
Refused(kind) == [to |-> srv, reply |-> [kind |-> kind]]
Moved(changes) == [changes EXCEPT !.version = @ + 1]

Reserve(r) ==
  LET before == {c \in created : c.key = r.key}
  IN IF before # {}
     THEN IF \E c \in before : Sees(c.id) THEN Ok(srv) ELSE Refused("404")
     ELSE IF srv.state \notin {"gone", "failed"} THEN Refused("409")
     ELSE Ok([Gone EXCEPT !.id = 1 + Cardinality(created), !.state = "created", !.version = 1])

RequestStop(r) == IF Sees(r.id) THEN Ok(Gone) ELSE Refused("404")

SelectFile(r) ==
  IF ~Sees(r.id) \/ srv.state = "failed" THEN Refused("404")
  ELSE IF srv.version # r.version THEN Refused("409")
  ELSE IF srv.file = r.file THEN Ok(srv)
  ELSE IF srv.state \notin Selectable THEN Refused("409")
  ELSE Ok(Moved([srv EXCEPT !.state = "probing", !.gen = @ + 1, !.file = r.file, !.pos = None]))

\* Nothing changes when exactly this output is ready already.
BeginPlayback(r) ==
  IF ~Sees(r.id) \/ srv.state \in {"created", "awaiting_file", "probing"} THEN Refused("404")
  ELSE IF r.key \in admitted THEN Ok(srv)
  ELSE IF srv.state = "failed" THEN Refused("404")
  ELSE IF srv.version # r.version \/ srv.state = "preparing" THEN Refused("409")
  ELSE IF srv.state = "ready" /\ srv.pos = r.pos THEN Ok(srv)
  ELSE Ok(Moved([srv EXCEPT !.state = "preparing", !.gen = @ + 1, !.pos = r.pos]))

Handle(r) ==
  CASE r.op = "create" -> Reserve(r)
    [] r.op = "delete" -> RequestStop(r)
    [] r.op = "select" -> SelectFile(r)
    [] r.op = "play"   -> BeginPlayback(r)
    [] r.op = "get"    -> IF Sees(r.id) THEN Ok(srv) ELSE Refused("404")

Handled(r) ==
  LET h == Handle(r)
      ok == h.reply.kind = "ok"
  IN /\ srv' = h.to
     /\ created' = IF r.op = "create" /\ ok /\ h.to # srv
                   THEN created \cup {[key |-> r.key, id |-> h.to.id]} ELSE created
     /\ admitted' = IF r.op = "play" /\ ok THEN admitted \cup {r.key} ELSE admitted
     /\ begun' = IF h.to.gen > srv.gen
                 THEN [l \in Lane |-> IF l = r.lane THEN Append(begun[l], [by |-> r.by, op |-> r.op])
                                      ELSE begun[l]]
                 ELSE begun

\* What the server's own tasks do with the session.
ServerMoves ==
  /\ \/ srv.state = "created" /\ srv' = Moved([srv EXCEPT !.state = "awaiting_file"])
     \/ srv.state = "probing" /\ srv' = Moved([srv EXCEPT !.state = "awaiting_playback"])
     \/ srv.state = "preparing" /\ srv' = Moved([srv EXCEPT !.state = "ready"])
  /\ UNCHANGED <<created, admitted, begun, cmd, late, page, serial, faults, others>>

PlaybackFails ==
  /\ faults < MaxFaults /\ faults' = faults + 1
  /\ \/ srv.state \in {"preparing", "ready"}
        /\ srv' = Moved([srv EXCEPT !.state = "awaiting_playback"])
     \/ srv.state = "created" /\ srv' = Moved([srv EXCEPT !.state = "failed"])
  /\ UNCHANGED <<created, admitted, begun, cmd, late, page, serial, others>>

OtherTab ==
  /\ others < MaxOthers /\ others' = others + 1
  /\ \E p \in Position :
       Handled([op |-> "play", id |-> srv.id, version |-> srv.version, pos |-> p,
                key |-> -others', by |-> 0, lane |-> "elsewhere"])
  /\ UNCHANGED <<cmd, late, page, serial, faults>>

-----------------------------------------------------------------------------
(***************************************************************************)
(* Commands.  Ask sends the next request; the operators below say what a   *)
(* command does with an answer.                                            *)
(***************************************************************************)
Ask(c, step, r) ==
  [c EXCEPT !.step = step, !.req = r, !.reply = Waiting]
Ends(c, how) == [c EXCEPT !.step = how, !.req = NoRequest, !.reply = Waiting]
Get(c, step) == Ask(c, step, [op |-> "get", id |-> c.cur.id])
LaneOf(c) == IF c.what \in {"choose", "play"} THEN "panel" ELSE "player"

\* One key for all attempts of a command.
Key(c) == 10 * c.by
\* The top of replaceTorrentPlayback's loop; c.file is the file it began with.
Admit(c) ==
  Ask([c EXCEPT !.tries = @ + 1], "starting",
      [op |-> "play", id |-> c.cur.id, version |-> c.cur.version, pos |-> c.pos,
       key |-> Key(c), by |-> c.by, lane |-> LaneOf(c)])

\* What follows the admission in the same round of the loop.
Watch(c) ==
  IF c.since # 0 /\ c.cur.state = "ready"
  THEN IF c.cur.version < c.since \/ c.cur.pos # c.pos \/ c.cur.file # c.file
       THEN Ends(c, "failed") ELSE Ends(c, "done")
  ELSE IF c.cur.state \in {"failed", "awaiting_file"}
          \/ (c.since # 0 /\ c.cur.state = "awaiting_playback")
  THEN Ends(c, "failed")
  ELSE Get(c, "watching")

Replace(c) ==
  IF c.cur.file # c.file THEN Ends(c, "failed")
  ELSE IF c.since = 0 /\ c.cur.state # "preparing"
  THEN IF c.tries = MaxTries THEN Ends(c, "failed") ELSE Admit(c)
  ELSE Watch(c)

\* switchTorrentFile's loop.
Switch(c) ==
  IF c.cur.state = "failed" THEN Ends(c, "failed")
  ELSE IF c.cur.file = c.file /\ c.cur.state \in {"awaiting_playback", "ready"}
  THEN Replace([c EXCEPT !.tries = 0])
  ELSE IF c.cur.state \in Selectable
  THEN IF c.tries = MaxTries THEN Ends(c, "failed")
       ELSE Ask([c EXCEPT !.tries = @ + 1], "selecting",
                [op |-> "select", id |-> c.cur.id, version |-> c.cur.version,
                 file |-> c.file, by |-> c.by, lane |-> LaneOf(c)])
  ELSE Get(c, "polling")

\* The next state of a command that has its answer.
After(c) ==
  LET kind == c.reply.kind
      heard == [c EXCEPT !.cur = IF kind = "ok" THEN c.reply.session ELSE @]
  IN CASE c.step = "selecting" ->
            IF kind = "ok" THEN Switch(heard)
            ELSE IF kind = "404" THEN Ends(c, "failed") ELSE Get(c, "polling")
       [] c.step = "polling" -> IF kind = "ok" THEN Switch(heard) ELSE Ends(c, "failed")
       [] c.step = "starting" ->
            IF kind = "ok" THEN Watch([heard EXCEPT !.since = heard.cur.version])
            ELSE IF kind = "404" THEN Ends(c, "failed") ELSE Watch(c)
       [] c.step = "watching" -> IF kind = "404" THEN Ends(c, "failed") ELSE Replace(heard)

\* What remains of a command that is given up.
Left(c) == IF c.reply = Waiting /\ c.req.op \notin {"none", "get"} THEN {c.req} ELSE {}

-----------------------------------------------------------------------------
(***************************************************************************)
(* Requests and their answers.                                             *)
(***************************************************************************)
Answer(l, reply) == cmd' = [cmd EXCEPT ![l].reply = reply]
Asks(l) == cmd[l].req # NoRequest /\ cmd[l].reply = Waiting

Serve(l) ==
  /\ Asks(l)
  /\ Handled(cmd[l].req)
  /\ Answer(l, Handle(cmd[l].req).reply)
  /\ UNCHANGED <<late, page, serial, faults, others>>

\* The connection breaks or 15 seconds pass, before the server handles the request or after.
NoAnswer(l) ==
  /\ cmd[l].req # NoRequest /\ cmd[l].reply.kind # "network"
  /\ faults < MaxFaults /\ faults' = faults + 1
  /\ late' = late \cup Left(cmd[l])
  /\ Answer(l, [kind |-> "network"])
  /\ UNCHANGED <<srv, created, admitted, begun, page, serial, others>>

Late(r) ==
  /\ late' = late \ {r}
  /\ \/ Handled(r)
     \/ UNCHANGED <<srv, created, admitted, begun>>
  /\ UNCHANGED <<cmd, page, serial, faults, others>>

-----------------------------------------------------------------------------
(***************************************************************************)
(* The page.                                                               *)
(***************************************************************************)
Pending == cmd["panel"].what # "idle"
NoTorrent(p) == [p EXCEPT !.session = Gone, !.active = Gone, !.playing = FALSE,
                     !.selected = FALSE, !.chosen = None]
Issue(what) == [Idle EXCEPT !.what = what, !.by = serial + 1]
Spend == serial < MaxCommands /\ serial' = serial + 1
ServerRests == UNCHANGED <<srv, created, admitted, begun, others>>

\* chooseCandidate and submit: the previous session is stopped first.
Create(c) ==
  Ask(c, "creating", [op |-> "create", id |-> 0, key |-> c.key, by |-> c.by, lane |-> "panel"])
Choose(x) ==
  LET again == page.candidate = x /\ page.key # 0
      key == IF again THEN page.key ELSE 10 * (serial + 1)
      previous == IF page.session # Gone THEN page.session ELSE page.active
      c == [Issue("choose") EXCEPT !.key = key, !.cur = previous]
  IN /\ ~Pending /\ Spend
     /\ ~(page.selected /\ page.chosen = x /\ page.session.state \notin {"gone", "failed"})
     /\ page' = [page EXCEPT !.candidate = x, !.key = key, !.waiting = FALSE]
     /\ cmd' = [cmd EXCEPT !["panel"] =
                  IF previous = Gone THEN Create(c)
                  ELSE Ask(c, "stopping", [op |-> "delete", id |-> previous.id,
                                           by |-> c.by, lane |-> "panel"])]
     /\ ServerRests /\ UNCHANGED <<late, faults>>

Answered(l, step) == cmd[l].step = step /\ cmd[l].reply # Waiting

Stopped ==
  /\ Answered("panel", "stopping")
  /\ IF cmd["panel"].reply.kind \in {"ok", "404"}
     THEN /\ page' = NoTorrent(page)
          /\ cmd' = [cmd EXCEPT !["panel"] = Create(cmd["panel"])]
     ELSE cmd' = [cmd EXCEPT !["panel"] = Idle] /\ UNCHANGED page
  /\ ServerRests /\ UNCHANGED <<late, serial, faults>>

\* The page turns to the new session: a command of the player is aborted.
Created ==
  /\ Answered("panel", "creating")
  /\ IF cmd["panel"].reply.kind = "ok"
     THEN LET s == cmd["panel"].reply.session
          IN /\ page' = [page EXCEPT !.session = s, !.active = s, !.key = 0, !.playing = FALSE,
                                     !.selected = TRUE, !.waiting = TRUE, !.chosen = page.candidate]
             /\ cmd' = [l \in Lane |-> Idle]
             /\ late' = late \cup Left(cmd["player"])
     ELSE cmd' = [cmd EXCEPT !["panel"] = Idle] /\ UNCHANGED <<page, late>>
  /\ ServerRests /\ UNCHANGED <<serial, faults>>

\* The episode that was asked for, or the file the user picks.
Play(f, p) ==
  /\ page.waiting /\ page.selected /\ ~Pending /\ Spend
  /\ page.session.state \in Selectable
  /\ page' = [page EXCEPT !.waiting = FALSE]
  /\ cmd' = [cmd EXCEPT !["panel"] =
               Switch([Issue("play") EXCEPT !.cur = page.session, !.file = f, !.pos = p])]
  /\ ServerRests /\ UNCHANGED <<late, faults>>

\* Offered when the player has not started or shows an error.
Unavailable == page.session.state \notin {"ready", "preparing"}
Retry ==
  /\ page.selected /\ ~page.waiting /\ ~Pending
  /\ \/ ~page.playing \/ Unavailable
     \/ faults < MaxFaults
  /\ faults' = IF ~page.playing \/ Unavailable THEN faults ELSE faults + 1
  /\ page' = [page EXCEPT !.waiting = TRUE]
  /\ UNCHANGED cmd /\ ServerRests /\ UNCHANGED <<late, serial>>

\* The player's host: a new command aborts the one before.
Command(c) ==
  /\ Spend
  /\ cmd' = [cmd EXCEPT !["player"] = c]
  /\ late' = late \cup Left(cmd["player"])
  /\ ServerRests /\ UNCHANGED <<page, faults>>
Watched == page.playing /\ page.session.state \in {"ready", "preparing"}
Seek(p) ==
  /\ Watched
  /\ Command(Replace([Issue("seek") EXCEPT !.cur = page.session,
                                           !.file = page.session.file, !.pos = p]))
SwitchFile(f) ==
  /\ Watched /\ f # page.session.file
  /\ Command(Switch([Issue("switch") EXCEPT !.cur = page.session, !.file = f, !.pos = Start]))

\* A command that ends leaves what it was answered in the cache of the session.
Ended(c) == c.step \in {"done", "failed"}
Advance(l) ==
  LET c == After(cmd[l])
  IN /\ cmd[l].step \in {"selecting", "polling", "starting", "watching"}
     /\ cmd[l].reply # Waiting
     /\ cmd' = [cmd EXCEPT ![l] = IF Ended(c) THEN Idle ELSE c]
     /\ page' = IF c.step # "done" THEN page
                ELSE [page EXCEPT !.session = c.cur,
                                  !.playing = @ \/ (l = "panel" /\ page.selected)]
     /\ ServerRests /\ UNCHANGED <<late, serial, faults>>

\* Another source is chosen: everything of the torrent is aborted, and its session stopped
\* unless it plays.
Leave ==
  /\ page.selected \/ page.playing
  /\ late' = late \cup Left(cmd["panel"]) \cup Left(cmd["player"])
             \cup IF page.playing \/ page.session = Gone THEN {}
                  ELSE {[op |-> "delete", id |-> page.session.id, by |-> 0, lane |-> "panel"]}
  /\ cmd' = [l \in Lane |-> Idle]
  /\ page' = [page EXCEPT !.playing = FALSE, !.selected = FALSE, !.waiting = FALSE]
  /\ ServerRests /\ UNCHANGED <<serial, faults>>

\* The queries of the session: the panel's while it is being prepared, the page's every
\* minute while it plays, and both when the window gets the focus.
Polled(s) ==
  \/ s.state \notin {"awaiting_file", "awaiting_playback", "ready", "failed"}
  \/ page.playing
Read ==
  page' = IF Sees(page.session.id) THEN [page EXCEPT !.session = srv]
          ELSE [NoTorrent(page) EXCEPT !.waiting = FALSE]
Poll ==
  /\ page.session # Gone /\ ~Pending /\ Polled(page.session)
  /\ Read
  /\ UNCHANGED cmd /\ ServerRests /\ UNCHANGED <<late, serial, faults>>

Focus ==
  /\ ~Pending
  /\ IF page.session # Gone THEN Read
     ELSE LET found == IF srv.state = "failed" THEN Gone ELSE srv
          IN page' = [page EXCEPT !.session = found, !.active = found]
  /\ UNCHANGED cmd /\ ServerRests /\ UNCHANGED <<late, serial, faults>>

-----------------------------------------------------------------------------
UserActs ==
  \/ \E x \in Candidate : Choose(x)
  \/ \E f \in File, p \in Position : Play(f, p)
  \/ Retry \/ Leave \/ Focus
  \/ \E p \in Position : Seek(p)
  \/ \E f \in File : SwitchFile(f)

Next ==
  \/ UserActs
  \/ Stopped \/ Created \/ Poll
  \/ \E l \in Lane : Serve(l) \/ NoAnswer(l) \/ Advance(l)
  \/ \E r \in late : Late(r)
  \/ ServerMoves \/ PlaybackFails \/ OtherTab

\* Requests end, timers run, the server's tasks go on; users and faults do as they please.
Fairness ==
  /\ WF_vars(Stopped \/ Created)
  /\ WF_vars(\E l \in Lane : Serve(l) \/ Advance(l))
  /\ WF_vars(\E r \in late : Late(r))
  /\ WF_vars(ServerMoves)
  /\ WF_vars(Poll)

Spec == Init /\ [][Next]_vars /\ Fairness

-----------------------------------------------------------------------------
SessionOK(s) ==
  /\ s.state \in {"gone", "created", "awaiting_file", "probing", "awaiting_playback",
                 "preparing", "ready", "failed"}
  /\ s.file \in File \cup {None} /\ s.pos \in Position \cup {None}
TypeOK ==
  /\ SessionOK(srv) /\ SessionOK(page.session) /\ SessionOK(page.active)
  /\ \A l \in Lane : SessionOK(cmd[l].cur) /\ cmd[l].tries <= MaxTries /\ cmd[l].by <= serial
  /\ \A r \in late : r.op \in {"create", "delete", "select", "play"}

\* Commands take effect in the order in which the user gave them, and a playback at most
\* once, whatever answers are lost, whatever is aborted, and whoever else uses the session.
InOrder ==
  \A l \in Lane : \A i, j \in DOMAIN begun[l] :
    i < j => /\ begun[l][i].by <= begun[l][j].by
             /\ begun[l][i] = begun[l][j] => begun[l][i].op # "play"

\* In the end what the page plays is what the server has, or the page has noticed that the
\* session is gone.
PageIsCurrent == page.playing => page.session = srv
PageCatchesUp == <>[]PageIsCurrent
=============================================================================
