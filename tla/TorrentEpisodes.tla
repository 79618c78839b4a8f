---------------------------- MODULE TorrentEpisodes ----------------------------
(***************************************************************************)
(* Which file of a torrent is which episode, read from the files' names    *)
(* (torrentEpisodes), and the file that is then opened for the viewer      *)
(* (initialTorrentEpisode).  A wrong guess plays the wrong episode and     *)
(* records it as watched.                                                  *)
(*                                                                         *)
(* A name is the record of what the patterns find in it: the explicit      *)
(* markers (S01E02, 1x02) as a sequence of pairs, the folders' seasons, a  *)
(* bare number (none is <<>>), and whether it says it is an extra or holds *)
(* several episodes.  An episode is <<[season, number, absolute]>>; <<>>   *)
(* is no episode.                                                          *)
(***************************************************************************)
EXTENDS Integers, Sequences, FiniteSets, FiniteSetsExt

CONSTANTS Inputs     \* torrents: files, the media page they are opened on, the episode asked for

VARIABLES input, opened

vars == <<input, opened>>

Undefined == -1     \* no season

-----------------------------------------------------------------------------
Movie(media) == media.type = "movie" \/ (media.type = "anime" /\ media.kind = "movie")

At(season, number) == <<[season |-> season, number |-> number, absolute |-> 0]>>

\* One marker that no folder contradicts; or a bare number, in the one season the folders or
\* the page name.
Explicit(f) ==
  LET mark == f.explicit[1]
  IN IF \A s \in f.folders : s = mark[1] THEN At(mark[1], mark[2]) ELSE <<>>

Inferred(f, media) ==
  IF Cardinality(f.folders) = 1 THEN Max(f.folders)
  ELSE IF media.type = "series" /\ Cardinality(media.seasons) = 1 THEN Max(media.seasons)
  ELSE Undefined

Numbered(f, media) ==
  IF f.number # <<>> /\ (Inferred(f, media) # Undefined \/ media.type = "anime")
  THEN At(Inferred(f, media), f.number[1]) ELSE <<>>

Named(f, media) ==
  LET named == IF Len(f.explicit) = 1 THEN Explicit(f)
               ELSE IF f.explicit = <<>> THEN Numbered(f, media) ELSE <<>>
  IN IF \/ Movie(media) \/ f.extra \/ f.multiple
        \/ named = <<>> \/ named[1].number < 1 \/ named[1].season = 0
     THEN <<>> ELSE named

-----------------------------------------------------------------------------
\* A page of an anime is one release of a chain of them: with a verified mapping a number
\* is brought to the release's own, counted within its season or from the first season.
Own(e, media) ==
  IF e.season # Undefined THEN e.number - media.offset[1].seasonOffset
  ELSE IF media.offset # <<>> /\ media.count > 0 /\ e.number > media.count
  THEN e.number - media.offset[1].absoluteOffset
  ELSE e.number

OfAnotherSeason(e, media) ==
  e.season # Undefined /\ (media.offset = <<>> \/ e.season # media.offset[1].number)

OnPage(e, media) ==
  IF OfAnotherSeason(e, media) THEN <<>>
  ELSE LET own == Own(e, media)
       IN IF own < 1 \/ (media.count > 0 /\ own > media.count) THEN <<>>
          ELSE IF media.offset = <<>> THEN At(Undefined, own)
          ELSE <<[season |-> media.offset[1].number, number |-> media.offset[1].seasonOffset + own,
                  absolute |-> media.offset[1].absoluteOffset + own]>>

Episode(f, media) ==
  LET named == Named(f, media)
  IN IF named = <<>> \/ media.type # "anime" THEN named ELSE OnPage(named[1], media)

-----------------------------------------------------------------------------
\* Two files of one episode are both ambiguous: the viewer chooses.
Same(a, b) == a # <<>> /\ b # <<>> /\ a[1].number = b[1].number /\ a[1].season = b[1].season

Ambiguous(i, q) ==
  \E j \in DOMAIN q.files \ {i} :
    Same(Episode(q.files[i], q.media), Episode(q.files[j], q.media))

\* The rows come in the order of their episodes, those without one last, then by name.
Place(i, q) ==
  LET e == Episode(q.files[i], q.media)
  IN IF e = <<>> THEN <<1, 0, 0, i>> ELSE <<0, e[1].season, e[1].number, i>>

Precedes(a, b) ==
  \E k \in DOMAIN a : a[k] < b[k] /\ \A l \in 1..(k - 1) : a[l] = b[l]

FirstOf(S, q) ==
  IF S = {} THEN <<>>
  ELSE <<CHOOSE i \in S : \A j \in S \ {i} : Precedes(Place(i, q), Place(j, q))>>

\* initialTorrentEpisode: the index of the file, or <<>>.
Initial(q) ==
  LET clear == {i \in DOMAIN q.files :
                  Episode(q.files[i], q.media) # <<>> /\ ~Ambiguous(i, q)}
      main == {i \in DOMAIN q.files : ~q.files[i].extra}
  IN IF q.requested # <<>>
     THEN FirstOf({i \in clear : Same(Episode(q.files[i], q.media), q.requested)}, q)
     ELSE IF clear # {} THEN FirstOf(clear, q)
     ELSE IF Movie(q.media) /\ Cardinality(main) = 1 THEN FirstOf(main, q)
     ELSE <<>>

-----------------------------------------------------------------------------
Init == input \in Inputs /\ opened = <<>>
Next == opened = <<>> /\ opened' = <<Initial(input)>> /\ UNCHANGED input

Spec == Init /\ [][Next]_vars

-----------------------------------------------------------------------------
Opened == opened # <<>> /\ opened[1] # <<>>

\* The file that is opened without asking is never a guess: it is the episode that was asked
\* for, no other file claims that episode, and nothing in its name says that it is an extra,
\* several episodes, or of a season its folder denies.
OpenedIsSure ==
  Opened =>
    LET i == opened[1][1]
        f == input.files[i]
        e == Episode(f, input.media)
    IN /\ ~f.extra
       /\ input.requested # <<>> => Same(e, input.requested)
       /\ e # <<>> =>
            /\ ~f.multiple /\ Len(f.explicit) <= 1
            /\ \A k \in DOMAIN f.explicit, s \in f.folders : s = f.explicit[k][1]
            /\ \A j \in DOMAIN input.files \ {i} : ~Same(Episode(input.files[j], input.media), e)
       /\ e = <<>> => Movie(input.media) /\ \A j \in DOMAIN input.files \ {i} : input.files[j].extra

\* On the page of a release of an anime, one episode has one number: a file that counts within
\* the season and one that counts from the first season get the same, and no number is
\* outside of the release.
OneNumberEach ==
  LET media == input.media
      offset == media.offset[1]
      File(i, marks, n) == [input.files[i] EXCEPT !.explicit = marks, !.number = n, !.folders = {},
                                                  !.extra = FALSE, !.multiple = FALSE]
      Is(k) == <<[season |-> offset.number, number |-> offset.seasonOffset + k,
                  absolute |-> offset.absoluteOffset + k]>>
      All == {Is(k) : k \in 1..media.count}
  IN media.type = "anime" /\ ~Movie(media) /\ media.count > 0 /\ media.offset # <<>> =>
       \A i \in DOMAIN input.files :
         /\ Episode(input.files[i], media) \in All \cup {<<>>}
         /\ \A k \in 1..media.count :
              /\ Episode(File(i, <<<<offset.number, offset.seasonOffset + k>>>>, <<>>), media) = Is(k)
              /\ offset.absoluteOffset + k > media.count =>
                   Episode(File(i, <<>>, <<offset.absoluteOffset + k>>), media) = Is(k)
=============================================================================
