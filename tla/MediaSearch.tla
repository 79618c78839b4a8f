---- MODULE MediaSearch ----
(***************************************************************************)
(* Searching for works: the page of a catalog (MediaCatalog.tsx), where    *)
(* what is typed goes into the address after a pause and filters go there  *)
(* at once, and the search page (SearchPage.tsx), where it is submitted.   *)
(* The address is the query: a navigation is rendered later than it is     *)
(* made, and what is rendered rewrites the field.  The results are pages   *)
(* of one query per address (useMediaSearch.ts), shown in the place of the *)
(* next one's until those arrive.                                          *)
(***************************************************************************)
EXTENDS Integers, Sequences, FiniteSets, SequencesExt

CONSTANTS
  Text,      \* what can be in the field
  Trimmed,   \* Trimmed[t]: normalizeMediaSearchQuery
  Genre,     \* the filters beside the query; NoGenre: none chosen
  NoGenre,
  Work,      \* the works a search finds, in the order of the results
  Newcomer,  \* a work the providers put in front of them later
  Refused,   \* works the registry cannot give a reference
  PageSize,  \* mediaSearchPageSize
  Window,    \* maximumMediaSearchWindow
  MaxAsks    \* bound: what the visitor does

VARIABLES
  page,      \* the page that is open: "catalog" or "search"
  typed,     \* searchValue (query of the search page)
  route,     \* where the router is
  past,      \* the addresses before it in the browser's history
  shown,     \* searchParams the page was rendered with
  timer,     \* the pending timeout of the debounce: <<>> or what it writes
  cache,     \* cache[f]: pages of the query of f, <<>> when there are none
  failed,    \* failed[f]: what failed last: "no", "load", "more"
  last,      \* the query whose pages stand in for missing ones
  fetch,     \* the request of the query of shown
  changed,   \* the newcomer is there
  asks,
  wish,      \* ghost: the query and the filters the visitor asked for
  hasty,     \* ghost: asked before an earlier navigation was rendered
  mixed      \* ghost: the newcomer came between two pages

field == <<page, typed, timer>>
address == <<route, past, shown>>
results == <<cache, failed, last, fetch, changed, mixed>>
asked == <<asks, wish, hasty>>
vars == <<field, address, results, asked>>

NoText == Trimmed[""]
Filters == [query : {Trimmed[t] : t \in Text}, genre : Genre \cup {NoGenre}]
NoFilters == [query |-> NoText, genre |-> NoGenre]
At(filters) == [f |-> filters, canonical |-> TRUE]
NoFetch == [kind |-> "no", got |-> <<>>]

(* hasSearchCriteria *)
HasCriteria(f) == f # NoFilters

Init ==
  /\ page \in {"catalog", "search"}
  /\ \E f \in {g \in Filters : page = "search" => g.genre = NoGenre},
        canonical \in BOOLEAN :
       route = [f |-> f, canonical |-> canonical]
  /\ shown = At(NoFilters) /\ typed = "" /\ past = <<>> /\ timer = <<>>
  /\ cache = [f \in Filters |-> <<>>] /\ failed = [f \in Filters |-> "no"]
  /\ last = NoFilters /\ fetch = NoFetch /\ changed = FALSE
  /\ asks = 0 /\ wish = route.f /\ hasty = FALSE /\ mixed = FALSE

Ask(w) ==
  /\ asks < MaxAsks /\ asks' = asks + 1
  /\ wish' = w /\ hasty' = (hasty \/ route # shown)

(***************************************************************************)
(* The field and the address                                               *)
(***************************************************************************)

(* The debounce of the field: its timeout is made anew when what is typed, *)
(* trimmed, is other than before, or the page is rendered at an address    *)
(* (fresh), and writes what is typed with the filters rendered then.       *)
Debounced(text, rendered, fresh) ==
  CASE page = "search" \/ Trimmed[text] = rendered.query -> <<>>
    [] ~fresh /\ Trimmed[text] = Trimmed[typed] -> timer
    [] OTHER -> <<[rendered EXCEPT !.query = Trimmed[text]]>>

Type(text) ==
  /\ text # typed
  /\ Ask(IF page = "search" THEN wish
         ELSE [query |-> Trimmed[text], genre |-> shown.f.genre])
  /\ typed' = text
  /\ timer' = Debounced(text, shown.f, FALSE)
  /\ UNCHANGED <<page, address, results>>

Push(f) == route' = At(f) /\ past' = Append(past, route)

(* updateUrlFilters, of the filters' menus. *)
UpdateUrlFilters(genre) ==
  /\ page = "catalog" /\ genre # shown.f.genre
  /\ Ask([query |-> Trimmed[typed], genre |-> genre])
  /\ Push([shown.f EXCEPT !.genre = genre])
  /\ UNCHANGED <<field, shown, results>>

(* The visitor has stopped typing for a while. *)
DebounceEnds ==
  /\ timer # <<>>
  /\ route' = At(timer[1])
  /\ timer' = <<>>
  /\ hasty' = (hasty \/ route # shown)
  /\ UNCHANGED <<page, typed, past, shown, results, asks, wish>>

ResetFilters ==
  /\ page = "catalog"
  /\ Trimmed[typed] # NoText \/ shown.f.genre # NoGenre
  /\ Ask(NoFilters)
  /\ typed' = "" /\ timer' = Debounced("", shown.f, FALSE)
  /\ Push(NoFilters)
  /\ UNCHANGED <<page, shown, results>>

(* handleSubmit, of a query that is not the one shown; and startSearch. *)
HandleSubmit ==
  /\ page = "search" /\ Trimmed[typed] \notin {NoText, shown.f.query}
  /\ Ask([NoFilters EXCEPT !.query = Trimmed[typed]])
  /\ Push([NoFilters EXCEPT !.query = Trimmed[typed]])
  /\ UNCHANGED <<field, shown, results>>

StartSearch(text) ==
  /\ page = "search" /\ Trimmed[text] = text
  /\ Ask([NoFilters EXCEPT !.query = text])
  /\ typed' = text
  /\ Push([NoFilters EXCEPT !.query = text])
  /\ UNCHANGED <<page, timer, shown, results>>

(* The browser's way back, within the page.  A draft outlives it when the  *)
(* query of the address is the same.                                       *)
GoBack ==
  /\ past # <<>>
  /\ LET f == Last(past).f
     IN Ask(IF page = "search" \/ f.query # shown.f.query THEN f
            ELSE [f EXCEPT !.query = Trimmed[typed]])
  /\ route' = Last(past) /\ past' = Front(past)
  /\ UNCHANGED <<field, shown, results>>

(***************************************************************************)
(* The query of an address (useInfiniteQuery of useMediaSearch.ts)         *)
(***************************************************************************)

Key == shown.f
Pages == cache[Key]

(* What the page is given: the pages of its own query, or while that has   *)
(* none and has not failed, those of the last one that had (placeholder).  *)
Shows ==
  IF Pages # <<>> THEN Key
  ELSE IF failed[Key] = "no" /\ cache[last] # <<>> THEN last ELSE NoFilters

(* collectUniqueMediaSearchItems *)
CollectUnique(pages) ==
  LET all == FlattenSeq([i \in 1..Len(pages) |-> pages[i].items])
      first == {i \in 1..Len(all) : \A j \in 1..(i - 1) : all[j] # all[i]}
  IN [k \in 1..Cardinality(first) |->
        all[CHOOSE i \in first : Cardinality({j \in first : j <= i}) = k]]

(* searchMedia of media.service.ts: a part of the results, without those   *)
(* that could not be registered.                                           *)
Results == IF changed THEN <<Newcomer>> \o Work ELSE Work
Least(a, b) == IF a < b THEN a ELSE b
SearchMedia(offset, limit) ==
  LET end == Least(offset + Least(limit, Window - offset), Len(Results))
  IN SelectSeq(SubSeq(Results, offset + 1, end), LAMBDA w : w \notin Refused)

(* getMediaSearchPageWindow, and createMediaSearchPage: one result more    *)
(* than is shown tells whether there is another page.                      *)
VisibleLimit(offset) == Least(PageSize, Window - offset)
RequestLimit(offset) == Least(VisibleLimit(offset) + 1, Window - offset)
LoadSearchPage(offset) ==
  LET items == SearchMedia(offset, RequestLimit(offset))
  IN [items |-> SubSeq(items, 1, Least(VisibleLimit(offset), Len(items))),
      next |-> offset + VisibleLimit(offset),
      more |-> /\ RequestLimit(offset) > VisibleLimit(offset)
               /\ Len(items) > VisibleLimit(offset)]

HasMore == Pages # <<>> /\ Last(Pages).more
IsUpdating == HasCriteria(Key) /\ fetch.kind = "load"
LoadMoreError == failed[Key] = "more" /\ fetch.kind # "load"

(* A page is rendered at the address: the effects write the canonical      *)
(* address, put its query into the field and start the debounce again; the *)
(* query of the former address is given up, this one is asked unless what  *)
(* it has is still fresh.                                                  *)
Render(stale) ==
  /\ shown # route
  /\ shown' = route
  /\ route' = [route EXCEPT !.canonical = TRUE]
  /\ typed' = IF route.f.query = shown.f.query THEN typed ELSE route.f.query
  /\ timer' = Debounced(typed', route.f, TRUE)
  /\ last' = IF Pages # <<>> THEN Key ELSE last
  /\ IF route.f = Key THEN UNCHANGED <<failed, fetch>>
     ELSE LET ask == HasCriteria(route.f) /\ (stale \/ cache[route.f] = <<>>)
          IN /\ fetch' = IF ask THEN [NoFetch EXCEPT !.kind = "load"] ELSE NoFetch
             /\ failed' = IF ask /\ cache[route.f] = <<>>
                          THEN [failed EXCEPT ![route.f] = "no"] ELSE failed
  /\ UNCHANGED <<page, past, cache, changed, mixed, asked>>

(* A page of a load arrives: a reload reads as many as there were. *)
LoadAnswers ==
  /\ fetch.kind = "load"
  /\ LET read == LoadSearchPage(IF fetch.got = <<>> THEN 0 ELSE Last(fetch.got).next)
         got == Append(fetch.got, read)
     IN IF read.more /\ Len(got) < Len(Pages)
        THEN fetch' = [fetch EXCEPT !.got = got] /\ UNCHANGED <<cache, failed, mixed>>
        ELSE /\ fetch' = NoFetch
             /\ cache' = [cache EXCEPT ![Key] = got]
             /\ failed' = [failed EXCEPT ![Key] = "no"]
             /\ UNCHANGED mixed
  /\ UNCHANGED <<field, address, last, changed, asked>>

LoadMore ==
  /\ HasMore \/ LoadMoreError
  /\ fetch = NoFetch
  /\ page = "catalog" => Trimmed[typed] = shown.f.query
  /\ asks < MaxAsks /\ asks' = asks + 1
  /\ fetch' = [NoFetch EXCEPT !.kind = "more"]
  /\ UNCHANGED <<field, address, cache, failed, last, changed, mixed, wish, hasty>>

MoreAnswers ==
  /\ fetch.kind = "more"
  /\ cache' = [cache EXCEPT ![Key] = Append(@, LoadSearchPage(Last(Pages).next))]
  /\ failed' = [failed EXCEPT ![Key] = "no"]
  /\ fetch' = NoFetch
  /\ UNCHANGED <<field, address, last, changed, mixed, asked>>

(* A request fails for good, with its retries. *)
FetchFails ==
  /\ fetch # NoFetch
  /\ failed' = [failed EXCEPT ![Key] = fetch.kind]
  /\ fetch' = NoFetch
  /\ UNCHANGED <<field, address, cache, last, changed, mixed, asked>>

(* retry: after a failure, or when the same query is submitted again. *)
Retry ==
  /\ HasCriteria(Key) /\ fetch = NoFetch
  /\ \/ failed[Key] = "load"
     \/ page = "search" /\ Trimmed[typed] = Key.query
  /\ asks < MaxAsks /\ asks' = asks + 1
  /\ fetch' = [NoFetch EXCEPT !.kind = "load"]
  /\ failed' = IF Pages = <<>> THEN [failed EXCEPT ![Key] = "no"] ELSE failed
  /\ UNCHANGED <<field, address, cache, last, changed, mixed, wish, hasty>>

(* The providers' results change between two requests. *)
ResultsChange ==
  /\ ~changed /\ changed' = TRUE
  /\ mixed' = (fetch.got # <<>> \/ \E f \in Filters : cache[f] # <<>>)
  /\ UNCHANGED <<field, address, cache, failed, last, fetch, asked>>

Next ==
  \/ \E t \in Text : Type(t) \/ StartSearch(t)
  \/ \E g \in Genre \cup {NoGenre} : UpdateUrlFilters(g)
  \/ DebounceEnds \/ ResetFilters \/ HandleSubmit \/ GoBack
  \/ \E stale \in BOOLEAN : Render(stale)
  \/ LoadAnswers \/ LoadMore \/ MoreAnswers \/ FetchFails \/ Retry
  \/ ResultsChange

Spec == Init /\ [][Next]_vars

(***************************************************************************)
(* Properties                                                              *)
(***************************************************************************)

(* The address, the field and the query are of the right kind. *)
TypeOK ==
  /\ page \in {"catalog", "search"} /\ typed \in Text
  /\ {route, shown} \subseteq [f : Filters, canonical : BOOLEAN]
  /\ timer = <<>> \/ timer[1] \in Filters
  /\ last \in Filters /\ wish \in Filters
  /\ fetch.kind \in {"no", "load", "more"}

AtRest == route = shown /\ timer = <<>>

(* When nothing is pending, the page searches for what the visitor asked   *)
(* for last: neither a filter chosen while a draft waited for its pause,   *)
(* nor a draft typed before a filter was chosen, nor the way back is lost  *)
(* (a request made before the former navigation was rendered may be).      *)
SettledIsAsked == AtRest /\ ~hasty => shown.f = wish

(* The number of results is announced only for what is in the field and in *)
(* the filters: never the former search's in the name of the new one.      *)
Announced ==
  /\ HasCriteria(Key) /\ Shows = Key /\ ~IsUpdating
  /\ page = "catalog" => Trimmed[typed] = Key.query
AnnouncedIsAsked == Announced /\ route = shown /\ ~hasty => Shows = wish

(* A work is shown once although the pages overlap when the results move,  *)
(* and the pages together show every result there is up to the window's    *)
(* end, unless the results moved between them or one was refused.          *)
ShownOnce == IsInjective(CollectUnique(cache[Shows]))
LastPageIsLast ==
  Pages # <<>> /\ ~HasMore /\ ~mixed /\ Refused \cap ToSet(Results) = {} =>
    CollectUnique(Pages) =
      SubSeq(IF changed THEN Results ELSE Work, 1, Least(Window, Len(Results)))
====
