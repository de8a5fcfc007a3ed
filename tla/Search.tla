-------------------------------- MODULE Search --------------------------------
(***************************************************************************)
(* Searching for a bus: services/searchidx with the search consumer of     *)
(* eventwire, handleSearch, and the search page with its form and cards.   *)
(*                                                                         *)
(* Seats are counted in the inventory; the search reads a projection that  *)
(* a consumer of the event log keeps up, through a cache of result pages.  *)
(* The page sends one search for every URL it shows and never cancels one: *)
(* answers come in any order.  The order of the results (the sort) is not  *)
(* modelled.                                                               *)
(***************************************************************************)
EXTENDS Integers, Sequences, FiniteSets

CONSTANTS
    Cities, Days,
    Buses,          \* trips
    RunsOn,         \* RunsOn[t]: the query trip t is an answer to
    Marks,          \* what a chip can ask for: air conditioning, a brand
    MarksOf,        \* MarksOf[t]: those trip t has
    SeatsTotal,
    Searches,       \* searches in flight
    Blank,          \* no result page
    MaxChanges,     \* bound: seat events not handled
    MaxSearchFaults \* bound: errors and crashes behind the page

ASSUME SearchConstants ==
    /\ {SeatsTotal, MaxChanges, MaxSearchFaults} \subseteq Nat
    /\ RunsOn \in [Buses -> [from : Cities, to : Cities, day : Days]]
    /\ MarksOf \in [Buses -> SUBSET Marks]

VARIABLES
    free,       \* free[t]: seats free in inventory.trip_seats
    gone,       \* trips whose status is no longer one that is sold
    seatLog,    \* the trips of the seat events the consumer has not handled
    indexing,   \* the trip whose row has been updated, before the cache is emptied
    leg,        \* search.trip_legs: what the index says of a trip
    rebuilt,    \* the trips whose row was last written by Reindex
    rebuild,    \* what the statement of a running Reindex has read
    cached,     \* cached[q]: the result page in the cache
    asked,      \* asked[i]: a search on its way
    results,    \* the search page
    searchForm, \* the form on it
    upsets      \* errors and crashes so far

indexVars  == <<leg, rebuilt, rebuild, indexing, seatLog, upsets>>
tripVars   == <<free, gone>>
pageVars   == <<results, searchForm>>
searchVars == <<indexVars, tripVars, cached, asked, pageVars>>

Queries == [from : Cities, to : Cities, day : Days]
Answerable == {q \in Queries : q.from # q.to}
Rows    == [trip : Buses, free : 0 .. SeatsTotal]
Nothing == [at |-> "none"]
Asking(q) == [at |-> "asked", q |-> q]

\* What the index says of a trip, a page of results, and a search under way.
Leg      == [free : 0 .. SeatsTotal, open : BOOLEAN]
Pages    == {Blank} \cup SUBSET Rows
Sought   == {Nothing} \cup [at : {"asked", "failed"}, q : Queries]
                      \cup [at : {"read", "answer"}, q : Answerable, rows : SUBSET Rows]

\* The type of the state.
SearchTypeOK ==
    /\ free \in [Buses -> 0 .. SeatsTotal] /\ gone \subseteq Buses
    /\ seatLog \in Seq(Buses) /\ indexing \in Buses \cup {Blank}
    /\ leg \in [Buses -> Leg] /\ rebuilt \subseteq Buses
    /\ rebuild \in {Blank} \cup [Buses -> Leg]
    /\ cached \in [Answerable -> Pages]
    /\ asked \in [Searches -> Sought]
    /\ results \in [url : Queries, data : {Blank} \cup [q : Queries, rows : SUBSET Rows],
                    loading : BOOLEAN, error : BOOLEAN, marks : SUBSET Marks, hideSoldOut : BOOLEAN]
    /\ searchForm \in [from : Cities, to : Cities, day : Days, error : BOOLEAN]
    /\ upsets \in 0 .. MaxSearchFaults

\* The page on a URL, with nothing yet.
PageOn(q) == [url |-> q, data |-> Blank, loading |-> TRUE, error |-> FALSE,
               marks |-> {}, hideSoldOut |-> FALSE]

\* Generate and Reindex have run; the page opens on a link from the home page.
SearchInit ==
    /\ free = [t \in Buses |-> SeatsTotal] /\ gone = {}
    /\ seatLog = <<>> /\ indexing = Blank
    /\ leg = [t \in Buses |-> [free |-> SeatsTotal, open |-> TRUE]]
    /\ rebuilt = Buses /\ rebuild = Blank
    /\ cached = [q \in Answerable |-> Blank]
    /\ upsets = 0
    /\ \E q \in Answerable, i \in Searches :
          /\ results = PageOn(q)
          /\ searchForm = [from |-> q.from, to |-> q.to, day |-> q.day, error |-> FALSE]
          /\ asked = [j \in Searches |-> IF j = i THEN Asking(q) ELSE Nothing]

-----------------------------------------------------------------------------
(* Seats and trips                                                          *)

\* A hold, a sale, a block or a release, with its event in one transaction.
SeatChange(t) ==
    /\ Len(seatLog) < MaxChanges
    /\ \E n \in 0 .. SeatsTotal : n # free[t] /\ free' = [free EXCEPT ![t] = n]
    /\ seatLog' = Append(seatLog, t)
    /\ UNCHANGED <<gone, leg, rebuilt, rebuild, indexing, upsets, cached, asked, pageVars>>

\* handleTripStatus: the trip leaves or is cancelled, and no event says so.
TripGone(t) ==
    /\ t \notin gone
    /\ gone' = gone \cup {t}
    /\ UNCHANGED <<free, indexVars, cached, asked, pageVars>>

-----------------------------------------------------------------------------
(* The index                                                                *)

Emptied == [q \in Answerable |-> Blank]

\* Mutant of Touch: the checkpoint moves before the handler has run.
TouchAfterCheckpoint ==
    /\ seatLog # <<>> /\ indexing = Blank
    /\ \/ /\ leg' = [leg EXCEPT ![Head(seatLog)].free = free[Head(seatLog)]]
          /\ rebuilt' = rebuilt \ {Head(seatLog)}
          /\ cached' = Emptied /\ seatLog' = Tail(seatLog) /\ UNCHANGED upsets
       \/ /\ upsets < MaxSearchFaults /\ upsets' = upsets + 1
          /\ seatLog' = Tail(seatLog) /\ UNCHANGED <<leg, rebuilt, cached>>
    /\ UNCHANGED <<rebuild, indexing, tripVars, asked, pageVars>>

\* TouchAvailability for the next seat event: the counts, of all rows of the trip.
Touch ==
    /\ seatLog # <<>> /\ indexing = Blank
    /\ LET t == Head(seatLog) IN
         /\ leg' = [leg EXCEPT ![t].free = free[t]]
         /\ rebuilt' = rebuilt \ {t}
         /\ indexing' = t
    /\ UNCHANGED <<rebuild, seatLog, upsets, tripVars, cached, asked, pageVars>>

\* invalidate, whatever the page: then the consumer has handled the event.
Invalidate ==
    /\ indexing # Blank
    /\ cached' = Emptied
    /\ indexing' = Blank
    /\ seatLog' = Tail(seatLog)
    /\ UNCHANGED <<leg, rebuilt, rebuild, upsets, tripVars, asked, pageVars>>

\* The keys cannot be deleted: nobody is told, and the event counts as handled.
InvalidateFails ==
    /\ indexing # Blank /\ upsets < MaxSearchFaults
    /\ upsets' = upsets + 1
    /\ indexing' = Blank
    /\ seatLog' = Tail(seatLog)
    /\ UNCHANGED <<leg, rebuilt, rebuild, tripVars, cached, asked, pageVars>>

\* The process stops between the two: the event is delivered again.
IndexerStops ==
    /\ indexing # Blank /\ upsets < MaxSearchFaults
    /\ upsets' = upsets + 1
    /\ indexing' = Blank
    /\ UNCHANGED <<leg, rebuilt, rebuild, seatLog, tripVars, cached, asked, pageVars>>

\* Reindex, after trips have been generated: one statement, which reads the catalog
\* and the inventory and then writes the rows.
ReindexReads ==
    /\ rebuild = Blank
    /\ rebuild' = [t \in Buses |-> [free |-> free[t], open |-> t \notin gone]]
    /\ UNCHANGED <<leg, rebuilt, indexing, seatLog, upsets, tripVars, cached, asked, pageVars>>

ReindexWrites ==
    /\ rebuild # Blank
    /\ leg' = rebuild /\ rebuilt' = Buses
    /\ rebuild' = Blank
    /\ cached' = Emptied
    /\ UNCHANGED <<indexing, seatLog, upsets, tripVars, asked, pageVars>>

\* A cached page lives for thirty seconds.
PageExpires(q) ==
    /\ cached[q] # Blank
    /\ cached' = [cached EXCEPT ![q] = Blank]
    /\ UNCHANGED <<indexVars, tripVars, asked, pageVars>>

-----------------------------------------------------------------------------
(* A search, in the server                                                  *)

\* Query's statement: the trips of the query that are on sale and have a seat.
Found(q) == {[trip |-> t, free |-> leg[t].free] :
                t \in {u \in Buses : RunsOn[u] = q /\ leg[u].open /\ leg[u].free > 0}}

\* handleSearch: the page in the cache, or the rows of the index.
Lookup(i) ==
    /\ asked[i].at = "asked"
    /\ LET q == asked[i].q IN
         asked' = [asked EXCEPT ![i] =
           IF q \notin Answerable THEN [at |-> "failed", q |-> q]
           ELSE IF cached[q] # Blank THEN [at |-> "answer", q |-> q, rows |-> cached[q]]
           ELSE [at |-> "read", q |-> q, rows |-> Found(q)]]
    /\ UNCHANGED <<indexVars, tripVars, cached, pageVars>>

\* The page just computed goes into the cache, also when the cache was emptied since.
KeepPage(i) ==
    /\ asked[i].at = "read"
    /\ cached' = [cached EXCEPT ![asked[i].q] = asked[i].rows]
    /\ asked' = [asked EXCEPT ![i].at = "answer"]
    /\ UNCHANGED <<indexVars, tripVars, pageVars>>

SearchFails(i) ==
    /\ asked[i].at \in {"asked", "answer"} /\ upsets < MaxSearchFaults
    /\ upsets' = upsets + 1
    /\ asked' = [asked EXCEPT ![i] = [at |-> "failed", q |-> @.q]]
    /\ UNCHANGED <<leg, rebuilt, rebuild, indexing, seatLog, tripVars, cached, pageVars>>

-----------------------------------------------------------------------------
(* The search page                                                          *)

\* The effect of the page: a URL is shown, or Retry pressed.  What is on the page
\* stays, the chips included; earlier searches go on.
SendSearch(q) ==
    \E i \in Searches :
       /\ asked[i] = Nothing
       /\ asked' = [asked EXCEPT ![i] = Asking(q)]
       /\ results' = [results EXCEPT !.url = q, !.loading = TRUE, !.error = FALSE]

\* An answer, to whichever search: the page shows it.
Answered(i) ==
    /\ asked[i].at = "answer"
    /\ results' = [results EXCEPT !.data = [q |-> asked[i].q, rows |-> asked[i].rows],
                                  !.loading = FALSE]
    /\ asked' = [asked EXCEPT ![i] = Nothing]
    /\ UNCHANGED <<indexVars, tripVars, cached, searchForm>>

\* An error: the page shows it, above the results it already had.
SearchRefused(i) ==
    /\ asked[i].at = "failed"
    /\ results' = [results EXCEPT !.error = TRUE, !.loading = FALSE]
    /\ asked' = [asked EXCEPT ![i] = Nothing]
    /\ UNCHANGED <<indexVars, tripVars, cached, searchForm>>

RetrySearch ==
    /\ results.error /\ SendSearch(results.url)
    /\ UNCHANGED <<indexVars, tripVars, cached, searchForm>>

\* The strip of days around the one in the URL.
PickDay(d) ==
    /\ d # results.url.day /\ SendSearch([results.url EXCEPT !.day = d])
    /\ UNCHANGED <<indexVars, tripVars, cached, searchForm>>

\* The form keeps the values it was given first; the URL may have moved on.
EditForm(f) ==
    /\ f # searchForm /\ ~ f.error
    /\ \/ \E c \in Cities : f = [searchForm EXCEPT !.from = c]
       \/ \E c \in Cities : f = [searchForm EXCEPT !.to = c]
       \/ \E d \in Days : f = [searchForm EXCEPT !.day = d]
    /\ searchForm' = f
    /\ UNCHANGED <<indexVars, tripVars, cached, asked, results>>

SwapCities ==
    /\ searchForm' = [searchForm EXCEPT !.from = searchForm.to, !.to = searchForm.from]
    /\ UNCHANGED <<indexVars, tripVars, cached, asked, results>>

\* Two equal cities are refused on the page.  The URL it shows already starts nothing.
SubmitSearch ==
    /\ LET q == [from |-> searchForm.from, to |-> searchForm.to, day |-> searchForm.day] IN
         IF q.from = q.to
         THEN searchForm' = [searchForm EXCEPT !.error = TRUE] /\ UNCHANGED <<asked, results>>
         ELSE /\ searchForm' = [searchForm EXCEPT !.error = FALSE]
              /\ IF q = results.url THEN UNCHANGED <<asked, results>> ELSE SendSearch(q)
    /\ UNCHANGED <<indexVars, tripVars, cached>>

Results == IF results.data = Blank THEN {} ELSE results.data.rows

\* The cards on the page, through the chips.
ShownCards ==
    {r \in Results : /\ results.marks \subseteq MarksOf[r.trip]
                     /\ results.hideSoldOut => r.free > 0}

\* The chips: there while there is a result to filter.
ChipsThere == ~ results.loading /\ ~ results.error /\ Results # {}

PressChip(m) ==
    /\ ChipsThere /\ \E r \in Results : m \in MarksOf[r.trip]
    /\ results' = [results EXCEPT !.marks = IF m \in @ THEN @ \ {m} ELSE @ \cup {m}]
    /\ UNCHANGED <<indexVars, tripVars, cached, asked, searchForm>>

HideSoldOut ==
    /\ ChipsThere
    /\ results' = [results EXCEPT !.hideSoldOut = ~ @]
    /\ UNCHANGED <<indexVars, tripVars, cached, asked, searchForm>>

\* "Clear all", in the bar or under the message that nothing matches.
ClearChips ==
    /\ ChipsThere /\ (results.marks # {} \/ results.hideSoldOut)
    /\ results' = [results EXCEPT !.marks = {}, !.hideSoldOut = FALSE]
    /\ UNCHANGED <<indexVars, tripVars, cached, asked, searchForm>>

\* The link of a card, which a sold-out one does not have: to the trip's page and
\* back, with the form and the chips as on the first visit.
OpenTrip(r) ==
    /\ r \in ShownCards /\ r.free > 0
    /\ \A i \in Searches : asked[i] = Nothing
    /\ results' = PageOn(results.url)
    /\ searchForm' = [from |-> results.url.from, to |-> results.url.to, day |-> results.url.day,
                      error |-> FALSE]
    /\ \E i \in Searches : asked' = [asked EXCEPT ![i] = Asking(results.url)]
    /\ UNCHANGED <<indexVars, tripVars, cached>>

-----------------------------------------------------------------------------
IndexNext ==
    \/ Touch \/ Invalidate \/ InvalidateFails \/ IndexerStops
    \/ ReindexReads \/ ReindexWrites
    \/ \E t \in Buses : SeatChange(t) \/ TripGone(t)
    \/ \E q \in Answerable : PageExpires(q)

AnswerNext == \E i \in Searches :
    Lookup(i) \/ KeepPage(i) \/ SearchFails(i) \/ Answered(i) \/ SearchRefused(i)

PageNext ==
    \/ RetrySearch \/ SwapCities \/ SubmitSearch \/ HideSoldOut \/ ClearChips
    \/ \E d \in Days : PickDay(d)
    \/ \E f \in [from : Cities, to : Cities, day : Days, error : BOOLEAN] : EditForm(f)
    \/ \E m \in Marks : PressChip(m)
    \/ \E r \in Rows : OpenTrip(r)

SearchNext == IndexNext \/ AnswerNext \/ PageNext

\* The bus runs its consumers every two seconds, and a key of the cache expires.
SearchFairness ==
    /\ WF_searchVars(Touch) /\ WF_searchVars(Invalidate)
    /\ \A q \in Answerable : WF_searchVars(PageExpires(q))

SearchSpec == SearchInit /\ [][SearchNext]_searchVars /\ SearchFairness

-----------------------------------------------------------------------------
(* Properties                                                               *)

\* The index has counted the trip, and so has every page in the cache.
Counted(t) ==
    /\ leg[t].free = free[t]
    /\ \A q \in Answerable : cached[q] # Blank =>
          \A r \in cached[q] : r.trip = t => r.free = free[t]

\* When the seats of a trip stop changing, the index and every cached page come to
\* have the right number and keep it, through crashes between the row and the cache, failures of the
\* cache and pages kept late.  Not for a trip that a Reindex wrote last: what it had
\* read may have been overtaken by a seat event (searchidx.go:101-145).
SearchCatchesUp ==
    \A t \in Buses : (\E n \in 0 .. SeatsTotal : <>[](free[t] = n))
                       => <>[](t \in rebuilt \/ Counted(t))

\* The count of a trip that no Reindex wrote last is right, or the consumer still has a
\* seat event of it: a crash after the row was written delivers the event again
\* (searchidx.go:127-145, eventwire.go:132).
StaleOnlyWhileOwed ==
    \A t \in Buses \ rebuilt : leg[t].free = free[t] \/ \E i \in DOMAIN seatLog : seatLog[i] = t

\* The results on the page answer its URL: not what the code does
\* (search/page.tsx:57-64).
ResultsMatchUrl == ~ results.loading /\ ~ results.error => results.data.q = results.url

\* A trip that is not sold any more is not offered: not what the code does, nothing
\* tells the index (operator.go:291-296).
GoneTripsVanish == <>[](\A t \in gone : ~ leg[t].open)
=============================================================================
