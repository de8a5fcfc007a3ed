------------------------------- MODULE EventBus -------------------------------
(***************************************************************************)
(* The event backbone and the notification consumer: services/events,      *)
(* services/notify, and the events and notifications pages of the          *)
(* platform.                                                               *)
(*                                                                         *)
(* Producers write events to an outbox.  A relay moves them to the log,    *)
(* where the sequence numbers them before their transaction commits; the   *)
(* ticker of each instance relays, and so does the page's button.  One     *)
(* process at a time walks the consumer forward and hands each event to    *)
(* Dispatch, which tells one recipient over one channel.  A dead letter    *)
(* can be replayed by hand, beside the walk.                               *)
(***************************************************************************)
EXTENDS Integers, Sequences, FiniteSets

CONSTANTS
    Events,
    Malformed,      \* those the schema registry rejects
    Marketing,      \* those whose notification the budget can suppress
    Relays,         \* processes that may relay at once
    Aggregators,    \* the providers of the channel, in the order of priority
    Attempts,       \* of a handler, before a dead letter (three)
    Streak,         \* failures that put a provider out for five minutes (three)
    NoEvent,
    MaxMishaps      \* bound: errors and crashes

ASSUME BusAssumption ==
    /\ NoEvent \notin Events
    /\ Len(Aggregators) \in Nat
    /\ Attempts \in Nat \ {0} /\ Streak \in Nat \ {0} /\ MaxMishaps \in Nat

VARIABLES
    pending,    \* events in the outboxes, not published
    relaying,   \* relaying[r]: the event whose relay transaction r has open
    offset,     \* offset[e]: offset_id, 0 for none
    lastOffset, \* the sequence
    logged,     \* committed rows of events.event_log
    position,   \* events.consumers: the checkpoint
    walk,       \* the walk of the consumer: the events it read and has to handle
    late,       \* history: events that came into the log behind the checkpoint
    dead,       \* dead[e]: the dead letter of e
    worker,     \* worker[w]: a run of Dispatch
    notice,     \* notice[e]: the status of the row of notify.notifications
    told,       \* told[e]: messages sent for e
    provider,   \* provider[p]: a row of notify.providers
    broke,      \* the budget of the month is spent
    eventsPage, noticesPage,
    mishaps     \* errors and crashes so far

logVars    == <<pending, relaying, offset, lastOffset, logged, late>>
walkVars   == <<position, walk, dead>>
noticeVars == <<notice, told, provider, broke>>
busPages   == <<eventsPage, noticesPage>>
busVars    == <<logVars, walkVars, worker, noticeVars, busPages, mishaps>>

Workers == {"walk", "replay"}
Ranks   == 1 .. Len(Aggregators)
NoRun    == [at |-> "free"]
Resting == [at |-> "resting"]
Up      == [down |-> FALSE, streak |-> 0, cooling |-> FALSE]

\* The type of the state.
BusTypeOK ==
    /\ pending \subseteq Events /\ logged \subseteq Events /\ late \subseteq logged
    /\ relaying \in [Relays -> Events \cup {NoEvent}]
    /\ offset \in [Events -> Nat] /\ lastOffset \in Nat /\ position \in 0 .. lastOffset
    /\ walk \in {Resting} \cup [at : {"walking"}, todo : Seq(Events), tries : 1 .. Attempts, last : Nat]
    /\ dead \in [Events -> {"none", "open", "resolved"}]
    /\ worker \in [Workers -> {NoRun} \cup [at : {"start", "send", "mark", "ok", "error"},
                                           e : Events, rank : Nat, sent : BOOLEAN]]
    /\ notice \in [Events -> {"none", "QUEUED", "SENT", "FAILED", "SUPPRESSED"}]
    /\ told \in [Events -> Nat]
    /\ provider \in [Ranks -> [down : BOOLEAN, streak : 0 .. Streak, cooling : BOOLEAN]]
    /\ broke \in BOOLEAN
    /\ eventsPage \in [dead : SUBSET Events, error : BOOLEAN, draining : BOOLEAN]
    /\ noticesPage \in [down : SUBSET Ranks, log : SUBSET Events, error : BOOLEAN]
    /\ mishaps \in 0 .. MaxMishaps

BusInit ==
    /\ pending \in SUBSET Events
    /\ relaying = [r \in Relays |-> NoEvent]
    /\ offset = [e \in Events |-> 0] /\ lastOffset = 0
    /\ logged = {} /\ late = {}
    /\ position = 0 /\ walk = Resting
    /\ dead = [e \in Events |-> "none"]
    /\ worker = [w \in Workers |-> NoRun]
    /\ notice = [e \in Events |-> "none"]
    /\ told = [e \in Events |-> 0]
    /\ provider = [p \in Ranks |-> Up]
    /\ broke = FALSE
    /\ eventsPage = [dead |-> {}, error |-> FALSE, draining |-> FALSE]
    /\ noticesPage = [down |-> {}, log |-> {}, error |-> FALSE]
    /\ mishaps = 0

Mishap == mishaps < MaxMishaps /\ mishaps' = mishaps + 1

-----------------------------------------------------------------------------
(* The relay                                                                *)

\* The statement of Relay claims an event no other relay has locked; the insert
\* takes a number.  What the registry rejects goes elsewhere and gets none.
RelayClaims(r, e) ==
    /\ relaying[r] = NoEvent
    /\ e \in pending /\ \A s \in Relays : relaying[s] # e
    /\ IF e \in Malformed
       THEN pending' = pending \ {e} /\ UNCHANGED <<relaying, offset, lastOffset>>
       ELSE /\ relaying' = [relaying EXCEPT ![r] = e]
            /\ lastOffset' = lastOffset + 1
            /\ offset' = [offset EXCEPT ![e] = lastOffset + 1]
            /\ UNCHANGED pending
    /\ UNCHANGED <<logged, late, walkVars, worker, noticeVars, busPages, mishaps>>

\* The offset the checkpoint will be moved to, or is at.
WalkEnd == IF walk = Resting THEN position ELSE walk.last

\* Published and marked in one statement.
RelayCommits(r) ==
    /\ relaying[r] # NoEvent
    /\ LET e == relaying[r] IN
         /\ logged' = logged \cup {e}
         /\ pending' = pending \ {e}
         /\ late' = IF offset[e] <= WalkEnd THEN late \cup {e} ELSE late
    /\ relaying' = [relaying EXCEPT ![r] = NoEvent]
    /\ UNCHANGED <<offset, lastOffset, walkVars, worker, noticeVars, busPages, mishaps>>

\* The process stops: the number is lost, the event is still in the outbox.
RelayStops(r) ==
    /\ relaying[r] # NoEvent /\ Mishap
    /\ offset' = [offset EXCEPT ![relaying[r]] = 0]
    /\ relaying' = [relaying EXCEPT ![r] = NoEvent]
    /\ UNCHANGED <<pending, lastOffset, logged, late, walkVars, worker, noticeVars, busPages>>

-----------------------------------------------------------------------------
(* deliverOne                                                               *)

Ahead == {e \in logged : offset[e] > position}
InOrder(S) == CHOOSE q \in [1 .. Cardinality(S) -> S] :
                 \A i, j \in DOMAIN q : i < j => offset[q[i]] < offset[q[j]]
Run(e) == [at |-> "start", e |-> e, rank |-> 1, sent |-> FALSE]

\* The advisory lock, the checkpoint and the batch ahead of it.
BeginWalk ==
    /\ walk = Resting /\ Ahead # {}
    /\ LET todo == InOrder(Ahead) IN
         walk' = [at |-> "walking", todo |-> todo, tries |-> 1, last |-> offset[todo[Len(todo)]]]
    /\ UNCHANGED <<logVars, position, dead, worker, noticeVars, busPages, mishaps>>

Walking == walk # Resting

Handle ==
    /\ Walking /\ walk.todo # <<>> /\ worker["walk"] = NoRun
    /\ worker' = [worker EXCEPT !["walk"] = Run(Head(walk.todo))]
    /\ UNCHANGED <<logVars, walkVars, noticeVars, busPages, mishaps>>

\* A handler that fails is tried again; the last time its event becomes a dead
\* letter, and the walk goes on.
Handled ==
    /\ worker["walk"].at \in {"ok", "error"}
    /\ worker' = [worker EXCEPT !["walk"] = NoRun]
    /\ IF worker["walk"].at = "error" /\ walk.tries < Attempts
       THEN walk' = [walk EXCEPT !.tries = @ + 1] /\ UNCHANGED dead
       ELSE /\ walk' = [walk EXCEPT !.todo = Tail(@), !.tries = 1]
            /\ dead' = IF worker["walk"].at = "error" /\ dead[Head(walk.todo)] = "none"
                       THEN [dead EXCEPT ![Head(walk.todo)] = "open"] ELSE dead
    /\ UNCHANGED <<logVars, position, noticeVars, busPages, mishaps>>

\* The checkpoint, after the batch.
Checkpoint ==
    /\ Walking /\ walk.todo = <<>>
    /\ position' = walk.last
    /\ walk' = Resting
    /\ UNCHANGED <<logVars, dead, worker, noticeVars, busPages, mishaps>>

\* Mutant of WalkStops: the checkpoint is moved with the lock given back.
WalkStopsAtLast ==
    /\ Walking /\ Mishap
    /\ position' = walk.last
    /\ walk' = Resting
    /\ worker' = [worker EXCEPT !["walk"] = NoRun]
    /\ UNCHANGED <<logVars, dead, noticeVars, busPages>>

\* The process stops, or the dead letter or the checkpoint cannot be written: the
\* lock is free, the checkpoint where it was.
WalkStops ==
    /\ Walking /\ Mishap
    /\ walk' = Resting
    /\ worker' = [worker EXCEPT !["walk"] = NoRun]
    /\ UNCHANGED <<logVars, position, dead, noticeVars, busPages>>

-----------------------------------------------------------------------------
(* Dispatch, for the recipient of an event                                  *)

Step(w, at) == worker' = [worker EXCEPT ![w].at = at]

\* Mutant of InsertNotice: a row that is not SENT does not count as delivered.
InsertNoticeUnlessSent(w) ==
    /\ worker[w].at = "start"
    /\ LET e == worker[w].e IN
         IF notice[e] = "SENT" THEN Step(w, "ok") /\ UNCHANGED notice
         ELSE notice' = [notice EXCEPT ![e] = "QUEUED"] /\ Step(w, "send")
    /\ UNCHANGED <<logVars, walkVars, told, provider, broke, busPages, mishaps>>

\* deliver: the row comes first; a row that is there means that this event has been
\* delivered, however far that came.  A spent budget stops all but transactional
\* messages.
InsertNotice(w) ==
    /\ worker[w].at = "start"
    /\ LET e == worker[w].e IN
         IF notice[e] # "none" THEN Step(w, "ok") /\ UNCHANGED notice
         ELSE IF e \in Marketing /\ broke
         THEN notice' = [notice EXCEPT ![e] = "SUPPRESSED"] /\ Step(w, "ok")
         ELSE notice' = [notice EXCEPT ![e] = "QUEUED"] /\ Step(w, "send")
    /\ UNCHANGED <<logVars, walkVars, told, provider, broke, busPages, mishaps>>

\* The route, the recipient or the row: the database says no.
DispatchFails(w) ==
    /\ worker[w].at = "start" /\ Mishap
    /\ Step(w, "error")
    /\ UNCHANGED <<logVars, walkVars, noticeVars, busPages>>

\* trySend: the providers in their order, but for those that are cooling off.
TrySend(w) ==
    /\ worker[w].at = "send"
    /\ LET p == worker[w].rank IN
         IF p \notin Ranks
         THEN Step(w, "mark") /\ UNCHANGED <<told, provider>>
         ELSE IF provider[p].cooling
         THEN worker' = [worker EXCEPT ![w].rank = p + 1] /\ UNCHANGED <<told, provider>>
         ELSE IF provider[p].down
         THEN /\ worker' = [worker EXCEPT ![w].rank = p + 1]
              /\ provider' = [provider EXCEPT ![p].streak = IF @ < Streak THEN @ + 1 ELSE @,
                                              ![p].cooling = provider[p].streak + 1 >= Streak]
              /\ UNCHANGED told
         ELSE /\ worker' = [worker EXCEPT ![w].at = "mark", ![w].sent = TRUE]
              /\ told' = [told EXCEPT ![worker[w].e] = @ + 1]
              /\ provider' = [provider EXCEPT ![p] = Up]
    /\ UNCHANGED <<logVars, walkVars, notice, broke, busPages, mishaps>>

\* The status of the row; a message nobody carried is an error for the caller.
MarkNotice(w) ==
    /\ worker[w].at = "mark"
    /\ notice' = [notice EXCEPT ![worker[w].e] = IF worker[w].sent THEN "SENT" ELSE "FAILED"]
    /\ Step(w, IF worker[w].sent THEN "ok" ELSE "error")
    /\ UNCHANGED <<logVars, walkVars, told, provider, broke, busPages, mishaps>>

\* Five minutes pass.
CoolsDown(p) ==
    /\ provider[p].cooling
    /\ provider' = [provider EXCEPT ![p].cooling = FALSE]
    /\ UNCHANGED <<logVars, walkVars, worker, notice, told, broke, busPages, mishaps>>

\* spend: the cap of the month is reached.
BudgetSpent ==
    /\ ~ broke /\ \E e \in Events : told[e] > 0
    /\ broke' = TRUE
    /\ UNCHANGED <<logVars, walkVars, worker, notice, told, provider, busPages, mishaps>>

-----------------------------------------------------------------------------
(* admin/events                                                             *)

\* load, when the page opens and every ten seconds: the letters that are open.
LoadEvents ==
    /\ eventsPage' = [eventsPage EXCEPT !.dead = {e \in Events : dead[e] = "open"}]
    /\ UNCHANGED <<logVars, walkVars, worker, noticeVars, noticesPage, mishaps>>

\* Nothing clears the error: the notice takes the place of the page for good.
LoadEventsFails ==
    /\ Mishap
    /\ eventsPage' = [eventsPage EXCEPT !.error = TRUE]
    /\ UNCHANGED <<logVars, walkVars, worker, noticeVars, noticesPage>>

\* "Relay and deliver now": a relay and a walk beside those of the ticker.
PressDrain ==
    /\ ~ eventsPage.error /\ ~ eventsPage.draining
    /\ eventsPage' = [eventsPage EXCEPT !.draining = TRUE]
    /\ UNCHANGED <<logVars, walkVars, worker, noticeVars, noticesPage, mishaps>>

Drained ==
    /\ eventsPage.draining
    /\ eventsPage' = [eventsPage EXCEPT !.draining = FALSE]
    /\ UNCHANGED <<logVars, walkVars, worker, noticeVars, noticesPage, mishaps>>

\* The Replay button of a letter the page shows as open: the handler is run here,
\* without the lock.
PressReplay(e) ==
    /\ ~ eventsPage.error /\ e \in eventsPage.dead /\ worker["replay"] = NoRun
    /\ worker' = [worker EXCEPT !["replay"] = Run(e)]
    /\ UNCHANGED <<logVars, walkVars, noticeVars, busPages, mishaps>>

\* The letter is resolved when the handler succeeds.  Either way the page loads.
Replayed ==
    /\ worker["replay"].at \in {"ok", "error"}
    /\ LET e == worker["replay"].e IN
         dead' = IF worker["replay"].at = "ok" /\ dead[e] = "open"
                 THEN [dead EXCEPT ![e] = "resolved"] ELSE dead
    /\ worker' = [worker EXCEPT !["replay"] = NoRun]
    /\ eventsPage' = [eventsPage EXCEPT !.dead = {e \in Events : dead'[e] = "open"}]
    /\ UNCHANGED <<logVars, position, walk, noticeVars, noticesPage, mishaps>>

ReplayStops ==
    /\ worker["replay"] # NoRun /\ Mishap
    /\ worker' = [worker EXCEPT !["replay"] = NoRun]
    /\ UNCHANGED <<logVars, walkVars, noticeVars, busPages>>

-----------------------------------------------------------------------------
(* admin/notifications                                                      *)

Down == {p \in Ranks : provider[p].down}

\* The delivery log, through the filter whose button was pressed last.
Filters == {"", "SENT", "FAILED", "SUPPRESSED"}
ShownNotices(f) == {e \in Events : notice[e] # "none" /\ f \in {"", notice[e]}}

\* load, every twelve seconds and with each press of a filter: providers, log and
\* spending.
LoadNotices(f) ==
    /\ noticesPage' = [noticesPage EXCEPT !.down = Down, !.log = ShownNotices(f)]
    /\ UNCHANGED <<logVars, walkVars, worker, noticeVars, eventsPage, mishaps>>

LoadNoticesFails ==
    /\ Mishap
    /\ noticesPage' = [noticesPage EXCEPT !.error = TRUE]
    /\ UNCHANGED <<logVars, walkVars, worker, noticeVars, eventsPage>>

\* "Take down" or "Bring back up": the opposite of what the page shows, whatever the
\* provider is by now; its failures are forgotten.
SwitchProvider(p) ==
    /\ ~ noticesPage.error
    /\ provider' = [provider EXCEPT ![p] = [Up EXCEPT !.down = p \notin noticesPage.down]]
    /\ noticesPage' = [noticesPage EXCEPT !.down = {q \in Ranks : provider'[q].down}]
    /\ UNCHANGED <<logVars, walkVars, worker, notice, told, broke, eventsPage, mishaps>>

-----------------------------------------------------------------------------
LogNext ==
    \E r \in Relays : RelayCommits(r) \/ RelayStops(r) \/ \E e \in Events : RelayClaims(r, e)

WalkNext == BeginWalk \/ Handle \/ Handled \/ Checkpoint \/ WalkStops

DispatchNext ==
    \/ \E w \in Workers : InsertNotice(w) \/ DispatchFails(w) \/ TrySend(w) \/ MarkNotice(w)
    \/ BudgetSpent \/ \E p \in Ranks : CoolsDown(p)

BusPagesNext ==
    \/ LoadEvents \/ LoadEventsFails \/ PressDrain \/ Drained \/ Replayed \/ ReplayStops
    \/ LoadNoticesFails \/ \E f \in Filters : LoadNotices(f)
    \/ \E e \in Events : PressReplay(e)
    \/ \E p \in Ranks : SwitchProvider(p)

BusNext == LogNext \/ WalkNext \/ DispatchNext \/ BusPagesNext

BusSpec == BusInit /\ [][BusNext]_busVars

-----------------------------------------------------------------------------
(* Properties                                                               *)

\* Nobody is told twice of one event, through retries of the handler, batches that
\* are delivered again after a crash, and replays that run beside the walk
\* (notify.go:89-91); and what the log calls SENT was sent.
ToldOnce ==
    \A e \in Events : told[e] <= 1 /\ (notice[e] = "SENT" => told[e] = 1)

\* What the checkpoint has passed was handled or is a dead letter, but for the
\* events that were numbered before the ones it passed and committed after
\* (bus.go:208-214).
PassedIsAccountedFor ==
    \A e \in logged : offset[e] <= position =>
       notice[e] # "none" \/ dead[e] # "none" \/ e \in late

\* The checkpoint waits for every number below it: not what the code does.
NothingComesLate == late = {}

\* Who should be told is told, once a provider works: not what the code does, the
\* row of the first attempt stops every later one (notify.go:162-164).
FailedIsRetried ==
    \A e \in Events : notice[e] = "FAILED" => dead[e] = "open" \/ walk # Resting
=============================================================================
