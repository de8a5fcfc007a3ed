------------------------------- MODULE TripOps -------------------------------
(***************************************************************************)
(* One departure on its day: the crew and the office move it through its   *)
(* life from the pages driver, driver/incidents and operator/trips of      *)
(* apps/web/app, the detector of ops/ops.go and the consumer of incident   *)
(* events raise alerts, the control room (operator/control) and the        *)
(* passenger's tracking page poll what is on record.                       *)
(*                                                                         *)
(* The handler that changes the status reads the old one, checks it and    *)
(* writes the new one in two statements.  A page acts on the status it     *)
(* loaded.  Of the detector's checks the two on where the bus stands       *)
(* (scanStops, scanDeviation) are left out.                                *)
(***************************************************************************)
EXTENDS Naturals, FiniteSets

CONSTANTS
    Desks,          \* open pages that can change the status
    Role,           \* Role[d]: whose page it is, "crew" or "office"
    MaxReports,     \* incidents reported
    MaxFaults,      \* database errors in the background jobs
    Tries           \* tries of an event handler (bus.go: 3)

ASSUME TripOpsConstants ==
    /\ Role \in [Desks -> {"crew", "office"}]
    /\ MaxReports \in Nat /\ MaxFaults \in Nat /\ Tries \in Nat
    /\ MaxFaults < Tries   \* an outage shorter than the retries

VARIABLES
    trip,       \* catalog.trips: status; how late it is; age of its last position
    been,       \* history: every status written so far
    desk,       \* desk[d]: the status page d shows, and whether it shows an error
    req,        \* req[d]: its status request
    ping,       \* the crew page's position on its way
    alert,      \* ops.alerts: the open row of each kind, if any
    detector,   \* the detector between a check's query and its write
    news,       \* incident events in the outbox and in the log
    form,       \* the incident form
    faults,     \* background errors so far
    room,       \* the control room page
    track       \* the tracking page

controls == <<desk, req>>
jobs     == <<alert, detector, news, faults>>
pages    == <<ping, form, room, track>>
vars     == <<trip, been, controls, jobs, pages>>

-----------------------------------------------------------------------------
legalTransitions ==
    [SCHEDULED   |-> {"OPEN", "CANCELLED"},
     OPEN        |-> {"BOARDING", "CANCELLED"},
     BOARDING    |-> {"DEPARTED", "CANCELLED"},
     DEPARTED    |-> {"IN_PROGRESS", "ARRIVED"},
     IN_PROGRESS |-> {"ARRIVED"},
     ARRIVED     |-> {"COMPLETED"},
     COMPLETED   |-> {},
     CANCELLED   |-> {}]

TripStatuses == DOMAIN legalTransitions
Waiting      == {"SCHEDULED", "OPEN", "BOARDING"}
Moving       == {"DEPARTED", "IN_PROGRESS"}
Kinds        == {"LATE_DEPARTURE", "GPS_OFFLINE", "BUS_BREAKDOWN"}
Closed       == [open |-> FALSE, severity |-> "none", ack |-> FALSE]
Findings     == {"nothing", "MEDIUM", "HIGH", "clear"}

\* The type of the trip, the pages and the jobs behind them (operator.go, ops.go).
TypeOK ==
    /\ trip \in [status : TripStatuses, late : {"no", "15 min", "45 min"},
                 fix : {"never", "recent", "3 min", "20 min"}]
    /\ been \subseteq TripStatuses /\ trip.status \in been
    /\ desk \in [Desks -> [saw : TripStatuses \cup {"loading"}, error : BOOLEAN]]
    /\ req \in [Desks -> [at : {"none", "sent", "allowed", "done", "refused"},
                          to : TripStatuses]]
    /\ ping \in {"none", "locating", "sent"}
    /\ alert \in [Kinds -> [open : BOOLEAN, severity : {"none", "MEDIUM", "HIGH"}, ack : BOOLEAN]]
    /\ \A k \in Kinds : alert[k].open <=> alert[k].severity # "none"
    /\ \A k \in Kinds \ {"LATE_DEPARTURE"} : alert[k].severity # "MEDIUM"
    /\ detector \in [at : {"idle", "late", "gps"}, do : Findings]
    /\ news \in [sent : 0 .. MaxReports, outbox : Nat, log : Nat, tried : 0 .. Tries]
    /\ news.outbox + news.log <= news.sent
    /\ form \in [at : {"open", "sending", "saved"}, error : BOOLEAN]
    /\ faults \in 0 .. MaxFaults
    /\ room \in [at : {"closed", "loading", "open", "error"},
                 shown : SUBSET Kinds, same : SUBSET Kinds]
    /\ room.same \subseteq room.shown
    /\ \A k \in room.same : alert[k].open
    /\ track \in {"closed", "loading", "DRIVER_APP_GPS", "SIMULATED_FROM_SCHEDULE", "error"}

Init ==
    /\ trip = [status |-> "SCHEDULED", late |-> "no", fix |-> "never"]
    /\ been = {"SCHEDULED"}
    /\ desk = [d \in Desks |-> [saw |-> "loading", error |-> FALSE]]
    /\ req = [d \in Desks |-> [at |-> "none", to |-> "SCHEDULED"]]
    /\ ping = "none"
    /\ alert = [k \in Kinds |-> Closed]
    /\ detector = [at |-> "idle", do |-> "nothing"]
    /\ news = [sent |-> 0, outbox |-> 0, log |-> 0, tried |-> 0]
    /\ form = [at |-> "open", error |-> FALSE]
    /\ faults = 0
    /\ room = [at |-> "closed", shown |-> {}, same |-> {}]
    /\ track = "closed"

-----------------------------------------------------------------------------
(* The driver's page and the operator's page.                              *)

CREW_NEXT ==
    [SCHEDULED |-> {"BOARDING"}, OPEN |-> {"BOARDING"}, BOARDING |-> {"DEPARTED"},
     DEPARTED |-> {"IN_PROGRESS"}, IN_PROGRESS |-> {"ARRIVED"},
     ARRIVED |-> {}, COMPLETED |-> {}, CANCELLED |-> {}]

NEXT == legalTransitions       \* operator/trips/page.tsx keeps a copy

\* The buttons on page d.
Offered(d) ==
    CASE desk[d].saw = "loading" -> {}
      [] Role[d] = "crew"        -> CREW_NEXT[desk[d].saw]
      [] OTHER                   -> NEXT[desk[d].saw]

Load(d) ==
    /\ desk' = [desk EXCEPT ![d].saw = trip.status]
    /\ UNCHANGED <<trip, been, req, jobs, pages>>

NotLoaded(d) ==
    /\ desk' = [desk EXCEPT ![d].error = TRUE]
    /\ UNCHANGED <<trip, been, req, jobs, pages>>

Advance(d, s) ==
    /\ req[d].at = "none" /\ s \in Offered(d)
    /\ req' = [req EXCEPT ![d] = [at |-> "sent", to |-> s]]
    /\ desk' = [desk EXCEPT ![d].error = FALSE]
    /\ UNCHANGED <<trip, been, jobs, pages>>

CrewMay == {"BOARDING", "DEPARTED", "IN_PROGRESS", "ARRIVED"}

\* handleTripStatus reads the status and checks the step against it ...
CheckUnread(d) ==
    /\ req[d].at = "sent"
    /\ req' = [req EXCEPT ![d].at = "allowed"]
    /\ UNCHANGED <<trip, been, desk, jobs, pages>>

Check(d) ==
    /\ req[d].at = "sent"
    /\ req' = [req EXCEPT ![d].at =
                  IF /\ Role[d] = "crew" => req[d].to \in CrewMay
                     /\ req[d].to \in legalTransitions[trip.status]
                  THEN "allowed" ELSE "refused"]
    /\ UNCHANGED <<trip, been, desk, jobs, pages>>

\* ... and then writes it, whatever the status is by now.
Write(d) ==
    /\ req[d].at = "allowed"
    /\ trip' = [trip EXCEPT !.status = req[d].to]
    /\ been' = been \cup {req[d].to}
    /\ req' = [req EXCEPT ![d].at = "done"]
    /\ UNCHANGED <<desk, jobs, pages>>

\* A success reloads the page, a refusal is shown.
Told(d) ==
    /\ req[d].at \in {"done", "refused"}
    /\ desk' = [desk EXCEPT ![d] =
                  IF req[d].at = "done" THEN [@ EXCEPT !.saw = trip.status]
                                        ELSE [@ EXCEPT !.error = TRUE]]
    /\ req' = [req EXCEPT ![d].at = "none"]
    /\ UNCHANGED <<trip, been, jobs, pages>>

\* The request or its answer is lost.
NotTold(d) ==
    /\ req[d].at \in {"sent", "done", "refused"}
    /\ desk' = [desk EXCEPT ![d].error = TRUE]
    /\ req' = [req EXCEPT ![d].at = "none"]
    /\ UNCHANGED <<trip, been, jobs, pages>>

-----------------------------------------------------------------------------
(* Position and incidents.                                                 *)

CrewPage == \E d \in Desks : Role[d] = "crew" /\ desk[d].saw # "loading"

Share ==
    /\ CrewPage /\ ping = "none"
    /\ ping' = "locating"
    /\ UNCHANGED <<trip, been, controls, jobs, form, room, track>>

\* The page says "shared" as soon as the browser knows where it is.
Located ==
    /\ ping = "locating"
    /\ ping' = "sent"
    /\ UNCHANGED <<trip, been, controls, jobs, form, room, track>>

\* No permission; or the request fails, which nobody hears of.
PingLost ==
    /\ ping # "none"
    /\ ping' = "none"
    /\ UNCHANGED <<trip, been, controls, jobs, form, room, track>>

Position ==
    /\ ping = "sent"
    /\ ping' = "none"
    /\ trip' = [trip EXCEPT !.fix = "recent"]
    /\ UNCHANGED <<been, controls, jobs, form, room, track>>

Report ==
    /\ form.at = "open" /\ news.sent < MaxReports
    /\ form' = [at |-> "sending", error |-> FALSE]
    /\ UNCHANGED <<trip, been, controls, jobs, ping, room, track>>

\* The incident and its event are written together.
ReportIncident ==
    /\ form.at = "sending" /\ news.sent < MaxReports
    /\ news' = [news EXCEPT !.sent = @ + 1, !.outbox = @ + 1]
    /\ form' = [form EXCEPT !.at = "saved"]
    /\ UNCHANGED <<trip, been, controls, alert, detector, faults, ping, room, track>>

Reported ==
    /\ form.at = "saved"
    /\ form' = [form EXCEPT !.at = "open"]
    /\ UNCHANGED <<trip, been, controls, jobs, ping, room, track>>

\* The note stays in the form: the crew may send it again.
ReportFails ==
    /\ form.at \in {"sending", "saved"}
    /\ form' = [at |-> "open", error |-> TRUE]
    /\ UNCHANGED <<trip, been, controls, jobs, ping, room, track>>

-----------------------------------------------------------------------------
(* The detector, every 30 seconds or at the control room's button, and the *)
(* event bus.                                                              *)

LateVerdict ==
    CASE trip.status \in Moving                           -> "clear"
      [] trip.status \in Waiting /\ trip.late = "15 min"  -> "MEDIUM"
      [] trip.status \in Waiting /\ trip.late = "45 min"  -> "HIGH"
      [] OTHER                                            -> "nothing"

SilenceVerdict ==
    CASE trip.status \notin Moving -> "nothing"
      [] trip.fix = "recent"       -> "clear"
      [] OTHER                     -> "HIGH"

raise(k, severity) ==
    /\ alert' = [alert EXCEPT ![k] = [open |-> TRUE, severity |-> severity, ack |-> @.ack]]
    /\ UNCHANGED room

clear(k) ==
    /\ alert' = [alert EXCEPT ![k] = Closed]
    /\ room' = [room EXCEPT !.same = @ \ {k}]

Apply(k, verdict) ==
    CASE verdict = "clear"   -> clear(k)
      [] verdict = "nothing" -> UNCHANGED <<alert, room>>
      [] OTHER               -> raise(k, verdict)

ScanStarts ==
    /\ detector.at = "idle"
    /\ detector' = [at |-> "late", do |-> LateVerdict]
    /\ UNCHANGED <<trip, been, controls, alert, news, faults, pages>>

ScanLateDeparture ==
    /\ detector.at = "late"
    /\ Apply("LATE_DEPARTURE", detector.do)
    /\ detector' = [at |-> "gps", do |-> SilenceVerdict]
    /\ UNCHANGED <<trip, been, controls, news, faults, ping, form, track>>

ScanGPSOffline ==
    /\ detector.at = "gps"
    /\ Apply("GPS_OFFLINE", detector.do)
    /\ detector' = [at |-> "idle", do |-> "nothing"]
    /\ UNCHANGED <<trip, been, controls, news, faults, ping, form, track>>

\* The first error ends the scan.
ScanFails ==
    /\ detector.at # "idle" /\ faults < MaxFaults
    /\ detector' = [at |-> "idle", do |-> "nothing"]
    /\ faults' = faults + 1
    /\ UNCHANGED <<trip, been, controls, alert, news, pages>>

Relay ==
    /\ news.outbox > 0
    /\ news' = [news EXCEPT !.log = @ + news.outbox, !.outbox = 0]
    /\ UNCHANGED <<trip, been, controls, alert, detector, faults, pages>>

DeliverUnraised ==
    /\ news.log > 0
    /\ news' = [news EXCEPT !.log = @ - 1, !.tried = 0]
    /\ UNCHANGED <<trip, been, controls, alert, detector, faults, pages>>

RaiseFromEvent ==
    /\ news.log > 0
    /\ raise("BUS_BREAKDOWN", "HIGH")
    /\ news' = [news EXCEPT !.log = @ - 1, !.tried = 0]
    /\ UNCHANGED <<trip, been, controls, detector, faults, ping, form, track>>

\* After the last attempt the event is dead-lettered.
HandlerFails ==
    /\ news.log > 0 /\ faults < MaxFaults
    /\ faults' = faults + 1
    /\ news' = IF news.tried + 1 = Tries
               THEN [news EXCEPT !.log = @ - 1, !.tried = 0]
               ELSE [news EXCEPT !.tried = @ + 1]
    /\ UNCHANGED <<trip, been, controls, alert, detector, pages>>

-----------------------------------------------------------------------------
(* The pages that watch.                                                   *)

OpenRoom ==
    /\ room.at \in {"closed", "error"}
    /\ room' = [at |-> "loading", shown |-> {}, same |-> {}]
    /\ UNCHANGED <<trip, been, controls, jobs, ping, form, track>>

\* Every 15 seconds, and after each button of the page.
Poll ==
    /\ room.at \in {"loading", "open"}
    /\ LET open == {k \in Kinds : alert[k].open}
       IN  room' = [at |-> "open", shown |-> open, same |-> open]
    /\ UNCHANGED <<trip, been, controls, jobs, ping, form, track>>

\* No later answer takes the error away: only a new page does.
PollFails ==
    /\ room.at \in {"loading", "open"}
    /\ room' = [at |-> "error", shown |-> {}, same |-> {}]
    /\ UNCHANGED <<trip, been, controls, jobs, ping, form, track>>

\* By alert_id: a row that was cleared meanwhile stays as it is.
Acknowledge(k) ==
    /\ k \in room.shown
    /\ IF k \in room.same
       THEN alert' = [alert EXCEPT ![k].ack = TRUE]
       ELSE UNCHANGED alert
    /\ UNCHANGED <<trip, been, controls, detector, news, faults, pages>>

OpenTracking ==
    /\ track \in {"closed", "error"}
    /\ track' = "loading"
    /\ UNCHANGED <<trip, been, controls, jobs, ping, form, room>>

\* handleTracking: the timetable unless a position of the last 20 minutes.
Track ==
    /\ track \notin {"closed", "error"}
    /\ track' = IF trip.fix \in {"recent", "3 min"}
                THEN "DRIVER_APP_GPS" ELSE "SIMULATED_FROM_SCHEDULE"
    /\ UNCHANGED <<trip, been, controls, jobs, ping, form, room>>

TrackFails ==
    /\ track \notin {"closed", "error"}
    /\ track' = "error"
    /\ UNCHANGED <<trip, been, controls, jobs, ping, form, room>>

TimePasses ==
    /\ \/ trip.late = "no" /\ trip' = [trip EXCEPT !.late = "15 min"]
       \/ trip.late = "15 min" /\ trip' = [trip EXCEPT !.late = "45 min"]
       \/ trip.fix = "recent" /\ trip' = [trip EXCEPT !.fix = "3 min"]
       \/ trip.fix = "3 min" /\ trip' = [trip EXCEPT !.fix = "20 min"]
    /\ UNCHANGED <<been, controls, jobs, pages>>

-----------------------------------------------------------------------------
DeskNext(d) ==
    \/ Load(d) \/ NotLoaded(d)
    \/ \E s \in TripStatuses : Advance(d, s)
    \/ Check(d) \/ Write(d) \/ Told(d) \/ NotTold(d)

CrewNext == Share \/ Located \/ PingLost \/ Position
            \/ Report \/ ReportIncident \/ Reported \/ ReportFails

JobsNext == ScanStarts \/ ScanLateDeparture \/ ScanGPSOffline \/ ScanFails
            \/ Relay \/ RaiseFromEvent \/ HandlerFails

RoomNext == OpenRoom \/ Poll \/ PollFails \/ \E k \in Kinds : Acknowledge(k)

TrackNext == OpenTracking \/ Track \/ TrackFails

Next == (\E d \in Desks : DeskNext(d)) \/ CrewNext \/ JobsNext \/ RoomNext \/ TrackNext \/ TimePasses

\* The ticker, the bus and the page's timer run on; nobody has to press anything.
Fairness ==
    /\ WF_vars(ScanStarts) /\ WF_vars(ScanLateDeparture) /\ WF_vars(ScanGPSOffline)
    /\ WF_vars(Relay) /\ WF_vars(RaiseFromEvent)
    /\ WF_vars(Poll)

Spec == Init /\ [][Next]_vars /\ Fairness

-----------------------------------------------------------------------------
(* Properties.                                                             *)

\* Whatever two desks do at the same time, every status ever written has a
\* legal predecessor that was written before it: no bus is under way that was
\* never boarding, none is completed that never arrived.
NothingIsSkipped ==
    \A s \in been \ {"SCHEDULED"} : \E p \in been : s \in legalTransitions[p]

Trouble(k) ==
    CASE k = "LATE_DEPARTURE" -> trip.status \in Waiting /\ trip.late # "no"
      [] k = "GPS_OFFLINE"    -> trip.status \in Moving /\ trip.fix # "recent"
      [] OTHER                -> news.sent > 0

\* A bus that is late, one that has gone silent and every incident reported
\* are before long on the screen of an open control room, unless the trouble
\* ends first or the page breaks (ops.go, events/bus.go, control/page.tsx).
TroubleReachesTheRoom ==
    \A k \in Kinds :
        Trouble(k) ~> (~ Trouble(k) \/ k \in room.shown
                       \/ room.at \in {"closed", "error"})

\* Not so: alerts are cleared by trip.arrived and trip.completed, which no
\* code emits (ops.go:403), so those of an ended trip stay open.
EndedTripsAreQuiet ==
    (trip.status = "COMPLETED") ~> ~ alert["GPS_OFFLINE"].open

\* Not so: "An illegal jump is rejected here" (operator.go:251), but the
\* check and the write are two statements.
NoIllegalJump ==
    [][trip'.status # trip.status => trip'.status \in legalTransitions[trip.status]]_vars
=============================================================================
