------------------------------ MODULE Helpdesk ------------------------------
(***************************************************************************)
(* The help desk: the search for a booking (app/helpdesk/page.tsx), its    *)
(* timeline with the form that opens a case (booking/[pnr]/page.tsx), the  *)
(* list of cases (cases/page.tsx), and httpapi/helpdesk.go behind them.    *)
(*                                                                         *)
(* One agent at these pages, and colleagues who move cases meanwhile.  The *)
(* timeline itself is read from the tables of other modules: here a result *)
(* leads to a page that comes or does not.                                 *)
(***************************************************************************)
EXTENDS Naturals, FiniteSets

CONSTANTS
    Questions,      \* what a passenger on the phone gives: a PNR, a number, a name
    TooShort,       \* what is in the box at first: fewer than three characters
    CaseIds,        \* the cases there are and those to be opened
    MaxDeskCalls    \* changes and lists of cases under way at a time

\* The page that lists the cases has its first list under way.
ASSUME HelpdeskConstants == MaxDeskCalls \in Nat \ {0}

CaseStatuses == {"OPEN", "IN_PROGRESS", "WAITING", "RESOLVED", "CLOSED"}

VARIABLES
    finder,         \* the search page; finder.out: questions asked and not answered
    timeline,       \* the page of the booking; sent: cases asked for from it, and
                    \* late: from a page that is left since
    caseRow,        \* caseRow[k]: the row of support.cases, and whether its note is there
    caseList,       \* the list of cases
    listsOut,       \* lists read and not arrived: what each says of every case
    movesOut        \* changes of status asked for

deskVars == <<finder, timeline, caseRow, caseList, listsOut, movesOut>>

Statuses0 == CaseStatuses \cup {"none"}
CasesNow  == [k \in CaseIds |-> caseRow[k].status]

\* The type of the state.
HelpdeskTypeOK ==
    /\ finder \in [box : Questions \cup {TooShort}, asked : Questions \cup {TooShort},
                   shown : Questions \cup {TooShort}, out : SUBSET Questions, error : BOOLEAN]
    /\ timeline \in [at : {"away", "loading", "shown", "error"}, form : BOOLEAN,
                     subject : BOOLEAN, flash : BOOLEAN, sent : 0 .. 2, late : 0 .. 2]
    /\ caseRow \in [CaseIds -> [status : Statuses0, noteLost : BOOLEAN]]
    /\ caseList \in [at : {"loading", "shown"}, rows : [CaseIds -> Statuses0], error : BOOLEAN,
                     loads : 0 .. MaxDeskCalls]
    /\ listsOut \subseteq [CaseIds -> Statuses0]
    /\ movesOut \subseteq [case : CaseIds, to : CaseStatuses]

HelpdeskInit ==
    /\ finder = [box |-> TooShort, asked |-> TooShort, shown |-> TooShort, out |-> {},
                 error |-> FALSE]
    /\ timeline = [at |-> "away", form |-> FALSE, subject |-> FALSE,
                   flash |-> FALSE, sent |-> 0, late |-> 0]
    /\ caseRow \in [CaseIds -> [status : {"none", "OPEN"}, noteLost : {FALSE}]]
    /\ caseList = [at |-> "loading", rows |-> [k \in CaseIds |-> "none"], error |-> FALSE, loads |-> 1]
    /\ listsOut = {}
    /\ movesOut = {}

-----------------------------------------------------------------------------
(* Finding a booking                                                        *)

TypeQuestion(q) ==
    /\ finder.box # q
    /\ finder' = [finder EXCEPT !.box = q]
    /\ UNCHANGED <<timeline, caseRow, caseList, listsOut, movesOut>>

\* The button, were it not to wait for the answer.
FindBookingAgain ==
    /\ finder.box # TooShort
    /\ finder' = [finder EXCEPT !.asked = finder.box, !.shown = TooShort, !.error = FALSE,
                                !.out = @ \cup {finder.box}]
    /\ UNCHANGED <<timeline, caseRow, caseList, listsOut, movesOut>>

\* The button, and the Enter key with it, is dead while a search is under way; the
\* old results go at once.
FindBooking ==
    /\ finder.box # TooShort /\ finder.out = {}
    /\ finder' = [finder EXCEPT !.asked = finder.box, !.shown = TooShort, !.error = FALSE,
                                !.out = {finder.box}]
    /\ UNCHANGED <<timeline, caseRow, caseList, listsOut, movesOut>>

BookingsFound(q) ==
    /\ q \in finder.out
    /\ finder' = [finder EXCEPT !.shown = q, !.out = @ \ {q}]
    /\ UNCHANGED <<timeline, caseRow, caseList, listsOut, movesOut>>

SearchBreaks(q) ==
    /\ q \in finder.out
    /\ finder' = [finder EXCEPT !.error = TRUE, !.out = @ \ {q}]
    /\ UNCHANGED <<timeline, caseRow, caseList, listsOut, movesOut>>

-----------------------------------------------------------------------------
(* The timeline and the case opened from it                                 *)

\* From a row of the results, whatever was typed since.
OpenTimeline ==
    /\ timeline.at = "away" /\ finder.shown # TooShort
    /\ timeline' = [timeline EXCEPT !.at = "loading"]
    /\ UNCHANGED <<finder, caseRow, caseList, listsOut, movesOut>>

TimelineComes ==
    /\ timeline.at = "loading"
    /\ timeline' = [timeline EXCEPT !.at = "shown"]
    /\ UNCHANGED <<finder, caseRow, caseList, listsOut, movesOut>>

\* An error takes the place of the page, and nothing on it asks again.
TimelineFails ==
    /\ timeline.at = "loading"
    /\ timeline' = [timeline EXCEPT !.at = "error"]
    /\ UNCHANGED <<finder, caseRow, caseList, listsOut, movesOut>>

\* The page and what was typed into it are gone; what it asked for is not.
LeaveTimeline ==
    /\ timeline.at # "away"
    /\ timeline' = [at |-> "away", form |-> FALSE, subject |-> FALSE,
                    flash |-> FALSE, sent |-> 0, late |-> timeline.late + timeline.sent]
    /\ UNCHANGED <<finder, caseRow, caseList, listsOut, movesOut>>

ToggleCaseForm ==
    /\ timeline.at = "shown"
    /\ timeline' = [timeline EXCEPT !.form = ~ @]
    /\ UNCHANGED <<finder, caseRow, caseList, listsOut, movesOut>>

TypeCase ==
    /\ timeline.at = "shown" /\ timeline.form
    /\ timeline' = [timeline EXCEPT !.subject = TRUE]
    /\ UNCHANGED <<finder, caseRow, caseList, listsOut, movesOut>>

\* The button waits for a subject alone: pressed twice, it asks for two cases.
PressOpenCase ==
    /\ timeline.at = "shown" /\ timeline.form /\ timeline.subject
    /\ timeline.sent + timeline.late < 2
    /\ timeline' = [timeline EXCEPT !.sent = @ + 1]
    /\ UNCHANGED <<finder, caseRow, caseList, listsOut, movesOut>>

\* What the page makes of an answer: the form goes with what was typed, or the error
\* takes the place of the whole timeline.  A page that is left makes nothing of it.
CaseAnswered(good) ==
    \/ /\ timeline.late > 0
       /\ timeline' = [timeline EXCEPT !.late = @ - 1]
    \/ /\ timeline.sent > 0
       /\ timeline' = IF good
                      THEN [timeline EXCEPT !.sent = @ - 1, !.flash = TRUE, !.form = FALSE,
                                            !.subject = FALSE]
                      ELSE [timeline EXCEPT !.sent = @ - 1, !.at = "error"]

\* handleCreateCase(): the row, then the note if there is one; whether it went in nobody
\* asks.
CaseOpened(k, noteLost, heard) ==
    /\ caseRow[k].status = "none"
    /\ CaseAnswered(heard)
    /\ caseRow' = [caseRow EXCEPT ![k] = [status |-> "OPEN", noteLost |-> noteLost]]
    /\ UNCHANGED <<finder, caseList, listsOut, movesOut>>

CaseRefused ==
    /\ CaseAnswered(FALSE)
    /\ UNCHANGED <<finder, caseRow, caseList, listsOut, movesOut>>

-----------------------------------------------------------------------------
(* The list of cases                                                        *)

\* handleListCases() reads for a page that loads: at first, and after each change of its own.
ServeCases ==
    /\ caseList.loads > 0
    /\ caseList' = [caseList EXCEPT !.loads = @ - 1]
    /\ listsOut' = listsOut \cup {CasesNow}
    /\ UNCHANGED <<finder, timeline, caseRow, movesOut>>

\* Lists come in any order, and the last to come is shown.
CasesCome(l) ==
    /\ l \in listsOut
    /\ caseList' = [caseList EXCEPT !.at = "shown", !.rows = l]
    /\ listsOut' = listsOut \ {l}
    /\ UNCHANGED <<finder, timeline, caseRow, movesOut>>

\* The error stays whatever comes later.
CasesFail(l) ==
    /\ l \in listsOut
    /\ caseList' = [caseList EXCEPT !.at = "shown", !.error = TRUE]
    /\ listsOut' = listsOut \ {l}
    /\ UNCHANGED <<finder, timeline, caseRow, movesOut>>

\* Any status of the list, from any other; the row keeps the old one until a list comes.
PickStatus(k, to) ==
    /\ caseList.at = "shown" /\ caseList.rows[k] \notin {"none", to}
    /\ Cardinality(movesOut) + caseList.loads + Cardinality(listsOut) < MaxDeskCalls
    /\ movesOut' = movesOut \cup {[case |-> k, to |-> to]}
    /\ UNCHANGED <<finder, timeline, caseRow, caseList, listsOut>>

\* handleCaseStatus(): the row takes the status, whatever it has become; the page loads
\* the list again, unless the answer is lost.
ServeMove(m, heard) ==
    /\ m \in movesOut
    /\ movesOut' = movesOut \ {m}
    /\ caseRow' = [caseRow EXCEPT ![m.case].status = m.to]
    /\ caseList' = IF heard THEN [caseList EXCEPT !.loads = @ + 1] ELSE [caseList EXCEPT !.error = TRUE]
    /\ UNCHANGED <<finder, timeline, listsOut>>

MoveFails(m) ==
    /\ m \in movesOut
    /\ movesOut' = movesOut \ {m}
    /\ caseList' = [caseList EXCEPT !.error = TRUE]
    /\ UNCHANGED <<finder, timeline, caseRow, listsOut>>

\* A colleague does the same at another desk.
ColleagueMoves(k, to) ==
    /\ caseRow[k].status \notin {"none", to}
    /\ caseRow' = [caseRow EXCEPT ![k].status = to]
    /\ UNCHANGED <<finder, timeline, caseList, listsOut, movesOut>>

FindNext ==
    \/ FindBooking \/ OpenTimeline \/ TimelineComes \/ TimelineFails \/ LeaveTimeline
    \/ \E q \in Questions : TypeQuestion(q) \/ BookingsFound(q) \/ SearchBreaks(q)

OpenCaseNext ==
    \/ ToggleCaseForm \/ TypeCase \/ PressOpenCase \/ CaseRefused
    \/ \E k \in CaseIds, noteLost, heard \in BOOLEAN : CaseOpened(k, noteLost, heard)

CasesNext ==
    \/ ServeCases
    \/ \E l \in listsOut : CasesCome(l) \/ CasesFail(l)
    \/ \E m \in movesOut : MoveFails(m) \/ \E heard \in BOOLEAN : ServeMove(m, heard)
    \/ \E k \in CaseIds, to \in CaseStatuses : PickStatus(k, to) \/ ColleagueMoves(k, to)

HelpdeskNext == FindNext \/ OpenCaseNext \/ CasesNext

HelpdeskSpec == HelpdeskInit /\ [][HelpdeskNext]_deskVars

-----------------------------------------------------------------------------
(* Properties                                                               *)

\* The bookings shown are those of the question last asked, whatever came late
\* (helpdesk/page.tsx:27-36, 51).
SearchAnswersLast == finder.shown \in {TooShort, finder.asked}

\* Not so: a case is asked for once ([pnr]/page.tsx:53-63, 98).
OneCaseAtATime == timeline.sent + timeline.late <= 1

\* Not so: a case keeps its first note (helpdesk.go:349).
CasesKeepNotes == \A k \in CaseIds : ~ caseRow[k].noteLost

\* Not so: a case a colleague has closed is not opened again from an old list
\* (helpdesk.go:421).
NoSurpriseMoves == [][\A k \in CaseIds :
                          caseRow[k].status = "CLOSED" /\ caseList.rows[k] # "CLOSED" /\ movesOut' # movesOut
                              => caseRow'[k].status = "CLOSED"]_deskVars
=============================================================================
