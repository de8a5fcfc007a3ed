--------------------------- MODULE PlatformProofs -----------------------------
(***************************************************************************)
(* The theorems about the pages of Platform and the device they run on:     *)
(* the searches of SalesPanel and Helpdesk, Session and Search, each for every*)
(* value of its constants, and about the nine parts of Platform together (the*)
(* theorems about the other five are in OperationsProofs).  The parts share no*)
(* state.                                                                   *)
(***************************************************************************)
EXTENDS Platform, OperationsProofs

-----------------------------------------------------------------------------
(* SalesPanel and Helpdesk                                                  *)

\* The counter asks for one list at a time: while one is out it is the one last asked
\* for, and the button waits.
PanelRows == [form : Journeys, asked : Journeys \cup {Nowhere},
              list : Journeys \cup {Nowhere}, trip : Trips \cup {Nowhere},
              seats : Trips \cup {Nowhere}, picked : SUBSET SeatNos,
              selling : Trips \cup {Nowhere}, searching : BOOLEAN,
              error : BOOLEAN, receipt : BOOLEAN]
OneListOut ==
    /\ panel \in [Panels -> PanelRows] /\ searchesOut \in [Panels -> SUBSET Journeys]
    /\ mapsOut \in [Panels -> SUBSET Trips]
    /\ searchesOut["counter"] \subseteq
          (IF panel["counter"].searching THEN {panel["counter"].asked} ELSE {})
    /\ ListOfLastSearch

\* A step that is not about a search changes one page, and at most takes its list away.
LEMMA ListStays ==
    ASSUME OneListOut, NEW p \in Panels, NEW r \in PanelRows, panel' = [panel EXCEPT ![p] = r],
           r.asked = panel[p].asked, r.searching = panel[p].searching,
           r.list \in {panel[p].list, Nowhere},
           searchesOut' = searchesOut, mapsOut' \in [Panels -> SUBSET Trips]
    PROVE  OneListOut'
<1>1. panel' \in [Panels -> PanelRows] /\ "counter" \in Panels
  BY DEF OneListOut, Panels
<1>2. /\ panel'["counter"].asked = panel["counter"].asked
      /\ panel'["counter"].searching = panel["counter"].searching
      /\ panel'["counter"].list \in {panel["counter"].list, Nowhere}
  BY <1>1 DEF OneListOut
<1> QED BY <1>1, <1>2 DEF OneListOut, ListOfLastSearch

\* The pages of the agent have nothing to do with it.
LEMMA AgentApart ==
    ASSUME OneListOut, panel' \in [Panels -> PanelRows], searchesOut' \in [Panels -> SUBSET Journeys],
           mapsOut' \in [Panels -> SUBSET Trips], panel'["counter"] = panel["counter"],
           searchesOut'["counter"] = searchesOut["counter"]
    PROVE  OneListOut'
BY DEF OneListOut, ListOfLastSearch

LEMMA PanelStep ==
    ASSUME OneListOut, [PanelNext]_panelVars
    PROVE  OneListOut'
<1>1. /\ "counter" \in Panels /\ "agent" \in Panels /\ "counter" # "agent"
      /\ Panels = {"counter", "agent"}
      /\ \A p \in Panels : panel[p] \in PanelRows
      /\ mapsOut \in [Panels -> SUBSET Trips] /\ searchesOut \in [Panels -> SUBSET Journeys]
  BY DEF Panels, OneListOut
<1>2. CASE CounterSearches
  <2> DEFINE r == [panel["counter"] EXCEPT !.asked = panel["counter"].form, !.searching = TRUE,
                                           !.error = FALSE, !.trip = Nowhere, !.list = Nowhere]
  <2>1. panel' = [panel EXCEPT !["counter"] = r]
    BY <1>2 DEF CounterSearches
  <2>2. r \in PanelRows /\ r.asked = panel["counter"].form /\ r.searching = TRUE /\ r.list = Nowhere
    BY <1>1 DEF PanelRows
  <2> HIDE DEF r
  <2>3. searchesOut["counter"] = {} /\ panel["counter"].form \in Journeys
    BY <1>1, <1>2 DEF CounterSearches, OneListOut, PanelRows
  <2>4. /\ panel' \in [Panels -> PanelRows] /\ panel'["counter"] = r
        /\ searchesOut' \in [Panels -> SUBSET Journeys]
        /\ searchesOut'["counter"] = {panel["counter"].form} /\ mapsOut' = mapsOut
    BY <1>1, <1>2, <2>1, <2>2, <2>3 DEF CounterSearches, OneListOut
  <2> QED BY <1>1, <2>2, <2>4 DEF OneListOut, ListOfLastSearch
<1>3. CASE LeaveList
  <2>1. LET r == [panel["counter"] EXCEPT !.list = Nowhere]
        IN  r \in PanelRows /\ r.asked = panel["counter"].asked /\ r.list = Nowhere
            /\ r.searching = panel["counter"].searching
    BY <1>1 DEF PanelRows
  <2> QED BY <1>1, <1>3, <2>1, ListStays DEF LeaveList
<1>4. ASSUME NEW j \in Journeys, CounterForm(j) \/ AgentForm(j)
      PROVE  OneListOut'
  <2>1. PICK p \in Panels : /\ panel' = [panel EXCEPT ![p] = [panel[p] EXCEPT !.form = j]]
                            /\ UNCHANGED <<searchesOut, mapsOut>>
    BY <1>1, <1>4 DEF CounterForm, AgentForm
  <2>2. LET r == [panel[p] EXCEPT !.form = j]
        IN  r \in PanelRows /\ r.asked = panel[p].asked /\ r.list = panel[p].list
            /\ r.searching = panel[p].searching
    BY <1>1 DEF PanelRows
  <2> QED BY <1>1, <2>1, <2>2, ListStays
<1>5. ASSUME NEW t \in Trips, CounterOpens(t) \/ AgentOpens(t)
      PROVE  OneListOut'
  <2>1. CASE CounterOpens(t)
    <3>1. LET r == [panel["counter"] EXCEPT !.trip = t, !.picked = {}, !.error = FALSE, !.receipt = FALSE]
          IN  r \in PanelRows /\ r.asked = panel["counter"].asked /\ r.list = panel["counter"].list
              /\ r.searching = panel["counter"].searching
      BY <1>1 DEF PanelRows
    <3> QED BY <1>1, <2>1, <3>1, ListStays DEF CounterOpens
  <2>2. CASE AgentOpens(t)
    <3>1. LET r == [panel["agent"] EXCEPT !.trip = t, !.picked = {}]
          IN  r \in PanelRows /\ r.asked = panel["agent"].asked /\ r.list = panel["agent"].list
              /\ r.searching = panel["agent"].searching
      BY <1>1 DEF PanelRows
    <3> QED BY <1>1, <2>2, <3>1, ListStays DEF AgentOpens
  <2> QED BY <1>5, <2>1, <2>2
<1>6. CASE AgentSearches
  <2>1. [panel["agent"] EXCEPT !.asked = panel["agent"].form, !.error = FALSE, !.trip = Nowhere] \in PanelRows
    BY <1>1 DEF PanelRows
  <2>2. panel["agent"].form \in Journeys
    BY <1>1 DEF PanelRows
  <2>3. panel' \in [Panels -> PanelRows] /\ panel'["counter"] = panel["counter"]
    BY <1>1, <1>6, <2>1 DEF AgentSearches, OneListOut
  <2>4. /\ searchesOut' \in [Panels -> SUBSET Journeys] /\ mapsOut' = mapsOut
        /\ searchesOut'["counter"] = searchesOut["counter"]
    BY <1>1, <1>6, <2>2 DEF AgentSearches
  <2> QED BY <1>1, <2>3, <2>4, AgentApart
<1>7. ASSUME NEW p \in Panels, NEW j \in Journeys, ListComes(p, j) \/ ListFails(p, j)
      PROVE  OneListOut'
  <2> DEFINE r == IF ListComes(p, j) THEN [panel[p] EXCEPT !.list = j, !.searching = FALSE]
                                     ELSE [panel[p] EXCEPT !.error = TRUE, !.searching = FALSE]
  <2>1. panel' = [panel EXCEPT ![p] = r]
    BY <1>1, <1>7 DEF ListComes, ListFails, OneListOut
  <2>2. r \in PanelRows /\ r.asked = panel[p].asked /\ r.list \in {panel[p].list, j}
    BY <1>1, ZenonT(60) DEF PanelRows
  <2> HIDE DEF r
  <2>3. /\ j \in searchesOut[p] /\ mapsOut' = mapsOut
        /\ searchesOut' = [searchesOut EXCEPT ![p] = @ \ {j}]
    BY <1>7 DEF ListComes, ListFails
  <2>4. panel' \in [Panels -> PanelRows] /\ searchesOut' \in [Panels -> SUBSET Journeys]
    BY <1>1, <2>1, <2>2, <2>3 DEF OneListOut
  <2>5. CASE p = "agent"
    <3>1. panel'["counter"] = panel["counter"] /\ searchesOut'["counter"] = searchesOut["counter"]
      BY <1>1, <2>1, <2>3, <2>5 DEF OneListOut
    <3> QED BY <1>1, <2>3, <2>4, <3>1, AgentApart
  <2>6. CASE p = "counter"
    <3>1. searchesOut["counter"] \subseteq {j} /\ panel["counter"].asked = j
      BY <2>3, <2>6 DEF OneListOut
    <3>2. searchesOut'["counter"] = {} /\ panel'["counter"] = r
      BY <1>1, <2>1, <2>3, <2>6, <3>1 DEF OneListOut
    <3>3. r.asked = j /\ r.list \in {Nowhere, j}
      BY <2>2, <2>6, <3>1 DEF OneListOut, ListOfLastSearch
    <3> QED BY <1>1, <2>3, <2>4, <3>2, <3>3 DEF OneListOut, ListOfLastSearch
  <2> QED BY <1>1, <2>5, <2>6
<1>8. ASSUME NEW p \in Panels, NEW t \in Trips, MapComes(p, t) \/ MapFails(p, t)
      PROVE  OneListOut'
  <2>1. LET r == [panel[p] EXCEPT !.seats = t]
        IN  r \in PanelRows /\ r.asked = panel[p].asked /\ r.list = panel[p].list
            /\ r.searching = panel[p].searching
    BY <1>1 DEF PanelRows
  <2>2. panel = [panel EXCEPT ![p] = panel[p]]
    BY DEF OneListOut
  <2>3. mapsOut' \in [Panels -> SUBSET Trips] /\ searchesOut' = searchesOut
    BY <1>1, <1>8 DEF MapComes, MapFails
  <2> QED BY <1>1, <1>8, <2>1, <2>2, <2>3, ListStays DEF MapComes, MapFails
<1>9. ASSUME NEW p \in Panels, NEW s \in SeatNos, PickSeat(p, s)
      PROVE  OneListOut'
  <2> DEFINE q == (panel[p].picked \cup {s}) \ (panel[p].picked \cap {s})
  <2>0. q \in SUBSET SeatNos
    BY <1>1 DEF PanelRows
  <2>1. panel' = [panel EXCEPT ![p] = [panel[p] EXCEPT !.picked = q]]
    BY <1>9 DEF PickSeat
  <2> HIDE DEF q
  <2>2. LET r == [panel[p] EXCEPT !.picked = q]
        IN  r \in PanelRows /\ r.asked = panel[p].asked /\ r.list = panel[p].list
            /\ r.searching = panel[p].searching
    BY <1>1, <2>0 DEF PanelRows
  <2> QED BY <1>1, <1>9, <2>1, <2>2, ListStays DEF PickSeat
<1>10. ASSUME NEW p \in Panels, LeaveTrip(p)
       PROVE  OneListOut'
  <2>1. LET r == [panel[p] EXCEPT !.trip = Nowhere]
        IN  r \in PanelRows /\ r.asked = panel[p].asked /\ r.list = panel[p].list
            /\ r.searching = panel[p].searching
    BY <1>1 DEF PanelRows
  <2> QED BY <1>1, <1>10, <2>1, ListStays DEF LeaveTrip
<1>11. ASSUME NEW p \in Panels, PressSell(p)
       PROVE  OneListOut'
  <2>1. LET r == [panel[p] EXCEPT !.selling = panel[p].trip, !.error = FALSE]
        IN  r \in PanelRows /\ r.asked = panel[p].asked /\ r.list = panel[p].list
            /\ r.searching = panel[p].searching
    BY <1>1 DEF PanelRows
  <2>2. panel' = [panel EXCEPT ![p] = [panel[p] EXCEPT !.selling = panel[p].trip, !.error = FALSE]]
    BY <1>1, <1>11 DEF PressSell, OneListOut
  <2> QED BY <1>1, <1>11, <2>1, <2>2, ListStays DEF PressSell
<1>12. ASSUME NEW p \in Panels, SaleDone(p) \/ NextCustomer(p) \/ \E lost \in BOOLEAN : SaleRefused(p, lost)
       PROVE  OneListOut'
  <2>1. /\ mapsOut' \in [Panels -> SUBSET Trips] /\ searchesOut' = searchesOut
    <3>1. SaleDone(p) \/ (\E lost \in BOOLEAN : SaleRefused(p, lost)) => panel[p].selling \in Trips
      BY <1>1 DEF SaleDone, SaleRefused, PanelRows
    <3>2. searchesOut' = searchesOut /\ (NextCustomer(p) => mapsOut' = mapsOut)
      BY <1>12 DEF SaleDone, NextCustomer, SaleRefused
    <3>3. mapsOut' = mapsOut \/ \E t \in Trips : mapsOut' = [mapsOut EXCEPT ![p] = @ \cup {t}]
      BY <1>12, <3>1, <3>2 DEF SaleDone, SaleRefused
    <3> QED BY <1>1, <3>2, <3>3
  <2>2. CASE SaleDone(p)
    <3>1. LET r == [panel[p] EXCEPT !.selling = Nowhere, !.receipt = TRUE, !.picked = {}]
          IN  r \in PanelRows /\ r.asked = panel[p].asked /\ r.list = panel[p].list
              /\ r.searching = panel[p].searching
      BY <1>1 DEF PanelRows
    <3> QED BY <1>1, <2>1, <2>2, <3>1, ListStays DEF SaleDone
  <2>3. CASE NextCustomer(p)
    <3>1. LET r == [panel[p] EXCEPT !.receipt = FALSE, !.trip = Nowhere, !.list = Nowhere]
          IN  r \in PanelRows /\ r.asked = panel[p].asked /\ r.list = Nowhere
              /\ r.searching = panel[p].searching
      BY <1>1 DEF PanelRows
    <3> QED BY <1>1, <2>1, <2>3, <3>1, ListStays DEF NextCustomer
  <2>4. ASSUME NEW lost \in BOOLEAN, SaleRefused(p, lost) PROVE OneListOut'
    <3> DEFINE q == IF lost THEN {} ELSE panel[p].picked
    <3>0. q \in SUBSET SeatNos
      BY <1>1 DEF PanelRows
    <3>1. panel' = [panel EXCEPT ![p] = [panel[p] EXCEPT !.selling = Nowhere, !.error = TRUE, !.picked = q]]
      BY <2>4 DEF SaleRefused
    <3> HIDE DEF q
    <3>2. LET r == [panel[p] EXCEPT !.selling = Nowhere, !.error = TRUE, !.picked = q]
          IN  r \in PanelRows /\ r.asked = panel[p].asked /\ r.list = panel[p].list
              /\ r.searching = panel[p].searching
      BY <1>1, <3>0 DEF PanelRows
    <3> QED BY <1>1, <2>1, <3>1, <3>2, ListStays
  <2> QED BY <1>12, <2>2, <2>3, <2>4
<1>13. CASE UNCHANGED panelVars
  BY <1>13 DEF panelVars, OneListOut, ListOfLastSearch
<1> QED BY <1>2, <1>3, <1>4, <1>5, <1>6, <1>7, <1>8, <1>9, <1>10, <1>11, <1>12, <1>13
        DEF PanelNext, CounterPanelNext, AgentPanelNext

LEMMA PanelInitSound == PanelInit => OneListOut
<1> SUFFICES ASSUME PanelInit PROVE OneListOut
    OBVIOUS
<1>1. (CHOOSE j \in Journeys : TRUE) \in Journeys
  BY PanelConstants
<1> QED BY <1>1 DEF PanelInit, OneListOut, PanelRows, ListOfLastSearch, Panels

\* A clerk at the counter sells from the list last asked for, whatever was cleared and
\* whatever came late (counter/page.tsx:179-190, 300).
LEMMA ListAlwaysOfLastSearch == PanelSpec => []ListOfLastSearch
<1>1. OneListOut /\ [PanelNext]_panelVars => OneListOut'
  BY PanelStep
<1>2. OneListOut => ListOfLastSearch
  BY DEF OneListOut
<1> QED BY PanelInitSound, <1>1, <1>2, PTL DEF PanelSpec

\* The help desk: one search at a time, and what it is for is what is shown in the end.
OneSearchOut ==
    /\ finder.out \subseteq {finder.asked} /\ SearchAnswersLast
    /\ finder \in [box : Questions \cup {TooShort}, asked : Questions \cup {TooShort},
                  shown : Questions \cup {TooShort}, out : SUBSET Questions, error : BOOLEAN]

LEMMA FinderStep ==
    ASSUME OneSearchOut, [HelpdeskNext]_deskVars
    PROVE  OneSearchOut'
<1> DEFINE Finders == [box : Questions \cup {TooShort}, asked : Questions \cup {TooShort},
                       shown : Questions \cup {TooShort}, out : SUBSET Questions, error : BOOLEAN]
<1>0. finder \in Finders
  BY DEF OneSearchOut
<1>1. CASE FindBooking
  <2> DEFINE f == [finder EXCEPT !.asked = finder.box, !.shown = TooShort, !.error = FALSE,
                                 !.out = {finder.box}]
  <2>1. finder.box \in Questions
    BY <1>0, <1>1 DEF FindBooking
  <2>2. f \in Finders /\ f.asked = finder.box /\ f.shown = TooShort /\ f.out = {finder.box}
    BY <1>0, <2>1
  <2>3. finder' = f
    BY <1>1 DEF FindBooking
  <2> HIDE DEF f
  <2> QED BY <2>2, <2>3 DEF OneSearchOut, SearchAnswersLast
<1>2. ASSUME NEW q \in Questions, TypeQuestion(q)
      PROVE  OneSearchOut'
  BY <1>0, <1>2 DEF TypeQuestion, OneSearchOut, SearchAnswersLast
<1>3. ASSUME NEW q \in Questions, BookingsFound(q)
      PROVE  OneSearchOut'
  BY <1>0, <1>3 DEF BookingsFound, OneSearchOut, SearchAnswersLast
<1>4. ASSUME NEW q \in Questions, SearchBreaks(q)
      PROVE  OneSearchOut'
  BY <1>0, <1>4 DEF SearchBreaks, OneSearchOut, SearchAnswersLast
<1>5. ASSUME finder' = finder
      PROVE  OneSearchOut'
  BY <1>5 DEF OneSearchOut, SearchAnswersLast
<1>6. CASE OpenTimeline \/ TimelineComes \/ TimelineFails \/ LeaveTimeline
  BY <1>5, <1>6 DEF OpenTimeline, TimelineComes, TimelineFails, LeaveTimeline
<1>7. CASE OpenCaseNext
  BY <1>5, <1>7 DEF OpenCaseNext, ToggleCaseForm, TypeCase, PressOpenCase, CaseRefused, CaseOpened
<1>8. CASE CasesNext
  BY <1>5, <1>8 DEF CasesNext, ServeCases, CasesCome, CasesFail, MoveFails, ServeMove, PickStatus,
                    ColleagueMoves
<1>9. CASE UNCHANGED deskVars
  BY <1>5, <1>9 DEF deskVars
<1> QED BY <1>1, <1>2, <1>3, <1>4, <1>6, <1>7, <1>8, <1>9 DEF HelpdeskNext, FindNext

\* The bookings an agent sees are those of the question last asked (helpdesk/page.tsx:27-36, 51).
THEOREM SearchAlwaysAnswersLast == HelpdeskSpec => []SearchAnswersLast
<1>1. HelpdeskInit => OneSearchOut
  BY DEF HelpdeskInit, OneSearchOut, SearchAnswersLast
<1>2. OneSearchOut /\ [HelpdeskNext]_deskVars => OneSearchOut'
  BY FinderStep
<1>3. OneSearchOut => SearchAnswersLast
  BY DEF OneSearchOut
<1> QED BY <1>1, <1>2, <1>3, PTL DEF HelpdeskSpec

\* The pages of the sellers keep their type.
LEMMA PanelTypes == PanelSpec => []PanelTypeOK
<1>1. OneListOut => PanelTypeOK
  BY DEF OneListOut, PanelTypeOK, PanelRows
<1> QED BY <1>1, PanelInitSound, PanelStep, PTL DEF PanelSpec

\* The calls of the list of cases share one bound, and a page left behind counts its own.
DeskBounded ==
    /\ HelpdeskTypeOK
    /\ timeline.sent + timeline.late <= 2
    /\ IsFiniteSet(movesOut) /\ IsFiniteSet(listsOut)
    /\ Cardinality(movesOut) + caseList.loads + Cardinality(listsOut) <= MaxDeskCalls

LEMMA Adding == ASSUME NEW S, IsFiniteSet(S), NEW x
                PROVE  /\ IsFiniteSet(S \cup {x}) /\ Cardinality(S) \in Nat
                       /\ Cardinality(S \cup {x}) \in Nat
                       /\ Cardinality(S \cup {x}) <= Cardinality(S) + 1
BY FS_AddElement, FS_CardinalityType

LEMMA Removing == ASSUME NEW S, IsFiniteSet(S), NEW x \in S
                  PROVE  /\ IsFiniteSet(S \ {x}) /\ Cardinality(S \ {x}) = Cardinality(S) - 1
                         /\ Cardinality(S) \in Nat /\ Cardinality(S \ {x}) \in Nat
BY FS_RemoveElement, FS_CardinalityType

Timelines == [at : {"away", "loading", "shown", "error"}, form : BOOLEAN,
              subject : BOOLEAN, flash : BOOLEAN, sent : 0 .. 2, late : 0 .. 2]
CaseLists == [at : {"loading", "shown"}, rows : [CaseIds -> Statuses0], error : BOOLEAN,
              loads : 0 .. MaxDeskCalls]

LEMMA TimelineTyped ==
    ASSUME DeskBounded, NEW t \in Timelines, t.sent + t.late <= 2, timeline' = t,
           OneSearchOut', caseRow' \in [CaseIds -> [status : Statuses0, noteLost : BOOLEAN]],
           UNCHANGED <<caseList, listsOut, movesOut>>
    PROVE  DeskBounded'
BY DEF DeskBounded, HelpdeskTypeOK, Timelines, OneSearchOut

LEMMA ListTyped ==
    ASSUME DeskBounded, NEW l \in CaseLists, caseList' = l,
           OneSearchOut', caseRow' \in [CaseIds -> [status : Statuses0, noteLost : BOOLEAN]],
           listsOut' \subseteq [CaseIds -> Statuses0], movesOut' \subseteq [case : CaseIds, to : CaseStatuses],
           IsFiniteSet(movesOut'), IsFiniteSet(listsOut'),
           Cardinality(movesOut') + l.loads + Cardinality(listsOut') <= MaxDeskCalls,
           UNCHANGED timeline
    PROVE  DeskBounded'
BY DEF DeskBounded, HelpdeskTypeOK, CaseLists, OneSearchOut

LEMMA DeskStep == ASSUME DeskBounded, OneSearchOut, OneSearchOut', [HelpdeskNext]_deskVars PROVE DeskBounded'
<1> USE HelpdeskConstants
<1>t. /\ timeline \in Timelines /\ caseList \in CaseLists
      /\ caseRow \in [CaseIds -> [status : Statuses0, noteLost : BOOLEAN]]
      /\ listsOut \subseteq [CaseIds -> Statuses0] /\ movesOut \subseteq [case : CaseIds, to : CaseStatuses]
      /\ timeline.sent \in 0 .. 2 /\ timeline.late \in 0 .. 2 /\ timeline.sent + timeline.late <= 2
      /\ IsFiniteSet(movesOut) /\ IsFiniteSet(listsOut)
      /\ Cardinality(movesOut) \in Nat /\ Cardinality(listsOut) \in Nat
      /\ caseList.loads \in Nat
      /\ Cardinality(movesOut) + caseList.loads + Cardinality(listsOut) <= MaxDeskCalls
  BY FS_CardinalityType DEF DeskBounded, HelpdeskTypeOK, Timelines, CaseLists
<1>s. \A s \in CaseStatuses : s \in Statuses0
  BY DEF Statuses0
<1>1. CASE UNCHANGED <<timeline, caseRow, caseList, listsOut, movesOut>>
  BY <1>1, <1>t, TimelineTyped
<1>2. CASE FindNext
  <2>1. CASE OpenTimeline \/ TimelineComes \/ TimelineFails
    <3>1. PICK a \in {"loading", "shown", "error"} : timeline' = [timeline EXCEPT !.at = a]
      BY <2>1 DEF OpenTimeline, TimelineComes, TimelineFails
    <3>2. timeline' \in Timelines /\ timeline'.sent + timeline'.late <= 2
      BY <1>t, <3>1 DEF Timelines
    <3> QED BY <1>t, <2>1, <3>2, TimelineTyped DEF OpenTimeline, TimelineComes, TimelineFails
  <2>2. CASE LeaveTimeline
    <3>1. timeline' \in Timelines /\ timeline'.sent + timeline'.late <= 2
      BY <1>t, <2>2 DEF LeaveTimeline, Timelines
    <3> QED BY <1>t, <2>2, <3>1, TimelineTyped DEF LeaveTimeline
  <2> QED BY <1>1, <1>2, <2>1, <2>2 DEF FindNext, FindBooking, TypeQuestion, BookingsFound, SearchBreaks
<1>3. CASE OpenCaseNext
  <2>1. CASE ToggleCaseForm \/ TypeCase \/ PressOpenCase
    <3>1. timeline' \in Timelines /\ timeline'.sent + timeline'.late <= 2
      <4>1. CASE ToggleCaseForm
        BY <1>t, <4>1 DEF ToggleCaseForm, Timelines
      <4>2. CASE TypeCase
        BY <1>t, <4>2 DEF TypeCase, Timelines
      <4>3. CASE PressOpenCase
        BY <1>t, <4>3 DEF PressOpenCase, Timelines
      <4> QED BY <2>1, <4>1, <4>2, <4>3
    <3> QED BY <1>t, <2>1, <3>1, TimelineTyped DEF ToggleCaseForm, TypeCase, PressOpenCase
  <2>2. ASSUME NEW good \in BOOLEAN, CaseAnswered(good)
        PROVE  timeline' \in Timelines /\ timeline'.sent + timeline'.late <= 2
    <3>0. /\ timeline.sent > 0 => timeline.sent - 1 \in 0 .. 2 /\ timeline.sent - 1 + timeline.late <= 2
          /\ timeline.late > 0 => timeline.late - 1 \in 0 .. 2 /\ timeline.sent + (timeline.late - 1) <= 2
      BY <1>t
    <3>a. ASSUME NEW n \in 0 .. 2, n + timeline.late <= 2,
                 \/ timeline' = [timeline EXCEPT !.sent = n, !.flash = TRUE, !.form = FALSE, !.subject = FALSE]
                 \/ timeline' = [timeline EXCEPT !.sent = n, !.at = "error"]
          PROVE  timeline' \in Timelines /\ timeline'.sent = n /\ timeline'.late = timeline.late
      BY <1>t, <3>a, Zenon DEF Timelines
    <3>1. CASE timeline.late > 0 /\ timeline' = [timeline EXCEPT !.late = @ - 1]
      BY <1>t, <3>1 DEF Timelines
    <3>2. CASE timeline.sent > 0 /\ timeline' = [timeline EXCEPT !.sent = @ - 1, !.flash = TRUE,
                                                  !.form = FALSE, !.subject = FALSE]
      BY <3>0, <3>a, <3>2
    <3>3. CASE timeline.sent > 0 /\ timeline' = [timeline EXCEPT !.sent = @ - 1, !.at = "error"]
      BY <3>0, <3>a, <3>3
    <3> QED BY <2>2, <3>1, <3>2, <3>3 DEF CaseAnswered
  <2>3. CASE CaseRefused
    BY <1>t, <2>2, <2>3, TimelineTyped DEF CaseRefused
  <2>4. ASSUME NEW k \in CaseIds, NEW noteLost \in BOOLEAN, NEW heard \in BOOLEAN,
               CaseOpened(k, noteLost, heard)
        PROVE  DeskBounded'
    <3>1. caseRow' \in [CaseIds -> [status : Statuses0, noteLost : BOOLEAN]]
      BY <1>t, <2>4 DEF CaseOpened, Statuses0, CaseStatuses
    <3> QED BY <2>2, <2>4, <3>1, TimelineTyped DEF CaseOpened
  <2> QED BY <1>3, <2>1, <2>3, <2>4 DEF OpenCaseNext
<1>4. CASE ServeCases
  <2>1. CasesNow \in [CaseIds -> Statuses0]
    BY <1>t DEF CasesNow
  <2>2. /\ IsFiniteSet(listsOut') /\ Cardinality(listsOut') \in Nat
        /\ Cardinality(listsOut') <= Cardinality(listsOut) + 1
    BY <1>4, <1>t, Adding DEF ServeCases
  <2>3. caseList' \in CaseLists /\ caseList'.loads = caseList.loads - 1
    BY <1>4, <1>t DEF ServeCases, CaseLists
  <2>4. Cardinality(movesOut) + caseList'.loads + Cardinality(listsOut') <= MaxDeskCalls
    BY <1>t, <2>2, <2>3
  <2>5. /\ UNCHANGED <<finder, timeline, caseRow, movesOut>>
        /\ listsOut' \subseteq [CaseIds -> Statuses0]
    BY <1>4, <1>t, <2>1 DEF ServeCases
  <2> QED BY <1>t, <2>2, <2>3, <2>4, <2>5, ListTyped
<1>5. ASSUME NEW l \in listsOut, CasesCome(l) \/ CasesFail(l)
      PROVE  DeskBounded'
  <2>1. /\ IsFiniteSet(listsOut') /\ Cardinality(listsOut') \in Nat
        /\ Cardinality(listsOut') = Cardinality(listsOut) - 1
    BY <1>5, <1>t, Removing DEF CasesCome, CasesFail
  <2>2. caseList' \in CaseLists /\ caseList'.loads = caseList.loads
    <3>1. CASE CasesCome(l)
      BY <1>t, <3>1 DEF CasesCome, CaseLists
    <3>2. CASE CasesFail(l)
      BY <1>t, <3>2 DEF CasesFail, CaseLists
    <3> QED BY <1>5, <3>1, <3>2
  <2> QED BY <1>5, <1>t, <2>1, <2>2, ListTyped DEF CasesCome, CasesFail
<1>6. ASSUME NEW m \in movesOut, MoveFails(m) \/ \E heard \in BOOLEAN : ServeMove(m, heard)
      PROVE  DeskBounded'
  <2>1. /\ IsFiniteSet(movesOut') /\ Cardinality(movesOut') \in Nat /\ movesOut' \subseteq movesOut
        /\ Cardinality(movesOut') = Cardinality(movesOut) - 1
    BY <1>6, <1>t, Removing DEF MoveFails, ServeMove
  <2>2. caseList' \in CaseLists /\ caseList'.loads <= caseList.loads + 1
    <3>1. CASE caseList' = [caseList EXCEPT !.loads = @ + 1]
      <4>1. caseList.loads + 1 \in 0 .. MaxDeskCalls
        BY <1>t, <2>1
      <4> QED BY <1>t, <3>1, <4>1 DEF CaseLists
    <3>2. CASE caseList' = [caseList EXCEPT !.error = TRUE]
      <4>1. caseList' \in CaseLists /\ caseList'.loads = caseList.loads
        BY <1>t, <3>2 DEF CaseLists
      <4> QED BY <1>t, <4>1
    <3> QED BY <1>6, <3>1, <3>2 DEF MoveFails, ServeMove
  <2>3. caseRow' \in [CaseIds -> [status : Statuses0, noteLost : BOOLEAN]]
    <3>1. m.case \in CaseIds /\ m.to \in Statuses0
      BY <1>t, <1>s
    <3>2. [caseRow[m.case] EXCEPT !.status = m.to] \in [status : Statuses0, noteLost : BOOLEAN]
      BY <1>t, <3>1
    <3> QED BY <1>6, <1>t, <3>1, <3>2 DEF MoveFails, ServeMove
  <2>4. caseList'.loads \in Nat
    BY <2>2 DEF CaseLists
  <2>5. UNCHANGED <<timeline, listsOut>>
    BY <1>6 DEF MoveFails, ServeMove
  <2> QED BY <1>t, <2>1, <2>2, <2>3, <2>4, <2>5, ListTyped
<1>7. ASSUME NEW k \in CaseIds, NEW to \in CaseStatuses, PickStatus(k, to)
      PROVE  DeskBounded'
  <2>1. /\ IsFiniteSet(movesOut') /\ Cardinality(movesOut') \in Nat
        /\ Cardinality(movesOut') <= Cardinality(movesOut) + 1
    BY <1>7, <1>t, Adding DEF PickStatus
  <2>2. /\ Cardinality(movesOut) + caseList.loads + Cardinality(listsOut) < MaxDeskCalls
        /\ UNCHANGED <<finder, timeline, caseRow, caseList, listsOut>>
        /\ movesOut' = movesOut \cup {[case |-> k, to |-> to]}
    BY <1>7 DEF PickStatus
  <2>3. Cardinality(movesOut') + caseList.loads + Cardinality(listsOut) <= MaxDeskCalls
    BY <1>t, <2>1, <2>2
  <2>4. movesOut' \subseteq [case : CaseIds, to : CaseStatuses]
    BY <1>t, <2>2
  <2> QED BY <1>t, <2>1, <2>2, <2>3, <2>4, ListTyped
<1>8. ASSUME NEW k \in CaseIds, NEW to \in CaseStatuses, ColleagueMoves(k, to)
      PROVE  DeskBounded'
  <2>1. caseRow' \in [CaseIds -> [status : Statuses0, noteLost : BOOLEAN]]
    BY <1>8, <1>t, <1>s DEF ColleagueMoves
  <2> QED BY <1>8, <1>t, <2>1, TimelineTyped DEF ColleagueMoves
<1>9. CASE UNCHANGED deskVars
  BY <1>1, <1>9 DEF deskVars
<1> QED BY <1>2, <1>3, <1>4, <1>5, <1>6, <1>7, <1>8, <1>9 DEF HelpdeskNext, CasesNext

\* The pages of the help desk keep their type, and what they have under way its bounds.
LEMMA HelpdeskTypes == HelpdeskSpec => []HelpdeskTypeOK
<1>1. HelpdeskInit => OneSearchOut /\ DeskBounded
  <2> SUFFICES ASSUME HelpdeskInit PROVE OneSearchOut /\ DeskBounded
      OBVIOUS
  <2>1. OneSearchOut
    BY DEF HelpdeskInit, OneSearchOut, SearchAnswersLast
  <2>2. IsFiniteSet({}) /\ Cardinality({}) = 0 /\ MaxDeskCalls \in Nat /\ MaxDeskCalls >= 1
    BY FS_EmptySet, HelpdeskConstants
  <2>3. caseRow \in [CaseIds -> [status : Statuses0, noteLost : BOOLEAN]]
    BY DEF HelpdeskInit, Statuses0, CaseStatuses
  <2>4. caseList \in CaseLists /\ caseList.loads = 1
    BY <2>2 DEF HelpdeskInit, CaseLists, Statuses0
  <2>5. timeline \in Timelines /\ timeline.sent + timeline.late = 0
    BY DEF HelpdeskInit, Timelines
  <2>6. HelpdeskTypeOK
    BY <2>1, <2>3, <2>4, <2>5 DEF HelpdeskInit, HelpdeskTypeOK, OneSearchOut, Timelines, CaseLists
  <2> QED BY <2>1, <2>2, <2>4, <2>5, <2>6 DEF HelpdeskInit, DeskBounded
<1>2. (OneSearchOut /\ DeskBounded) /\ [HelpdeskNext]_deskVars => (OneSearchOut /\ DeskBounded)'
  BY FinderStep, DeskStep
<1>3. DeskBounded => HelpdeskTypeOK
  BY DEF DeskBounded
<1> QED BY <1>1, <1>2, <1>3, PTL DEF HelpdeskSpec

-----------------------------------------------------------------------------
(* Session                                                                  *)

GrantRows == [of : Nat, used : BOOLEAN, revoked : BOOLEAN, live : BOOLEAN]
CallSteps == {"sent", "done", "refused", "looking", "claim", "claimed", "issued", "condemn",
              "revoking", "sessions", "everywhere", "denied", "failed", "broken"}
CallRows  == [at : CallSteps,
              what : {"load", "save", "logout", "everywhere", "ask", "verify", "password"},
              held : Nat, again : BOOLEAN, rt : Nat, rows : SUBSET Nat]

\* A token that is presented, or has been issued, is one that exists.
CallFits(r) ==
    /\ r \in CallRows \cup {Idle}
    /\ r.at \in {"looking", "claim", "claimed"} => r.rt \in DOMAIN grant
    /\ r.at = "issued" => r.held \in DOMAIN grant

Rotating(c) == call[c].at = "claimed"

\* A rotation has its token to itself until it commits, and nobody revokes it meanwhile.
RotationsApart ==
    /\ \A c \in Calls : Rotating(c) => /\ ~ grant[call[c].rt].used
                                       /\ ~ grant[call[c].rt].revoked
    /\ \A c, d \in Calls : c # d /\ Rotating(c) /\ Rotating(d) => call[c].rt # call[d].rt

SessionSound ==
    /\ grant \in Seq(GrantRows) /\ store \in 0 .. Len(grant) /\ code \in Seq(Nat)
    /\ call \in [Calls -> CallRows \cup {Idle}] /\ \A c \in Calls : CallFits(call[c])
    /\ RotationsApart

LEMMA IdleIsNoCall == Idle.at = "idle" /\ Idle \notin CallRows
<1>1. Idle.at = "idle"
  BY DEF Idle
<1>2. \A r \in CallRows : r.at # "idle"
  BY DEF CallRows, CallSteps
<1> QED BY <1>1, <1>2

LEMMA Asked ==
    ASSUME NEW what \in {"load", "save", "logout", "everywhere", "ask", "verify", "password"},
           NEW with \in Nat
    PROVE  /\ Ask(what, with) \in CallRows /\ Ask(what, with).at = "sent"
           /\ \A how \in CallSteps : /\ [Ask(what, with) EXCEPT !.at = how] \in CallRows
                                     /\ [Ask(what, with) EXCEPT !.at = how].at = how
BY DEF Ask, CallRows, CallSteps

\* Grants are only added, a call that moves does not end up rotating, and what a rotation
\* that goes on has found of its token stays so.
LEMMA MovesKeep ==
    ASSUME SessionSound, grant' \in Seq(GrantRows), Len(grant) <= Len(grant'),
           store' \in 0 .. Len(grant'), code' \in Seq(Nat),
           call' \in [Calls -> CallRows \cup {Idle}],
           \A d \in Calls : \/ call'[d] = call[d]
                            \/ CallFits(call[d])' /\ call'[d].at # "claimed",
           \A d \in Calls : Rotating(d) /\ call'[d] = call[d] =>
              /\ grant'[call[d].rt].used = grant[call[d].rt].used
              /\ grant'[call[d].rt].revoked = grant[call[d].rt].revoked
    PROVE  SessionSound'
<1>1. DOMAIN grant \subseteq DOMAIN grant'
  <2>1. DOMAIN grant = 1 .. Len(grant) /\ DOMAIN grant' = 1 .. Len(grant')
        /\ Len(grant) \in Nat /\ Len(grant') \in Nat
    BY LenProperties DEF SessionSound
  <2> QED BY <2>1
<1>2. \A d \in Calls : CallFits(call[d])'
  BY <1>1 DEF SessionSound, CallFits
<1>3. \A d \in Calls : Rotating(d)' => Rotating(d) /\ call'[d] = call[d]
  BY DEF Rotating
<1>4. RotationsApart'
  BY <1>3 DEF SessionSound, RotationsApart
<1> QED BY <1>2, <1>4 DEF SessionSound

\* One call moves, and the grants are as they were.
LEMMA PutKeeps ==
    ASSUME SessionSound, NEW c \in Calls, NEW r, Put(c, r), CallFits(r), r.at # "claimed",
           grant' = grant, store' \in 0 .. Len(grant), code' \in Seq(Nat)
    PROVE  SessionSound'
<1>1. /\ call' \in [Calls -> CallRows \cup {Idle}] /\ call'[c] = r
      /\ \A d \in Calls : d # c => call'[d] = call[d]
  BY DEF Put, SessionSound, CallFits
<1>2. CallFits(call[c])'
  BY <1>1 DEF CallFits
<1>3. Len(grant) <= Len(grant')
  BY LenProperties DEF SessionSound
<1> QED BY <1>1, <1>2, <1>3, MovesKeep DEF SessionSound

LEMMA EndsPuts ==
    ASSUME SessionSound, NEW c \in Calls, call[c] \in CallRows, NEW how \in {"done", "failed", "broken"},
           Ends(c, how)
    PROVE  \E r \in CallRows \cup {Idle} : Put(c, r) /\ CallFits(r) /\ r.at \in {how, "idle"}
<1> DEFINE e == [Ask(call[c].what, 0) EXCEPT !.at = how]
<1>1. e \in CallRows /\ e.at = how
  <2>1. how \in CallSteps /\ 0 \in Nat
    BY DEF CallSteps
  <2>2. call[c].what \in {"load", "save", "logout", "everywhere", "ask", "verify", "password"}
    BY DEF CallRows
  <2> QED BY <2>1, <2>2, Asked
<1>2. Put(c, e) \/ Put(c, Idle)
  BY DEF Ends
<1> HIDE DEF e
<1>3. CallFits(e) /\ CallFits(Idle) /\ Idle.at = "idle"
  BY <1>1, IdleIsNoCall DEF CallFits
<1> QED BY <1>1, <1>2, <1>3

LEMMA EndsKeeps ==
    ASSUME SessionSound, NEW c \in Calls, call[c] \in CallRows, NEW how \in {"done", "failed", "broken"},
           Ends(c, how), grant' = grant, store' \in 0 .. Len(grant), code' \in Seq(Nat)
    PROVE  SessionSound'
<1>1. PICK r \in CallRows \cup {Idle} : Put(c, r) /\ CallFits(r) /\ r.at \in {how, "idle"}
  BY EndsPuts
<1> QED BY <1>1, PutKeeps

LEMMA InIsACall ==
    ASSUME SessionSound, NEW c \in Calls, NEW where \in SUBSET CallSteps, In(c, where)
    PROVE  call[c] \in CallRows /\ call[c].at \in where /\ CallFits(call[c])
BY IdleIsNoCall DEF In, SessionSound, CallSteps

\* The records that a call goes through.
LEMMA CallUpdates ==
    ASSUME NEW r \in CallRows
    PROVE  /\ r = [at |-> r.at, what |-> r.what, held |-> r.held, again |-> r.again, rt |-> r.rt,
                   rows |-> r.rows]
           /\ r.held \in Nat /\ r.rt \in Nat
           /\ \A to \in CallSteps : /\ [r EXCEPT !.at = to] \in CallRows /\ [r EXCEPT !.at = to].at = to
                                    /\ [r EXCEPT !.at = to].rt = r.rt
                                    /\ [r EXCEPT !.at = to].held = r.held
BY DEF CallRows

LEMMA MovesTo ==
    ASSUME SessionSound, NEW c \in Calls, call[c] \in CallRows, NEW to \in CallSteps, to # "claimed",
           Moves(c, to), to \in {"looking", "claim"} => call[c].rt \in DOMAIN grant,
           to = "issued" => call[c].held \in DOMAIN grant,
           grant' = grant, UNCHANGED <<store, code>>
    PROVE  SessionSound'
<1> DEFINE r == [call[c] EXCEPT !.at = to]
<1>1. r \in CallRows /\ r.at = to /\ r.rt = call[c].rt /\ r.held = call[c].held
  BY CallUpdates
<1>2. Put(c, r)
  BY DEF Moves
<1> HIDE DEF r
<1>3. CallFits(r)
  BY <1>1 DEF CallFits
<1> QED BY <1>1, <1>2, <1>3, PutKeeps DEF SessionSound

\* The rows of identity that an UPDATE finds.
LEMMA GrantRowChanges ==
    ASSUME NEW r \in GrantRows
    PROVE  /\ [r EXCEPT !.revoked = TRUE] \in GrantRows /\ [r EXCEPT !.live = FALSE] \in GrantRows
           /\ [r EXCEPT !.revoked = TRUE].used = r.used
           /\ [r EXCEPT !.live = FALSE].used = r.used /\ [r EXCEPT !.live = FALSE].revoked = r.revoked
BY DEF GrantRows

LEMMA TokensRevoked ==
    ASSUME SessionSound, NEW S,
           grant' = [g \in DOMAIN grant |-> IF g \in S THEN [grant[g] EXCEPT !.revoked = TRUE] ELSE grant[g]]
    PROVE  /\ grant' \in Seq(GrantRows) /\ Len(grant') = Len(grant)
           /\ \A g \in DOMAIN grant : grant'[g].used = grant[g].used
           /\ \A g \in DOMAIN grant : g \notin S => grant'[g].revoked = grant[g].revoked
<1>1. DOMAIN grant = 1 .. Len(grant) /\ Len(grant) \in Nat /\ \A g \in DOMAIN grant : grant[g] \in GrantRows
  BY LenProperties, ElementOfSeq DEF SessionSound
<1>2. grant' \in [1 .. Len(grant) -> GrantRows]
  BY <1>1, GrantRowChanges
<1>3. grant' \in Seq(GrantRows) /\ Len(grant') = Len(grant)
  BY <1>1, <1>2
<1> QED BY <1>1, <1>3, GrantRowChanges

LEMMA SessionsEnded ==
    ASSUME SessionSound, NEW S,
           grant' = [g \in DOMAIN grant |-> IF g \in S THEN [grant[g] EXCEPT !.live = FALSE] ELSE grant[g]]
    PROVE  /\ grant' \in Seq(GrantRows) /\ Len(grant') = Len(grant)
           /\ \A g \in DOMAIN grant : /\ grant'[g].used = grant[g].used
                                      /\ grant'[g].revoked = grant[g].revoked
<1>1. DOMAIN grant = 1 .. Len(grant) /\ Len(grant) \in Nat /\ \A g \in DOMAIN grant : grant[g] \in GrantRows
  BY LenProperties, ElementOfSeq DEF SessionSound
<1>2. grant' \in [1 .. Len(grant) -> GrantRows]
  BY <1>1, GrantRowChanges
<1>3. grant' \in Seq(GrantRows) /\ Len(grant') = Len(grant)
  BY <1>1, <1>2
<1> QED BY <1>1, <1>3, GrantRowChanges

LEMMA AdmitSound == ASSUME SessionSound, NEW c \in Calls, Admit(c) PROVE SessionSound' /\ grant' = grant
<1>1. call[c] \in CallRows /\ UNCHANGED <<grant, code, store>>
  BY InIsACall DEF Admit, CallSteps
<1>2. CASE Ends(c, "done")
  BY <1>1, <1>2, EndsKeeps DEF SessionSound
<1>3. CASE Moves(c, "everywhere")
  BY <1>1, <1>3, MovesTo DEF CallSteps
<1>4. CASE Put(c, [call[c] EXCEPT !.at = "refused", !.held = 0])
  <2> DEFINE r == [call[c] EXCEPT !.at = "refused", !.held = 0]
  <2>1. r \in CallRows /\ r.at = "refused"
    BY <1>1 DEF CallRows, CallSteps
  <2>2. Put(c, r)
    BY <1>4
  <2> HIDE DEF r
  <2>3. CallFits(r)
    BY <2>1 DEF CallFits
  <2> QED BY <1>1, <2>1, <2>2, <2>3, PutKeeps DEF SessionSound
<1> QED BY <1>1, <1>2, <1>3, <1>4 DEF Admit

LEMMA RefreshSound == ASSUME SessionSound, NEW c \in Calls, Refresh(c) PROVE SessionSound' /\ grant' = grant
<1>1. call[c] \in CallRows /\ UNCHANGED <<grant, code, store>>
  BY InIsACall DEF Refresh, CallSteps
<1>2. CASE Ends(c, "failed")
  BY <1>1, <1>2, EndsKeeps DEF SessionSound
<1>3. CASE store # 0 /\ Put(c, [call[c] EXCEPT !.at = "looking", !.rt = store])
  <2> DEFINE r == [call[c] EXCEPT !.at = "looking", !.rt = store]
  <2>1. store \in Nat /\ store \in DOMAIN grant
    BY <1>3, LenProperties DEF SessionSound
  <2>2. r \in CallRows /\ r.at = "looking" /\ r.rt = store
    BY <1>1, <2>1 DEF CallRows, CallSteps
  <2>3. Put(c, r)
    BY <1>3
  <2> HIDE DEF r
  <2>4. CallFits(r)
    BY <2>1, <2>2 DEF CallFits
  <2> QED BY <1>1, <2>2, <2>3, <2>4, PutKeeps DEF SessionSound
<1> QED BY <1>1, <1>2, <1>3 DEF Refresh

LEMMA LookSound == ASSUME SessionSound, NEW c \in Calls, Look(c) PROVE SessionSound' /\ grant' = grant
<1>1. call[c] \in CallRows /\ call[c].rt \in DOMAIN grant /\ UNCHANGED <<grant, code, store>>
  BY InIsACall DEF Look, CallSteps, CallFits
<1>2. \E to \in {"condemn", "denied", "claim"} : Moves(c, to)
  BY DEF Look
<1> QED BY <1>1, <1>2, MovesTo DEF CallSteps

\* The one step that starts a rotation: nobody else holds the row, and the token is good.
LEMMA ClaimSound == ASSUME SessionSound, NEW c \in Calls, Claim(c) PROVE SessionSound' /\ grant' = grant
<1>1. call[c] \in CallRows /\ call[c].rt \in DOMAIN grant /\ UNCHANGED <<grant, code, store>>
  BY InIsACall DEF Claim, CallSteps, CallFits
<1>2. CASE Moves(c, "denied")
  BY <1>1, <1>2, MovesTo DEF CallSteps
<1>3. CASE /\ Moves(c, "claimed") /\ ~ Locked(call[c].rt)
           /\ ~ grant[call[c].rt].used /\ ~ grant[call[c].rt].revoked
  <2> DEFINE r == [call[c] EXCEPT !.at = "claimed"]
  <2>1. r \in CallRows /\ r.at = "claimed" /\ r.rt = call[c].rt
    BY <1>1, CallUpdates DEF CallSteps
  <2>2. call' = [call EXCEPT ![c] = r]
    BY <1>3 DEF Moves, Put
  <2> HIDE DEF r
  <2>3. /\ call' \in [Calls -> CallRows \cup {Idle}] /\ call'[c] = r
        /\ \A d \in Calls : d # c => call'[d] = call[d]
    BY <2>1, <2>2 DEF SessionSound
  <2>4. \A d \in Calls : CallFits(call[d])'
    BY <1>1, <2>1, <2>3 DEF SessionSound, CallFits
  <2>5. \A d \in Calls : d # c /\ Rotating(d) => call[d].rt # call[c].rt
    BY <1>3 DEF Locked, In, Rotating
  <2>6. RotationsApart'
    BY <1>1, <1>3, <2>1, <2>3, <2>5 DEF SessionSound, RotationsApart, Rotating
  <2> QED BY <1>1, <2>3, <2>4, <2>6 DEF SessionSound
<1> QED BY <1>1, <1>2, <1>3 DEF Claim

\* A new grant comes after those there are.
LEMMA Appended ==
    ASSUME SessionSound, NEW s \in Seq(GrantRows), Len(s) = Len(grant), NEW of \in Nat,
           grant' = Append(s, New(of))
    PROVE  /\ grant' \in Seq(GrantRows) /\ Len(grant') = Len(grant) + 1
           /\ Len(grant') \in DOMAIN grant' /\ Len(grant) \in Nat
           /\ \A g \in DOMAIN grant : grant'[g] = s[g]
           /\ \A g \in DOMAIN grant' \ DOMAIN grant : grant'[g].of = of
<1>1. New(of) \in GrantRows /\ New(of).of = of
  BY DEF New, GrantRows
<1>2. Len(grant) \in Nat /\ DOMAIN grant = 1 .. Len(grant)
  BY LenProperties DEF SessionSound
<1> HIDE DEF New
<1>3. /\ grant' \in Seq(GrantRows) /\ Len(grant') = Len(grant) + 1
      /\ \A g \in 1 .. Len(grant) : grant'[g] = s[g]
      /\ grant'[Len(grant) + 1] = New(of)
  BY <1>1, <1>2, AppendProperties
<1>4. DOMAIN grant' = 1 .. Len(grant) + 1
  BY <1>2, <1>3, LenProperties
<1> QED BY <1>1, <1>2, <1>3, <1>4

LEMMA RotateSound ==
    ASSUME SessionSound, NEW c \in Calls, Rotate(c)
    PROVE  /\ SessionSound'
           /\ \A g \in DOMAIN grant' \ DOMAIN grant :
                 ~ grant[grant'[g].of].used /\ ~ grant[grant'[g].of].revoked
<1> DEFINE t == call[c].rt
           u == [grant[t] EXCEPT !.used = TRUE]
           s == [grant EXCEPT ![t] = u]
           r == [call[c] EXCEPT !.at = "issued", !.held = Len(grant')]
<1>1. /\ call[c] \in CallRows /\ t \in DOMAIN grant /\ t \in Nat /\ Rotating(c)
      /\ UNCHANGED <<code, store>>
  BY InIsACall DEF Rotate, CallSteps, CallFits, In, Rotating, CallRows
<1>2. Put(c, r) /\ grant' = Append(s, New(t))
  BY DEF Rotate
<1>3. u \in GrantRows /\ DOMAIN grant = 1 .. Len(grant) /\ Len(grant) \in Nat
  <2>1. DOMAIN grant = 1 .. Len(grant) /\ Len(grant) \in Nat
    BY LenProperties DEF SessionSound
  <2>2. grant[t] \in GrantRows
    BY <1>1, <2>1, ElementOfSeq DEF SessionSound
  <2> QED BY <2>1, <2>2 DEF GrantRows
<1>4. s \in Seq(GrantRows) /\ Len(s) = Len(grant) /\ \A g \in DOMAIN grant : g # t => s[g] = grant[g]
  <2> HIDE DEF u
  <2> QED BY <1>1, <1>3, ExceptSeq DEF SessionSound
<1> HIDE DEF s
<1>5. /\ grant' \in Seq(GrantRows) /\ Len(grant') = Len(grant) + 1 /\ Len(grant') \in DOMAIN grant'
      /\ \A g \in DOMAIN grant : grant'[g] = s[g]
      /\ \A g \in DOMAIN grant' \ DOMAIN grant : grant'[g].of = t
  BY <1>1, <1>2, <1>4, Appended
<1>6. r \in CallRows /\ r.at = "issued" /\ r.held = Len(grant')
  <2>1. Len(grant') \in Nat
    BY <1>3, <1>5
  <2>2. \A n \in Nat : LET q == [call[c] EXCEPT !.at = "issued", !.held = n]
                       IN  q \in CallRows /\ q.at = "issued" /\ q.held = n
    BY <1>1 DEF CallRows, CallSteps
  <2> QED BY <2>1, <2>2
<1> HIDE DEF r, t
<1>7. /\ call' \in [Calls -> CallRows \cup {Idle}] /\ call'[c] = r
      /\ \A d \in Calls : d # c => call'[d] = call[d]
  BY <1>2, <1>6 DEF Put, SessionSound
<1>8. CallFits(call[c])'
  BY <1>5, <1>6, <1>7 DEF CallFits
<1>9. \A d \in Calls : Rotating(d) /\ call'[d] = call[d] =>
         /\ grant'[call[d].rt].used = grant[call[d].rt].used
         /\ grant'[call[d].rt].revoked = grant[call[d].rt].revoked
  <2> SUFFICES ASSUME NEW d \in Calls, Rotating(d), call'[d] = call[d]
               PROVE  grant'[call[d].rt] = grant[call[d].rt]
    OBVIOUS
  <2>1. d # c
    BY <1>6, <1>7 DEF Rotating
  <2>2. call[d].rt # t /\ call[d].rt \in DOMAIN grant
    BY <1>1, <2>1 DEF SessionSound, RotationsApart, Rotating, CallFits, t
  <2> QED BY <1>4, <1>5, <2>2
<1>10. SessionSound'
  BY <1>1, <1>3, <1>5, <1>6, <1>7, <1>8, <1>9, MovesKeep DEF SessionSound
<1>11. ~ grant[t].used /\ ~ grant[t].revoked
  BY <1>1 DEF SessionSound, RotationsApart, t
<1> QED BY <1>5, <1>10, <1>11

LEMMA CondemnSound == ASSUME SessionSound, NEW c \in Calls, Condemn(c) PROVE SessionSound' /\ grant' = grant
<1> DEFINE R == {g \in Scope(c) : ~ grant[g].revoked}
           r == [call[c] EXCEPT !.at = "revoking", !.rows = R]
<1>1. call[c] \in CallRows /\ UNCHANGED <<grant, code, store>> /\ Put(c, r)
  BY InIsACall DEF Condemn, CallSteps
<1>2. R \in SUBSET Nat
  <2>1. DOMAIN grant \subseteq Nat
    BY LenProperties DEF SessionSound
  <2> QED BY <2>1 DEF Scope, Family
<1> HIDE DEF R
<1>3. r \in CallRows /\ r.at = "revoking"
  BY <1>1, <1>2 DEF CallRows, CallSteps
<1> HIDE DEF r
<1>4. CallFits(r)
  BY <1>3 DEF CallFits
<1> QED BY <1>1, <1>3, <1>4, PutKeeps DEF SessionSound

\* No grant is new.
SameGrants == DOMAIN grant' = DOMAIN grant

LEMMA RevokeSound ==
    ASSUME SessionSound, NEW c \in Calls, RevokeTokens(c)
    PROVE  SessionSound' /\ SameGrants
<1> DEFINE R == call[c].rows
           r == [call[c] EXCEPT !.at = "sessions", !.rows = {}]
<1>1. call[c] \in CallRows /\ UNCHANGED <<code, store>> /\ \A g \in R : ~ Locked(g)
  BY InIsACall DEF RevokeTokens, CallSteps
<1>2. grant' = [g \in DOMAIN grant |-> IF g \in R THEN [grant[g] EXCEPT !.revoked = TRUE] ELSE grant[g]]
  BY DEF RevokeTokens
<1> HIDE DEF R
<1>4. /\ grant' \in Seq(GrantRows) /\ Len(grant') = Len(grant)
      /\ \A g \in DOMAIN grant : grant'[g].used = grant[g].used
      /\ \A g \in DOMAIN grant : g \notin R => grant'[g].revoked = grant[g].revoked
  BY <1>2, TokensRevoked
<1>5. \E e \in CallRows \cup {Idle} : Put(c, e) /\ CallFits(e) /\ e.at # "claimed"
  <2>1. CASE Ends(c, "done")
    BY <1>1, <2>1, EndsPuts
  <2>2. CASE Put(c, r)
    <3>1. r \in CallRows /\ r.at = "sessions"
      BY <1>1 DEF CallRows, CallSteps
    <3> HIDE DEF r
    <3> QED BY <2>2, <3>1 DEF CallFits
  <2> QED BY <2>1, <2>2 DEF RevokeTokens
<1>6. PICK e \in CallRows \cup {Idle} : Put(c, e) /\ CallFits(e) /\ e.at # "claimed"
  BY <1>5
<1>7. DOMAIN grant' = DOMAIN grant /\ Len(grant) \in Nat
  BY <1>4, LenProperties DEF SessionSound
<1>8. /\ call' \in [Calls -> CallRows \cup {Idle}] /\ call'[c] = e
      /\ \A d \in Calls : d # c => call'[d] = call[d]
  BY <1>6 DEF Put, SessionSound
<1>9. CallFits(call[c])'
  BY <1>6, <1>7, <1>8 DEF CallFits
<1>10. \A d \in Calls : Rotating(d) => call[d].rt \in DOMAIN grant /\ call[d].rt \notin R
  BY <1>1 DEF Rotating, Locked, In, SessionSound, CallFits
<1> QED BY <1>1, <1>4, <1>6, <1>7, <1>8, <1>9, <1>10, MovesKeep DEF SessionSound, SameGrants

\* The sessions of some grants end: nothing that a refresh looks at.
LEMMA LivesEnd ==
    ASSUME SessionSound, NEW S,
           grant' = [g \in DOMAIN grant |-> IF g \in S THEN [grant[g] EXCEPT !.live = FALSE] ELSE grant[g]],
           UNCHANGED <<code, store>>, call' \in [Calls -> CallRows \cup {Idle}],
           \A d \in Calls : \/ call'[d] = call[d]
                            \/ CallFits(call'[d]) /\ call'[d].at # "claimed"
    PROVE  SessionSound' /\ SameGrants
<1>2. /\ grant' \in Seq(GrantRows) /\ Len(grant') = Len(grant)
      /\ \A g \in DOMAIN grant : grant'[g].used = grant[g].used
      /\ \A g \in DOMAIN grant : grant'[g].revoked = grant[g].revoked
  BY SessionsEnded
<1>3. DOMAIN grant' = DOMAIN grant /\ Len(grant) \in Nat
  BY <1>2, LenProperties DEF SessionSound
<1>4. \A d \in Calls : \/ call'[d] = call[d]
                       \/ CallFits(call[d])' /\ call'[d].at # "claimed"
  BY <1>3 DEF CallFits
<1>5. \A d \in Calls : Rotating(d) => call[d].rt \in DOMAIN grant
  BY DEF Rotating, SessionSound, CallFits
<1> QED BY <1>2, <1>3, <1>4, <1>5, MovesKeep DEF SessionSound, SameGrants

LEMMA LivesEndOneCall ==
    ASSUME SessionSound, NEW S,
           grant' = [g \in DOMAIN grant |-> IF g \in S THEN [grant[g] EXCEPT !.live = FALSE] ELSE grant[g]],
           UNCHANGED <<code, store>>, NEW c \in Calls, NEW r, Put(c, r), CallFits(r), r.at # "claimed"
    PROVE  SessionSound' /\ SameGrants
<1>1. /\ call' \in [Calls -> CallRows \cup {Idle}] /\ call'[c] = r
      /\ \A d \in Calls : d # c => call'[d] = call[d]
  BY DEF Put, SessionSound, CallFits
<1> QED BY <1>1, LivesEnd

LEMMA EndSessionsSound ==
    ASSUME SessionSound, NEW c \in Calls, EndSessions(c)
    PROVE  SessionSound' /\ SameGrants
<1>1. call[c] \in CallRows /\ UNCHANGED <<code, store>>
  BY InIsACall DEF EndSessions, CallSteps
<1>2. PICK to \in {"denied", "condemn"} : Moves(c, to)
  BY DEF EndSessions
<1> DEFINE r == [call[c] EXCEPT !.at = to]
<1>3. r \in CallRows /\ r.at = to /\ Put(c, r)
  <2>1. to \in CallSteps
    BY DEF CallSteps
  <2> QED BY <1>1, <1>2, <2>1, CallUpdates DEF Moves
<1> HIDE DEF r
<1>4. CallFits(r)
  BY <1>3 DEF CallFits
<1>5. grant' = [g \in DOMAIN grant |->
                  IF g \in Scope(c) THEN [grant[g] EXCEPT !.live = FALSE] ELSE grant[g]]
  BY DEF EndSessions
<1> QED BY <1>1, <1>3, <1>4, <1>5, LivesEndOneCall

LEMMA OneLifeEnds ==
    ASSUME SessionSound, NEW g0 \in DOMAIN grant, grant' = [grant EXCEPT ![g0].live = FALSE]
    PROVE  grant' = [g \in DOMAIN grant |-> IF g \in {g0} THEN [grant[g] EXCEPT !.live = FALSE] ELSE grant[g]]
<1>1. grant \in [1 .. Len(grant) -> GrantRows] /\ DOMAIN grant = 1 .. Len(grant)
  BY LenProperties DEF SessionSound
<1> DEFINE e == [grant[g0] EXCEPT !.live = FALSE]
<1>2. grant' = [grant EXCEPT ![g0] = e]
  OBVIOUS
<1> HIDE DEF e
<1>3. grant' = [g \in DOMAIN grant |-> IF g = g0 THEN e ELSE grant[g]]
  BY <1>1, <1>2
<1> QED BY <1>3 DEF e

LEMMA ExpireSound ==
    ASSUME SessionSound, NEW g \in DOMAIN grant, Expire(g)
    PROVE  SessionSound' /\ SameGrants
<1>1. UNCHANGED <<code, store, call>> /\ grant' = [grant EXCEPT ![g].live = FALSE]
  BY DEF Expire
<1>2. call' \in [Calls -> CallRows \cup {Idle}]
  BY <1>1 DEF SessionSound
<1> QED BY <1>1, <1>2, OneLifeEnds, LivesEnd

LEMMA ActIsACall == Act \in Calls
BY DEF Calls

LEMMA LogoutSound == ASSUME SessionSound, Logout PROVE SessionSound' /\ SameGrants
<1>1. Act \in Calls /\ call[Act] \in CallRows /\ UNCHANGED <<code, store>> /\ Ends(Act, "done")
  BY ActIsACall, InIsACall DEF Logout, CallSteps
<1>2. PICK r \in CallRows \cup {Idle} : Put(Act, r) /\ CallFits(r) /\ r.at \in {"done", "idle"}
  BY <1>1, EndsPuts
<1>3. CASE grant' = grant
  BY <1>1, <1>2, <1>3, PutKeeps DEF SessionSound, SameGrants
<1>4. CASE grant' # grant
  <2> DEFINE g == call[Act].held
  <2>1. Live(g) /\ grant' = [grant EXCEPT ![g].live = FALSE]
    BY <1>4 DEF Logout
  <2>2. g \in DOMAIN grant
    <3>1. SUFFICES ASSUME g \notin DOMAIN grant PROVE FALSE
      OBVIOUS
    <3>2. grant' = grant
      <4>1. grant \in [1 .. Len(grant) -> GrantRows] /\ DOMAIN grant = 1 .. Len(grant)
        BY LenProperties DEF SessionSound
      <4> HIDE DEF g
      <4> DEFINE e == [grant[g] EXCEPT !.live = FALSE]
      <4>2. grant' = [grant EXCEPT ![g] = e]
        BY <2>1
      <4> HIDE DEF e
      <4> QED BY <4>1, <4>2, <3>1
    <3> QED BY <1>4, <3>2
  <2> HIDE DEF g
  <2>3. grant' = [h \in DOMAIN grant |-> IF h \in {g} THEN [grant[h] EXCEPT !.live = FALSE] ELSE grant[h]]
    BY <2>1, <2>2, OneLifeEnds
  <2> QED BY <1>1, <1>2, <2>3, LivesEndOneCall
<1> QED BY <1>3, <1>4

LEMMA StoreStays == ASSUME SessionSound PROVE store \in 0 .. Len(grant) /\ 0 \in 0 .. Len(grant)
BY LenProperties DEF SessionSound

LEMMA KeepSound == ASSUME SessionSound, NEW c \in Calls, Keep(c) PROVE SessionSound' /\ grant' = grant
<1> DEFINE r == [call[c] EXCEPT !.at = "sent", !.rt = 0, !.again = TRUE]
<1>1. /\ call[c] \in CallRows /\ call[c].held \in DOMAIN grant /\ UNCHANGED <<grant, code>>
      /\ store' = call[c].held /\ Put(c, r)
  BY InIsACall DEF Keep, CallSteps, CallFits
<1>2. store' \in 0 .. Len(grant)
  BY <1>1, LenProperties DEF SessionSound
<1>3. r \in CallRows /\ r.at = "sent"
  BY <1>1 DEF CallRows, CallSteps
<1> HIDE DEF r
<1>4. CallFits(r)
  BY <1>3 DEF CallFits
<1> QED BY <1>1, <1>2, <1>3, <1>4, PutKeeps DEF SessionSound

LEMMA ForgetSound == ASSUME SessionSound, NEW c \in Calls, Forget(c) \/ Lost(c) PROVE SessionSound' /\ grant' = grant
<1>1. call[c] \in CallRows
  BY InIsACall DEF Forget, Lost, CallSteps
<1>2. UNCHANGED <<grant, code>> /\ store' \in 0 .. Len(grant)
  BY StoreStays DEF Forget, Lost
<1>3. \E how \in {"failed", "broken"} : Ends(c, how)
  BY DEF Forget, Lost
<1> QED BY <1>1, <1>2, <1>3, EndsKeeps DEF SessionSound

\* Several calls are asked, or given up.
LEMMA ManyKeep ==
    ASSUME SessionSound, UNCHANGED <<grant, code>>, store' \in 0 .. Len(grant),
           call' \in [Calls -> CallRows \cup {Idle}],
           \A d \in Calls : call'[d] = call[d] \/ call'[d].at \in {"sent", "idle"}
    PROVE  SessionSound'
<1>1. \A d \in Calls : call'[d].at \in {"sent", "idle"} => CallFits(call[d])' /\ call'[d].at # "claimed"
  BY DEF CallFits
<1>2. Len(grant) <= Len(grant')
  BY LenProperties DEF SessionSound
<1> QED BY <1>1, <1>2, MovesKeep DEF SessionSound

LEMMA UnheardFits ==
    ASSUME SessionSound
    PROVE  /\ Unheard \in [Calls -> CallRows \cup {Idle}]
           /\ \A d \in Calls : Unheard[d] = call[d] \/ Unheard[d].at = "idle"
BY IdleIsNoCall DEF Unheard, SessionSound

LEMMA SendingFits ==
    ASSUME NEW s \in Nat
    PROVE  /\ Sending(s) \in [Calls -> CallRows \cup {Idle}]
           /\ \A d \in Calls : Sending(s)[d].at \in {"sent", "idle"}
<1>1. Ask("load", s) \in CallRows /\ Ask("load", s).at = "sent"
  BY Asked
<1> QED BY <1>1, IdleIsNoCall DEF Sending

LEMMA ReloadSound == ASSUME SessionSound, Reload PROVE SessionSound' /\ grant' = grant
<1>1. UNCHANGED <<grant, code, store>> /\ store \in Nat
  BY StoreStays, LenProperties DEF Reload, SessionSound
<1>2. CASE Put(Act, Idle)
  <2>1. CallFits(Idle) /\ Idle.at # "claimed"
    BY IdleIsNoCall DEF CallFits
  <2> QED BY <1>1, <1>2, <2>1, ActIsACall, PutKeeps DEF SessionSound
<1>3. CASE call' = Sending(store)
  BY <1>1, <1>3, SendingFits, ManyKeep DEF SessionSound
<1> QED BY <1>1, <1>2, <1>3 DEF Reload

\* What the two pages ask for.
LEMMA AskSound ==
    ASSUME SessionSound, UNCHANGED <<grant, code, store>>, NEW with \in Nat,
           NEW what \in {"load", "save", "logout", "everywhere", "ask", "verify", "password"},
           Put(Act, Ask(what, with))
    PROVE  SessionSound'
<1>1. CallFits(Ask(what, with)) /\ Ask(what, with).at # "claimed"
  BY Asked DEF CallFits
<1> QED BY <1>1, ActIsACall, PutKeeps DEF SessionSound

LEMMA AsksKeep ==
    ASSUME SessionSound,
           \/ AskCode \/ SubmitPassword \/ ThenHere
           \/ \E k \in 0 .. Len(code) : SubmitCode(k)
           \/ \E what \in {"save", "logout", "everywhere"} : Press(what)
    PROVE  SessionSound' /\ grant' = grant
<1>1. store \in Nat /\ 0 \in Nat /\ 0 .. Len(code) \subseteq Nat
  BY StoreStays, LenProperties DEF SessionSound
<1>2. CASE AskCode \/ SubmitPassword \/ ThenHere
  BY <1>1, <1>2, AskSound DEF AskCode, SubmitPassword, ThenHere
<1>3. ASSUME NEW k \in 0 .. Len(code), SubmitCode(k) PROVE SessionSound' /\ grant' = grant
  BY <1>1, <1>3, AskSound DEF SubmitCode
<1>4. ASSUME NEW what \in {"save", "logout", "everywhere"}, Press(what) PROVE SessionSound' /\ grant' = grant
  BY <1>1, <1>4, AskSound DEF Press
<1> QED BY <1>2, <1>3, <1>4

\* Answers that leave nothing to do.
LEMMA DonesKeep ==
    ASSUME SessionSound, CodeSent \/ LoginFailed \/ NotDone
    PROVE  SessionSound' /\ grant' = grant
<1>1. CallFits(Idle) /\ Idle.at # "claimed"
  BY IdleIsNoCall DEF CallFits
<1> QED BY <1>1, ActIsACall, PutKeeps DEF CodeSent, LoginFailed, NotDone, SessionSound

LEMMA PagesKeep ==
    ASSUME SessionSound,
           \/ OpenLogin \/ SignedIn \/ OpenAccount \/ Loaded \/ SignedOut
           \/ \E c \in Loads : LoadFails(c)
           \/ \E to \in {"phone", "password"} : Switch(to)
    PROVE  SessionSound' /\ grant' = grant
<1>1. CASE OpenLogin \/ \E c \in Loads : LoadFails(c)
  BY <1>1, UnheardFits, StoreStays, ManyKeep DEF OpenLogin, LoadFails, FirstFailure
<1>2. CASE SignedIn
  <2>1. store' \in 0 .. Len(grant) /\ store' \in Nat
    BY <1>2, ActIsACall, InIsACall, LenProperties DEF SignedIn, CallSteps, CallFits, SessionSound
  <2> QED BY <1>2, <2>1, SendingFits, ManyKeep DEF SignedIn
<1>3. CASE OpenAccount
  <2>1. UNCHANGED <<grant, code, store>> /\ store \in 0 .. Len(grant) /\ store \in Nat
    BY <1>3, StoreStays, LenProperties DEF OpenAccount, SessionSound
  <2>2. CASE call' = call
    BY <2>1, <2>2, ManyKeep DEF SessionSound
  <2>3. CASE call' = Sending(store)
    BY <2>1, <2>3, SendingFits, ManyKeep
  <2> QED BY <1>3, <2>1, <2>2, <2>3 DEF OpenAccount
<1>4. CASE Loaded
  <2>1. /\ call' \in [Calls -> CallRows \cup {Idle}]
        /\ \A d \in Calls : call'[d] = call[d] \/ call'[d].at = "idle"
    BY <1>4, IdleIsNoCall DEF Loaded, SessionSound
  <2> QED BY <1>4, <2>1, StoreStays, ManyKeep DEF Loaded
<1>5. CASE SignedOut
  <2>1. /\ call' \in [Calls -> CallRows \cup {Idle}]
        /\ \A d \in Calls : call'[d] = call[d] \/ call'[d].at = "idle"
    BY <1>5, UnheardFits, IdleIsNoCall DEF SignedOut
  <2> QED BY <1>5, <2>1, StoreStays, ManyKeep DEF SignedOut
<1>6. ASSUME NEW to \in {"phone", "password"}, Switch(to) PROVE SessionSound' /\ grant' = grant
  BY <1>6, StoreStays, ManyKeep DEF Switch, SessionSound
<1> QED BY <1>1, <1>2, <1>3, <1>4, <1>5, <1>6

\* The codes: what a refusal or a sign-in leaves of them.
LEMMA CodesKeep ==
    ASSUME SessionSound, SendCode \/ RefuseCode
    PROVE  SessionSound' /\ grant' = grant
<1>1. Act \in Calls /\ call[Act] \in CallRows /\ UNCHANGED <<grant, store>>
  BY ActIsACall, InIsACall DEF SendCode, RefuseCode, CallSteps
<1>2. \E how \in {"done", "failed"} : Ends(Act, how)
  BY DEF SendCode, RefuseCode
<1>3. code' \in Seq(Nat)
  <2>1. CASE code' = code
    BY <2>1 DEF SessionSound
  <2>2. CASE code' = Append(code, 0)
    BY <2>2, AppendProperties DEF SessionSound
  <2>3. CASE Len(code) # 0 /\ code' = [code EXCEPT ![Len(code)] = code[Len(code)] + 1]
    <3>1. Len(code) \in 1 .. Len(code) /\ code[Len(code)] + 1 \in Nat
      BY <2>3, LenProperties, ElementOfSeq DEF SessionSound
    <3> QED BY <2>3, <3>1, ExceptSeq DEF SessionSound
  <2> QED BY <2>1, <2>2, <2>3 DEF SendCode, RefuseCode
<1> QED BY <1>1, <1>2, <1>3, EndsKeeps DEF SessionSound

LEMMA IssueSound ==
    ASSUME SessionSound, call[Act] \in CallRows, Issue, code' \in Seq(Nat), store' = store
    PROVE  SessionSound' /\ \A g \in DOMAIN grant' \ DOMAIN grant : grant'[g].of = 0
<1> DEFINE r == [call[Act] EXCEPT !.at = "issued", !.held = Len(grant')]
<1>1. Put(Act, r) /\ grant' = Append(grant, New(0)) /\ Act \in Calls /\ 0 \in Nat
  BY ActIsACall DEF Issue
<1>2. /\ grant' \in Seq(GrantRows) /\ Len(grant') = Len(grant) + 1 /\ Len(grant') \in DOMAIN grant'
      /\ \A g \in DOMAIN grant : grant'[g] = grant[g]
      /\ \A g \in DOMAIN grant' \ DOMAIN grant : grant'[g].of = 0
      /\ Len(grant) \in Nat
  BY <1>1, Appended DEF SessionSound
<1>3. r \in CallRows /\ r.at = "issued" /\ r.held = Len(grant')
  <2>1. Len(grant') \in Nat
    BY <1>2
  <2>2. \A n \in Nat : LET q == [call[Act] EXCEPT !.at = "issued", !.held = n]
                       IN  q \in CallRows /\ q.at = "issued" /\ q.held = n
    BY DEF CallRows, CallSteps
  <2> QED BY <2>1, <2>2
<1> HIDE DEF r
<1>4. /\ call' \in [Calls -> CallRows \cup {Idle}] /\ call'[Act] = r
      /\ \A d \in Calls : d # Act => call'[d] = call[d]
  BY <1>1, <1>3 DEF Put, SessionSound
<1>5. CallFits(call[Act])'
  BY <1>2, <1>3, <1>4 DEF CallFits
<1>6. \A d \in Calls : Rotating(d) => call[d].rt \in DOMAIN grant
  BY DEF Rotating, SessionSound, CallFits
<1>7. store \in 0 .. Len(grant')
  BY <1>2, StoreStays
<1> QED BY <1>2, <1>3, <1>4, <1>5, <1>6, <1>7, MovesKeep

LEMMA SignInSound ==
    ASSUME SessionSound, Verify \/ LoginPassword
    PROVE  SessionSound' /\ \A g \in DOMAIN grant' \ DOMAIN grant : grant'[g].of = 0
<1>1. Act \in Calls /\ call[Act] \in CallRows /\ store' = store
  BY ActIsACall, InIsACall DEF Verify, LoginPassword, CallSteps
<1>2. CASE Verify
  <2>1. SubSeq(code, 1, Len(code) - 1) \in Seq(Nat)
    <3>1. Len(code) \in Nat /\ \A i \in 1 .. Len(code) - 1 : code[i] \in Nat
      BY LenProperties, ElementOfSeq DEF SessionSound
    <3> QED BY <3>1, SubSeqProperties
  <2> QED BY <1>1, <1>2, <2>1, IssueSound DEF Verify
<1>3. CASE LoginPassword /\ Issue
  BY <1>1, <1>3, IssueSound DEF LoginPassword, SessionSound
<1>4. CASE LoginPassword /\ Ends(Act, "failed") /\ UNCHANGED grant
  BY <1>1, <1>4, StoreStays, EndsKeeps DEF LoginPassword, SessionSound
<1> QED BY <1>2, <1>3, <1>4 DEF LoginPassword

LEMMA SessionInitSound == SessionInit => SessionSound
<1> SUFFICES ASSUME SessionInit PROVE SessionSound
  OBVIOUS
<1>1. grant \in Seq(GrantRows) /\ Len(grant) = 0 /\ code \in Seq(Nat)
  BY EmptySeq DEF SessionInit
<1> QED BY <1>1, IdleIsNoCall DEF SessionInit, SessionSound, CallFits, RotationsApart, Rotating

Descends ==
    \A g \in DOMAIN grant' \ DOMAIN grant :
       LET parent == grant'[g].of
       IN  parent # 0 => ~ grant[parent].used /\ ~ grant[parent].revoked

LEMMA SessionStep ==
    ASSUME SessionSound, [SessionNext]_sessionVars
    PROVE  SessionSound' /\ Descends
<1>a. ASSUME SessionSound', grant' = grant \/ SameGrants PROVE SessionSound' /\ Descends
  BY <1>a DEF Descends, SameGrants
<1>1. ASSUME NEW c \in Calls, Tokens(c) \/ Lost(c) PROVE SessionSound' /\ Descends
  <2>1. CASE Admit(c) \/ Refresh(c) \/ Look(c) \/ Claim(c)
    BY <1>a, <2>1, AdmitSound, RefreshSound, LookSound, ClaimSound
  <2>2. CASE Rotate(c)
    BY <2>2, RotateSound DEF Descends
  <2>3. CASE Condemn(c) \/ RevokeTokens(c) \/ EndSessions(c)
    BY <1>a, <2>3, CondemnSound, RevokeSound, EndSessionsSound
  <2>4. CASE Keep(c) \/ Forget(c) \/ Lost(c)
    BY <1>a, <2>4, KeepSound, ForgetSound
  <2> QED BY <1>1, <2>1, <2>2, <2>3, <2>4 DEF Tokens
<1>2. CASE Verify \/ LoginPassword
  BY <1>2, SignInSound DEF Descends
<1>3. CASE SendCode \/ RefuseCode
  BY <1>a, <1>3, CodesKeep
<1>4. CASE CodeSent \/ LoginFailed \/ NotDone
  BY <1>a, <1>4, DonesKeep
<1>5. CASE Saved \/ Retry
  BY <1>a, <1>5, ReloadSound DEF Saved, Retry
<1>6. CASE Logout
  BY <1>a, <1>6, LogoutSound
<1>7. CASE \/ AskCode \/ SubmitPassword \/ ThenHere
           \/ \E k \in 0 .. Len(code) : SubmitCode(k)
           \/ \E what \in {"save", "logout", "everywhere"} : Press(what)
  BY <1>a, <1>7, AsksKeep
<1>8. CASE \/ OpenLogin \/ SignedIn \/ OpenAccount \/ Loaded \/ SignedOut
           \/ \E c \in Loads : LoadFails(c)
           \/ \E to \in {"phone", "password"} : Switch(to)
  BY <1>a, <1>8, PagesKeep
<1>9. CASE \E g \in DOMAIN grant : Expire(g)
  BY <1>a, <1>9, ExpireSound
<1>10. CASE UNCHANGED sessionVars
  BY <1>a, <1>10, StoreStays, ManyKeep DEF sessionVars, SessionSound
<1> QED BY <1>1, <1>2, <1>3, <1>4, <1>5, <1>6, <1>7, <1>8, <1>9, <1>10 DEF SessionNext, Answers

\* However many calls of a page present one refresh token at the same moment, and whatever
\* is revoked meanwhile, a grant descends from a sign-in or from a token that was unused
\* and unrevoked when it was rotated (identity.go, Refresh).
THEOREM TokensAlwaysRotateOnce == SessionSpec => TokensRotateOnce
<1>1. SessionSound /\ [SessionNext]_sessionVars => SessionSound' /\ [Descends]_sessionVars
  BY SessionStep
<1> QED BY <1>1, SessionInitSound, PTL DEF SessionSpec, TokensRotateOnce, Descends

\* The steps of a call that presents its refresh token, and the calls that come to them.
TokenSteps == {"refused", "looking", "claim", "claimed", "condemn", "revoking", "sessions",
               "everywhere", "denied"}
Bearers    == {"load", "save", "everywhere"}

\* What a call carries; a call that signs in has presented no token.
CallBounded(r) ==
    r \in CallRows =>
       /\ r.held \in (0 .. MaxGrants) \cup (0 .. MaxCodes)
       /\ r.rt \in 0 .. MaxGrants /\ r.rows \subseteq 1 .. MaxGrants
       /\ r.at = "sent" => r.rt = 0
       /\ r.at \in TokenSteps \/ (r.at = "issued" /\ r.rt # 0) => r.what \in Bearers

Promising == {c \in Calls : Promised(c)}

\* The grants that are promised fit beside those there are.
CallsBounded ==
    /\ Len(grant) + Cardinality(Promising) <= MaxGrants
    /\ \A c \in Calls : CallBounded(call[c])

SessionPages == [at : {"home", "login", "loading", "account", "signin"},
                 stage : {"phone", "code", "password"}, error : BOOLEAN, waiting : BOOLEAN]

CodesBounded   == code \in Seq(0 .. MaxTries) /\ Len(code) <= MaxCodes
GrantsDescend  == \A g \in DOMAIN grant : grant[g].of \in 0 .. MaxGrants
SessionBounded == CallsBounded /\ CodesBounded /\ GrantsDescend /\ page \in SessionPages

LEMMA CallsFinite == IsFiniteSet(Calls) /\ Promising \in SUBSET Calls /\ Cardinality(Promising) \in Nat
<1>1. IsFiniteSet(Calls)
  BY SessionConstants, FS_AddElement DEF Calls
<1>2. Promising \in SUBSET Calls
  BY DEF Promising
<1> QED BY <1>1, <1>2, FS_Subset, FS_CardinalityType

LEMMA RoomIs == Room <=> Len(grant) + Cardinality(Promising) < MaxGrants
BY DEF Room, Promising

LEMMA GrantsCount == ASSUME SessionSound PROVE Len(grant) \in Nat /\ DOMAIN grant = 1 .. Len(grant)
BY LenProperties DEF SessionSound

\* What is on its way changes for one call at most: how the promises count.
LEMMA PromisesCounted ==
    ASSUME NEW c \in Calls, \A d \in Calls \ {c} : Promised(d)' <=> Promised(d)
    PROVE  /\ Cardinality(Promising) \in Nat /\ Cardinality(Promising') \in Nat
           /\ Cardinality(Promising') <= Cardinality(Promising) + 1
           /\ (Promised(c)' => Promised(c)) => Cardinality(Promising') <= Cardinality(Promising)
           /\ Promised(c) /\ ~ Promised(c)' => Cardinality(Promising') = Cardinality(Promising) - 1
<1>1. Promising' = {d \in Calls : Promised(d)'}
  BY DEF Promising
<1>2. /\ Promising \in SUBSET Calls /\ Promising' \in SUBSET Calls /\ IsFiniteSet(Calls)
      /\ \A d \in Calls \ {c} : d \in Promising <=> d \in Promising'
      /\ c \in Promising <=> Promised(c)
      /\ c \in Promising' <=> Promised(c)'
  BY <1>1, CallsFinite DEF Promising
<1> QED BY <1>2, CountsOfNeighbours

LEMMA PutOthers ==
    ASSUME SessionSound, NEW c \in Calls, NEW r, Put(c, r)
    PROVE  /\ call'[c] = r /\ \A d \in Calls : d # c => call'[d] = call[d]
           /\ \A d \in Calls \ {c} : Promised(d)' <=> Promised(d)
           /\ Promised(c)' <=> r.at \in {"claim", "claimed"} \/ (r.at = "sent" /\ r.what \in {"verify", "password"})
<1>1. call'[c] = r /\ \A d \in Calls : d # c => call'[d] = call[d]
  BY DEF Put, SessionSound
<1> QED BY <1>1 DEF Promised, In

Promises(r) == r.at \in {"claim", "claimed"} \/ (r.at = "sent" /\ r.what \in {"verify", "password"})

\* One call moves on; it promises a grant only if it did, or there is room for it, or it
\* has just got the one it was promised.
LEMMA PutBounded ==
    ASSUME SessionSound, CallsBounded, NEW c \in Calls, NEW r, Put(c, r), CallBounded(r),
           Len(grant') = Len(grant), Promises(r) => Promised(c) \/ Room
    PROVE  CallsBounded'
<1>1. /\ call'[c] = r /\ \A d \in Calls : d # c => call'[d] = call[d]
      /\ \A d \in Calls \ {c} : Promised(d)' <=> Promised(d)
      /\ Promised(c)' <=> Promises(r)
  BY PutOthers DEF Promises
<1>2. /\ Cardinality(Promising) \in Nat /\ Cardinality(Promising') \in Nat
      /\ Cardinality(Promising') <= Cardinality(Promising) + 1
      /\ (Promised(c)' => Promised(c)) => Cardinality(Promising') <= Cardinality(Promising)
  BY <1>1, PromisesCounted
<1>3. Len(grant') + Cardinality(Promising') <= MaxGrants
  BY <1>1, <1>2, RoomIs, GrantsCount, SessionConstants DEF CallsBounded
<1>4. \A d \in Calls : CallBounded(call[d])'
  BY <1>1 DEF CallsBounded, CallBounded
<1> QED BY <1>3, <1>4 DEF CallsBounded

LEMMA GrantBounded ==
    ASSUME SessionSound, CallsBounded, NEW c \in Calls, NEW r, Put(c, r), CallBounded(r),
           Len(grant') = Len(grant) + 1, ~ Promises(r), Promised(c)
    PROVE  CallsBounded'
<1>1. /\ call'[c] = r /\ \A d \in Calls : d # c => call'[d] = call[d]
      /\ \A d \in Calls \ {c} : Promised(d)' <=> Promised(d)
      /\ Promised(c)' <=> Promises(r)
  BY PutOthers DEF Promises
<1>2. /\ Cardinality(Promising) \in Nat /\ Cardinality(Promising') \in Nat
      /\ Cardinality(Promising') = Cardinality(Promising) - 1
  BY <1>1, PromisesCounted
<1>3. Len(grant') + Cardinality(Promising') <= MaxGrants
  BY <1>2, GrantsCount, SessionConstants DEF CallsBounded
<1>4. \A d \in Calls : CallBounded(call[d])'
  BY <1>1 DEF CallsBounded, CallBounded
<1> QED BY <1>3, <1>4 DEF CallsBounded

\* Several calls are asked or given up: none of them promises anything.
LEMMA ManyBounded ==
    ASSUME SessionSound, CallsBounded, Len(grant') = Len(grant),
           \A d \in Calls : \/ call'[d] = call[d]
                            \/ CallBounded(call'[d]) /\ ~ Promises(call'[d])
    PROVE  CallsBounded'
<1>1. \A d \in Calls : Promised(d)' => Promised(d)
  BY DEF Promised, Promises, In
<1>2. Promising' = {d \in Calls : Promised(d)'}
  BY DEF Promising
<1>3. Promising' \subseteq Promising /\ IsFiniteSet(Promising)
  BY <1>1, <1>2, CallsFinite, FS_Subset DEF Promising
<1>4. Cardinality(Promising') <= Cardinality(Promising) /\ Cardinality(Promising') \in Nat
  BY <1>3, FS_Subset, FS_CardinalityType
<1>5. Len(grant') + Cardinality(Promising') <= MaxGrants
  BY <1>4, CallsFinite, GrantsCount, SessionConstants DEF CallsBounded
<1>6. \A d \in Calls : CallBounded(call[d])'
  BY DEF CallsBounded, CallBounded
<1> QED BY <1>5, <1>6 DEF CallsBounded

\* The calls as they are asked, end and move.
LEMMA AskBounded ==
    ASSUME NEW what, NEW with \in (0 .. MaxGrants) \cup (0 .. MaxCodes)
    PROVE  /\ CallBounded(Ask(what, with))
           /\ Promises(Ask(what, with)) <=> what \in {"verify", "password"}
           /\ \A how \in {"done", "failed", "broken"} :
                 /\ CallBounded([Ask(what, 0) EXCEPT !.at = how])
                 /\ ~ Promises([Ask(what, 0) EXCEPT !.at = how])
           /\ CallBounded(Idle) /\ ~ Promises(Idle)
<1>1. 0 \in 0 .. MaxGrants
  BY SessionConstants
<1>2. CallBounded(Idle) /\ ~ Promises(Idle)
  BY IdleIsNoCall DEF CallBounded, Promises
<1> QED BY <1>1, <1>2 DEF Ask, CallBounded, Promises, TokenSteps

LEMMA EndsBounded ==
    ASSUME SessionSound, CallsBounded, NEW c \in Calls, NEW how \in {"done", "failed", "broken"},
           Ends(c, how), Len(grant') = Len(grant)
    PROVE  CallsBounded'
<1> DEFINE e == [Ask(call[c].what, 0) EXCEPT !.at = how]
<1>1. 0 \in (0 .. MaxGrants) \cup (0 .. MaxCodes)
  BY SessionConstants
<1>2. CallBounded(e) /\ ~ Promises(e) /\ CallBounded(Idle) /\ ~ Promises(Idle)
  BY <1>1, AskBounded
<1>3. Put(c, e) \/ Put(c, Idle)
  BY DEF Ends
<1> HIDE DEF e
<1> QED BY <1>2, <1>3, PutBounded

LEMMA MovedRow ==
    ASSUME NEW r \in CallRows, CallBounded(r), r.what \in Bearers, NEW to
    PROVE  /\ [r EXCEPT !.at = to].at = to /\ [r EXCEPT !.at = to].what = r.what
           /\ to # "sent" => CallBounded([r EXCEPT !.at = to])
BY DEF CallRows, CallBounded

LEMMA MovesBounded ==
    ASSUME SessionSound, CallsBounded, NEW c \in Calls, call[c] \in CallRows, call[c].what \in Bearers,
           NEW to, Moves(c, to), to # "sent", to \in {"claim", "claimed"} => Promised(c) \/ Room,
           Len(grant') = Len(grant)
    PROVE  CallsBounded'
<1> DEFINE r == [call[c] EXCEPT !.at = to]
<1>1. r.at = to /\ CallBounded(r)
  BY MovedRow DEF CallsBounded
<1>2. Put(c, r)
  BY DEF Moves
<1> HIDE DEF r
<1>3. Promises(r) => Promised(c) \/ Room
  BY <1>1 DEF Promises
<1> QED BY <1>1, <1>2, <1>3, PutBounded

\* Where a call is, what it carries.
LEMMA StepOfACall ==
    ASSUME SessionSound, CallsBounded, NEW c \in Calls, NEW where \in SUBSET CallSteps, In(c, where)
    PROVE  /\ call[c] \in CallRows /\ call[c].at \in where /\ CallFits(call[c]) /\ CallBounded(call[c])
           /\ where \subseteq TokenSteps => call[c].what \in Bearers
BY InIsACall DEF CallsBounded, CallBounded

LEMMA GrantNumbers ==
    ASSUME SessionSound, CallsBounded
    PROVE  Len(grant) \in Nat /\ Len(grant) <= MaxGrants /\ DOMAIN grant \subseteq 1 .. MaxGrants
           /\ store \in 0 .. MaxGrants
BY GrantsCount, CallsFinite, SessionConstants DEF CallsBounded, SessionSound

LEMMA TokensBounded ==
    ASSUME SessionSound, CallsBounded, NEW c \in Calls,
           Admit(c) \/ Refresh(c) \/ Look(c) \/ Claim(c) \/ Keep(c) \/ Forget(c) \/ Lost(c)
    PROVE  CallsBounded'
<1>0. grant' = grant
  BY DEF Admit, Refresh, Look, Claim, Keep, Forget, Lost
<1>1. CASE Admit(c)
  <2>1. call[c] \in CallRows /\ CallBounded(call[c]) /\ call[c].what \in Bearers
    BY <1>1, StepOfACall DEF Admit, CallSteps, Bearers
  <2>2. CASE Put(c, [call[c] EXCEPT !.at = "refused", !.held = 0])
    <3> DEFINE r == [call[c] EXCEPT !.at = "refused", !.held = 0]
    <3>1. CallBounded(r) /\ r.at = "refused"
      BY <2>1, SessionConstants DEF CallRows, CallBounded
    <3>2. Put(c, r)
      BY <2>2
    <3> HIDE DEF r
    <3> QED BY <1>0, <3>1, <3>2, PutBounded DEF Promises
  <2> QED BY <1>0, <1>1, <2>1, <2>2, EndsBounded, MovesBounded DEF Admit
<1>2. CASE Refresh(c)
  <2>1. call[c] \in CallRows /\ CallBounded(call[c]) /\ call[c].what \in Bearers
    BY <1>2, StepOfACall DEF Refresh, CallSteps, TokenSteps
  <2>2. CASE Put(c, [call[c] EXCEPT !.at = "looking", !.rt = store])
    <3> DEFINE r == [call[c] EXCEPT !.at = "looking", !.rt = store]
    <3>1. CallBounded(r) /\ r.at = "looking"
      BY <2>1, GrantNumbers DEF CallRows, CallBounded
    <3>2. Put(c, r)
      BY <2>2
    <3> HIDE DEF r
    <3> QED BY <1>0, <3>1, <3>2, PutBounded DEF Promises
  <2> QED BY <1>0, <1>2, <2>2, EndsBounded DEF Refresh
<1>3. CASE Look(c)
  <2>1. call[c] \in CallRows /\ call[c].what \in Bearers
    BY <1>3, StepOfACall DEF Look, CallSteps, TokenSteps
  <2>2. \E to \in {"condemn", "denied", "claim"} : Moves(c, to) /\ (to = "claim" => Room)
    BY <1>3 DEF Look
  <2> QED BY <1>0, <2>1, <2>2, MovesBounded
<1>4. CASE Claim(c)
  <2>1. call[c] \in CallRows /\ call[c].what \in Bearers
    BY <1>4, StepOfACall DEF Claim, CallSteps, TokenSteps
  <2>2. Promised(c) /\ \E to \in {"denied", "claimed"} : Moves(c, to)
    BY <1>4 DEF Claim, Promised, In
  <2> QED BY <1>0, <2>1, <2>2, MovesBounded
<1>5. CASE Keep(c)
  <2> DEFINE r == [call[c] EXCEPT !.at = "sent", !.rt = 0, !.again = TRUE]
  <2>1. call[c] \in CallRows /\ CallBounded(call[c]) /\ call[c].at = "issued" /\ call[c].rt # 0
    BY <1>5, StepOfACall DEF Keep, CallSteps
  <2>2. r.at = "sent" /\ r.what \in Bearers /\ CallBounded(r)
    BY <2>1, SessionConstants DEF CallRows, CallBounded, TokenSteps
  <2>3. Put(c, r)
    BY <1>5 DEF Keep
  <2> HIDE DEF r
  <2>4. ~ Promises(r)
    BY <2>2 DEF Promises, Bearers
  <2> QED BY <1>0, <2>2, <2>3, <2>4, PutBounded
<1>6. CASE Forget(c) \/ Lost(c)
  <2>1. \E how \in {"done", "failed", "broken"} : Ends(c, how)
    BY <1>6 DEF Forget, Lost
  <2> QED BY <1>0, <2>1, EndsBounded
<1> QED BY <1>1, <1>2, <1>3, <1>4, <1>5, <1>6

LEMMA RevokesBounded ==
    ASSUME SessionSound, CallsBounded, NEW c \in Calls, Condemn(c) \/ RevokeTokens(c) \/ EndSessions(c)
    PROVE  CallsBounded' /\ Len(grant') = Len(grant) /\ \A g \in DOMAIN grant : grant'[g].of = grant[g].of
<1>0. /\ Len(grant) \in Nat /\ DOMAIN grant = 1 .. Len(grant)
      /\ \A g \in DOMAIN grant : grant[g] \in GrantRows
  BY GrantsCount, ElementOfSeq DEF SessionSound
<1>1. CASE Condemn(c)
  <2> DEFINE R == {g \in Scope(c) : ~ grant[g].revoked}
             r == [call[c] EXCEPT !.at = "revoking", !.rows = R]
  <2>1. call[c] \in CallRows /\ CallBounded(call[c]) /\ call[c].what \in Bearers
    BY <1>1, StepOfACall DEF Condemn, CallSteps, TokenSteps
  <2>2. R \subseteq 1 .. MaxGrants
    BY GrantNumbers DEF Scope, Family
  <2>3. Put(c, r) /\ grant' = grant
    BY <1>1 DEF Condemn
  <2> HIDE DEF R
  <2>4. CallBounded(r) /\ r.at = "revoking"
    BY <2>1, <2>2 DEF CallRows, CallBounded
  <2> HIDE DEF r
  <2> QED BY <2>3, <2>4, PutBounded DEF Promises
<1>2. CASE RevokeTokens(c)
  <2> DEFINE r == [call[c] EXCEPT !.at = "sessions", !.rows = {}]
             S == call[c].rows
  <2>1. call[c] \in CallRows /\ CallBounded(call[c]) /\ call[c].what \in Bearers
    BY <1>2, StepOfACall DEF RevokeTokens, CallSteps, TokenSteps
  <2>2. grant' = [g \in DOMAIN grant |-> IF g \in S THEN [grant[g] EXCEPT !.revoked = TRUE] ELSE grant[g]]
    BY <1>2 DEF RevokeTokens
  <2>3. \A g \in DOMAIN grant : grant'[g].of = grant[g].of
    BY <1>0, <2>2 DEF GrantRows
  <2> HIDE DEF S
  <2>4. Len(grant') = Len(grant)
    BY <2>2, TokensRevoked
  <2>5. CASE Ends(c, "done")
    BY <2>3, <2>4, <2>5, EndsBounded
  <2>6. CASE Put(c, r)
    <3>1. CallBounded(r) /\ r.at = "sessions"
      BY <2>1 DEF CallRows, CallBounded
    <3>2. Put(c, r)
      BY <2>6
    <3> HIDE DEF r
    <3> QED BY <2>3, <2>4, <3>1, <3>2, PutBounded DEF Promises
  <2> QED BY <1>2, <2>5, <2>6 DEF RevokeTokens
<1>3. CASE EndSessions(c)
  <2> DEFINE S == Scope(c)
  <2>1. call[c] \in CallRows /\ CallBounded(call[c]) /\ call[c].what \in Bearers
    BY <1>3, StepOfACall DEF EndSessions, CallSteps, TokenSteps
  <2>2. grant' = [g \in DOMAIN grant |-> IF g \in S THEN [grant[g] EXCEPT !.live = FALSE] ELSE grant[g]]
    BY <1>3 DEF EndSessions
  <2> HIDE DEF S
  <2>3. \A g \in DOMAIN grant : grant'[g].of = grant[g].of
    BY <1>0, <2>2 DEF GrantRows
  <2>4. Len(grant') = Len(grant)
    BY <2>2, SessionsEnded
  <2>5. \E to \in {"denied", "condemn"} : Moves(c, to)
    BY <1>3 DEF EndSessions
  <2> QED BY <2>1, <2>3, <2>4, <2>5, MovesBounded
<1> QED BY <1>1, <1>2, <1>3

LEMMA RotateBounded ==
    ASSUME SessionSound, SessionSound', CallsBounded, GrantsDescend, NEW c \in Calls, Rotate(c)
    PROVE  CallsBounded' /\ GrantsDescend'
<1> DEFINE t == call[c].rt
           s == [grant EXCEPT ![t].used = TRUE]
           r == [call[c] EXCEPT !.at = "issued", !.held = Len(grant')]
<1>1. /\ call[c] \in CallRows /\ CallBounded(call[c]) /\ call[c].what \in Bearers /\ t \in DOMAIN grant
      /\ Promised(c)
  BY StepOfACall DEF Rotate, CallSteps, TokenSteps, CallFits, Promised, In
<1>2. Put(c, r) /\ grant' = Append(s, New(t))
  BY DEF Rotate
<1>3. /\ Len(grant) \in Nat /\ DOMAIN grant = 1 .. Len(grant) /\ grant[t] \in GrantRows /\ t \in Nat
      /\ t \in 0 .. MaxGrants
  BY <1>1, GrantsCount, GrantNumbers, ElementOfSeq DEF SessionSound
<1>4. /\ s \in Seq(GrantRows) /\ Len(s) = Len(grant)
      /\ \A g \in DOMAIN grant : s[g].of = grant[g].of
  <2> DEFINE u == [grant[t] EXCEPT !.used = TRUE]
  <2>1. u \in GrantRows /\ u.of = grant[t].of /\ s = [grant EXCEPT ![t] = u]
    BY <1>3 DEF GrantRows
  <2> HIDE DEF u, t, s
  <2> QED BY <1>1, <1>3, <2>1, ExceptSeq DEF SessionSound
<1> HIDE DEF s
<1>5. /\ Len(grant') = Len(grant) + 1
      /\ \A g \in DOMAIN grant : grant'[g] = s[g]
      /\ \A g \in DOMAIN grant' \ DOMAIN grant : grant'[g].of = t
  BY <1>2, <1>3, <1>4, Appended
<1>6. GrantsDescend'
  BY <1>3, <1>4, <1>5 DEF GrantsDescend
<1>7. Len(grant') \in 0 .. MaxGrants
  <2>1. c \in Promising /\ IsFiniteSet(Promising)
    BY <1>1, CallsFinite, FS_Subset DEF Promising
  <2>2. Cardinality(Promising) # 0 /\ Cardinality(Promising) \in Nat
    BY <2>1, FS_EmptySet, FS_CardinalityType
  <2> QED BY <1>3, <1>5, <2>2, SessionConstants DEF CallsBounded
<1>8. CallBounded(r) /\ r.at = "issued"
  <2> DEFINE n == Len(grant')
  <2> HIDE DEF n
  <2>1. LET q == [call[c] EXCEPT !.at = "issued", !.held = n] IN CallBounded(q) /\ q.at = "issued"
    BY <1>1, <1>7 DEF n, CallRows, CallBounded
  <2> QED BY <2>1 DEF n
<1> HIDE DEF r
<1>9. CallsBounded'
  BY <1>1, <1>2, <1>5, <1>8, GrantBounded DEF Promises
<1> QED BY <1>6, <1>9

\* A sign-in gets the grant it was promised.
LEMMA IssueBounded ==
    ASSUME SessionSound, CallsBounded, GrantsDescend, Issue,
           In(Act, {"sent"}), call[Act].what \in {"verify", "password"}
    PROVE  CallsBounded' /\ GrantsDescend'
<1> DEFINE r == [call[Act] EXCEPT !.at = "issued", !.held = Len(grant')]
<1>1. /\ call[Act] \in CallRows /\ CallBounded(call[Act]) /\ Promised(Act) /\ call[Act].rt = 0 /\ Act \in Calls
  BY ActIsACall, StepOfACall DEF CallSteps, Promised, In, CallBounded
<1>2. Put(Act, r) /\ grant' = Append(grant, New(0)) /\ 0 \in Nat /\ 0 \in 0 .. MaxGrants
  BY SessionConstants DEF Issue
<1>3. Len(grant) \in Nat /\ DOMAIN grant = 1 .. Len(grant)
  BY GrantsCount
<1>5. /\ Len(grant') = Len(grant) + 1
      /\ \A g \in DOMAIN grant : grant'[g] = grant[g]
      /\ \A g \in DOMAIN grant' \ DOMAIN grant : grant'[g].of = 0
  BY <1>2, <1>3, Appended DEF SessionSound
<1>6. GrantsDescend'
  BY <1>2, <1>3, <1>5 DEF GrantsDescend
<1>7. Len(grant') \in 0 .. MaxGrants
  <2>1. Act \in Promising /\ IsFiniteSet(Promising)
    BY <1>1, CallsFinite, FS_Subset DEF Promising
  <2>2. Cardinality(Promising) # 0 /\ Cardinality(Promising) \in Nat
    BY <2>1, FS_EmptySet, FS_CardinalityType
  <2> QED BY <1>3, <1>5, <2>2, SessionConstants DEF CallsBounded
<1>8. CallBounded(r) /\ r.at = "issued"
  <2> DEFINE n == Len(grant')
  <2> HIDE DEF n
  <2>1. LET q == [call[Act] EXCEPT !.at = "issued", !.held = n] IN CallBounded(q) /\ q.at = "issued"
    BY <1>1, <1>7 DEF n, CallRows, CallBounded, TokenSteps
  <2> QED BY <2>1 DEF n
<1> HIDE DEF r
<1>9. CallsBounded'
  BY <1>1, <1>2, <1>5, <1>8, GrantBounded DEF Promises
<1> QED BY <1>6, <1>9

LEMMA SignInBounded ==
    ASSUME SessionSound, CallsBounded, GrantsDescend, CodesBounded, Verify \/ LoginPassword
    PROVE  CallsBounded' /\ GrantsDescend' /\ CodesBounded'
<1>1. CASE Verify
  <2>1. CallsBounded' /\ GrantsDescend'
    BY <1>1, IssueBounded DEF Verify
  <2>2. CodesBounded'
    <3>0. code \in Seq(0 .. MaxTries) /\ Len(code) # 0
      BY <1>1 DEF CodesBounded, Verify
    <3>1. Len(code) \in Nat /\ Len(code) # 0 /\ \A i \in 1 .. Len(code) : code[i] \in 0 .. MaxTries
      BY <3>0, LenProperties, ElementOfSeq
    <3>2. /\ SubSeq(code, 1, Len(code) - 1) \in Seq(0 .. MaxTries)
          /\ Len(SubSeq(code, 1, Len(code) - 1)) = Len(code) - 1
      <4> DEFINE S == 0 .. MaxTries
      <4> HIDE DEF S
      <4>1. \A i \in 1 .. Len(code) - 1 : code[i] \in S
        BY <3>1 DEF S
      <4>2. SubSeq(code, 1, Len(code) - 1) \in Seq(S) /\ Len(SubSeq(code, 1, Len(code) - 1)) = Len(code) - 1
        <5> DEFINE n == Len(code) - 1
        <5>1. n \in Int /\ 1 \in Int /\ 1 <= n + 1 /\ \A i \in 1 .. n : code[i] \in S
          BY <3>1, <4>1
        <5> HIDE DEF n
        <5>2. SubSeq(code, 1, n) \in Seq(S) /\ Len(SubSeq(code, 1, n)) = IF 1 <= n THEN n - 1 + 1 ELSE 0
          BY <5>1, SubSeqProperties
        <5>3. Len(SubSeq(code, 1, n)) = n
          BY <5>1, <5>2
        <5> QED BY <5>2, <5>3 DEF n
      <4> QED BY <4>2 DEF S
    <3> QED BY <1>1, <3>1, <3>2, SessionConstants DEF CodesBounded, Verify
  <2> QED BY <2>1, <2>2
<1>2. CASE LoginPassword
  <2>1. CodesBounded'
    BY <1>2 DEF CodesBounded, LoginPassword
  <2>2. CASE Issue
    BY <1>2, <2>1, <2>2, IssueBounded DEF LoginPassword
  <2>3. CASE Ends(Act, "failed") /\ UNCHANGED grant
    BY <2>1, <2>3, ActIsACall, EndsBounded DEF GrantsDescend
  <2> QED BY <1>2, <2>2, <2>3 DEF LoginPassword
<1> QED BY <1>1, <1>2

LEMMA CodesStayBounded ==
    ASSUME SessionSound, CallsBounded, CodesBounded, SendCode \/ RefuseCode
    PROVE  CallsBounded' /\ CodesBounded'
<1>1. grant' = grant /\ \E how \in {"done", "failed"} : Ends(Act, how)
  BY DEF SendCode, RefuseCode
<1>2. CodesBounded'
  <2> USE SessionConstants
  <2>1. CASE code' = code
    BY <2>1 DEF CodesBounded
  <2>2. CASE Len(code) < MaxCodes /\ code' = Append(code, 0)
    <3>1. 0 \in 0 .. MaxTries /\ Len(code) \in Nat
      BY LenProperties DEF CodesBounded
    <3> QED BY <2>2, <3>1, AppendProperties DEF CodesBounded
  <2>3. CASE Len(code) # 0 /\ code[Len(code)] < MaxTries /\ code' = [code EXCEPT ![Len(code)] = code[Len(code)] + 1]
    <3>1. Len(code) \in 1 .. Len(code) /\ code[Len(code)] + 1 \in 0 .. MaxTries
      BY <2>3, LenProperties, ElementOfSeq DEF CodesBounded
    <3>2. code' \in Seq(0 .. MaxTries) /\ Len(code') = Len(code)
      BY <2>3, <3>1, ExceptSeq DEF CodesBounded
    <3> QED BY <3>2 DEF CodesBounded
  <2>4. RefuseCode => \/ code' = code
                      \/ Len(code) # 0 /\ code[Len(code)] < MaxTries
                         /\ code' = [code EXCEPT ![Len(code)] = code[Len(code)] + 1]
    BY DEF RefuseCode
  <2>5. SendCode => code' = code \/ (Len(code) < MaxCodes /\ code' = Append(code, 0))
    BY DEF SendCode
  <2> QED BY <2>1, <2>2, <2>3, <2>4, <2>5
<1> QED BY <1>1, <1>2, ActIsACall, EndsBounded

LEMMA IdleBounded == CallBounded(Idle) /\ ~ Promises(Idle)
<1>1. 0 \in (0 .. MaxGrants) \cup (0 .. MaxCodes)
  BY SessionConstants
<1> QED BY <1>1, AskBounded

\* A token ends: nothing of a call or of a descent changes.
LEMMA EndBounded ==
    ASSUME SessionSound, NEW S,
           grant' = [g \in DOMAIN grant |-> IF g \in S THEN [grant[g] EXCEPT !.live = FALSE] ELSE grant[g]]
    PROVE  Len(grant') = Len(grant) /\ \A g \in DOMAIN grant : grant'[g].of = grant[g].of
<1>1. \A g \in DOMAIN grant : grant[g] \in GrantRows
  BY GrantsCount, ElementOfSeq DEF SessionSound
<1>2. \A g \in DOMAIN grant : grant'[g].of = grant[g].of
  BY <1>1 DEF GrantRows
<1> QED BY <1>2, SessionsEnded

LEMMA ExpiryBounded ==
    ASSUME SessionSound, CallsBounded, Logout \/ \E g \in DOMAIN grant : Expire(g)
    PROVE  CallsBounded' /\ DOMAIN grant' = DOMAIN grant /\ \A g \in DOMAIN grant : grant'[g].of = grant[g].of
<1>1. /\ grant' = grant \/ \E g \in DOMAIN grant : grant' = [grant EXCEPT ![g].live = FALSE]
      /\ call' = call \/ Ends(Act, "done")
  <2>1. CASE Logout
    <3>1. CASE call[Act].held \in DOMAIN grant
      BY <2>1, <3>1 DEF Logout
    <3>2. CASE call[Act].held \notin DOMAIN grant
      <4>1. grant \in [DOMAIN grant -> GrantRows]
        BY GrantsCount, ElementOfSeq, SeqDef DEF SessionSound
      <4> DEFINE e == [grant[call[Act].held] EXCEPT !.live = FALSE]
      <4>2. [grant EXCEPT ![call[Act].held].live = FALSE] = [grant EXCEPT ![call[Act].held] = e]
        OBVIOUS
      <4> HIDE DEF e
      <4>3. [grant EXCEPT ![call[Act].held] = e] = grant
        BY <3>2, <4>1
      <4> QED BY <2>1, <4>2, <4>3 DEF Logout
    <3> QED BY <3>1, <3>2
  <2> QED BY <2>1 DEF Expire
<1>2. Len(grant') = Len(grant) /\ \A g \in DOMAIN grant : grant'[g].of = grant[g].of
  <2>1. CASE grant' = grant
    BY <2>1
  <2>2. ASSUME NEW g0 \in DOMAIN grant, grant' = [grant EXCEPT ![g0].live = FALSE]
        PROVE  Len(grant') = Len(grant) /\ \A g \in DOMAIN grant : grant'[g].of = grant[g].of
    BY <2>2, OneLifeEnds, EndBounded
  <2> QED BY <1>1, <2>1, <2>2
<1>3. DOMAIN grant' = DOMAIN grant
  <2>1. CASE grant' = grant
    BY <2>1
  <2> QED BY <1>1, <2>1
<1>4. CASE call' = call
  BY <1>2, <1>4, ManyBounded
<1>5. CASE Ends(Act, "done")
  BY <1>2, <1>5, ActIsACall, EndsBounded
<1> QED BY <1>1, <1>2, <1>3, <1>4, <1>5

LEMMA UnheardBounded ==
    ASSUME SessionSound, CallsBounded
    PROVE  \A d \in Calls : Unheard[d] = call[d] \/ (CallBounded(Unheard[d]) /\ ~ Promises(Unheard[d]))
BY IdleBounded DEF Unheard

LEMMA SendingBounded ==
    ASSUME NEW s \in 0 .. MaxGrants
    PROVE  \A d \in Calls : CallBounded(Sending(s)[d]) /\ ~ Promises(Sending(s)[d])
<1>1. s \in (0 .. MaxGrants) \cup (0 .. MaxCodes)
  OBVIOUS
<1>2. CallBounded(Ask("load", s)) /\ ~ Promises(Ask("load", s))
  <2>1. \A what : CallBounded(Ask(what, s)) /\ (Promises(Ask(what, s)) <=> what \in {"verify", "password"})
    BY <1>1, AskBounded
  <2> QED BY <2>1
<1> QED BY <1>2, IdleBounded DEF Sending

\* Only what submits a code or a password promises a grant, and only where there is room.
LEMMA PagesBounded ==
    ASSUME SessionSound, CallsBounded, CodesBounded,
           \/ AskCode \/ SubmitPassword \/ ThenHere \/ CodeSent \/ LoginFailed \/ NotDone \/ Saved \/ Retry
           \/ \E k \in 0 .. Len(code) : SubmitCode(k)
           \/ \E what \in {"save", "logout", "everywhere"} : Press(what)
           \/ OpenLogin \/ SignedIn \/ OpenAccount \/ Loaded \/ SignedOut
           \/ \E c \in Loads : LoadFails(c)
           \/ \E to \in {"phone", "password"} : Switch(to)
    PROVE  CallsBounded' /\ UNCHANGED <<grant, code>>
<1>0. UNCHANGED <<grant, code>>
  BY DEF AskCode, SubmitPassword, ThenHere, CodeSent, LoginFailed, NotDone, Saved, Retry, Reload, SubmitCode,
         Press, OpenLogin, SignedIn, OpenAccount, Loaded, SignedOut, LoadFails, FirstFailure, Switch
<1> SUFFICES CallsBounded'
    BY <1>0
<1>n. /\ 0 \in (0 .. MaxGrants) \cup (0 .. MaxCodes) /\ store \in 0 .. MaxGrants
      /\ 0 .. Len(code) \subseteq 0 .. MaxCodes
  BY GrantNumbers, SessionConstants, LenProperties DEF CodesBounded
<1>a. ASSUME NEW what, NEW with \in (0 .. MaxGrants) \cup (0 .. MaxCodes), Put(Act, Ask(what, with)),
             what \in {"verify", "password"} => Room
      PROVE  CallsBounded'
  BY <1>0, <1>a, AskBounded, ActIsACall, PutBounded
<1>i. ASSUME Put(Act, Idle) PROVE CallsBounded'
  BY <1>0, <1>i, IdleBounded, ActIsACall, PutBounded
<1>m. ASSUME \A d \in Calls : \/ call'[d] = call[d]
                              \/ CallBounded(call'[d]) /\ ~ Promises(call'[d])
      PROVE  CallsBounded'
  BY <1>0, <1>m, ManyBounded
<1>1. CASE AskCode \/ SubmitPassword \/ ThenHere
  <2>1. \E what \in {"ask", "password", "logout"}, with \in {0, store} :
           Put(Act, Ask(what, with)) /\ (what = "password" => Room)
    BY <1>1 DEF AskCode, SubmitPassword, ThenHere
  <2> QED BY <1>n, <1>a, <2>1
<1>2. ASSUME NEW k \in 0 .. Len(code), SubmitCode(k) PROVE CallsBounded'
  BY <1>n, <1>a, <1>2 DEF SubmitCode
<1>3. ASSUME NEW what \in {"save", "logout", "everywhere"}, Press(what) PROVE CallsBounded'
  BY <1>n, <1>a, <1>3 DEF Press
<1>4. CASE CodeSent \/ LoginFailed \/ NotDone
  BY <1>i, <1>4 DEF CodeSent, LoginFailed, NotDone
<1>5. CASE Saved \/ Retry
  <2>1. Put(Act, Idle) \/ call' = Sending(store)
    BY <1>5 DEF Saved, Retry, Reload
  <2> QED BY <1>n, <1>i, <1>m, <2>1, SendingBounded
<1>6. CASE OpenLogin \/ \E c \in Loads : LoadFails(c)
  BY <1>m, <1>6, UnheardBounded DEF OpenLogin, LoadFails, FirstFailure
<1>7. CASE SignedIn
  <2>1. store' \in 0 .. MaxGrants
    BY <1>7, ActIsACall, StepOfACall, GrantNumbers DEF SignedIn, CallSteps, CallFits
  <2> QED BY <1>m, <1>7, <2>1, SendingBounded DEF SignedIn
<1>8. CASE OpenAccount
  BY <1>m, <1>n, <1>8, SendingBounded DEF OpenAccount
<1>9. CASE Loaded
  BY <1>m, <1>9, IdleBounded DEF Loaded
<1>10. CASE SignedOut
  <2>1. \A d \in Calls : call'[d] = Unheard[d] \/ call'[d] = Idle
    BY <1>10 DEF SignedOut, Unheard
  <2> QED BY <1>m, <2>1, UnheardBounded, IdleBounded
<1>11. ASSUME NEW to \in {"phone", "password"}, Switch(to) PROVE CallsBounded'
  BY <1>m, <1>11 DEF Switch
<1> QED BY <1>0, <1>1, <1>2, <1>3, <1>4, <1>5, <1>6, <1>7, <1>8, <1>9, <1>10, <1>11

\* What the tab shows, whoever shows it.
LEMMA PageTyped == ASSUME page \in SessionPages, [SessionNext]_sessionVars PROVE page' \in SessionPages
<1>h. /\ Home \in SessionPages /\ [Home EXCEPT !.at = "login"] \in SessionPages
      /\ \A s : Mounted(s) \in SessionPages
  BY DEF Home, Mounted, SessionPages
<1>r. ASSUME Reload PROVE page' \in SessionPages
  <2>1. \A b \in BOOLEAN : [page EXCEPT !.waiting = b] \in SessionPages
    BY DEF SessionPages
  <2>2. page \in SessionPages /\ [page EXCEPT !.at = "signin"] \in SessionPages
    BY DEF SessionPages
  <2>3. [page EXCEPT !.at = page.at] = page
    BY DEF SessionPages
  <2> DEFINE b == Shown
             a == IF Shown THEN "signin" ELSE page.at
  <2>4. b \in BOOLEAN /\ a \in {"signin", page.at}
    BY DEF Shown
  <2>5. page' = [page EXCEPT !.waiting = b] \/ page' = [page EXCEPT !.at = a]
    BY <1>r DEF Reload
  <2> HIDE DEF a, b
  <2> QED BY <2>1, <2>2, <2>3, <2>4, <2>5
<1>1. CASE page' = page
  BY <1>1
<1>2. ASSUME NEW c \in Calls, Tokens(c) \/ Lost(c) PROVE page' \in SessionPages
  BY <1>1, <1>2 DEF Tokens, Lost, Admit, Refresh, Look, Claim, Rotate, Condemn, RevokeTokens, EndSessions,
                    Keep, Forget
<1>3. CASE Answers
  <2>1. CASE CodeSent
    BY <2>1 DEF CodeSent, SessionPages
  <2>2. CASE LoginFailed
    BY <2>2 DEF LoginFailed, SessionPages
  <2>3. CASE SignedIn
    BY <1>h, <2>3 DEF SignedIn
  <2>4. CASE Saved
    BY <1>r, <2>4 DEF Saved
  <2>5. CASE SignedOut
    BY <1>h, <2>5 DEF SignedOut
  <2> QED BY <1>1, <1>3, <2>1, <2>2, <2>3, <2>4, <2>5
          DEF Answers, SendCode, RefuseCode, Verify, LoginPassword, NotDone, ThenHere, Logout
<1>4. ASSUME NEW c \in Loads, LoadFails(c) PROVE page' \in SessionPages
  BY <1>4 DEF LoadFails, SessionPages
<1>5. CASE Loaded
  BY <1>5 DEF Loaded, SessionPages
<1>6. CASE OpenLogin \/ OpenAccount
  BY <1>h, <1>6 DEF OpenLogin, OpenAccount
<1>7. CASE AskCode \/ SubmitPassword
  BY <1>7 DEF AskCode, SubmitPassword, SessionPages
<1>8. CASE Retry
  BY <1>r, <1>8 DEF Retry
<1>9. ASSUME NEW to \in {"phone", "password"}, Switch(to) PROVE page' \in SessionPages
  BY <1>9 DEF Switch, SessionPages
<1>10. ASSUME NEW k \in 0 .. Len(code), SubmitCode(k) PROVE page' \in SessionPages
  BY <1>10 DEF SubmitCode, SessionPages
<1>11. CASE \/ \E g \in DOMAIN grant : Expire(g)
            \/ \E what \in {"save", "logout", "everywhere"} : Press(what)
  BY <1>1, <1>11 DEF Expire, Press
<1>12. CASE UNCHANGED sessionVars
  BY <1>1, <1>12 DEF sessionVars
<1> QED BY <1>2, <1>3, <1>4, <1>5, <1>6, <1>7, <1>8, <1>9, <1>10, <1>11, <1>12 DEF SessionNext

LEMMA SessionBoundedKept ==
    ASSUME SessionSound, SessionBounded, [SessionNext]_sessionVars
    PROVE  SessionBounded'
<1>0. /\ SessionSound' /\ page' \in SessionPages
      /\ CallsBounded /\ CodesBounded /\ GrantsDescend
  BY SessionStep, PageTyped DEF SessionBounded
<1> SUFFICES CallsBounded' /\ CodesBounded' /\ GrantsDescend'
    BY <1>0 DEF SessionBounded
<1>g. UNCHANGED grant => GrantsDescend'
  BY <1>0 DEF GrantsDescend
<1>c. UNCHANGED code => CodesBounded'
  BY <1>0 DEF CodesBounded
<1>d. DOMAIN grant' = DOMAIN grant /\ (\A g \in DOMAIN grant : grant'[g].of = grant[g].of) => GrantsDescend'
  BY <1>0 DEF GrantsDescend
<1>1. ASSUME NEW c \in Calls, Tokens(c) \/ Lost(c) PROVE CallsBounded' /\ CodesBounded' /\ GrantsDescend'
  <2>1. UNCHANGED code
    BY <1>1 DEF Tokens, Lost, Admit, Refresh, Look, Claim, Rotate, Condemn, RevokeTokens, EndSessions,
                Keep, Forget
  <2>2. CASE Admit(c) \/ Refresh(c) \/ Look(c) \/ Claim(c) \/ Keep(c) \/ Forget(c) \/ Lost(c)
    <3>1. grant' = grant
      BY <2>2 DEF Admit, Refresh, Look, Claim, Keep, Forget, Lost
    <3> QED BY <1>0, <1>g, <1>c, <2>1, <2>2, <3>1, TokensBounded
  <2>3. CASE Condemn(c) \/ RevokeTokens(c) \/ EndSessions(c)
    <3>1. DOMAIN grant' = DOMAIN grant
      BY <2>3 DEF Condemn, RevokeTokens, EndSessions
    <3> QED BY <1>0, <1>d, <1>c, <2>1, <2>3, <3>1, RevokesBounded
  <2>4. CASE Rotate(c)
    BY <1>0, <1>c, <2>1, <2>4, RotateBounded
  <2> QED BY <1>1, <2>2, <2>3, <2>4 DEF Tokens
<1>2. CASE Verify \/ LoginPassword
  BY <1>0, <1>2, SignInBounded
<1>3. CASE SendCode \/ RefuseCode
  <2>1. UNCHANGED grant
    BY <1>3 DEF SendCode, RefuseCode
  <2> QED BY <1>0, <1>g, <1>3, <2>1, CodesStayBounded
<1>4. CASE \/ AskCode \/ SubmitPassword \/ ThenHere \/ CodeSent \/ LoginFailed \/ NotDone \/ Saved \/ Retry
           \/ \E k \in 0 .. Len(code) : SubmitCode(k)
           \/ \E what \in {"save", "logout", "everywhere"} : Press(what)
           \/ OpenLogin \/ SignedIn \/ OpenAccount \/ Loaded \/ SignedOut
           \/ \E c \in Loads : LoadFails(c)
           \/ \E to \in {"phone", "password"} : Switch(to)
  BY <1>0, <1>g, <1>c, <1>4, PagesBounded
<1>5. CASE Logout \/ \E g \in DOMAIN grant : Expire(g)
  <2>1. UNCHANGED code
    BY <1>5 DEF Logout, Expire
  <2> QED BY <1>0, <1>c, <1>d, <1>5, <2>1, ExpiryBounded
<1>6. CASE UNCHANGED sessionVars
  BY <1>0, <1>6, <1>g, <1>c, ManyBounded DEF sessionVars
<1> QED BY <1>1, <1>2, <1>3, <1>4, <1>5, <1>6 DEF SessionNext, Answers

LEMMA SessionInitBounded == SessionInit => SessionBounded
<1> SUFFICES ASSUME SessionInit PROVE SessionBounded
    OBVIOUS
<1> USE SessionConstants
<1>1. grant = <<>> /\ code = <<>> /\ \A c \in Calls : call[c] = Idle
  BY DEF SessionInit
<1>2. Promising = {} /\ Len(grant) = 0 /\ Len(code) = 0 /\ Cardinality({}) = 0
  BY <1>1, FS_EmptySet, IdleIsNoCall DEF Promising, Promised, In
<1>3. CallsBounded
  BY <1>1, <1>2, IdleBounded DEF CallsBounded
<1>4. CodesBounded /\ GrantsDescend
  BY <1>1, <1>2 DEF CodesBounded, GrantsDescend
<1> QED BY <1>3, <1>4 DEF SessionBounded, SessionInit, Home, SessionPages

LEMMA SessionIsTyped == ASSUME SessionSound, SessionBounded PROVE SessionTypeOK
<1>1. /\ Len(grant) \in Nat /\ Len(grant) <= MaxGrants /\ CallsBounded /\ CodesBounded /\ GrantsDescend
      /\ page \in SessionPages
  BY GrantNumbers DEF SessionBounded
<1>2. grant \in Seq(GrantType)
  <2>1. grant \in [1 .. Len(grant) -> GrantRows] /\ DOMAIN grant = 1 .. Len(grant)
    BY GrantsCount, LenProperties DEF SessionSound
  <2>2. \A g \in 1 .. Len(grant) : grant[g] \in GrantType
    BY <1>1, <2>1 DEF GrantRows, GrantType, GrantsDescend
  <2>3. grant \in [1 .. Len(grant) -> GrantType]
    BY <2>1, <2>2
  <2> QED BY <1>1, <2>3, SeqDef
<1>3. call \in [Calls -> CallType \cup {Idle}]
  <2>1. \A c \in Calls : call[c] \in CallRows => call[c] \in CallType
    BY <1>1 DEF CallsBounded, CallBounded, CallRows, CallSteps, CallType
  <2> QED BY <2>1 DEF SessionSound
<1> QED BY <1>1, <1>2, <1>3 DEF SessionTypeOK, SessionSound, CodesBounded, SessionPages

\* The grants, the codes and the calls of a device keep their type, and no more grants are
\* issued than there is room for.
LEMMA SessionTypes == SessionSpec => []SessionTypeOK
<1>1. SessionInit => SessionSound /\ SessionBounded
  BY SessionInitSound, SessionInitBounded
<1>2. (SessionSound /\ SessionBounded) /\ [SessionNext]_sessionVars => (SessionSound /\ SessionBounded)'
  BY SessionStep, SessionBoundedKept
<1>3. SessionSound /\ SessionBounded => SessionTypeOK
  BY SessionIsTyped
<1> QED BY <1>1, <1>2, <1>3, PTL DEF SessionSpec

-----------------------------------------------------------------------------
(* Search                                                                   *)

\* A search, its answer and what the page shows of it.
LEMMA SoughtParts ==
    ASSUME NEW r \in Sought
    PROVE  /\ r.at \in {"none", "asked", "failed", "read", "answer"}
           /\ r.at \in {"asked", "failed"} => r.q \in Queries
           /\ r.at \in {"read", "answer"} => r.q \in Answerable /\ r.q \in Queries /\ r.rows \in SUBSET Rows
           /\ r.at \in {"asked", "answer"} => [at |-> "failed", q |-> r.q] \in Sought
           /\ r.at = "read" => [r EXCEPT !.at = "answer"] \in Sought
BY DEF Sought, Nothing, Answerable

LEMMA SoughtMade ==
    /\ Nothing \in Sought
    /\ \A q \in Queries : Asking(q) \in Sought /\ [at |-> "failed", q |-> q] \in Sought
    /\ \A q \in Answerable, rows \in SUBSET Rows :
          /\ [at |-> "answer", q |-> q, rows |-> rows] \in Sought
          /\ [at |-> "read", q |-> q, rows |-> rows] \in Sought
BY DEF Sought, Asking

\* The consumer that has written a row still has the event of it.
SearchTyped == SearchTypeOK /\ (indexing # Blank => seatLog # <<>>)

LEMMA FoundAreRows == ASSUME SearchTypeOK, NEW q PROVE Found(q) \in SUBSET Rows
BY DEF Found, Rows, SearchTypeOK, Leg

LEMMA SentKeepsType ==
    ASSUME SearchTypeOK, NEW q \in Queries, SendSearch(q)
    PROVE  /\ asked' \in [Searches -> Sought]
           /\ results' \in [url : Queries, data : {Blank} \cup [q : Queries, rows : SUBSET Rows],
                    loading : BOOLEAN, error : BOOLEAN, marks : SUBSET Marks, hideSoldOut : BOOLEAN]
<1>1. PICK i \in Searches :
          /\ asked' = [asked EXCEPT ![i] = Asking(q)]
          /\ results' = [results EXCEPT !.url = q, !.loading = TRUE, !.error = FALSE]
  BY DEF SendSearch
<1>2. Asking(q) \in Sought
  BY SoughtMade
<1>3. asked' \in [Searches -> Sought]
  BY <1>1, <1>2 DEF SearchTypeOK
<1> QED BY <1>1, <1>3 DEF SearchTypeOK

LEMMA SearchInitTypes == SearchInit => SearchTypeOK
<1> SUFFICES ASSUME SearchInit PROVE SearchTypeOK
    OBVIOUS
<1> USE SearchConstants
<1>1. PICK q \in Answerable, i \in Searches :
          /\ results = PageOn(q)
          /\ searchForm = [from |-> q.from, to |-> q.to, day |-> q.day, error |-> FALSE]
          /\ asked = [j \in Searches |-> IF j = i THEN Asking(q) ELSE Nothing]
  BY DEF SearchInit
<1>2. q \in Queries
  BY DEF Answerable
<1>3. asked \in [Searches -> Sought]
  BY <1>1, <1>2, SoughtMade
<1>4. /\ results \in [url : Queries, data : {Blank} \cup [q : Queries, rows : SUBSET Rows],
                      loading : BOOLEAN, error : BOOLEAN, marks : SUBSET Marks, hideSoldOut : BOOLEAN]
      /\ searchForm \in [from : Cities, to : Cities, day : Days, error : BOOLEAN]
  BY <1>1, <1>2 DEF PageOn, Queries
<1>5. /\ SeatsTotal \in 0 .. SeatsTotal /\ 0 \in 0 .. MaxSearchFaults
      /\ leg \in [Buses -> Leg] /\ <<>> \in Seq(Buses)
      /\ cached \in [Answerable -> Pages]
  BY DEF SearchInit, Leg, Pages
<1> QED BY <1>3, <1>4, <1>5 DEF SearchInit, SearchTypeOK

LEMMA IndexTypes == ASSUME SearchTyped, IndexNext PROVE SearchTypeOK'
<1> USE SearchConstants
<1>t. SearchTypeOK /\ (indexing # Blank => seatLog # <<>>)
  BY DEF SearchTyped
<1>h. seatLog # <<>> => Head(seatLog) \in Buses /\ Tail(seatLog) \in Seq(Buses)
  BY <1>t DEF SearchTypeOK
<1>e. Emptied \in [Answerable -> Pages]
  BY DEF Emptied, Pages
<1>u. upsets < MaxSearchFaults => upsets + 1 \in 0 .. MaxSearchFaults
  BY <1>t DEF SearchTypeOK
<1>1. CASE Touch
  <2>1. leg' \in [Buses -> Leg]
    BY <1>1, <1>h, <1>t DEF Touch, SearchTypeOK, Leg
  <2> QED BY <1>1, <1>h, <2>1, <1>t DEF Touch, SearchTypeOK, tripVars, pageVars
<1>2. CASE Invalidate
  BY <1>2, <1>h, <1>e, <1>t DEF Invalidate, SearchTypeOK, tripVars, pageVars
<1>3. CASE InvalidateFails
  BY <1>3, <1>h, <1>u, <1>t DEF InvalidateFails, SearchTypeOK, tripVars, pageVars
<1>4. CASE IndexerStops
  BY <1>4, <1>u, <1>t DEF IndexerStops, SearchTypeOK, tripVars, pageVars
<1>5. CASE ReindexReads
  <2>1. rebuild' \in [Buses -> Leg]
    BY <1>5, <1>t DEF ReindexReads, SearchTypeOK, Leg
  <2> QED BY <1>5, <2>1, <1>t DEF ReindexReads, SearchTypeOK, tripVars, pageVars
<1>6. CASE ReindexWrites
  BY <1>6, <1>e, <1>t DEF ReindexWrites, SearchTypeOK, tripVars, pageVars
<1>7. ASSUME NEW t \in Buses, SeatChange(t) PROVE SearchTypeOK'
  <2>1. free' \in [Buses -> 0 .. SeatsTotal] /\ seatLog' \in Seq(Buses)
    BY <1>7, <1>t DEF SeatChange, SearchTypeOK
  <2> QED BY <1>7, <2>1, <1>t DEF SeatChange, SearchTypeOK, pageVars
<1>8. ASSUME NEW t \in Buses, TripGone(t) PROVE SearchTypeOK'
  BY <1>8, <1>t DEF TripGone, SearchTypeOK, indexVars, pageVars
<1>9. ASSUME NEW q \in Answerable, PageExpires(q) PROVE SearchTypeOK'
  <2>1. cached' \in [Answerable -> Pages]
    BY <1>9, <1>t DEF PageExpires, SearchTypeOK, Pages
  <2> QED BY <1>9, <2>1, <1>t DEF PageExpires, SearchTypeOK, indexVars, tripVars, pageVars
<1> QED BY <1>1, <1>2, <1>3, <1>4, <1>5, <1>6, <1>7, <1>8, <1>9, <1>t DEF IndexNext

LEMMA AnswerTypes == ASSUME SearchTypeOK, AnswerNext PROVE SearchTypeOK'
<1> USE SearchConstants
<1>0. PICK i \in Searches : Lookup(i) \/ KeepPage(i) \/ SearchFails(i) \/ Answered(i) \/ SearchRefused(i)
  BY DEF AnswerNext
<1>a. asked \in [Searches -> Sought] /\ asked[i] \in Sought
  BY DEF SearchTypeOK
<1>1. CASE Lookup(i)
  <2> DEFINE q == asked[i].q
             r == IF q \notin Answerable THEN [at |-> "failed", q |-> q]
                  ELSE IF cached[q] # Blank THEN [at |-> "answer", q |-> q, rows |-> cached[q]]
                  ELSE [at |-> "read", q |-> q, rows |-> Found(q)]
  <2>1. q \in Queries
    BY <1>1, <1>a, SoughtParts DEF Lookup
  <2>2. q \in Answerable /\ cached[q] # Blank => cached[q] \in SUBSET Rows
    BY DEF SearchTypeOK, Pages
  <2>3. r \in Sought
    BY <2>1, <2>2, SoughtMade, FoundAreRows
  <2>4. asked' = [asked EXCEPT ![i] = r]
    BY <1>1 DEF Lookup
  <2> HIDE DEF r
  <2>5. asked' \in [Searches -> Sought]
    BY <1>a, <2>3, <2>4
  <2> QED BY <1>1, <2>5 DEF Lookup, SearchTypeOK, indexVars, tripVars, pageVars
<1>2. CASE KeepPage(i)
  <2>1. asked[i].q \in Answerable /\ asked[i].rows \in SUBSET Rows /\ [asked[i] EXCEPT !.at = "answer"] \in Sought
    BY <1>2, <1>a, SoughtParts DEF KeepPage
  <2>2. asked' = [asked EXCEPT ![i] = [asked[i] EXCEPT !.at = "answer"]]
    BY <1>2, <1>a DEF KeepPage
  <2>3. asked' \in [Searches -> Sought] /\ cached' \in [Answerable -> Pages]
    BY <1>2, <1>a, <2>1, <2>2 DEF KeepPage, SearchTypeOK, Pages
  <2> QED BY <1>2, <2>3 DEF KeepPage, SearchTypeOK, indexVars, tripVars, pageVars
<1>3. CASE SearchFails(i)
  <2>1. [at |-> "failed", q |-> asked[i].q] \in Sought
    BY <1>3, <1>a, SoughtParts DEF SearchFails
  <2>2. asked' \in [Searches -> Sought] /\ upsets' \in 0 .. MaxSearchFaults
    BY <1>3, <1>a, <2>1 DEF SearchFails, SearchTypeOK
  <2> QED BY <1>3, <2>2 DEF SearchFails, SearchTypeOK, tripVars, pageVars
<1>4. CASE Answered(i)
  <2> DEFINE d == [q |-> asked[i].q, rows |-> asked[i].rows]
  <2>1. d \in [q : Queries, rows : SUBSET Rows]
    BY <1>4, <1>a, SoughtParts DEF Answered
  <2>2. results' = [results EXCEPT !.data = d, !.loading = FALSE]
    BY <1>4 DEF Answered
  <2> HIDE DEF d
  <2>3. asked' \in [Searches -> Sought]
    BY <1>4, <1>a, SoughtMade DEF Answered
  <2>4. results' \in [url : Queries, data : {Blank} \cup [q : Queries, rows : SUBSET Rows],
                      loading : BOOLEAN, error : BOOLEAN, marks : SUBSET Marks, hideSoldOut : BOOLEAN]
    BY <2>1, <2>2 DEF SearchTypeOK
  <2> QED BY <1>4, <2>3, <2>4 DEF Answered, SearchTypeOK, indexVars, tripVars
<1>5. CASE SearchRefused(i)
  <2>1. asked' \in [Searches -> Sought]
    BY <1>5, <1>a, SoughtMade DEF SearchRefused
  <2>2. results' \in [url : Queries, data : {Blank} \cup [q : Queries, rows : SUBSET Rows],
                      loading : BOOLEAN, error : BOOLEAN, marks : SUBSET Marks, hideSoldOut : BOOLEAN]
    BY <1>5 DEF SearchRefused, SearchTypeOK
  <2> QED BY <1>5, <2>1, <2>2 DEF SearchRefused, SearchTypeOK, indexVars, tripVars
<1> QED BY <1>0, <1>1, <1>2, <1>3, <1>4, <1>5

LEMMA SearchPageTypes == ASSUME SearchTypeOK, PageNext PROVE SearchTypeOK'
<1> USE SearchConstants
<1> DEFINE ResultsShown == [url : Queries, data : {Blank} \cup [q : Queries, rows : SUBSET Rows],
                     loading : BOOLEAN, error : BOOLEAN, marks : SUBSET Marks, hideSoldOut : BOOLEAN]
           Forms == [from : Cities, to : Cities, day : Days, error : BOOLEAN]
<1>r. results \in ResultsShown /\ results.url \in Queries /\ results.marks \in SUBSET Marks
      /\ results.hideSoldOut \in BOOLEAN
  BY DEF SearchTypeOK
<1>f. searchForm \in Forms /\ searchForm.from \in Cities /\ searchForm.to \in Cities /\ searchForm.day \in Days
  BY DEF SearchTypeOK
<1>k. ASSUME UNCHANGED <<indexVars, tripVars, cached>>, asked' \in [Searches -> Sought],
             results' \in ResultsShown, searchForm' \in Forms
      PROVE  SearchTypeOK'
  BY <1>k DEF SearchTypeOK, indexVars, tripVars
<1>s. ASSUME NEW q \in Queries, SendSearch(q), searchForm' \in Forms, UNCHANGED <<indexVars, tripVars, cached>>
      PROVE  SearchTypeOK'
  BY <1>s, <1>k, SentKeepsType
<1>q. ASSUME UNCHANGED asked PROVE asked' \in [Searches -> Sought]
  BY <1>q DEF SearchTypeOK
<1> HIDE DEF ResultsShown, Forms
<1>1. CASE RetrySearch
  BY <1>1, <1>r, <1>f, <1>s DEF RetrySearch
<1>2. CASE SwapCities
  <2>1. searchForm' \in Forms
    BY <1>2, <1>f DEF SwapCities, Forms
  <2> QED BY <1>2, <1>r, <1>k, <1>q, <2>1 DEF SwapCities
<1>3. CASE SubmitSearch
  <2> DEFINE q == [from |-> searchForm.from, to |-> searchForm.to, day |-> searchForm.day]
  <2>1. q \in Queries
    BY <1>f DEF Queries
  <2>2. /\ UNCHANGED <<indexVars, tripVars, cached>>
        /\ \E e \in BOOLEAN : searchForm' = [searchForm EXCEPT !.error = e]
        /\ UNCHANGED <<asked, results>> \/ SendSearch(q)
    BY <1>3 DEF SubmitSearch
  <2> HIDE DEF q
  <2>3. searchForm' \in Forms
    BY <1>f, <2>2 DEF Forms
  <2> QED BY <1>r, <1>k, <1>s, <1>q, <2>1, <2>2, <2>3
<1>4. CASE HideSoldOut
  <2>1. results' \in ResultsShown
    BY <1>4, <1>r DEF HideSoldOut, ResultsShown
  <2> QED BY <1>4, <1>f, <1>k, <1>q, <2>1 DEF HideSoldOut
<1>5. CASE ClearChips
  <2>1. results' \in ResultsShown
    BY <1>5, <1>r DEF ClearChips, ResultsShown
  <2> QED BY <1>5, <1>f, <1>k, <1>q, <2>1 DEF ClearChips
<1>6. ASSUME NEW d \in Days, PickDay(d) PROVE SearchTypeOK'
  <2>1. [results.url EXCEPT !.day = d] \in Queries
    BY <1>r DEF Queries
  <2> QED BY <1>6, <1>f, <1>s, <2>1 DEF PickDay
<1>7. ASSUME NEW f \in [from : Cities, to : Cities, day : Days, error : BOOLEAN], EditForm(f)
      PROVE  SearchTypeOK'
  BY <1>7, <1>r, <1>k, <1>q DEF EditForm, Forms
<1>8. ASSUME NEW m \in Marks, PressChip(m) PROVE SearchTypeOK'
  <2>1. results' \in ResultsShown
    BY <1>8, <1>r DEF PressChip, ResultsShown
  <2> QED BY <1>8, <1>f, <1>k, <1>q, <2>1 DEF PressChip
<1>9. ASSUME NEW r \in Rows, OpenTrip(r) PROVE SearchTypeOK'
  <2>1. results' \in ResultsShown
    BY <1>9, <1>r DEF OpenTrip, PageOn, ResultsShown
  <2>2. searchForm' \in Forms
    BY <1>9, <1>r DEF OpenTrip, Queries, Forms
  <2>3. asked' \in [Searches -> Sought]
    BY <1>9, <1>r, SoughtMade DEF OpenTrip, SearchTypeOK
  <2> QED BY <1>9, <1>k, <2>1, <2>2, <2>3 DEF OpenTrip
<1> QED BY <1>1, <1>2, <1>3, <1>4, <1>5, <1>6, <1>7, <1>8, <1>9 DEF PageNext

LEMMA LogKept == ASSUME SearchTyped, [SearchNext]_searchVars PROVE indexing' # Blank => seatLog' # <<>>
<1>t. SearchTypeOK /\ (indexing # Blank => seatLog # <<>>)
  BY DEF SearchTyped
<1>1. CASE UNCHANGED <<indexing, seatLog>>
  BY <1>1, <1>t
<1>2. CASE Touch \/ Invalidate \/ InvalidateFails \/ IndexerStops
  BY <1>2 DEF Touch, Invalidate, InvalidateFails, IndexerStops
<1>3. ASSUME NEW t \in Buses, SeatChange(t) PROVE indexing' # Blank => seatLog' # <<>>
  BY <1>3, <1>t DEF SeatChange, SearchTypeOK
<1>4. CASE AnswerNext
  BY <1>4, <1>1 DEF AnswerNext, Lookup, KeepPage, SearchFails, Answered, SearchRefused, indexVars
<1>5. CASE PageNext
  BY <1>5, <1>1 DEF PageNext, RetrySearch, SwapCities, SubmitSearch, HideSoldOut, ClearChips, PickDay,
                    EditForm, PressChip, OpenTrip, indexVars
<1>6. CASE UNCHANGED searchVars
  BY <1>6, <1>1 DEF searchVars, indexVars
<1>7. CASE IndexNext
  BY <1>1, <1>2, <1>3, <1>7 DEF IndexNext, ReindexReads, ReindexWrites, TripGone, PageExpires, indexVars
<1> QED BY <1>4, <1>5, <1>6, <1>7 DEF SearchNext

LEMMA SearchTypedKept == SearchTyped /\ [SearchNext]_searchVars => SearchTyped'
<1> SUFFICES ASSUME SearchTyped, [SearchNext]_searchVars PROVE SearchTyped'
    OBVIOUS
<1>1. CASE UNCHANGED searchVars
  <2>1. SearchTypeOK'
    BY <1>1 DEF searchVars, indexVars, tripVars, pageVars, SearchTypeOK, SearchTyped
  <2> QED BY <2>1, LogKept DEF SearchTyped
<1>2. CASE SearchNext
  <2>1. SearchTypeOK'
    BY <1>2, IndexTypes, AnswerTypes, SearchPageTypes DEF SearchNext, SearchTyped
  <2> QED BY <2>1, LogKept DEF SearchTyped
<1> QED BY <1>1, <1>2

\* The state of the search keeps its type.
LEMMA SearchTypes == SearchSpec => []SearchTypeOK
<1>1. SearchInit => SearchTyped
  BY SearchInitTypes DEF SearchTyped, SearchInit
<1>2. SearchTyped /\ [SearchNext]_searchVars => SearchTyped'
  BY SearchTypedKept
<1>3. SearchTyped => SearchTypeOK
  BY DEF SearchTyped
<1> QED BY <1>1, <1>2, <1>3, PTL DEF SearchSpec

\* While a row has been written and the cache not yet emptied, the event at the head is
\* the one of that row, and what is still owed to its trip comes after it.
Owed(t) == \E i \in DOMAIN seatLog : seatLog[i] = t /\ (indexing # Blank => i > 1)

IndexOwes == \A t \in Buses \ rebuilt : leg[t].free = free[t] \/ Owed(t)

LEMMA OwedKept ==
    ASSUME SearchTyped, IndexOwes, [SearchNext]_searchVars PROVE IndexOwes'
<1>t. /\ seatLog \in Seq(Buses) /\ (indexing # Blank => seatLog # <<>>)
      /\ leg \in [Buses -> Leg]
      /\ free \in [Buses -> 0 .. SeatsTotal]
  BY DEF SearchTyped, SearchTypeOK
<1>1. CASE UNCHANGED <<indexing, seatLog, leg, free, rebuilt>>
  BY <1>1 DEF IndexOwes, Owed
<1>2. CASE Touch
  <2> SUFFICES ASSUME NEW t \in Buses \ rebuilt' PROVE (leg[t].free = free[t])' \/ Owed(t)'
      BY DEF IndexOwes
  <2>1. CASE t = Head(seatLog)
    BY <1>2, <1>t, <2>1 DEF Touch, tripVars, Leg
  <2>2. CASE t # Head(seatLog)
    <3>1. t \in Buses \ rebuilt /\ leg'[t] = leg[t]
      BY <1>2, <1>t, <2>2 DEF Touch
    <3>2. CASE leg[t].free = free[t]
      BY <1>2, <3>1, <3>2 DEF Touch, tripVars
    <3>3. CASE Owed(t)
      <4>1. PICK i \in DOMAIN seatLog : seatLog[i] = t
        BY <3>3 DEF Owed
      <4>2. i > 1
        BY <1>t, <2>2, <4>1
      <4> QED BY <1>2, <4>1, <4>2 DEF Touch, Owed
    <3> QED BY <3>1, <3>2, <3>3 DEF IndexOwes
  <2> QED BY <2>1, <2>2
<1>3. CASE Invalidate \/ InvalidateFails
  <2> SUFFICES ASSUME NEW t \in Buses \ rebuilt' PROVE (leg[t].free = free[t])' \/ Owed(t)'
      BY DEF IndexOwes
  <2>1. /\ UNCHANGED <<leg, free, rebuilt>> /\ indexing # Blank /\ indexing' = Blank
        /\ seatLog' = Tail(seatLog)
    BY <1>3 DEF Invalidate, InvalidateFails, tripVars
  <2>2. CASE leg[t].free = free[t]
    BY <2>1, <2>2
  <2>3. CASE Owed(t)
    <3>1. PICK i \in DOMAIN seatLog : seatLog[i] = t /\ i > 1
      BY <2>1, <2>3 DEF Owed
    <3>2. i - 1 \in DOMAIN seatLog' /\ seatLog'[i - 1] = t
      BY <1>t, <2>1, <3>1
    <3> QED BY <2>1, <3>2 DEF Owed
  <2> QED BY <2>1, <2>2, <2>3 DEF IndexOwes
<1>4. CASE IndexerStops
  BY <1>4 DEF IndexerStops, IndexOwes, Owed, tripVars
<1>5. CASE ReindexWrites
  BY <1>5 DEF ReindexWrites, IndexOwes
<1>6. ASSUME NEW t \in Buses, SeatChange(t) PROVE IndexOwes'
  <2> SUFFICES ASSUME NEW u \in Buses \ rebuilt' PROVE (leg[u].free = free[u])' \/ Owed(u)'
      BY DEF IndexOwes
  <2>1. /\ UNCHANGED <<leg, rebuilt, indexing>> /\ seatLog' = Append(seatLog, t)
        /\ u # t => free'[u] = free[u]
    BY <1>6, <1>t DEF SeatChange
  <2>2. CASE u = t
    <3>1. Len(seatLog) + 1 \in DOMAIN seatLog' /\ seatLog'[Len(seatLog) + 1] = u
      BY <1>t, <2>1, <2>2
    <3>2. indexing' # Blank => Len(seatLog) + 1 > 1
      BY <1>t, <2>1
    <3> QED BY <3>1, <3>2 DEF Owed
  <2>3. CASE u # t /\ leg[u].free = free[u]
    BY <2>1, <2>3
  <2>4. CASE u # t /\ Owed(u)
    <3>1. PICK i \in DOMAIN seatLog : seatLog[i] = u /\ (indexing # Blank => i > 1)
      BY <2>4 DEF Owed
    <3>2. i \in DOMAIN seatLog' /\ seatLog'[i] = u
      BY <1>t, <2>1, <3>1
    <3> QED BY <2>1, <3>1, <3>2 DEF Owed
  <2> QED BY <2>1, <2>2, <2>3, <2>4 DEF IndexOwes
<1>7. CASE AnswerNext
  BY <1>7, <1>1 DEF AnswerNext, Lookup, KeepPage, SearchFails, Answered, SearchRefused, indexVars, tripVars
<1>8. CASE PageNext
  BY <1>8, <1>1 DEF PageNext, RetrySearch, SwapCities, SubmitSearch, HideSoldOut, ClearChips, PickDay,
                    EditForm, PressChip, OpenTrip, indexVars, tripVars
<1>9. CASE UNCHANGED searchVars
  BY <1>9, <1>1 DEF searchVars, indexVars, tripVars
<1>10. CASE IndexNext
  BY <1>1, <1>2, <1>3, <1>4, <1>5, <1>6, <1>10
     DEF IndexNext, ReindexReads, TripGone, PageExpires, indexVars, tripVars
<1> QED BY <1>7, <1>8, <1>9, <1>10 DEF SearchNext

\* The index is never behind for good, but for what a Reindex wrote: a count that is
\* wrong has its event ahead of the consumer.
THEOREM StaleIndexIsOwed == SearchSpec => []StaleOnlyWhileOwed
<1>1. SearchInit => SearchTyped /\ IndexOwes
  BY SearchInitTypes DEF SearchTyped, SearchInit, IndexOwes
<1>2. (SearchTyped /\ IndexOwes) /\ [SearchNext]_searchVars => (SearchTyped /\ IndexOwes)'
  BY SearchTypedKept, OwedKept
<1>3. SearchTyped /\ IndexOwes => StaleOnlyWhileOwed
  BY DEF IndexOwes, Owed, StaleOnlyWhileOwed
<1> QED BY <1>1, <1>2, <1>3, PTL DEF SearchSpec

-----------------------------------------------------------------------------
(* Platform                                                                 *)

\* Whatever the constants of the nine parts, what they store and show keeps its type:
\* PlatformTypeOK.
THEOREM PlatformTypes == PlatformSpec => []PlatformTypeOK
BY SessionTypes, PromoTypes, SearchTypes, BusTypes, RiskTypes, PartnersTypes, PanelTypes,
   HelpdeskTypes, BoardingTypes, PTL DEF PlatformSpec, PlatformTypeOK

\* However late and in whatever order the answers come, the counter sells from the list
\* it last asked for and the help desk reads the bookings it last asked for:
\* DesksShowTheLastAsked.
THEOREM DesksAlwaysShowTheLastAsked == PlatformSpec => []DesksShowTheLastAsked
BY ListAlwaysOfLastSearch, SearchAlwaysAnswersLast, PTL DEF PlatformSpec, DesksShowTheLastAsked
=============================================================================
