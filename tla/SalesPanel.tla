----------------------------- MODULE SalesPanel -----------------------------
(***************************************************************************)
(* How a clerk gets from a journey to the seats to sell: the panel of the  *)
(* counter (OnlineSale of app/counter/page.tsx) and the page of the agent  *)
(* (app/agent/sell/page.tsx), from the search to the picked seats.  What   *)
(* becomes of the sale is the part of CounterDesk and AgentDesk; here it   *)
(* ends in a receipt or a refusal.                                         *)
(*                                                                         *)
(* Every answer comes when it likes and is shown wherever the page is by   *)
(* then.  A list stands for the journey it was asked for, a seat map for   *)
(* the trip it is of.                                                      *)
(***************************************************************************)
CONSTANTS
    Journeys,       \* what can be typed into the form
    TripsOn,        \* TripsOn[j]: the trips a search for j finds
    SeatNos,        \* seat numbers, the same on every bus
    Nowhere         \* no journey, no trip

\* The form always has a journey in it.
ASSUME PanelConstants == Journeys # {}

Panels == {"counter", "agent"}
Trips  == UNION {TripsOn[j] : j \in Journeys}

VARIABLES
    panel,          \* panel[p]: the state of the page
    searchesOut,    \* searchesOut[p]: journeys asked for and not answered
    mapsOut         \* mapsOut[p]: trips whose seat map is asked for

panelVars == <<panel, searchesOut, mapsOut>>

\* The type of the state.
PanelTypeOK ==
    /\ panel \in [Panels -> [form : Journeys, asked : Journeys \cup {Nowhere},
                             list : Journeys \cup {Nowhere}, trip : Trips \cup {Nowhere},
                             seats : Trips \cup {Nowhere}, picked : SUBSET SeatNos,
                             selling : Trips \cup {Nowhere}, searching : BOOLEAN,
                             error : BOOLEAN, receipt : BOOLEAN]]
    /\ searchesOut \in [Panels -> SUBSET Journeys]
    /\ mapsOut \in [Panels -> SUBSET Trips]

PanelInit ==
    /\ panel = [p \in Panels |-> [form |-> CHOOSE j \in Journeys : TRUE, asked |-> Nowhere,
                                  list |-> Nowhere, trip |-> Nowhere, seats |-> Nowhere,
                                  picked |-> {}, selling |-> Nowhere, searching |-> FALSE,
                                  error |-> FALSE, receipt |-> FALSE]]
    /\ searchesOut = [p \in Panels |-> {}]
    /\ mapsOut = [p \in Panels |-> {}]

-----------------------------------------------------------------------------
(* The search                                                               *)

\* The form stands above the list and the trip, not above a receipt.
CounterForm(j) ==
    /\ ~ panel["counter"].receipt /\ panel["counter"].form # j
    /\ panel' = [panel EXCEPT !["counter"].form = j]
    /\ UNCHANGED <<searchesOut, mapsOut>>

AgentForm(j) ==
    /\ ~ panel["agent"].receipt /\ panel["agent"].form # j
    /\ panel' = [panel EXCEPT !["agent"].form = j]
    /\ UNCHANGED <<searchesOut, mapsOut>>

\* The counter's button not waiting for the answer.
CounterSearchesAgain ==
    /\ ~ panel["counter"].receipt
    /\ panel' = [panel EXCEPT !["counter"] = [@ EXCEPT
           !.asked = panel["counter"].form, !.searching = TRUE, !.error = FALSE, !.trip = Nowhere, !.list = Nowhere]]
    /\ searchesOut' = [searchesOut EXCEPT !["counter"] = @ \cup {panel["counter"].form}]
    /\ UNCHANGED mapsOut

\* The counter's list goes at once, and its button waits for the next one.
CounterSearches ==
    /\ ~ panel["counter"].receipt /\ ~ panel["counter"].searching
    /\ panel' = [panel EXCEPT !["counter"] = [@ EXCEPT
           !.asked = panel["counter"].form, !.searching = TRUE, !.error = FALSE, !.trip = Nowhere, !.list = Nowhere]]
    /\ searchesOut' = [searchesOut EXCEPT !["counter"] = @ \cup {panel["counter"].form}]
    /\ UNCHANGED mapsOut

\* The agent's list stays, and its button waits for nothing.
AgentSearches ==
    /\ ~ panel["agent"].receipt
    /\ panel' = [panel EXCEPT !["agent"] = [@ EXCEPT
           !.asked = panel["agent"].form, !.error = FALSE, !.trip = Nowhere]]
    /\ searchesOut' = [searchesOut EXCEPT !["agent"] = @ \cup {panel["agent"].form}]
    /\ UNCHANGED mapsOut

ListComes(p, j) ==
    /\ j \in searchesOut[p]
    /\ panel' = [panel EXCEPT ![p].list = j, ![p].searching = FALSE]
    /\ searchesOut' = [searchesOut EXCEPT ![p] = @ \ {j}]
    /\ UNCHANGED mapsOut

ListFails(p, j) ==
    /\ j \in searchesOut[p]
    /\ panel' = [panel EXCEPT ![p].error = TRUE, ![p].searching = FALSE]
    /\ searchesOut' = [searchesOut EXCEPT ![p] = @ \ {j}]
    /\ UNCHANGED mapsOut

-----------------------------------------------------------------------------
(* A trip and its seats                                                     *)

\* The list is in reach while no trip is open.
OnOffer(p, t) ==
    /\ panel[p].trip = Nowhere
    /\ panel[p].list # Nowhere /\ t \in TripsOn[panel[p].list]

\* openTrip(): the picks go and the map is asked for; the map of the trip before
\* stays until it comes.  The keys of the counter work under the receipt too, and
\* it goes.
CounterOpens(t) ==
    /\ OnOffer("counter", t)
    /\ panel' = [panel EXCEPT !["counter"] = [@ EXCEPT !.trip = t, !.picked = {}, !.error = FALSE,
                                                        !.receipt = FALSE]]
    /\ mapsOut' = [mapsOut EXCEPT !["counter"] = @ \cup {t}]
    /\ UNCHANGED searchesOut

AgentOpens(t) ==
    /\ OnOffer("agent", t) /\ ~ panel["agent"].receipt
    /\ panel' = [panel EXCEPT !["agent"] = [@ EXCEPT !.trip = t, !.picked = {}]]
    /\ mapsOut' = [mapsOut EXCEPT !["agent"] = @ \cup {t}]
    /\ UNCHANGED searchesOut

MapComes(p, t) ==
    /\ t \in mapsOut[p]
    /\ panel' = [panel EXCEPT ![p].seats = t]
    /\ mapsOut' = [mapsOut EXCEPT ![p] = @ \ {t}]
    /\ UNCHANGED searchesOut

\* Nobody catches the error.
MapFails(p, t) ==
    /\ t \in mapsOut[p]
    /\ mapsOut' = [mapsOut EXCEPT ![p] = @ \ {t}]
    /\ UNCHANGED <<panel, searchesOut>>

\* A seat of the map on the screen.
PickSeat(p, s) ==
    /\ ~ panel[p].receipt /\ panel[p].trip # Nowhere /\ panel[p].seats # Nowhere
    /\ panel' = [panel EXCEPT ![p].picked = (@ \cup {s}) \ (@ \cap {s})]
    /\ UNCHANGED <<searchesOut, mapsOut>>

\* Change, or Esc at the counter: back to the list, and from there to the form.
LeaveTrip(p) ==
    /\ panel[p].receipt => p = "counter"
    /\ panel[p].trip # Nowhere
    /\ panel' = [panel EXCEPT ![p].trip = Nowhere]
    /\ UNCHANGED <<searchesOut, mapsOut>>

LeaveList ==
    /\ panel["counter"].trip = Nowhere /\ panel["counter"].list # Nowhere
    /\ panel' = [panel EXCEPT !["counter"].list = Nowhere]
    /\ UNCHANGED <<searchesOut, mapsOut>>

-----------------------------------------------------------------------------
(* The end of a sale                                                        *)

\* The button to sell; everything else on the page stays in reach while the sale is
\* under way.
PressSell(p) ==
    /\ ~ panel[p].receipt /\ panel[p].selling = Nowhere
    /\ panel[p].trip # Nowhere /\ panel[p].picked # {}
    /\ panel' = [panel EXCEPT ![p].selling = panel[p].trip, ![p].error = FALSE]
    /\ UNCHANGED <<searchesOut, mapsOut>>

\* The receipt takes the place of the panel, and the counter asks for the map of the
\* trip it sold.
SaleDone(p) ==
    /\ panel[p].selling # Nowhere
    /\ panel' = [panel EXCEPT ![p] = [@ EXCEPT !.selling = Nowhere, !.receipt = TRUE, !.picked = {}]]
    /\ mapsOut' = IF p = "counter" THEN [mapsOut EXCEPT ![p] = @ \cup {panel[p].selling}] ELSE mapsOut
    /\ UNCHANGED searchesOut

\* A refusal; if a seat was taken meanwhile the picks go, and the map is asked for again.
SaleRefused(p, seatsGone) ==
    /\ panel[p].selling # Nowhere
    /\ panel' = [panel EXCEPT ![p] = [@ EXCEPT !.selling = Nowhere, !.error = TRUE,
                                              !.picked = IF seatsGone THEN {} ELSE panel[p].picked]]
    /\ mapsOut' = IF seatsGone THEN [mapsOut EXCEPT ![p] = @ \cup {panel[p].selling}] ELSE mapsOut
    /\ UNCHANGED searchesOut

\* The next customer: the form is left, with what was typed.
NextCustomer(p) ==
    /\ panel[p].receipt
    /\ panel' = [panel EXCEPT ![p] = [@ EXCEPT !.receipt = FALSE, !.trip = Nowhere, !.list = Nowhere]]
    /\ UNCHANGED <<searchesOut, mapsOut>>

CounterPanelNext ==
    \/ CounterSearches \/ LeaveList
    \/ \E j \in Journeys : CounterForm(j)
    \/ \E t \in Trips : CounterOpens(t)

AgentPanelNext ==
    \/ AgentSearches
    \/ \E j \in Journeys : AgentForm(j)
    \/ \E t \in Trips : AgentOpens(t)

PanelNext ==
    \/ CounterPanelNext \/ AgentPanelNext
    \/ \E p \in Panels :
           \/ LeaveTrip(p) \/ PressSell(p) \/ SaleDone(p) \/ NextCustomer(p)
           \/ \E gone \in BOOLEAN : SaleRefused(p, gone)
           \/ \E j \in Journeys : ListComes(p, j) \/ ListFails(p, j)
           \/ \E t \in Trips : MapComes(p, t) \/ MapFails(p, t)
           \/ \E s \in SeatNos : PickSeat(p, s)

PanelSpec == PanelInit /\ [][PanelNext]_panelVars

-----------------------------------------------------------------------------
(* Properties                                                               *)

\* The list a clerk at the counter sells from is the one last asked for, whatever came
\* late and whatever was cleared meanwhile (counter/page.tsx:179-190, 300).
ListOfLastSearch == panel["counter"].list \in {Nowhere, panel["counter"].asked}

\* The agent's page does not keep the same (agent/sell/page.tsx:58-66).
AgentListOfLastSearch == panel["agent"].list \in {Nowhere, panel["agent"].asked}

\* And neither page keeps this: seats are picked from the map of the trip they are sold
\* on (counter/page.tsx:192-196, agent/sell/page.tsx:68-71).
PickedFromOpenTrip == \A p \in Panels : panel[p].picked # {} => panel[p].seats = panel[p].trip
=============================================================================
