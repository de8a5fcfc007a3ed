----------------------------- MODULE MCPlatform -----------------------------
(* Instances for TLC of the parts that stand beside the sale: the           *)
(* passenger's sign-in (Session), coupons (Promo), the search (Search),     *)
(* the event backbone (EventBus), the risk engine (Risk), the partners      *)
(* (Partners), the clerk's and the agent's way to the seats (SalesPanel),   *)
(* the help desk (Helpdesk) and the door of the bus (Boarding).  They share *)
(* no state here, so the product of their states would show nothing more: a *)
(* behaviour is about one of them.  The search has two plots: in "index"    *)
(* the seats and the index move and the page only asks; in "results" they   *)
(* stand still.                                                             *)
EXTENDS Platform, TLC

CONSTANTS l1, l2, act,
          c1, f1, f2, u1, u2, i1, i2, here, there, y1, y2, t1, ac, r1, r2, e1, e2, e3, g1, g2, a1, d1,
          j1, j2, b1, b2, s1, q1, q2, h1,
          v1, x1, x2, o1, o2, n1, n2, n3
VARIABLE plot

TwoLoads == {l1, l2}

OneCode       == {c1}
TwoPhones     == {f1, f2}
TwoCheckouts  == {u1, u2}
CapOfOne      == {1}
TwoInvites    == {i1, i2}

TwoCities   == {here, there}
TwoDays     == {y1, y2}
OneBus      == {t1}
OnItsWay    == t1 :> [from |-> here, to |-> there, day |-> y1]
OneMark     == {ac}
BusHasIt    == t1 :> {ac}
TwoSearches == {r1, r2}

TwoEvents == {e1, e2}
AllEvents == {e1, e2, e3}
OneMisfit == {e3}
OneAdvert == {e2}
TwoRelays == {g1, g2}
TwoAggregators == <<"primary", "secondary">>

\* A rule that starts in shadow, and one that opens a case at every request.
OneAddress    == {a1}
TwoRules      == <<Severity.RATE_LIMIT, Severity.REVIEW>>
TwoThresholds == <<2, 1>>
ShadowFirst   == <<"SHADOW", "ENFORCING">>
OneDelivery   == {d1}

TwoJourneys   == {j1, j2}
OneTripEach   == (j1 :> {b1}) @@ (j2 :> {b2})
OneSeat       == {s1}
TwoQuestions  == {q1, q2}
OneCase       == {h1}

\* n1 has ticket 1, of this departure, n2 has ticket 2, of another one, and n3 none.
OneDevice   == {v1}
TwoScans    == {x1, x2}
TwoConns    == {o1, o2}
TwoTickets  == 1 .. 2
ThreePnrs   == {n1, n2, n3}
TheirPnrs   == <<n1, n2>>

\* Scans and connections are alike, and no invariant tells them apart.
Alike == Permutations(TwoScans) \cup Permutations(TwoConns)

MCInit ==
    /\ plot \in {"passenger", "coupons", "offers", "index", "results", "events", "consoles",
                "risk", "partners", "clerk", "agent", "finding", "cases", "door"}
    /\ SessionInit /\ PromoInit /\ SearchInit /\ BusInit /\ RiskInit /\ PartnersInit
    /\ PanelInit /\ HelpdeskInit /\ BoardingInit
    /\ caseRow[h1].status = (IF plot = "cases" THEN "OPEN" ELSE "none")
    /\ plot = "results" \/ results.url = OnItsWay[t1]
    /\ asked[r1] # Nothing
    /\ \/ plot = "events" /\ pending \in {TwoEvents, OneMisfit}
       \/ plot = "consoles" /\ pending = OneAdvert
       \/ plot \notin {"events", "consoles"} /\ pending = {}

\* A code is asked for and typed before the first sign-in alone; later ones are by
\* password.  Of the two calls of a load, which are alike, the first may be lost.
PassengerPlot ==
    /\ SessionNext
    /\ ~ (/\ Len(grant) > 0 /\ call[Act] = Idle /\ call'[Act] # Idle
          /\ call'[Act].what \in {"ask", "verify"})
    /\ call'[l2].at # "broken"

\* One search at a time while the index moves; once a trip has gone, Reindex alone goes on.
IndexPlot ==
    /\ \/ IndexNext
       \/ AnswerNext \/ RetrySearch
       \/ \E d \in TwoDays : PickDay(d)
    /\ gone # {} => rebuild' # rebuild
    /\ gone' # gone => rebuild = Blank /\ seatLog = <<>>
    /\ asked'[r2] = Nothing

\* Two at a time while it stands still and answers; nobody edits the form meanwhile.
ResultsPlot ==
    /\ AnswerNext \/ PageNext
    /\ searchForm' # searchForm => \A i \in TwoSearches : asked[i] = Nothing
    /\ UNCHANGED upsets

Buying == \E b \in Purchases : purchase'[b] # purchase[b]

CouponPlot ==
    /\ PromoNext
    /\ UNCHANGED <<offers, promoDesk, invitation>>

PagesPlot == PromoNext /\ ~ Buying

\* The providers work and the pages load.
EventsPlot == LogNext \/ WalkNext \/ DispatchNext \/ LoadEvents \/ Replayed \/ ReplayStops
                 \/ \E e \in TwoEvents : PressReplay(e)

\* One process relays and no process stops.
ConsolesPlot ==
    /\ BusNext /\ relaying'[g2] = NoEvent
    /\ mishaps' # mishaps => UNCHANGED <<relaying, walk, worker>>

\* The admin only moves the rule that began in shadow; the console fails to load at most
\* before its first lists came; and nobody works at it while a request is weighed.
RiskPlot ==
    /\ RiskNext
    /\ rule'[2].mode = "ENFORCING"
    /\ riskDesk'.error => ~ riskDesk'.there /\ fired'[a1] = {}
    /\ riskDesk' # riskDesk => asking[a1].at # "weighing"

\* The account of the partner changes while nothing is queued, and then stands still.
PartnersPlot ==
    /\ PartnersNext
    /\ delivery'[d1].status # "none" => partner' = partner /\ partner.calls = 0 /\ ~ partnerDesk'.error

\* One counter, one agent; they share nothing on these pages.
ClerkPlot == PanelNext /\ panel'["agent"] = panel["agent"] /\ searchesOut'["agent"] = {} /\ mapsOut'["agent"] = {}
AgentPlot == PanelNext /\ panel'["counter"] = panel["counter"] /\ searchesOut'["counter"] = {} /\ mapsOut'["counter"] = {}

\* The list is loaded by itself before the first scan.  Ticket 2 is refused whatever
\* its status, and no seat need be named where a booking has one ticket.
DoorPlot ==
    /\ BoardingNext
    /\ manifest' # manifest /\ UNCHANGED conn => \A r \in TwoScans : scan[r] = Unread
    /\ ticket'[2] # "CANCELLED"
    /\ \A r \in TwoScans : scan'[r] # Unread => scan'[r].seat = AnySeat

MCNext ==
    /\ UNCHANGED plot
    /\ \/ /\ plot = "passenger" /\ PassengerPlot
          /\ UNCHANGED <<promoVars, searchVars, busVars, riskVars, partnerVars, panelVars, deskVars, boardingVars>>
       \/ /\ \/ plot = "coupons" /\ CouponPlot
             \/ plot = "offers" /\ PagesPlot
          /\ UNCHANGED <<sessionVars, searchVars, busVars, riskVars, partnerVars, panelVars, deskVars, boardingVars>>
       \/ /\ \/ plot = "index" /\ IndexPlot
             \/ plot = "results" /\ ResultsPlot
          /\ UNCHANGED <<sessionVars, promoVars, busVars, riskVars, partnerVars, panelVars, deskVars, boardingVars>>
       \/ /\ \/ plot = "events" /\ EventsPlot
             \/ plot = "consoles" /\ ConsolesPlot
          /\ UNCHANGED <<sessionVars, promoVars, searchVars, riskVars, partnerVars, panelVars, deskVars, boardingVars>>
       \/ /\ plot = "risk" /\ RiskPlot
          /\ UNCHANGED <<sessionVars, promoVars, searchVars, busVars, partnerVars, panelVars, deskVars, boardingVars>>
       \/ /\ plot = "partners" /\ PartnersPlot
          /\ UNCHANGED <<sessionVars, promoVars, searchVars, busVars, riskVars, panelVars, deskVars, boardingVars>>
       \/ /\ \/ plot = "clerk" /\ ClerkPlot
             \/ plot = "agent" /\ AgentPlot
          /\ UNCHANGED <<sessionVars, promoVars, searchVars, busVars, riskVars, partnerVars, deskVars, boardingVars>>
       \/ /\ \/ plot = "finding" /\ (FindNext \/ OpenCaseNext)
             \/ plot = "cases" /\ CasesNext
          /\ UNCHANGED <<sessionVars, promoVars, searchVars, busVars, riskVars, partnerVars, panelVars, boardingVars>>
       \/ /\ plot = "door" /\ DoorPlot
          /\ UNCHANGED <<sessionVars, promoVars, searchVars, busVars, riskVars, partnerVars, panelVars, deskVars>>
       \/ /\ plot \in {"coupons", "offers", "door"}  \* all checkouts may be done, and all scans
          /\ UNCHANGED <<sessionVars, promoVars, searchVars, busVars, riskVars, partnerVars, panelVars, deskVars, boardingVars>>

MCSteps == [][MCNext]_<<sessionVars, promoVars, searchVars, busVars, riskVars, partnerVars,
                        panelVars, deskVars, boardingVars, plot>>

\* The two parts something is eventually expected of have a run of their own, without
\* symmetry.
OnceInit == MCInit /\ plot \notin {"passenger", "index"}
LiveInit == MCInit /\ plot \in {"passenger", "index"}

MCSpec     == OnceInit /\ MCSteps
MCLiveSpec == LiveInit /\ MCSteps /\ SessionFairness /\ SearchFairness
=============================================================================
