------------------------------ MODULE Platform ------------------------------
(***************************************************************************)
(* The parts that stand beside the sale: the passenger's sign-in           *)
(* (Session), coupons (Promo), the search (Search), the event backbone     *)
(* (EventBus), the risk engine (Risk), the partners (Partners), the        *)
(* clerk's and the agent's way to the seats (SalesPanel), the help desk    *)
(* (Helpdesk) and the door of the bus (Boarding).  They share no state     *)
(* here: the behaviours of the whole are those in which each part goes its *)
(* way.                                                                    *)
(***************************************************************************)
EXTENDS Session, Promo, Search, EventBus, Risk, Partners, SalesPanel, Helpdesk, Boarding

PlatformSpec ==
    /\ SessionSpec /\ PromoSpec /\ SearchSpec /\ BusSpec /\ RiskSpec /\ PartnersSpec
    /\ PanelSpec /\ HelpdeskSpec /\ BoardingSpec

\* The types of the nine parts (lib/auth.ts, promo.go, searchidx.go, bus.go and their
\* pages).
PlatformTypeOK == SessionTypeOK /\ PromoTypeOK /\ SearchTypeOK /\ BusTypeOK
                      /\ RiskTypeOK /\ PartnersTypeOK /\ PanelTypeOK /\ HelpdeskTypeOK
                      /\ BoardingTypeOK

\* What a desk shows is what was last asked there, whatever came late: the trips on sale
\* at the counter (counter/page.tsx:179-190, 300) and the bookings found for a passenger
\* on the phone (helpdesk/page.tsx:27-36, 51).
DesksShowTheLastAsked == ListOfLastSearch /\ SearchAnswersLast
=============================================================================
