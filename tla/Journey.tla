------------------------------ MODULE Journey ------------------------------
(***************************************************************************)
(* A passenger's way from the seat map on: buying a ticket (Checkout) and  *)
(* the booking at hand (MyBooking).  They share no state here: the         *)
(* behaviours of the whole are those in which each part goes its way.      *)
(***************************************************************************)
EXTENDS Checkout, MyBooking

JourneySpec == Spec /\ MyBookingSpec

\* The types of both parts (checkout/page.tsx, manage/[pnr]/page.tsx and the handlers
\* behind them).
JourneyTypeOK == TypeOK /\ MyBookingTypeOK
=============================================================================
