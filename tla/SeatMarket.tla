----------------------------- MODULE SeatMarket -----------------------------
(***************************************************************************)
(* What inventory-service promises the rest of the platform, stated        *)
(* without masks, items or statuses: every segment of every seat is either *)
(* free or in the hands of exactly one owner, an owner takes cells only    *)
(* while they are free, sells or returns ALL the cells it has, and nobody  *)
(* else can move them.  Inventory implements this specification.           *)
(***************************************************************************)
EXTENDS FiniteSets

CONSTANTS Seats, Segments, Holds, Counters

VARIABLE rights      \* the claims on each cell <<seat, segment>>

Cells  == Seats \X Segments
Claims == [kind : {"held", "sold"}, who : Holds]
            \cup [kind : {"quota"}, who : Counters]

Held(h)  == [kind |-> "held", who |-> h]
Sold(h)  == [kind |-> "sold", who |-> h]
Quota(c) == [kind |-> "quota", who |-> c]

CellsOf(claim) == {cell \in Cells : claim \in rights[cell]}
OwnsNothing(h) == CellsOf(Held(h)) \cup CellsOf(Sold(h)) = {}

\* The cells of C change hands: their claims become exactly new.
Grant(C, new) == rights' = [cell \in Cells |-> IF cell \in C THEN new
                                                             ELSE rights[cell]]

Init == rights = [cell \in Cells |-> {}]

\* A traveller who owns nothing yet, or a counter, takes free cells.
Take(claim, C) ==
    /\ C # {}
    /\ \A cell \in C : rights[cell] = {}
    /\ claim.kind = "held" => OwnsNothing(claim.who)
    /\ claim.kind # "sold"
    /\ Grant(C, {claim})

\* A hold is paid for: everything it has, and nothing else, is sold to it.
Buy(h) ==
    /\ CellsOf(Held(h)) # {}
    /\ Grant(CellsOf(Held(h)), {Sold(h)})

\* A counter turns part of its own quota into a sale.
CounterSells(c, h, C) ==
    /\ C # {} /\ C \subseteq CellsOf(Quota(c))
    /\ OwnsNothing(h)
    /\ Grant(C, {Sold(h)})

\* Some owners give back everything of one kind that they have.
GiveBack(kind, H) ==
    Grant(UNION {CellsOf([kind |-> kind, who |-> h]) : h \in H}, {})

\* A counter gives back some of its quota.
CounterReturns(c, C) ==
    /\ C \subseteq CellsOf(Quota(c))
    /\ Grant(C, {})

Next ==
    \/ \E claim \in Claims, C \in SUBSET Cells : Take(claim, C)
    \/ \E h \in Holds : Buy(h)
    \/ \E c \in Counters, h \in Holds, C \in SUBSET Cells : CounterSells(c, h, C)
    \/ \E kind \in {"held", "sold"}, H \in SUBSET Holds : GiveBack(kind, H)
    \/ \E c \in Counters, C \in SUBSET Cells : CounterReturns(c, C)

Spec == Init /\ [][Next]_rights
=============================================================================
