-------------------------- MODULE CounterDeskProofs --------------------------
(***************************************************************************)
(* The theorems about CounterDesk, for every number of terminals, seats,    *)
(* shifts, sales and connections.                                           *)
(***************************************************************************)
EXTENDS CounterDesk, DataProofs

SoldOnline(r) == sale[r] # NoSale /\ sale[r].kind = "online"

\* A flush has claimed its current sale and is doing its work.
Working(c) == conn[c].kind = "flush" /\ conn[c].todo # <<>> /\ conn[c].at # "start"

\* A flush carries offline sales, a sale an online one; what a flush has settled has its
\* row, and what it works on has been claimed, and is not ticketed before it says so.
RequestSound(c) ==
    /\ conn[c].kind = "flush" =>
         /\ \A i \in 1 .. Len(conn[c].todo) : Offline(conn[c].todo[i])
         /\ \A r \in conn[c].settled : row[r] # "none"
    /\ conn[c].kind = "sale" =>
         /\ \A i \in 1 .. Len(conn[c].todo) : SoldOnline(conn[c].todo[i])
         /\ conn[c].at # "seats"
    /\ Working(c) =>
         /\ row[Current(c)] = "REPLAYED"
         /\ conn[c].at # "drawer" => stage[Current(c)] # "ticketed"

RequestsSound == \A c \in Conns : RequestSound(c)

\* Two flushes never work on the same sale.
Apart == \A c, d \in Conns : c # d /\ Working(c) /\ Working(d) => Current(c) # Current(d)

\* Rows are of offline sales; who is not claimed is not ticketed by a flush.
SaleSound(r) ==
    /\ row[r] # "none" => Offline(r)
    /\ row[r] = "none" /\ ~ SoldOnline(r) => stage[r] # "ticketed"
    /\ row[r] = "REJECTED" => stage[r] # "ticketed"
    /\ SoldOnline(r) => sale[r].total > 0
    /\ Offline(r) /\ row[r] = "none" => Contains(queue[sale[r].at], r)

SalesSound == \A r \in Sales : SaleSound(r)

QueuesSound == \A t \in Terminals : \A i \in 1 .. Len(queue[t]) : Offline(queue[t][i])

DeskSound == TypeOK /\ RequestsSound /\ Apart /\ SalesSound /\ QueuesSound


-----------------------------------------------------------------------------
(* Types                                                                    *)

LEMMA IdleIsNoRequest == Idle \notin Requests /\ Idle.kind = "idle"
BY DEF Idle, Requests

LEMMA TypesSplit ==
    TypeOK => /\ owner \in [Seats -> {"free", "quota", "elsewhere"} \cup Sales]
              /\ row \in [Sales -> {"none", "REPLAYED", "REJECTED"}]
              /\ stage \in [Sales -> Stages] /\ drawer \in [Sales -> Shifts \cup {None}]
              /\ shift \in [Shifts -> {"none", "OPEN", "CLOSED"}]
              /\ counted \in [Shifts -> SUBSET Sales] /\ sale \in [Sales -> {NoSale} \cup SaleRows]
              /\ online \in [Terminals -> BOOLEAN]
              /\ ctx \in [Terminals -> Contexts \cup {QuotaPage, NoPage}]
              /\ cache \in [Terminals -> SUBSET Seats] /\ queue \in [Terminals -> Seq(Sales)]
              /\ shell \in [Terminals -> BOOLEAN] /\ confirming \in [Terminals -> SUBSET Seats]
              /\ conn \in [Conns -> {Idle} \cup Requests]
BY DEF TypeOK

\* A request one can look into.
LEMMA RequestParts ==
    ASSUME TypeOK, NEW c \in Conns, conn[c] # Idle
    PROVE  /\ conn[c] \in Requests /\ conn[c].kind \in {"flush", "sale"} /\ conn[c].from \in Terminals
           /\ conn[c].todo \in Seq(Sales) /\ conn[c].settled \in SUBSET Sales
           /\ conn[c].at \in {"start", "seats", "pay", "ticket", "drawer"} /\ conn[c].refused \in BOOLEAN
           /\ conn[c].todo # <<>> => Current(c) \in Sales /\ Current(c) = conn[c].todo[1]
                                     /\ 1 \in 1 .. Len(conn[c].todo)
<1>1. conn[c] \in Requests
  BY DEF TypeOK
<1>2. /\ conn[c].kind \in {"flush", "sale"} /\ conn[c].from \in Terminals
      /\ conn[c].todo \in Seq(Sales) /\ conn[c].settled \in SUBSET Sales
      /\ conn[c].at \in {"start", "seats", "pay", "ticket", "drawer"} /\ conn[c].refused \in BOOLEAN
  BY <1>1 DEF Requests
<1> QED BY <1>1, <1>2 DEF Current

LEMMA TailParts ==
    ASSUME NEW q \in Seq(Sales), q # <<>>
    PROVE  /\ Tail(q) \in Seq(Sales)
           /\ \A i \in 1 .. Len(Tail(q)) : i + 1 \in 1 .. Len(q) /\ Tail(q)[i] = q[i + 1]
OBVIOUS

\* What the handlers and the pages make of a request.
LEMMA RequestUpdates ==
    ASSUME NEW q \in Requests
    PROVE  /\ \A at \in {"start", "seats", "pay", "ticket", "drawer"} : [q EXCEPT !.at = at] \in Requests
           /\ \A todo \in Seq(Sales) : [q EXCEPT !.todo = todo] \in Requests
           /\ \A todo \in Seq(Sales), S \in SUBSET Sales, b \in BOOLEAN :
                 [q EXCEPT !.todo = todo, !.at = "start", !.settled = S, !.refused = b] \in Requests
BY DEF Requests

LEMMA NewRequest ==
    ASSUME NEW k \in {"flush", "sale"}, NEW t \in Terminals, NEW q \in Seq(Sales)
    PROVE  [kind |-> k, from |-> t, todo |-> q, at |-> "start", settled |-> {}, refused |-> FALSE]
             \in Requests
BY DEF Requests

LEMMA SeatsCounted == ASSUME NEW S \in SUBSET Seats PROVE Cardinality(S) \in Nat
BY CounterConstants, FS_Subset, FS_CardinalityType

\* A sale one can look into.
LEMMA SaleParts ==
    ASSUME TypeOK, NEW r \in Sales, sale[r] # NoSale
    PROVE  /\ sale[r].kind \in {"online", "offline"} /\ sale[r].at \in Terminals
           /\ sale[r].seats \in SUBSET Seats /\ sale[r].shift \in Shifts \cup {None}
           /\ sale[r].method \in Methods /\ sale[r].total \in Nat
<1>1. sale[r] \in SaleRows
  BY DEF TypeOK
<1> QED BY <1>1 DEF SaleRows

LEMMA ContextType == Context \in Contexts
BY DEF Context, Contexts, OpenShifts

\* The records a sale begins with, with and without a line.
LEMMA NewSales ==
    ASSUME TypeOK, NEW t \in Terminals, NEW r \in Sales, NEW S \in SUBSET Seats,
           NEW c, NEW m \in Methods, OfflineSell(t, r, S) \/ Sell(t, c, r, m)
    PROVE  /\ sale[r] = NoSale /\ sale'[r] \in SaleRows /\ sale' = [sale EXCEPT ![r] = sale'[r]]
           /\ sale'[r].at = t
           /\ OfflineSell(t, r, S) => sale'[r].kind = "offline"
           /\ Sell(t, c, r, m) => sale'[r].kind = "online" /\ sale'[r].total > 0
<1>0. sale \in [Sales -> {NoSale} \cup SaleRows]
  BY TypesSplit
<1>1. Fare \in Nat /\ ServiceFee \in Nat /\ ServiceFee > 0
  BY CounterConstants
<1>2. ASSUME OfflineSell(t, r, S)
      PROVE  /\ sale[r] = NoSale /\ sale'[r] \in SaleRows /\ sale' = [sale EXCEPT ![r] = sale'[r]]
             /\ sale'[r].at = t /\ sale'[r].kind = "offline"
  <2> DEFINE n == Cardinality(S)
             sh == IF ctx[t] = NoCtx THEN None ELSE ctx[t]
             total == CachedFare * n + (IF ctx[t] = NoCtx THEN 0 ELSE ServiceFee)
             new == [kind |-> "offline", at |-> t, seats |-> S, shift |-> sh, method |-> "CASH",
                     total |-> total]
  <2>1. sale' = [sale EXCEPT ![r] = new] /\ sale[r] = NoSale /\ S # {} /\ ctx[t] \in Contexts
    BY <1>2 DEF OfflineSell
  <2>2. n \in Nat
    BY SeatsCounted
  <2>3. total \in Nat
    <3> HIDE DEF n
    <3> QED BY <1>1, <2>2 DEF CachedFare
  <2>4. sh \in Shifts \cup {None}
    BY <2>1 DEF Contexts
  <2> HIDE DEF n, sh, total
  <2>5. new \in SaleRows /\ new.at = t /\ new.kind = "offline"
    BY <2>1, <2>3, <2>4 DEF SaleRows, Methods
  <2> HIDE DEF new
  <2> QED BY <1>0, <2>1, <2>5
<1>3. ASSUME Sell(t, c, r, m)
      PROVE  /\ sale[r] = NoSale /\ sale'[r] \in SaleRows /\ sale' = [sale EXCEPT ![r] = sale'[r]]
             /\ sale'[r].at = t /\ sale'[r].kind = "online" /\ sale'[r].total > 0
  <2> DEFINE n == Cardinality(confirming[t])
             sh == IF ctx[t] \in Shifts THEN ctx[t] ELSE None
             total == Fare * n + ServiceFee
             new == [kind |-> "online", at |-> t, seats |-> confirming[t], shift |-> sh, method |-> m,
                     total |-> total]
  <2>1. sale' = [sale EXCEPT ![r] = new] /\ sale[r] = NoSale /\ confirming[t] # {}
    BY <1>3 DEF Sell
  <2>2. confirming[t] \in SUBSET Seats
    BY TypesSplit
  <2>3. n \in Nat
    BY <2>2, SeatsCounted
  <2>4. total \in Nat /\ total > 0
    <3> HIDE DEF n
    <3>1. Fare * n \in Nat
      BY <1>1, <2>3
    <3> QED BY <1>1, <3>1
  <2>5. sh \in Shifts \cup {None}
    OBVIOUS
  <2> HIDE DEF n, sh, total
  <2>6. new \in SaleRows /\ new.at = t /\ new.kind = "online" /\ new.total = total
    BY <2>1, <2>2, <2>4, <2>5 DEF SaleRows
  <2> HIDE DEF new
  <2> QED BY <1>0, <2>1, <2>4, <2>6
<1> QED BY <1>2, <1>3

\* What a step of one connection makes of the requests.
Becomes(c, x) == conn' = [conn EXCEPT ![c] = x]

\* The sale a handler is at, and what its request may become.
LEMMA Handled ==
    ASSUME TypeOK, RequestsSound, NEW c \in Conns, conn[c] # Idle, conn[c].todo # <<>>
    PROVE  /\ Current(c) \in Sales
           /\ sale[Current(c)] # NoSale
           /\ conn[c].kind = "flush" => Offline(Current(c))
           /\ conn[c].kind = "sale" => SoldOnline(Current(c))
           /\ \A at \in {"start", "seats", "pay", "ticket", "drawer"} : Goto(c, at) =>
                 Becomes(c, [conn[c] EXCEPT !.at = at])
           /\ \A b \in BOOLEAN : Answer(c, b) =>
                 Becomes(c, [conn[c] EXCEPT !.todo = Tail(conn[c].todo), !.at = "start",
                                            !.settled = conn[c].settled \cup {Current(c)},
                                            !.refused = ~b])
<1>1. /\ conn[c] \in Requests /\ conn[c].kind \in {"flush", "sale"}
      /\ Current(c) \in Sales /\ Current(c) = conn[c].todo[1] /\ 1 \in 1 .. Len(conn[c].todo)
  BY RequestParts
<1>2. RequestSound(c)
  BY DEF RequestsSound
<1>3. /\ conn[c].kind = "flush" => Offline(Current(c))
      /\ conn[c].kind = "sale" => SoldOnline(Current(c))
  BY <1>1, <1>2 DEF RequestSound
<1>4. sale[Current(c)] # NoSale
  BY <1>1, <1>3 DEF Offline, SoldOnline
<1>5. conn \in [Conns -> {Idle} \cup Requests]
  BY TypesSplit
<1>6. ASSUME NEW at \in {"start", "seats", "pay", "ticket", "drawer"}, Goto(c, at)
      PROVE  Becomes(c, [conn[c] EXCEPT !.at = at])
  BY <1>5, <1>6 DEF Goto, Becomes
<1>7. ASSUME NEW b \in BOOLEAN, Answer(c, b)
      PROVE  Becomes(c, [conn[c] EXCEPT !.todo = Tail(conn[c].todo), !.at = "start",
                                        !.settled = conn[c].settled \cup {Current(c)}, !.refused = ~b])
  BY <1>5, <1>7 DEF Answer, Becomes
<1> QED BY <1>1, <1>3, <1>4, <1>6, <1>7

\* What the handlers write: every statement keeps the types of its rows.
LEMMA HandlerTypes ==
    ASSUME TypeOK, RequestsSound, NEW c \in Conns,
           Claim(c) \/ ClaimFails(c) \/ ReplaySeats(c) \/ HoldSeats(c) \/ Pay(c) \/ Ticket(c) \/ Drawer(c)
    PROVE  TypeOK'
<1>0. conn[c] # Idle /\ conn[c].todo # <<>>
  BY DEF Claim, ClaimFails, ReplaySeats, HoldSeats, Pay, Ticket, Drawer, At
<1> DEFINE r == Current(c)
           Carried == conn' \in [Conns -> {Idle} \cup Requests]
<1>1. /\ conn[c] \in Requests /\ conn[c].todo \in Seq(Sales) /\ conn[c].settled \in SUBSET Sales
      /\ r \in Sales /\ sale[r] # NoSale
  BY <1>0, RequestParts, Handled
<1>2. /\ owner \in [Seats -> {"free", "quota", "elsewhere"} \cup Sales]
      /\ row \in [Sales -> {"none", "REPLAYED", "REJECTED"}]
      /\ stage \in [Sales -> Stages] /\ drawer \in [Sales -> Shifts \cup {None}]
      /\ conn \in [Conns -> {Idle} \cup Requests]
  BY TypesSplit
<1>3. Tail(conn[c].todo) \in Seq(Sales)
  BY <1>0, <1>1, TailParts
<1>4. ASSUME NEW x \in Requests, Becomes(c, x) PROVE Carried
  BY <1>2, <1>4 DEF Becomes
<1>5. ASSUME NEW at \in {"start", "seats", "pay", "ticket", "drawer"}, Goto(c, at) PROVE Carried
  <2>1. [conn[c] EXCEPT !.at = at] \in Requests
    BY <1>1, RequestUpdates
  <2>2. Becomes(c, [conn[c] EXCEPT !.at = at])
    BY <1>0, <1>5, Handled
  <2> QED BY <1>4, <2>1, <2>2
<1>6. ASSUME NEW b \in BOOLEAN, Answer(c, b) PROVE Carried
  <2> DEFINE x == [conn[c] EXCEPT !.todo = Tail(conn[c].todo), !.at = "start",
                                  !.settled = conn[c].settled \cup {Current(c)}, !.refused = ~b]
  <2>1. conn[c].settled \cup {Current(c)} \in SUBSET Sales
    BY <1>1
  <2>2. (~b) \in BOOLEAN
    OBVIOUS
  <2>3. x \in Requests
    BY <1>1, <1>3, <2>1, <2>2, RequestUpdates, Zenon
  <2>4. Becomes(c, x)
    BY <1>0, <1>6, Handled
  <2> QED BY <1>4, <2>3, <2>4
<1> HIDE DEF Carried
<1>7. ASSUME Reject(c) PROVE Carried /\ row' \in [Sales -> {"none", "REPLAYED", "REJECTED"}]
  BY <1>1, <1>2, <1>6, <1>7 DEF Reject
<1>8. ASSUME NEW from, TakeSeats(r, from)
      PROVE  /\ owner' \in [Seats -> {"free", "quota", "elsewhere"} \cup Sales]
             /\ stage' \in [Sales -> Stages]
  BY <1>1, <1>2, <1>8 DEF TakeSeats, Stages
<1>9. UNCHANGED <<shift, counted, clientVars>>
  BY DEF Claim, ClaimFails, ReplaySeats, HoldSeats, Pay, Ticket, Drawer, serverVars
<1>10. ASSUME Carried, owner' \in [Seats -> {"free", "quota", "elsewhere"} \cup Sales],
              row' \in [Sales -> {"none", "REPLAYED", "REJECTED"}], stage' \in [Sales -> Stages],
              drawer' \in [Sales -> Shifts \cup {None}]
       PROVE  TypeOK'
  BY <1>9, <1>10 DEF TypeOK, Carried, clientVars, pageVars, storeVars
<1>11. CASE Claim(c)
  <2>1. Carried /\ row' \in [Sales -> {"none", "REPLAYED", "REJECTED"}]
    BY <1>1, <1>2, <1>5, <1>6, <1>11 DEF Claim
  <2> QED BY <1>2, <1>10, <1>11, <2>1 DEF Claim
<1>12. CASE ClaimFails(c)
  <2>1. Becomes(c, [conn[c] EXCEPT !.todo = Tail(conn[c].todo)])
    BY <1>2, <1>12 DEF ClaimFails, Becomes
  <2>2. [conn[c] EXCEPT !.todo = Tail(conn[c].todo)] \in Requests
    BY <1>1, <1>3, RequestUpdates
  <2>3. Carried
    BY <1>4, <2>1, <2>2
  <2> QED BY <1>2, <1>10, <1>12, <2>3 DEF ClaimFails, serverVars
<1>13. CASE ReplaySeats(c)
  <2>1. CASE TakeSeats(r, "quota") /\ Goto(c, "pay") /\ UNCHANGED row
    BY <1>2, <1>5, <1>8, <1>10, <1>13, <2>1 DEF ReplaySeats
  <2>2. CASE Reject(c) /\ UNCHANGED <<owner, stage>>
    BY <1>2, <1>7, <1>10, <1>13, <2>2 DEF ReplaySeats
  <2> QED BY <1>13, <2>1, <2>2 DEF ReplaySeats
<1>14. CASE HoldSeats(c)
  <2>1. CASE TakeSeats(r, "free") /\ Goto(c, "pay")
    BY <1>2, <1>5, <1>8, <1>10, <1>14, <2>1 DEF HoldSeats
  <2>2. CASE Answer(c, FALSE) /\ UNCHANGED <<owner, stage>>
    BY <1>2, <1>6, <1>10, <1>14, <2>2 DEF HoldSeats
  <2> QED BY <1>14, <2>1, <2>2 DEF HoldSeats
<1>15. CASE Pay(c)
  <2>1. CASE /\ stage' = [stage EXCEPT ![r] = IF @ = "seated" THEN "paid" ELSE @]
             /\ Goto(c, "ticket") /\ UNCHANGED row
    <3>1. stage' \in [Sales -> Stages]
      BY <1>1, <1>2, <2>1 DEF Stages
    <3> QED BY <1>2, <1>5, <1>10, <1>15, <2>1, <3>1 DEF Pay
  <2>2. CASE Reject(c) /\ UNCHANGED stage
    BY <1>2, <1>7, <1>10, <1>15, <2>2 DEF Pay
  <2> QED BY <1>15, <2>1, <2>2 DEF Pay
<1>16. CASE Ticket(c)
  <2>1. CASE stage' = [stage EXCEPT ![r] = "ticketed"] /\ Goto(c, "drawer")
    <3>1. stage' \in [Sales -> Stages]
      BY <1>1, <1>2, <2>1 DEF Stages
    <3> QED BY <1>2, <1>5, <1>10, <1>16, <2>1, <3>1 DEF Ticket
  <2>2. CASE Answer(c, FALSE) /\ UNCHANGED stage
    BY <1>2, <1>6, <1>10, <1>16, <2>2 DEF Ticket
  <2> QED BY <1>16, <2>1, <2>2 DEF Ticket
<1>17. CASE Drawer(c)
  <2>1. sale[r].shift \in Shifts \cup {None}
    BY <1>1, SaleParts
  <2>2. drawer' \in [Sales -> Shifts \cup {None}]
    BY <1>1, <1>2, <1>17, <2>1 DEF Drawer
  <2> QED BY <1>2, <1>6, <1>10, <1>17, <2>2 DEF Drawer
<1> QED BY <1>11, <1>12, <1>13, <1>14, <1>15, <1>16, <1>17

\* What the pages do, and what the server does unasked.
LEMMA PageTypes ==
    ASSUME TypeOK, NEW t \in Terminals,
           \/ OpenDesk(t) \/ OpenQuota(t) \/ Install(t) \/ LineChanges(t) \/ CloseShift(t) \/ StepBack(t)
           \/ \E S \in SUBSET Seats : Reserve(t, S) \/ AskToPay(t, S)
           \/ \E s \in Seats : Release(t, s)
           \/ \E k \in Shifts : OpenShift(t, k)
    PROVE  TypeOK' /\ UNCHANGED <<row, stage, sale, queue, conn>>
<1>0. /\ owner \in [Seats -> {"free", "quota", "elsewhere"} \cup Sales]
      /\ shift \in [Shifts -> {"none", "OPEN", "CLOSED"}] /\ counted \in [Shifts -> SUBSET Sales]
      /\ online \in [Terminals -> BOOLEAN] /\ ctx \in [Terminals -> Contexts \cup {QuotaPage, NoPage}]
      /\ cache \in [Terminals -> SUBSET Seats]
      /\ shell \in [Terminals -> BOOLEAN] /\ confirming \in [Terminals -> SUBSET Seats]
  BY TypesSplit
<1>1. Context \in Contexts /\ NoCtx \in Contexts /\ None \in Contexts /\ Shifts \subseteq Contexts
  BY ContextType DEF Contexts
<1>2. SeatsOf("quota") \in SUBSET Seats /\ SeatsOf("free") \in SUBSET Seats
  BY DEF SeatsOf
<1>3. CASE OpenDesk(t)
  <2>1. ctx' \in [Terminals -> Contexts \cup {QuotaPage, NoPage}]
    BY <1>0, <1>1, <1>3 DEF OpenDesk, Reloaded
  <2>2. confirming' \in [Terminals -> SUBSET Seats]
    BY <1>0, <1>3 DEF OpenDesk
  <2> QED BY <1>3, <2>1, <2>2 DEF OpenDesk, TypeOK, serverVars, storeVars
<1>4. CASE OpenQuota(t)
  <2>1. ctx' \in [Terminals -> Contexts \cup {QuotaPage, NoPage}]
    BY <1>0, <1>4 DEF OpenQuota, Reloaded
  <2>2. confirming' \in [Terminals -> SUBSET Seats] /\ cache' \in [Terminals -> SUBSET Seats]
    BY <1>0, <1>2, <1>4 DEF OpenQuota
  <2> QED BY <1>4, <2>1, <2>2 DEF OpenQuota, TypeOK, serverVars
<1>5. CASE Install(t)
  BY <1>0, <1>5 DEF Install, TypeOK, serverVars, pageVars
<1>6. CASE LineChanges(t)
  <2>1. (~ online[t]) \in BOOLEAN
    OBVIOUS
  <2>2. online' \in [Terminals -> BOOLEAN]
    BY <1>0, <1>6, <2>1, Zenon DEF LineChanges
  <2>3. confirming' \in [Terminals -> SUBSET Seats]
    BY <1>0, <1>6 DEF LineChanges
  <2> QED BY <1>6, <2>2, <2>3 DEF LineChanges, TypeOK, serverVars, storeVars
<1>7. CASE CloseShift(t)
  <2>1. ctx[t] \in Shifts /\ CountDrawer(ctx[t])
    BY <1>7 DEF CloseShift
  <2>2. shift' \in [Shifts -> {"none", "OPEN", "CLOSED"}] /\ counted' \in [Shifts -> SUBSET Sales]
    BY <1>0, <2>1 DEF CountDrawer
  <2>3. ctx' \in [Terminals -> Contexts \cup {QuotaPage, NoPage}]
    BY <1>0, <1>1, <1>7 DEF CloseShift
  <2> QED BY <1>7, <2>2, <2>3 DEF CloseShift, TypeOK, storeVars
<1>8. CASE StepBack(t)
  BY <1>0, <1>8 DEF StepBack, TypeOK, serverVars, pageVars, storeVars
<1>9. ASSUME NEW S \in SUBSET Seats, Reserve(t, S)
      PROVE  TypeOK' /\ UNCHANGED <<row, stage, sale, queue, conn>>
  <2>1. owner' \in [Seats -> {"free", "quota", "elsewhere"} \cup Sales]
    BY <1>0, <1>9 DEF Reserve
  <2>2. cache' \in [Terminals -> SUBSET Seats]
    BY <1>0, <1>2, <1>9 DEF Reserve
  <2> QED BY <1>9, <2>1, <2>2 DEF Reserve, TypeOK, pageVars
<1>10. ASSUME NEW S \in SUBSET Seats, AskToPay(t, S)
       PROVE  TypeOK' /\ UNCHANGED <<row, stage, sale, queue, conn>>
  <2>1. confirming' \in [Terminals -> SUBSET Seats]
    BY <1>0, <1>10 DEF AskToPay
  <2> QED BY <1>10, <2>1 DEF AskToPay, TypeOK, serverVars, pageVars, storeVars
<1>11. ASSUME NEW s \in Seats, Release(t, s)
       PROVE  TypeOK' /\ UNCHANGED <<row, stage, sale, queue, conn>>
  <2>1. owner' \in [Seats -> {"free", "quota", "elsewhere"} \cup Sales]
    BY <1>0, <1>11 DEF Release
  <2>2. cache' \in [Terminals -> SUBSET Seats]
    BY <1>0, <1>2, <1>11 DEF Release
  <2> QED BY <1>11, <2>1, <2>2 DEF Release, TypeOK, pageVars
<1>12. ASSUME NEW k \in Shifts, OpenShift(t, k)
       PROVE  TypeOK' /\ UNCHANGED <<row, stage, sale, queue, conn>>
  <2>1. shift' \in [Shifts -> {"none", "OPEN", "CLOSED"}]
    BY <1>0, <1>12 DEF OpenShift
  <2>2. ctx' \in [Terminals -> Contexts \cup {QuotaPage, NoPage}]
    BY <1>0, <1>1, <1>12 DEF OpenShift
  <2> QED BY <1>12, <2>1, <2>2 DEF OpenShift, TypeOK, storeVars
<1>13. ASSUME OpenDesk(t) \/ OpenQuota(t) \/ Install(t) \/ LineChanges(t) \/ CloseShift(t) \/ StepBack(t)
       PROVE  UNCHANGED <<row, stage, sale, queue, conn>>
  BY <1>13 DEF OpenDesk, OpenQuota, Install, LineChanges, CloseShift, StepBack, serverVars, storeVars
<1> QED BY <1>3, <1>4, <1>5, <1>6, <1>7, <1>8, <1>9, <1>10, <1>11, <1>12, <1>13

\* Selling begins, and requests are sent and answered.
LEMMA RequestTypes ==
    ASSUME TypeOK, NEW c,
           \/ \E t \in Terminals, r \in Sales, S \in SUBSET Seats : OfflineSell(t, r, S)
           \/ /\ c \in Conns
              /\ \/ \E t \in Terminals : Flush(t, c)
                 \/ \E t \in Terminals, r \in Sales, m \in Methods : Sell(t, c, r, m)
                 \/ Flushed(c) \/ Sold(c) \/ Drop(c)
    PROVE  TypeOK'
<1>0. /\ sale \in [Sales -> {NoSale} \cup SaleRows]
      /\ ctx \in [Terminals -> Contexts \cup {QuotaPage, NoPage}]
      /\ cache \in [Terminals -> SUBSET Seats] /\ queue \in [Terminals -> Seq(Sales)]
      /\ confirming \in [Terminals -> SUBSET Seats] /\ conn \in [Conns -> {Idle} \cup Requests]
  BY TypesSplit
<1>1. Context \in Contexts
  BY ContextType
<1>2. ASSUME NEW t \in Terminals, NEW r \in Sales, NEW S \in SUBSET Seats, OfflineSell(t, r, S)
      PROVE  TypeOK'
  <2>1. sale' \in [Sales -> {NoSale} \cup SaleRows]
    <3>1. "CASH" \in Methods
      BY DEF Methods
    <3>2. sale'[r] \in SaleRows /\ sale' = [sale EXCEPT ![r] = sale'[r]]
      BY <1>2, <3>1, NewSales
    <3> QED BY <1>0, <3>2
  <2>2. queue' \in [Terminals -> Seq(Sales)]
    <3>1. Append(queue[t], r) \in Seq(Sales)
      BY <1>0
    <3> QED BY <1>0, <1>2, <3>1 DEF OfflineSell, Enqueue
  <2>3. cache' \in [Terminals -> SUBSET Seats]
    BY <1>0, <1>2 DEF OfflineSell, Consume
  <2> QED BY <1>2, <2>1, <2>2, <2>3 DEF OfflineSell, TypeOK, serverVars, pageVars
<1>3. ASSUME NEW t \in Terminals, c \in Conns, Flush(t, c) PROVE TypeOK'
  <2>1. [kind |-> "flush", from |-> t, todo |-> queue[t], at |-> "start", settled |-> {},
         refused |-> FALSE] \in Requests
    BY <1>0, NewRequest
  <2>2. conn' \in [Conns -> {Idle} \cup Requests]
    BY <1>0, <1>3, <2>1 DEF Flush
  <2> QED BY <1>3, <2>2 DEF Flush, TypeOK, serverVars, pageVars, storeVars
<1>4. ASSUME NEW t \in Terminals, NEW r \in Sales, NEW m \in Methods, c \in Conns,
             Sell(t, c, r, m)
      PROVE  TypeOK'
  <2>1. sale' \in [Sales -> {NoSale} \cup SaleRows]
    <3>1. sale'[r] \in SaleRows /\ sale' = [sale EXCEPT ![r] = sale'[r]]
      BY <1>4, NewSales
    <3> QED BY <1>0, <3>1
  <2>2. <<r>> \in Seq(Sales)
    OBVIOUS
  <2>3. [kind |-> "sale", from |-> t, todo |-> <<r>>, at |-> "start", settled |-> {},
         refused |-> FALSE] \in Requests
    BY <2>2, NewRequest
  <2>4. conn' \in [Conns -> {Idle} \cup Requests]
    BY <1>0, <1>4, <2>3 DEF Sell
  <2> QED BY <1>4, <2>1, <2>4 DEF Sell, TypeOK, serverVars, pageVars, storeVars
<1>5. ASSUME c \in Conns, conn[c] # Idle PROVE conn[c].from \in Terminals
  BY <1>5, RequestParts
<1>6. CASE c \in Conns /\ Flushed(c)
  <2>1. conn[c].from \in Terminals
    BY <1>5, <1>6, IdleIsNoRequest DEF Flushed
  <2>2. Without(queue[conn[c].from], conn[c].settled) \in Seq(Sales)
    BY <1>0, <2>1, WithoutLeaves
  <2>3. queue' \in [Terminals -> Seq(Sales)]
    BY <1>0, <1>6, <2>1, <2>2 DEF Flushed
  <2>4. ctx' \in [Terminals -> Contexts \cup {QuotaPage, NoPage}] /\ conn' \in [Conns -> {Idle} \cup Requests]
    BY <1>0, <1>1, <1>6, <2>1 DEF Flushed
  <2> QED BY <1>6, <2>3, <2>4 DEF Flushed, TypeOK, serverVars
<1>7. CASE c \in Conns /\ Sold(c)
  <2>1. conn[c].from \in Terminals
    BY <1>5, <1>7, IdleIsNoRequest DEF Sold
  <2>2. ctx' \in [Terminals -> Contexts \cup {QuotaPage, NoPage}]
    BY <1>0, <1>1, <1>7, <2>1 DEF Sold
  <2>3. confirming' \in [Terminals -> SUBSET Seats] /\ conn' \in [Conns -> {Idle} \cup Requests]
    BY <1>0, <1>7, <2>1 DEF Sold
  <2> QED BY <1>7, <2>2, <2>3 DEF Sold, TypeOK, serverVars, storeVars
<1>8. CASE c \in Conns /\ Drop(c)
  <2>1. confirming' \in [Terminals -> SUBSET Seats] /\ conn' \in [Conns -> {Idle} \cup Requests]
    BY <1>0, <1>5, <1>8 DEF Drop
  <2> QED BY <1>8, <2>1 DEF Drop, TypeOK, serverVars, pageVars, storeVars
<1> QED BY <1>2, <1>3, <1>4, <1>6, <1>7, <1>8

LEMMA LapseTypes ==
    ASSUME TypeOK, (\E r \in Sales : Lapse(r)) \/ (\E s \in Seats : SoldElsewhere(s))
    PROVE  TypeOK'
<1>0. /\ owner \in [Seats -> {"free", "quota", "elsewhere"} \cup Sales] /\ stage \in [Sales -> Stages]
  BY TypesSplit
<1>1. ASSUME NEW r \in Sales, Lapse(r) PROVE TypeOK'
  <2>1. owner' \in [Seats -> {"free", "quota", "elsewhere"} \cup Sales]
    BY <1>0, <1>1 DEF Lapse
  <2>2. stage' \in [Sales -> Stages]
    BY <1>0, <1>1 DEF Lapse, Stages
  <2> QED BY <1>1, <2>1, <2>2 DEF Lapse, TypeOK, clientVars, pageVars, storeVars
<1>2. ASSUME NEW s \in Seats, SoldElsewhere(s) PROVE TypeOK'
  <2>1. owner' \in [Seats -> {"free", "quota", "elsewhere"} \cup Sales]
    BY <1>0, <1>2 DEF SoldElsewhere
  <2> QED BY <1>2, <2>1 DEF SoldElsewhere, TypeOK, clientVars, pageVars, storeVars
<1> QED BY <1>1, <1>2

-----------------------------------------------------------------------------
(* The invariant                                                            *)

LEMMA DeskInitSound == Init => DeskSound
<1> SUFFICES ASSUME Init PROVE DeskSound
    OBVIOUS
<1> USE DEF Init
<1>1. TypeOK
  BY DEF TypeOK, Stages, Contexts
<1>2. RequestsSound /\ Apart
  BY DEF RequestsSound, RequestSound, Apart, Working, Idle
<1>3. SalesSound
  BY DEF SalesSound, SaleSound, Offline, SoldOnline
<1>4. QueuesSound
  BY DEF QueuesSound
<1> QED BY <1>1, <1>2, <1>3, <1>4 DEF DeskSound

\* Sales that are on record stay what they are, and a row is never taken back.
Lasting ==
    \A r \in Sales : /\ Offline(r) => Offline(r)'
                     /\ SoldOnline(r) => SoldOnline(r)'
                     /\ row[r] # "none" => row'[r] # "none"

\* No sale another flush works on is touched.
OthersUntouched(c) ==
    \A d \in Conns : d # c /\ Working(d) =>
        /\ row'[Current(d)] = row[Current(d)]
        /\ stage'[Current(d)] = "ticketed" => stage[Current(d)] = "ticketed"

\* A request that does not move stays sound.
LEMMA StaysSound ==
    ASSUME TypeOK, RequestsSound, Lasting, NEW d \in Conns, conn'[d] = conn[d],
           Working(d) => /\ row'[Current(d)] = row[Current(d)]
                         /\ stage'[Current(d)] = "ticketed" => stage[Current(d)] = "ticketed"
    PROVE  RequestSound(d)'
<1>1. RequestSound(d)
  BY DEF RequestsSound
<1>2. CASE conn[d] = Idle
  BY <1>2, IdleIsNoRequest DEF RequestSound, Working
<1>3. CASE conn[d] # Idle
  <2>1. /\ conn[d].todo \in Seq(Sales) /\ conn[d].settled \in SUBSET Sales
        /\ conn[d].todo # <<>> => Current(d) \in Sales
    BY <1>3, RequestParts
  <2>2. Working(d)' <=> Working(d)
    BY DEF Working
  <2>3. Working(d) => /\ row'[Current(d)'] = "REPLAYED"
                      /\ conn'[d].at # "drawer" => stage'[Current(d)'] # "ticketed"
    BY <1>1 DEF RequestSound, Current
  <2>4. PICK todo, S : todo = conn[d].todo /\ S = conn[d].settled
    OBVIOUS
  <2>5. /\ \A i \in 1 .. Len(todo) : todo[i] \in Sales
        /\ \A r \in S : r \in Sales
    BY <2>1, <2>4
  <2>6. conn[d].kind = "flush" =>
           /\ \A i \in 1 .. Len(todo) : Offline(todo[i])'
           /\ \A r \in S : row'[r] # "none"
    BY <1>1, <2>4, <2>5 DEF RequestSound, Lasting
  <2>7. conn[d].kind = "sale" =>
           /\ \A i \in 1 .. Len(todo) : SoldOnline(todo[i])'
           /\ conn[d].at # "seats"
    BY <1>1, <2>4, <2>5 DEF RequestSound, Lasting
  <2>8. conn'[d].todo = todo /\ conn'[d].settled = S
    BY <2>4
  <2> QED BY <2>2, <2>3, <2>6, <2>7, <2>8 DEF RequestSound, Offline, SoldOnline
<1> QED BY <1>2, <1>3

\* A step of one connection leaves the others as sound as they were.
LEMMA OthersSound ==
    ASSUME TypeOK, RequestsSound, Lasting, NEW c \in Conns, NEW x, Becomes(c, x),
           OthersUntouched(c), RequestSound(c)'
    PROVE  RequestsSound'
<1> SUFFICES ASSUME NEW d \in Conns, d # c PROVE RequestSound(d)'
    BY DEF RequestsSound, RequestSound, Working, Current, Offline, SoldOnline
<1>1. conn'[d] = conn[d]
  BY TypesSplit DEF Becomes
<1> QED BY <1>1, StaysSound DEF OthersUntouched

\* Flushes stay apart when the one that moves stays at its sale, or takes one that no
\* other works on, or works on none.
LEMMA ApartKept ==
    ASSUME TypeOK, Apart, NEW c \in Conns, NEW x, Becomes(c, x),
           Working(c)' => \A d \in Conns : d # c /\ Working(d) => Current(d) # Current(c)'
    PROVE  Apart'
<1>1. \A d \in Conns : d # c => conn'[d] = conn[d]
  BY TypesSplit DEF Becomes
<1>2. \A d \in Conns : d # c => (Working(d)' <=> Working(d)) /\ Current(d)' = Current(d)
  BY <1>1 DEF Working, Current
<1> SUFFICES ASSUME NEW d \in Conns, NEW e \in Conns, d # e, Working(d)', Working(e)'
             PROVE  Current(d)' # Current(e)'
    BY DEF Apart, Working, Current
<1>3. CASE d # c /\ e # c
  BY <1>2, <1>3 DEF Apart
<1>4. CASE d = c
  BY <1>2, <1>4
<1>5. CASE e = c
  BY <1>2, <1>5
<1> QED BY <1>3, <1>4, <1>5

\* Only one connection works on a sale that is being replayed, none on one that has no row.
LEMMA Alone ==
    ASSUME DeskSound, NEW c \in Conns, conn[c] # Idle, conn[c].todo # <<>>,
           Working(c) \/ conn[c].kind = "sale" \/ row[Current(c)] = "none"
    PROVE  \A d \in Conns : d # c /\ Working(d) => Current(d) # Current(c)
<1> SUFFICES ASSUME NEW d \in Conns, d # c, Working(d), Current(d) = Current(c) PROVE FALSE
    OBVIOUS
<1> USE DEF DeskSound
<1>1. Current(c) \in Sales
  BY RequestParts
<1>2. row[Current(d)] = "REPLAYED"
  BY DEF RequestsSound, RequestSound
<1>3. CASE Working(c)
  BY <1>3 DEF Apart
<1>4. CASE conn[c].kind = "sale"
  <2>1. SoldOnline(Current(c))
    BY <1>4, Handled
  <2> QED BY <1>1, <1>2, <2>1 DEF SalesSound, SaleSound, Offline, SoldOnline
<1>5. CASE row[Current(c)] = "none"
  BY <1>2, <1>5
<1> QED BY <1>3, <1>4, <1>5

\* The handler of c, at sale r, changes the rows of r only.
LEMMA SalesKept ==
    ASSUME SalesSound, UNCHANGED <<sale, queue>>, NEW r \in Sales, SaleSound(r)',
           \A q \in Sales : q # r => row'[q] = row[q] /\ stage'[q] = stage[q]
    PROVE  SalesSound'
<1> SUFFICES ASSUME NEW q \in Sales, q # r PROVE SaleSound(q)'
    BY DEF SalesSound
<1>1. SaleSound(q) /\ row'[q] = row[q] /\ stage'[q] = stage[q]
  BY DEF SalesSound
<1> QED BY <1>1 DEF SaleSound, Offline, SoldOnline

\* The answer for a sale of a flush comes when its row is there.
LEMMA AnswerSound ==
    ASSUME TypeOK, RequestsSound, Lasting, sale' = sale, NEW c \in Conns, conn[c] # Idle,
           conn[c].todo # <<>>, NEW b \in BOOLEAN, Answer(c, b),
           conn[c].kind = "flush" => row'[Current(c)] # "none"
    PROVE  RequestSound(c)' /\ ~ Working(c)' /\ \E x : Becomes(c, x)
<1> DEFINE x == [conn[c] EXCEPT !.todo = Tail(conn[c].todo), !.at = "start",
                                !.settled = conn[c].settled \cup {Current(c)}, !.refused = ~b]
<1>1. /\ conn[c] \in Requests /\ conn[c].todo \in Seq(Sales) /\ conn[c].settled \in SUBSET Sales
      /\ conn[c].kind \in {"flush", "sale"} /\ Current(c) \in Sales
  BY RequestParts
<1>2. Becomes(c, x)
  BY Handled
<1>3. /\ x.kind = conn[c].kind /\ x.todo = Tail(conn[c].todo) /\ x.at = "start"
      /\ x.settled = conn[c].settled \cup {Current(c)}
  BY <1>1 DEF Requests
<1> HIDE DEF x
<1>4. conn'[c] = x
  BY <1>2, TypesSplit DEF Becomes
<1>5. RequestSound(c)
  BY DEF RequestsSound
<1>6. PICK todo : todo = conn[c].todo
  OBVIOUS
<1>7. \A i \in 1 .. Len(Tail(todo)) : i + 1 \in 1 .. Len(todo) /\ Tail(todo)[i] = todo[i + 1]
  BY <1>1, <1>6, TailParts
<1>8. x.kind = "flush" => /\ \A i \in 1 .. Len(Tail(todo)) : Offline(Tail(todo)[i])
                          /\ \A r \in x.settled : row'[r] # "none"
  BY <1>1, <1>3, <1>5, <1>6, <1>7 DEF RequestSound, Lasting
<1>9. x.kind = "sale" => \A i \in 1 .. Len(Tail(todo)) : SoldOnline(Tail(todo)[i])
  BY <1>3, <1>5, <1>6, <1>7 DEF RequestSound
<1>10. ~ Working(c)'
  BY <1>3, <1>4 DEF Working
<1>11. RequestSound(c)'
  BY <1>3, <1>4, <1>6, <1>8, <1>9, <1>10 DEF RequestSound, Offline, SoldOnline
<1> QED BY <1>2, <1>10, <1>11

\* A request that goes on stays at its sale.
LEMMA GotoSound ==
    ASSUME TypeOK, RequestsSound, Lasting, sale' = sale, NEW c \in Conns, conn[c] # Idle,
           conn[c].todo # <<>>, NEW at \in {"seats", "pay", "ticket", "drawer"}, Goto(c, at),
           conn[c].kind = "sale" => at # "seats",
           conn[c].kind = "flush" => /\ row'[Current(c)] = "REPLAYED"
                                     /\ at # "drawer" => stage'[Current(c)] # "ticketed"
    PROVE  RequestSound(c)' /\ Current(c)' = Current(c) /\ \E x : Becomes(c, x)
<1> DEFINE x == [conn[c] EXCEPT !.at = at]
<1>1. /\ conn[c] \in Requests /\ conn[c].todo \in Seq(Sales) /\ conn[c].settled \in SUBSET Sales
      /\ conn[c].kind \in {"flush", "sale"} /\ Current(c) \in Sales
  BY RequestParts
<1>2. Becomes(c, x)
  BY Handled
<1>3. /\ x.kind = conn[c].kind /\ x.todo = conn[c].todo /\ x.at = at
      /\ x.settled = conn[c].settled
  BY <1>1 DEF Requests
<1> HIDE DEF x
<1>4. conn'[c] = x
  BY <1>2, TypesSplit DEF Becomes
<1>5. RequestSound(c)
  BY DEF RequestsSound
<1>6. PICK todo, S : todo = conn[c].todo /\ S = conn[c].settled
  OBVIOUS
<1>7. x.kind = "flush" => (\A i \in 1 .. Len(todo) : Offline(todo[i])) /\ \A r \in S : row'[r] # "none"
  BY <1>1, <1>3, <1>5, <1>6 DEF RequestSound, Lasting
<1>8. x.kind = "sale" => \A i \in 1 .. Len(todo) : SoldOnline(todo[i])
  BY <1>3, <1>5, <1>6 DEF RequestSound
<1>9. Current(c)' = Current(c)
  BY <1>3, <1>4 DEF Current
<1>10. Working(c)' => /\ row'[Current(c)] = "REPLAYED"
                      /\ x.at # "drawer" => stage'[Current(c)] # "ticketed"
  BY <1>3, <1>4 DEF Working
<1>11. RequestSound(c)'
  BY <1>3, <1>4, <1>6, <1>7, <1>8, <1>9, <1>10 DEF RequestSound, Offline, SoldOnline
<1> QED BY <1>2, <1>9, <1>11

\* One statement of a handler.
LEMMA HandlerStep ==
    ASSUME DeskSound, TypeOK', NEW c \in Conns, conn[c] # Idle, conn[c].todo # <<>>,
           UNCHANGED <<sale, queue>>, \E x : Becomes(c, x), RequestSound(c)',
           NEW r \in Sales, r = Current(c), SaleSound(r)', row[r] # "none" => row'[r] # "none",
           \A q \in Sales : q # r => row'[q] = row[q] /\ stage'[q] = stage[q],
           \/ UNCHANGED <<row, stage>> /\ ~ Working(c)'
           \/ /\ Working(c) \/ conn[c].kind = "sale" \/ row[r] = "none"
              /\ Working(c)' => Current(c)' = r
    PROVE  DeskSound'
<1> USE DEF DeskSound
<1>1. PICK x : Becomes(c, x)
  OBVIOUS
<1>2. Lasting
  BY DEF Lasting, Offline, SoldOnline
<1>3. ASSUME NEW d \in Conns, Working(d) PROVE Current(d) \in Sales
  BY <1>3, RequestParts, IdleIsNoRequest DEF Working
<1>4. OthersUntouched(c) /\ (Working(c)' => \A d \in Conns : d # c /\ Working(d) => Current(d) # Current(c)')
  <2>1. CASE UNCHANGED <<row, stage>> /\ ~ Working(c)'
    BY <2>1 DEF OthersUntouched
  <2>2. CASE /\ Working(c) \/ conn[c].kind = "sale" \/ row[r] = "none"
             /\ Working(c)' => Current(c)' = r
    <3>1. \A d \in Conns : d # c /\ Working(d) => Current(d) # r
      BY <2>2, Alone
    <3> QED BY <1>3, <2>2, <3>1 DEF OthersUntouched
  <2> QED BY <2>1, <2>2
<1>5. RequestsSound'
  BY <1>1, <1>2, <1>4, OthersSound
<1>6. Apart'
  BY <1>1, <1>4, ApartKept
<1>7. SalesSound'
  BY SalesKept
<1>8. QueuesSound'
  BY DEF QueuesSound, Offline
<1> QED BY <1>5, <1>6, <1>7, <1>8

\* What the handlers do: a sale is claimed once, and ticketed or refused by the flush that
\* has claimed it.
LEMMA HandlersKept ==
    ASSUME DeskSound, NEW c \in Conns,
           Claim(c) \/ ClaimFails(c) \/ ReplaySeats(c) \/ HoldSeats(c) \/ Pay(c) \/ Ticket(c) \/ Drawer(c)
    PROVE  DeskSound'
<1>0. TypeOK /\ RequestsSound /\ Apart /\ SalesSound /\ QueuesSound
  BY DEF DeskSound
<1>1. conn[c] # Idle /\ conn[c].todo # <<>>
  BY DEF Claim, ClaimFails, ReplaySeats, HoldSeats, Pay, Ticket, Drawer, At
<1>2. TypeOK'
  BY <1>0, HandlerTypes
<1>3. UNCHANGED <<sale, queue>>
  BY DEF Claim, ClaimFails, ReplaySeats, HoldSeats, Pay, Ticket, Drawer, clientVars, storeVars
<1>4. PICK r \in Sales : r = Current(c)
  BY <1>0, <1>1, RequestParts
<1>5. /\ conn[c].kind \in {"flush", "sale"} /\ row[r] \in {"none", "REPLAYED", "REJECTED"}
      /\ conn[c].kind = "flush" => Offline(r)
      /\ conn[c].kind = "sale" => SoldOnline(r)
      /\ SoldOnline(r) => ~ Offline(r)
      /\ sale[r] # NoSale /\ sale[r].total \in Nat
      /\ row \in [Sales -> {"none", "REPLAYED", "REJECTED"}] /\ stage \in [Sales -> Stages]
  <2>1. /\ conn[c].kind \in {"flush", "sale"} /\ sale[r] # NoSale
        /\ conn[c].kind = "flush" => Offline(r)
        /\ conn[c].kind = "sale" => SoldOnline(r)
    BY <1>0, <1>1, <1>4, RequestParts, Handled
  <2>2. sale[r].total \in Nat
    BY <1>0, <2>1, SaleParts
  <2>3. row \in [Sales -> {"none", "REPLAYED", "REJECTED"}] /\ stage \in [Sales -> Stages]
    BY <1>0, TypesSplit
  <2>4. SoldOnline(r) => ~ Offline(r)
    BY DEF Offline, SoldOnline
  <2> QED BY <2>1, <2>2, <2>3, <2>4
<1>6. SaleSound(r) /\ RequestSound(c)
  BY <1>0 DEF SalesSound, RequestsSound
<1>7. Working(c) <=> conn[c].kind = "flush" /\ conn[c].at # "start"
  BY <1>1 DEF Working
<1> DEFINE Elsewhere == \A q \in Sales : q # r => row'[q] = row[q] /\ stage'[q] = stage[q]
           RowStays  == row[r] # "none" => row'[r] # "none"
<1>8. ASSUME Elsewhere, RowStays PROVE Lasting
  BY <1>3, <1>8 DEF Lasting, Offline, SoldOnline
\* The sale is answered: without a change ...
<1>9. ASSUME NEW b \in BOOLEAN, Answer(c, b), UNCHANGED <<row, stage>>,
             conn[c].kind = "flush" => row[r] # "none"
      PROVE  DeskSound'
  <2>1. RequestSound(c)' /\ ~ Working(c)' /\ \E x : Becomes(c, x)
    BY <1>0, <1>1, <1>3, <1>4, <1>8, <1>9, AnswerSound
  <2>2. SaleSound(r)'
    BY <1>3, <1>6, <1>9 DEF SaleSound, Offline, SoldOnline
  <2> QED BY <1>1, <1>2, <1>3, <1>4, <1>9, <2>1, <2>2, HandlerStep
\* ... or with a refusal.
<1>10. ASSUME Reject(c), Working(c), conn[c].at # "drawer", UNCHANGED stage
       PROVE  DeskSound'
  <2>1. row' = [row EXCEPT ![r] = "REJECTED"] /\ Answer(c, FALSE)
    BY <1>4, <1>10 DEF Reject
  <2>2. row'[r] = "REJECTED" /\ Elsewhere /\ RowStays
    BY <1>5, <1>10, <2>1
  <2>3. RequestSound(c)' /\ ~ Working(c)' /\ \E x : Becomes(c, x)
    BY <1>0, <1>1, <1>3, <1>4, <1>8, <2>1, <2>2, AnswerSound
  <2>4. stage'[r] # "ticketed"
    BY <1>4, <1>6, <1>10 DEF RequestSound
  <2>5. Offline(r)
    BY <1>5, <1>7, <1>10
  <2>6. SaleSound(r)'
    BY <1>3, <1>5, <2>2, <2>4, <2>5 DEF SaleSound, Offline, SoldOnline
  <2> QED BY <1>1, <1>2, <1>3, <1>4, <1>10, <2>2, <2>3, <2>6, HandlerStep
\* The request goes on.
<1>11. ASSUME NEW at \in {"seats", "pay", "ticket", "drawer"}, Goto(c, at), Elsewhere, RowStays,
              \/ UNCHANGED row /\ (Working(c) \/ conn[c].kind = "sale")
              \/ row[r] = "none" /\ row'[r] = "REPLAYED" /\ conn[c].kind = "flush",
              conn[c].kind = "sale" => at # "seats" /\ UNCHANGED row,
              conn[c].at # "drawer",
              stage'[r] = "ticketed" => stage[r] = "ticketed" \/ at = "drawer"
       PROVE  DeskSound'
  <2>1. conn[c].kind = "flush" => /\ row'[r] = "REPLAYED"
                                  /\ at # "drawer" => stage'[r] # "ticketed"
    <3>1. SUFFICES ASSUME conn[c].kind = "flush"
                   PROVE  row'[r] = "REPLAYED" /\ (at # "drawer" => stage'[r] # "ticketed")
      OBVIOUS
    <3>2. CASE Working(c) /\ UNCHANGED row
      <4>1. row[r] = "REPLAYED"
        BY <1>4, <1>6, <3>2 DEF RequestSound
      <4> QED BY <1>4, <1>6, <1>11, <3>2, <4>1 DEF RequestSound
    <3>3. CASE row[r] = "none" /\ row'[r] = "REPLAYED"
      BY <1>5, <1>6, <1>11, <3>1, <3>3 DEF SaleSound
    <3> QED BY <1>11, <3>1, <3>2, <3>3
  <2>2. RequestSound(c)' /\ Current(c)' = r /\ \E x : Becomes(c, x)
    BY <1>0, <1>1, <1>3, <1>4, <1>8, <1>11, <2>1, GotoSound
  <2>3. SaleSound(r)'
    BY <1>3, <1>5, <1>6, <1>11, <2>1 DEF SaleSound, Offline, SoldOnline
  <2> QED BY <1>1, <1>2, <1>3, <1>4, <1>11, <2>2, <2>3, HandlerStep
<1> HIDE DEF Elsewhere, RowStays
<1>12. UNCHANGED row => RowStays
  BY DEF RowStays
<1>13. CASE Claim(c)
  <2>1. conn[c].at = "start" /\ conn[c].kind = "flush" /\ UNCHANGED stage
    BY <1>13 DEF Claim, At
  <2>2. CASE row[r] = "none"
    <3>1. row' = [row EXCEPT ![r] = "REPLAYED"] /\ Goto(c, "seats")
      BY <1>4, <1>13, <2>2 DEF Claim
    <3>2. row'[r] = "REPLAYED" /\ Elsewhere /\ RowStays
      BY <1>5, <2>1, <3>1 DEF Elsewhere, RowStays
    <3> QED BY <1>11, <2>1, <2>2, <3>1, <3>2
  <2>3. CASE row[r] # "none"
    <3>1. Answer(c, TRUE) /\ UNCHANGED row
      BY <1>4, <1>13, <2>3 DEF Claim
    <3> QED BY <1>9, <2>1, <2>3, <3>1
  <2> QED BY <2>2, <2>3
<1>14. CASE ClaimFails(c)
  <2>1. /\ conn[c].at = "start" /\ conn[c].kind = "flush" /\ UNCHANGED <<row, stage>>
        /\ conn' = [conn EXCEPT ![c].todo = Tail(@)]
    BY <1>14 DEF ClaimFails, At, serverVars
  <2>2. PICK x : x = [conn[c] EXCEPT !.todo = Tail(conn[c].todo)]
    OBVIOUS
  <2>3. conn[c] \in Requests /\ conn[c].todo \in Seq(Sales)
    BY <1>0, <1>1, RequestParts
  <2>4. /\ x.kind = conn[c].kind /\ x.todo = Tail(conn[c].todo) /\ x.at = conn[c].at
        /\ x.settled = conn[c].settled
    BY <2>2, <2>3 DEF Requests
  <2>5. Becomes(c, x) /\ conn'[c] = x
    BY <1>0, <2>1, <2>2, TypesSplit DEF Becomes
  <2>6. PICK todo, S : todo = conn[c].todo /\ S = conn[c].settled
    OBVIOUS
  <2>7. \A i \in 1 .. Len(Tail(todo)) : i + 1 \in 1 .. Len(todo) /\ Tail(todo)[i] = todo[i + 1]
    BY <1>1, <2>3, <2>6, TailParts
  <2>8. (\A i \in 1 .. Len(Tail(todo)) : Offline(Tail(todo)[i])) /\ \A q \in S : row[q] # "none"
    BY <1>6, <2>1, <2>6, <2>7 DEF RequestSound
  <2>9. ~ Working(c)'
    BY <2>1, <2>4, <2>5 DEF Working
  <2>10. RequestSound(c)'
    BY <1>3, <2>1, <2>4, <2>5, <2>6, <2>8, <2>9 DEF RequestSound, Offline
  <2>11. SaleSound(r)'
    BY <1>3, <1>6, <2>1 DEF SaleSound, Offline, SoldOnline
  <2> QED BY <1>1, <1>2, <1>3, <1>4, <2>1, <2>5, <2>9, <2>10, <2>11, HandlerStep
<1>15. CASE ReplaySeats(c)
  <2>1. conn[c].at = "seats" /\ Working(c)
    BY <1>5, <1>6, <1>7, <1>15 DEF ReplaySeats, At, RequestSound
  <2>2. CASE TakeSeats(r, "quota") /\ Goto(c, "pay") /\ UNCHANGED row
    <3>1. stage'[r] # "ticketed" /\ Elsewhere /\ RowStays
      BY <1>5, <1>12, <2>2 DEF TakeSeats, Elsewhere
    <3> QED BY <1>11, <2>1, <2>2, <3>1
  <2>3. CASE Reject(c) /\ UNCHANGED <<owner, stage>>
    BY <1>10, <2>1, <2>3
  <2> QED BY <1>4, <1>15, <2>2, <2>3 DEF ReplaySeats
<1>16. CASE HoldSeats(c)
  <2>1. conn[c].at = "start" /\ conn[c].kind = "sale" /\ UNCHANGED row
    BY <1>16 DEF HoldSeats, At
  <2>2. CASE TakeSeats(r, "free") /\ Goto(c, "pay")
    <3>1. stage'[r] # "ticketed" /\ Elsewhere /\ RowStays
      BY <1>5, <1>12, <2>1, <2>2 DEF TakeSeats, Elsewhere
    <3> QED BY <1>11, <2>1, <2>2, <3>1
  <2>3. CASE Answer(c, FALSE) /\ UNCHANGED <<owner, stage>>
    BY <1>9, <2>1, <2>3
  <2> QED BY <1>4, <1>16, <2>2, <2>3 DEF HoldSeats
<1>17. CASE Pay(c)
  <2>1. conn[c].at = "pay" /\ (Working(c) \/ conn[c].kind = "sale")
    BY <1>5, <1>7, <1>17 DEF Pay, At
  <2>2. CASE /\ stage' = [stage EXCEPT ![r] = IF @ = "seated" THEN "paid" ELSE @]
             /\ Goto(c, "ticket") /\ UNCHANGED row
    <3>1. (stage'[r] = "ticketed" => stage[r] = "ticketed") /\ Elsewhere /\ RowStays
      BY <1>5, <1>12, <2>2 DEF Elsewhere
    <3> QED BY <1>11, <2>1, <2>2, <3>1
  <2>3. CASE Reject(c) /\ UNCHANGED stage /\ ~ (sale[r].total > 0)
    <3>1. Working(c)
      BY <1>5, <1>6, <2>1, <2>3 DEF SaleSound
    <3> QED BY <1>10, <2>1, <2>3, <3>1
  <2> QED BY <1>4, <1>17, <2>2, <2>3 DEF Pay
<1>18. CASE Ticket(c)
  <2>1. conn[c].at = "ticket" /\ (Working(c) \/ conn[c].kind = "sale") /\ UNCHANGED row
    BY <1>5, <1>7, <1>18 DEF Ticket, At
  <2>2. CASE stage' = [stage EXCEPT ![r] = "ticketed"] /\ Goto(c, "drawer")
    <3>1. Elsewhere /\ RowStays
      BY <1>5, <1>12, <2>1, <2>2 DEF Elsewhere
    <3> QED BY <1>11, <2>1, <2>2, <3>1
  <2>3. CASE Answer(c, FALSE) /\ UNCHANGED stage
    <3>1. conn[c].kind = "flush" => row[r] # "none"
      BY <1>4, <1>6, <1>7, <2>1 DEF RequestSound
    <3> QED BY <1>9, <2>1, <2>3, <3>1
  <2> QED BY <1>4, <1>18, <2>2, <2>3 DEF Ticket
<1>19. CASE Drawer(c)
  <2>1. /\ conn[c].at = "drawer" /\ (Working(c) \/ conn[c].kind = "sale") /\ UNCHANGED <<row, stage>>
        /\ Answer(c, TRUE)
    BY <1>5, <1>7, <1>19 DEF Drawer, At
  <2>2. conn[c].kind = "flush" => row[r] # "none"
    BY <1>4, <1>6, <1>7, <2>1 DEF RequestSound
  <2> QED BY <1>9, <2>1, <2>2
<1> QED BY <1>13, <1>14, <1>15, <1>16, <1>17, <1>18, <1>19

\* What moves no sale and no request: the pages, other channels, and holds that lapse.
LEMMA UnmovedKept ==
    ASSUME DeskSound, TypeOK', UNCHANGED <<row, sale, queue, conn>>,
           \A r \in Sales : stage'[r] = "ticketed" => stage[r] = "ticketed"
    PROVE  DeskSound'
<1> USE DEF DeskSound
<1>1. Lasting
  BY DEF Lasting, Offline, SoldOnline
<1>2. ASSUME NEW c \in Conns PROVE RequestSound(c)'
  <2>1. Working(c) => Current(c) \in Sales
    BY RequestParts, IdleIsNoRequest DEF Working
  <2> QED BY <1>1, <2>1, StaysSound
<1>3. RequestsSound'
  BY <1>2 DEF RequestsSound, RequestSound, Working, Current, Offline, SoldOnline
<1>4. Apart'
  BY DEF Apart, Working, Current
<1>5. SalesSound'
  BY DEF SalesSound, SaleSound, Offline, SoldOnline
<1>6. QueuesSound'
  BY DEF QueuesSound, Offline
<1> QED BY <1>3, <1>4, <1>5, <1>6

\* A request is sent or ends: a sale leaves its queue only when its row is there.
LEMMA RequestsKept ==
    ASSUME DeskSound, NEW c \in Conns,
           (\E t \in Terminals : Flush(t, c)) \/ Flushed(c) \/ Sold(c) \/ Drop(c)
    PROVE  DeskSound'
<1>0. TypeOK /\ RequestsSound /\ Apart /\ SalesSound /\ QueuesSound
  BY DEF DeskSound
<1>1. TypeOK'
  BY <1>0, RequestTypes
<1>2. UNCHANGED <<row, stage, sale>>
  BY DEF Flush, Flushed, Sold, Drop, serverVars
<1>3. Lasting /\ OthersUntouched(c)
  BY <1>2 DEF Lasting, OthersUntouched, Offline, SoldOnline
<1>4. conn \in [Conns -> {Idle} \cup Requests] /\ queue \in [Terminals -> Seq(Sales)]
  BY <1>0, TypesSplit
<1>5. ASSUME NEW x, Becomes(c, x), x.kind = "idle" \/ x.at = "start", RequestSound(c)'
      PROVE  RequestsSound' /\ Apart'
  <2>1. conn'[c] = x
    BY <1>4, <1>5 DEF Becomes
  <2>2. ~ Working(c)'
    BY <1>5, <2>1 DEF Working
  <2> QED BY <1>0, <1>3, <1>5, <2>2, OthersSound, ApartKept
<1>6. ASSUME UNCHANGED queue PROVE SalesSound' /\ QueuesSound'
  BY <1>0, <1>2, <1>6 DEF SalesSound, SaleSound, QueuesSound, Offline, SoldOnline
<1>7. ASSUME Becomes(c, Idle) PROVE RequestsSound' /\ Apart'
  <2>1. conn'[c] = Idle /\ Idle.kind = "idle"
    BY <1>4, <1>7, IdleIsNoRequest DEF Becomes
  <2>2. RequestSound(c)'
    BY <2>1 DEF RequestSound, Working
  <2> QED BY <1>5, <1>7, <2>1, <2>2
<1>8. CASE Drop(c) \/ Sold(c)
  <2>1. Becomes(c, Idle) /\ UNCHANGED queue
    BY <1>8 DEF Drop, Sold, Becomes, storeVars
  <2> QED BY <1>1, <1>6, <1>7, <2>1 DEF DeskSound
<1>9. ASSUME NEW t \in Terminals, Flush(t, c) PROVE DeskSound'
  <2>1. PICK q : q = queue[t]
    OBVIOUS
  <2> DEFINE x == [kind |-> "flush", from |-> t, todo |-> q, at |-> "start", settled |-> {},
                   refused |-> FALSE]
  <2>2. Becomes(c, x) /\ UNCHANGED queue
    BY <1>9, <2>1 DEF Flush, Becomes, storeVars
  <2>3. conn'[c] = x
    BY <1>4, <2>2 DEF Becomes
  <2>4. \A i \in 1 .. Len(q) : Offline(q[i])
    BY <1>0, <2>1 DEF QueuesSound
  <2>5. RequestSound(c)'
    BY <1>2, <2>3, <2>4 DEF RequestSound, Working, Offline
  <2>6. RequestsSound' /\ Apart'
    BY <1>5, <2>2, <2>5
  <2> QED BY <1>1, <1>6, <2>2, <2>6 DEF DeskSound
<1>10. CASE Flushed(c)
  <2>1. conn[c] # Idle /\ conn[c].kind = "flush" /\ Becomes(c, Idle)
    BY <1>10, IdleIsNoRequest DEF Flushed, Becomes
  <2>2. PICK t \in Terminals : t = conn[c].from
    BY <1>0, <2>1, RequestParts
  <2>3. PICK S \in SUBSET Sales : S = conn[c].settled
    BY <1>0, <2>1, RequestParts
  <2>4. \A r \in S : row[r] # "none"
    BY <1>0, <2>1, <2>3 DEF RequestsSound, RequestSound
  <2>0. queue[t] \in Seq(Sales)
    BY <1>4
  <2>5. PICK p \in Seq(Sales) : p = queue[t]
    BY <2>0
  <2>b. \A r : (\E n \in 1 .. Len(Without(p, S)) : Without(p, S)[n] = r)
                 <=> r \notin S /\ \E i \in 1 .. Len(p) : p[i] = r
    BY WithoutLeaves, Zenon
  <2>c. PICK w : w = Without(p, S)
    OBVIOUS
  <2>6. queue' = [queue EXCEPT ![t] = w]
    BY <1>10, <2>2, <2>3, <2>5, <2>c DEF Flushed
  <2>7. \A r : (\E n \in 1 .. Len(w) : w[n] = r) <=> r \notin S /\ \E i \in 1 .. Len(queue[t]) : queue[t][i] = r
    BY <2>b, <2>c, <2>5
  <2>8. ASSUME NEW u \in Terminals, NEW q, q = queue'[u] PROVE \A i \in 1 .. Len(q) : Offline(q[i])
    <3>1. CASE u # t
      BY <1>0, <1>4, <2>6, <2>8, <3>1 DEF QueuesSound
    <3>2. CASE u = t
      <4>1. q = w
        BY <1>4, <2>6, <2>8, <3>2
      <4> SUFFICES ASSUME NEW i \in 1 .. Len(w) PROVE Offline(w[i])
          BY <4>1
      <4>2. PICK j \in 1 .. Len(queue[t]) : queue[t][j] = w[i]
        BY <2>7
      <4> QED BY <1>0, <4>2 DEF QueuesSound
    <3> QED BY <3>1, <3>2
  <2>a. QueuesSound'
    BY <1>2, <2>8 DEF QueuesSound, Offline
  <2>9. ASSUME NEW r \in Sales, NEW u \in Terminals, row[r] = "none", Contains(queue[u], r)
        PROVE  Contains(queue'[u], r)
    <3>1. CASE u # t
      BY <1>4, <2>6, <2>9, <3>1
    <3>2. CASE u = t
      <4>1. queue'[u] = w
        BY <1>4, <2>6, <3>2
      <4>2. r \notin S
        BY <2>4, <2>9
      <4>3. \E i \in 1 .. Len(queue[t]) : queue[t][i] = r
        BY <2>9, <3>2 DEF Contains
      <4> QED BY <2>7, <4>1, <4>2, <4>3 DEF Contains
    <3> QED BY <3>1, <3>2
  <2>10. SalesSound'
    <3> SUFFICES ASSUME NEW r \in Sales PROVE SaleSound(r)'
        BY DEF SalesSound
    <3>1. SaleSound(r)
      BY <1>0 DEF SalesSound
    <3>2. Offline(r) /\ row[r] = "none" => Contains(queue'[sale[r].at], r)
      <4>1. Offline(r) => sale[r].at \in Terminals
        BY <1>0, SaleParts DEF Offline
      <4> HIDE DEF Contains
      <4> QED BY <2>9, <3>1, <4>1 DEF SaleSound
    <3> HIDE DEF Contains
    <3> QED BY <1>2, <3>1, <3>2 DEF SaleSound, Offline, SoldOnline
  <2> QED BY <1>1, <1>7, <2>1, <2>a, <2>10 DEF DeskSound
<1> QED BY <1>8, <1>9, <1>10

LEMMA AppendParts ==
    ASSUME NEW q \in Seq(Sales), NEW r \in Sales
    PROVE  /\ Contains(Append(q, r), r)
           /\ \A x : Contains(q, x) => Contains(Append(q, r), x)
           /\ \A i \in 1 .. Len(Append(q, r)) :
                 Append(q, r)[i] = r \/ (i \in 1 .. Len(q) /\ Append(q, r)[i] = q[i])
<1>1. /\ Len(q) \in Nat /\ Len(Append(q, r)) = Len(q) + 1 /\ Append(q, r)[Len(q) + 1] = r
      /\ \A i \in 1 .. Len(q) : Append(q, r)[i] = q[i] /\ i \in 1 .. Len(q) + 1
  OBVIOUS
<1>2. Contains(Append(q, r), r)
  BY <1>1 DEF Contains
<1>3. ASSUME NEW x, Contains(q, x) PROVE Contains(Append(q, r), x)
  <2>1. PICK i \in 1 .. Len(q) : q[i] = x
    BY <1>3 DEF Contains
  <2> QED BY <1>1, <2>1 DEF Contains
<1>4. ASSUME NEW i \in 1 .. Len(Append(q, r))
      PROVE  Append(q, r)[i] = r \/ (i \in 1 .. Len(q) /\ Append(q, r)[i] = q[i])
  <2>1. PICK w, n : w = Append(q, r) /\ n = Len(q)
    OBVIOUS
  <2>2. n \in Nat /\ i \in 1 .. n + 1 /\ w[n + 1] = r /\ \A j \in 1 .. n : w[j] = q[j]
    BY <1>1, <2>1
  <2>3. i = n + 1 \/ i \in 1 .. n
    BY <2>2
  <2> QED BY <2>1, <2>2, <2>3
<1> QED BY <1>2, <1>3, <1>4

\* A new sale is on paper and in the queue, or paid on line with more than nothing.
LEMMA SellingKept ==
    ASSUME DeskSound, NEW t \in Terminals, NEW r \in Sales, NEW S \in SUBSET Seats, NEW c,
           NEW m \in Methods, OfflineSell(t, r, S) \/ (c \in Conns /\ Sell(t, c, r, m))
    PROVE  DeskSound'
<1>0. TypeOK /\ RequestsSound /\ Apart /\ SalesSound /\ QueuesSound
  BY DEF DeskSound
<1>1. TypeOK'
  BY <1>0, RequestTypes
<1>2. /\ sale[r] = NoSale /\ sale'[r] \in SaleRows /\ sale' = [sale EXCEPT ![r] = sale'[r]]
      /\ sale'[r].at = t
      /\ OfflineSell(t, r, S) => sale'[r].kind = "offline"
      /\ Sell(t, c, r, m) => sale'[r].kind = "online" /\ sale'[r].total > 0
  BY <1>0, NewSales
<1>3. /\ conn \in [Conns -> {Idle} \cup Requests] /\ queue \in [Terminals -> Seq(Sales)]
      /\ sale \in [Sales -> {NoSale} \cup SaleRows]
  BY <1>0, TypesSplit
<1>4. UNCHANGED <<row, stage>> /\ \A q \in Sales : q # r => sale'[q] = sale[q]
  BY <1>2, <1>3 DEF OfflineSell, Sell, serverVars
<1>5. /\ ~ Offline(r) /\ ~ SoldOnline(r) /\ row[r] = "none" /\ stage[r] # "ticketed"
      /\ sale'[r] # NoSale
  <2>1. ~ Offline(r) /\ ~ SoldOnline(r)
    BY <1>2 DEF Offline, SoldOnline
  <2>2. sale'[r] # NoSale
    BY <1>2 DEF NoSale, SaleRows
  <2> QED BY <1>0, <2>1, <2>2 DEF SalesSound, SaleSound
<1>6. Lasting
  BY <1>4, <1>5 DEF Lasting, Offline, SoldOnline
<1>7. OthersUntouched(c)
  BY <1>4 DEF OthersUntouched
<1>8. \A q \in Sales : q # r => (Offline(q)' <=> Offline(q)) /\ (SoldOnline(q)' <=> SoldOnline(q))
  BY <1>4 DEF Offline, SoldOnline
<1>9. ASSUME SaleSound(r)',
             \A q \in Sales : q # r /\ Offline(q) /\ Contains(queue[sale[q].at], q)
                 => Contains(queue'[sale[q].at], q)
      PROVE  SalesSound'
  <2> SUFFICES ASSUME NEW q \in Sales, q # r PROVE SaleSound(q)'
      BY <1>9 DEF SalesSound
  <2>1. SaleSound(q) /\ sale'[q] = sale[q] /\ row'[q] = row[q] /\ stage'[q] = stage[q]
    BY <1>0, <1>4 DEF SalesSound
  <2> HIDE DEF Contains
  <2>2. Offline(q) /\ row[q] = "none" => Contains(queue'[sale[q].at], q)
    BY <1>9, <2>1 DEF SaleSound
  <2> QED BY <1>8, <2>1, <2>2 DEF SaleSound
<1>10. CASE OfflineSell(t, r, S)
  <2>1. /\ UNCHANGED conn /\ sale'[r].kind = "offline"
        /\ queue' = [queue EXCEPT ![t] = Append(queue[t], r)]
    BY <1>2, <1>3, <1>10 DEF OfflineSell, Enqueue
  <2>2. PICK w \in Seq(Sales) : w = queue[t]
    BY <1>3
  <2>3. Offline(r)' /\ ~ SoldOnline(r)'
    BY <1>5, <2>1 DEF Offline, SoldOnline
  <2>4. queue'[t] = Append(w, r) /\ \A u \in Terminals : u # t => queue'[u] = queue[u]
    BY <1>3, <2>1, <2>2
  <2>5. RequestsSound'
    <3> SUFFICES ASSUME NEW d \in Conns PROVE RequestSound(d)'
        BY DEF RequestsSound
    <3> QED BY <1>0, <1>4, <1>6, <2>1, StaysSound
  <2>6. Apart'
    BY <1>0, <2>1 DEF Apart, Working, Current
  <2>7. SaleSound(r)'
    <3>1. Contains(queue'[t], r)
      BY <2>2, <2>4, AppendParts
    <3> HIDE DEF Contains
    <3> QED BY <1>2, <1>4, <1>5, <2>3, <3>1 DEF SaleSound
  <2>8. SalesSound'
    <3>1. ASSUME NEW q \in Sales, NEW u \in Terminals, Contains(queue[u], q) PROVE Contains(queue'[u], q)
      <4>1. CASE u = t
        <5>1. Contains(w, q)
          BY <2>2, <3>1, <4>1
        <5>2. Contains(Append(w, r), q)
          BY <2>2, <5>1, AppendParts
        <5> QED BY <2>4, <4>1, <5>2
      <4>2. CASE u # t
        BY <2>4, <3>1, <4>2
      <4> QED BY <4>1, <4>2
    <3>2. \A q \in Sales : Offline(q) => sale[q].at \in Terminals
      BY <1>0, SaleParts DEF Offline
    <3> HIDE DEF Contains
    <3> QED BY <1>9, <2>7, <3>1, <3>2
  <2>9. QueuesSound'
    <3>1. ASSUME NEW u \in Terminals, NEW q, q = queue'[u], NEW i \in 1 .. Len(q)
          PROVE  Offline(q[i])'
      <4>1. CASE u = t
        <5>1. q = Append(w, r)
          BY <2>4, <3>1, <4>1
        <5>2. q[i] = r \/ (i \in 1 .. Len(w) /\ q[i] = w[i])
          BY <2>2, <3>1, <5>1, AppendParts
        <5>3. CASE q[i] = r
          BY <2>3, <5>3
        <5>4. CASE i \in 1 .. Len(w) /\ q[i] = w[i]
          <6>1. Offline(w[i]) /\ w[i] \in Sales
            BY <1>0, <2>2, <5>4 DEF QueuesSound
          <6> QED BY <1>6, <5>4, <6>1 DEF Lasting
        <5> QED BY <5>2, <5>3, <5>4
      <4>2. CASE u # t
        <5>1. q = queue[u] /\ q \in Seq(Sales)
          BY <1>3, <2>4, <3>1, <4>2
        <5>2. Offline(q[i]) /\ q[i] \in Sales
          BY <1>0, <3>1, <5>1 DEF QueuesSound
        <5> QED BY <1>6, <5>2 DEF Lasting
      <4> QED BY <4>1, <4>2
    <3> QED BY <3>1 DEF QueuesSound, Offline
  <2> QED BY <1>1, <2>5, <2>6, <2>8, <2>9 DEF DeskSound
<1>11. CASE c \in Conns /\ Sell(t, c, r, m)
  <2> DEFINE x == [kind |-> "sale", from |-> t, todo |-> <<r>>, at |-> "start", settled |-> {},
                   refused |-> FALSE]
  <2>1. Becomes(c, x) /\ UNCHANGED queue /\ sale'[r].kind = "online" /\ sale'[r].total > 0
    BY <1>2, <1>11 DEF Sell, Becomes, storeVars
  <2>2. conn'[c] = x
    BY <1>3, <1>11, <2>1 DEF Becomes
  <2>3. SoldOnline(r)' /\ ~ Offline(r)'
    BY <1>5, <2>1 DEF SoldOnline, Offline
  <2>4. RequestSound(c)'
    <3>1. conn'[c].kind = "sale" /\ conn'[c].at = "start" /\ conn'[c].todo = <<r>>
      BY <2>2
    <3>2. \A i \in 1 .. Len(<<r>>) : <<r>>[i] = r
      OBVIOUS
    <3> QED BY <2>3, <3>1, <3>2 DEF RequestSound, Working, SoldOnline
  <2>5. ~ Working(c)'
    BY <2>2 DEF Working
  <2>6. RequestsSound' /\ Apart'
    BY <1>0, <1>6, <1>7, <1>11, <2>1, <2>4, <2>5, OthersSound, ApartKept
  <2>7. SaleSound(r)'
    BY <1>4, <1>5, <2>1, <2>3 DEF SaleSound
  <2>8. SalesSound'
    <3> HIDE DEF Contains
    <3> QED BY <1>9, <2>1, <2>7
  <2>9. QueuesSound'
    <3> SUFFICES ASSUME NEW u \in Terminals, NEW i \in 1 .. Len(queue[u]) PROVE Offline(queue[u][i])'
        BY <2>1 DEF QueuesSound, Offline
    <3>1. Offline(queue[u][i]) /\ queue[u][i] \in Sales
      BY <1>0, <1>3 DEF QueuesSound
    <3> QED BY <1>4, <1>5, <2>1, <3>1 DEF Offline
  <2> QED BY <1>1, <2>6, <2>8, <2>9 DEF DeskSound
<1> QED BY <1>10, <1>11

\* DeskSound is inductive.
LEMMA DeskStep == DeskSound /\ [Next]_vars => DeskSound'
<1> SUFFICES ASSUME DeskSound, [Next]_vars PROVE DeskSound'
    OBVIOUS
<1>0. TypeOK /\ RequestsSound
  BY DEF DeskSound
<1>1. ASSUME NEW t \in Terminals,
             \/ OpenDesk(t) \/ OpenQuota(t) \/ Install(t) \/ LineChanges(t) \/ CloseShift(t) \/ StepBack(t)
             \/ \E S \in SUBSET Seats : Reserve(t, S) \/ AskToPay(t, S)
             \/ \E s \in Seats : Release(t, s)
             \/ \E k \in Shifts : OpenShift(t, k)
      PROVE  DeskSound'
  <2>1. TypeOK' /\ UNCHANGED <<row, stage, sale, queue, conn>>
    BY <1>0, <1>1, PageTypes
  <2> QED BY <2>1, UnmovedKept
<1>2. ASSUME (\E r \in Sales : Lapse(r)) \/ (\E s \in Seats : SoldElsewhere(s)) PROVE DeskSound'
  <2>1. TypeOK'
    BY <1>0, <1>2, LapseTypes
  <2>2. UNCHANGED <<row, sale, queue, conn>>
    BY <1>2 DEF Lapse, SoldElsewhere, clientVars, storeVars
  <2>3. \A r \in Sales : stage'[r] = "ticketed" => stage[r] = "ticketed"
    BY <1>0, <1>2, TypesSplit DEF Lapse, SoldElsewhere
  <2> QED BY <2>1, <2>2, <2>3, UnmovedKept
<1>3. ASSUME NEW c \in Conns, (\E t \in Terminals : Flush(t, c)) \/ Flushed(c) \/ Sold(c) \/ Drop(c)
      PROVE  DeskSound'
  BY <1>3, RequestsKept
<1>4. ASSUME NEW c \in Conns,
             Claim(c) \/ ClaimFails(c) \/ ReplaySeats(c) \/ HoldSeats(c) \/ Pay(c) \/ Ticket(c) \/ Drawer(c)
      PROVE  DeskSound'
  BY <1>4, HandlersKept
<1>5. ASSUME NEW t \in Terminals, NEW c \in Conns, NEW r \in Sales, NEW m \in Methods, Sell(t, c, r, m)
      PROVE  DeskSound'
  BY <1>5, SellingKept
<1>6. ASSUME NEW t \in Terminals, NEW r \in Sales, NEW S \in SUBSET Seats, OfflineSell(t, r, S)
      PROVE  DeskSound'
  <2>1. "CASH" \in Methods
    BY DEF Methods
  <2>2. \A c : OfflineSell(t, r, S) \/ (c \in Conns /\ Sell(t, c, r, "CASH")) => DeskSound'
    BY <2>1, SellingKept, Zenon
  <2> QED BY <1>6, <2>2
<1>7. CASE UNCHANGED vars
  <2>1. UNCHANGED <<row, stage, sale, queue, conn>> /\ TypeOK'
    BY <1>0, <1>7 DEF vars, serverVars, storeVars, pageVars, TypeOK
  <2> QED BY <2>1, UnmovedKept
<1> QED BY <1>1, <1>2, <1>3, <1>4, <1>5, <1>6, <1>7 DEF Next

LEMMA SpecDeskSound == Spec => []DeskSound
BY DeskInitSound, DeskStep, PTL DEF Spec

-----------------------------------------------------------------------------
(* What the runs check, for every counter                                   *)

\* The rows of counter.go and the pages' copies keep their types in every reachable state.
THEOREM CounterTypes == Spec => []TypeOK
<1>1. DeskSound => TypeOK
  BY DEF DeskSound
<1> QED BY <1>1, SpecDeskSound, PTL

\* Cash taken without a line stays on record: however the flushes of counter/page.tsx are
\* cut, doubled or answered late, a sale leaves its terminal's queue only once
\* handleReplayOffline has written its row.
THEOREM NoSaleUnrecordedAlways == Spec => []NoSaleUnrecorded
<1>1. DeskSound => NoSaleUnrecorded
  <2> SUFFICES ASSUME DeskSound, NEW r \in Sales, Offline(r), row[r] = "none" PROVE Queued(r)
      BY DEF NoSaleUnrecorded
  <2>1. sale[r].at \in Terminals
    BY SaleParts DEF DeskSound, Offline
  <2>2. Contains(queue[sale[r].at], r)
    BY DEF DeskSound, SalesSound, SaleSound
  <2> HIDE DEF Contains
  <2> QED BY <2>1, <2>2 DEF Queued
<1> QED BY <1>1, SpecDeskSound, PTL

\* The row that claims a client_ref makes the replay idempotent: of all the flushes that
\* carry a sale one does its work, so handleReplayOffline never refuses what it has
\* ticketed, nor tickets what it has refused.
THEOREM NeverBothAlways == Spec => []NeverBothTicketedAndRefused
<1>1. DeskSound => NeverBothTicketedAndRefused
  BY DEF DeskSound, SalesSound, SaleSound, NeverBothTicketedAndRefused
<1> QED BY <1>1, SpecDeskSound, PTL

\* The rule of shift/page.tsx holds for the terminal that closes: with its queue empty,
\* the server has the row of every sale that it made without a line.
THEOREM ShiftsCloseAfterReplay == Spec => ShiftClosesAfterReplay
<1> DEFINE Close(t) == ctx[t] \in Shifts /\ shift[ctx[t]] = "OPEN" /\ ctx'[t] = None
                         /\ shift'[ctx[t]] = "CLOSED"
           Recorded(t) == \A r \in Sales : Offline(r) /\ sale[r].at = t => row[r] # "none"
<1>1. ASSUME DeskSound, [Next]_vars, NEW t \in Terminals, Close(t) PROVE Recorded(t)
  <2>0. TypeOK /\ SalesSound /\ None \notin Shifts
    BY <1>1, CounterConstants DEF DeskSound
  <2>1. ctx \in [Terminals -> Contexts \cup {QuotaPage, NoPage}] /\ shift \in [Shifts -> {"none", "OPEN", "CLOSED"}]
    BY <2>0, TypesSplit
  <2>2. ctx[t] \in Shifts /\ shift'[ctx[t]] # shift[ctx[t]] /\ shift'[ctx[t]] # "OPEN" /\ ctx'[t] # ctx[t]
    BY <1>1, <2>0
  <2>3. \E u \in Terminals : CloseShift(u) \/ \E k \in Shifts : OpenShift(u, k)
    <3>1. shift' # shift
      BY <2>2
    <3> QED
      BY <1>1, <3>1
      DEF Next, vars, serverVars, clientVars, storeVars, OpenDesk, OpenQuota, Install, LineChanges,
          StepBack, Reserve, AskToPay, Release, OfflineSell, Flush, Sell, Lapse, Flushed, Sold, Drop,
          Claim, ClaimFails, ReplaySeats, HoldSeats, Pay, Ticket, Drawer, SoldElsewhere
  <2>4. ASSUME NEW u \in Terminals, NEW k \in Shifts, OpenShift(u, k) PROVE FALSE
    BY <2>1, <2>2, <2>4 DEF OpenShift
  <2>5. PICK u \in Terminals : CloseShift(u)
    BY <2>3, <2>4
  <2>6. u = t
    BY <2>1, <2>2, <2>5 DEF CloseShift
  <2>7. Len(queue[t]) = 0
    BY <2>5, <2>6 DEF CloseShift, Waiting
  <2>8. \A r : ~ Contains(queue[t], r)
    BY <2>7 DEF Contains
  <2> HIDE DEF Contains
  <2> QED BY <2>0, <2>8 DEF SalesSound, SaleSound
<1>2. DeskSound /\ [Next]_vars => [\A t \in Terminals : Close(t) => Recorded(t)]_vars
  BY <1>1
<1>3. Spec => [][\A t \in Terminals : Close(t) => Recorded(t)]_vars
  BY <1>2, SpecDeskSound, PTL DEF Spec
<1> QED BY <1>3 DEF ShiftClosesAfterReplay

-----------------------------------------------------------------------------
(* The counter in the seat market                                           *)

\* A sale has seats that its record names, and no others.
SeatsRecorded ==
    \A s \in Seats : owner[s] \in Sales => /\ sale[owner[s]] # NoSale
                                           /\ s \in sale[owner[s]].seats

CounterMarketView == [cell \in Seats \X {"whole way"} |-> SeatClaims(cell[1])]
WholeWay(S) == S \X {"whole way"}

\* The claim of owner o on seat s.
ClaimOf(o, s, sold) ==
    IF o = "free" THEN {}
    ELSE IF o = "quota" THEN {Market!Quota(ThisCounter)}
    ELSE IF o = "elsewhere" THEN {Market!Held(OtherHold(s))}
    ELSE IF sold THEN {Market!Sold(SaleHold(o))} ELSE {Market!Held(SaleHold(o))}

LEMMA ClaimsOnSeat ==
    ASSUME NEW s
    PROVE  /\ SeatClaims(s) = ClaimOf(owner[s], s, SoldTo(owner[s]))
           /\ SeatClaims(s)' = ClaimOf(owner'[s], s, SoldTo(owner[s])')
<1>1. SeatClaims(s) = ClaimOf(owner[s], s, SoldTo(owner[s]))
  BY DEF SeatClaims, ClaimOf, Market!Quota, Market!Held, Market!Sold
<1>2. SeatClaims(s)' = ClaimOf(owner'[s], s, SoldTo(owner[s])')
  BY DEF SeatClaims, ClaimOf, Market!Quota, Market!Held, Market!Sold
<1> QED BY <1>1, <1>2

\* Owners are told apart, and so are their claims.
LEMMA ClaimsApart ==
    ASSUME NEW o \in {"free", "quota", "elsewhere"} \cup Sales, NEW s, NEW sold \in BOOLEAN
    PROVE  /\ Market!Quota(ThisCounter) \in ClaimOf(o, s, sold) <=> o = "quota"
           /\ \A r \in Sales : /\ Market!Held(SaleHold(r)) \in ClaimOf(o, s, sold) <=> o = r /\ ~ sold
                               /\ Market!Sold(SaleHold(r)) \in ClaimOf(o, s, sold) <=> o = r /\ sold
           /\ \A u : /\ Market!Held(OtherHold(u)) \in ClaimOf(o, s, sold) <=> o = "elsewhere" /\ u = s
                     /\ Market!Sold(OtherHold(u)) \notin ClaimOf(o, s, sold)
<1>1. \A r \in Sales : r # "free" /\ r # "quota" /\ r # "elsewhere"
  BY CounterConstants
<1>2. \A q, r : /\ SaleHold(q) = SaleHold(r) <=> q = r
                /\ OtherHold(q) = OtherHold(r) <=> q = r
                /\ SaleHold(q) # OtherHold(r)
  <2>1. \A q, r : SaleHold(q).id = q /\ SaleHold(q).of = "sale" /\ OtherHold(r).id = r /\ OtherHold(r).of = "elsewhere"
    BY DEF SaleHold, OtherHold
  <2> QED BY <2>1
<1>3. \A g, h : /\ Market!Held(g) = Market!Held(h) <=> g = h
                /\ Market!Sold(g) = Market!Sold(h) <=> g = h
                /\ Market!Held(g) # Market!Sold(h)
                /\ Market!Quota(ThisCounter) # Market!Held(h) /\ Market!Quota(ThisCounter) # Market!Sold(h)
  <2>1. \A h : /\ Market!Held(h).who = h /\ Market!Held(h).kind = "held"
               /\ Market!Sold(h).who = h /\ Market!Sold(h).kind = "sold"
               /\ Market!Quota(ThisCounter).kind = "quota"
    BY DEF Market!Held, Market!Sold, Market!Quota
  <2> QED BY <2>1
<1> QED BY <1>1, <1>2, <1>3 DEF ClaimOf

LEMMA SeatsGranted ==
    ASSUME NEW S \in SUBSET Seats, NEW new,
           \A s \in Seats : SeatClaims(s)' = IF s \in S THEN new ELSE SeatClaims(s)
    PROVE  Market!Grant(WholeWay(S), new)
BY DEF Market!Grant, Market!Cells, WholeWay

\* Who is sold what he has is a yes or a no.
LEMMA SoldToIs == ASSUME NEW o PROVE SoldTo(o) \in BOOLEAN /\ SoldTo(o)' \in BOOLEAN
BY DEF SoldTo, Offline

\* What the owners have in the market.
LEMMA CellsOfOwners ==
    ASSUME TypeOK
    PROVE  /\ Market!CellsOf(Market!Quota(ThisCounter)) = WholeWay(SeatsOf("quota"))
           /\ \A r \in Sales :
                 /\ Market!CellsOf(Market!Held(SaleHold(r))) = IF SoldTo(r) THEN {} ELSE WholeWay(SeatsOf(r))
                 /\ Market!CellsOf(Market!Sold(SaleHold(r))) = IF SoldTo(r) THEN WholeWay(SeatsOf(r)) ELSE {}
           /\ \A u \in Seats : owner[u] # "elsewhere" => Market!OwnsNothing(OtherHold(u))
<1>1. ASSUME NEW claim
      PROVE  Market!CellsOf(claim) = {cell \in Seats \X {"whole way"} : claim \in SeatClaims(cell[1])}
  BY DEF Market!CellsOf, Market!Cells
<1>2. ASSUME NEW s \in Seats
      PROVE  /\ Market!Quota(ThisCounter) \in SeatClaims(s) <=> owner[s] = "quota"
             /\ \A r \in Sales : /\ Market!Held(SaleHold(r)) \in SeatClaims(s) <=> owner[s] = r /\ ~ SoldTo(r)
                                 /\ Market!Sold(SaleHold(r)) \in SeatClaims(s) <=> owner[s] = r /\ SoldTo(r)
             /\ \A u : /\ Market!Held(OtherHold(u)) \in SeatClaims(s) <=> owner[s] = "elsewhere" /\ u = s
                       /\ Market!Sold(OtherHold(u)) \notin SeatClaims(s)
  <2>1. owner[s] \in {"free", "quota", "elsewhere"} \cup Sales
    BY TypesSplit
  <2>2. PICK o, sold : o = owner[s] /\ sold = SoldTo(owner[s])
    OBVIOUS
  <2>3. SeatClaims(s) = ClaimOf(o, s, sold) /\ sold \in BOOLEAN /\ o \in {"free", "quota", "elsewhere"} \cup Sales
    BY <2>1, <2>2, ClaimsOnSeat, SoldToIs
  <2>4. /\ Market!Quota(ThisCounter) \in ClaimOf(o, s, sold) <=> o = "quota"
        /\ \A r \in Sales : /\ Market!Held(SaleHold(r)) \in ClaimOf(o, s, sold) <=> o = r /\ ~ sold
                            /\ Market!Sold(SaleHold(r)) \in ClaimOf(o, s, sold) <=> o = r /\ sold
        /\ \A u : /\ Market!Held(OtherHold(u)) \in ClaimOf(o, s, sold) <=> o = "elsewhere" /\ u = s
                  /\ Market!Sold(OtherHold(u)) \notin ClaimOf(o, s, sold)
    BY <2>3, ClaimsApart
  <2>5. \A r : owner[s] = r => (SoldTo(r) <=> sold)
    BY <2>2
  <2>6. PICK claims : claims = SeatClaims(s) /\ claims = ClaimOf(o, s, sold)
    BY <2>3
  <2> QED BY <2>2, <2>4, <2>5, <2>6
<1>3. Market!CellsOf(Market!Quota(ThisCounter)) = WholeWay(SeatsOf("quota"))
  BY <1>1, <1>2 DEF WholeWay, SeatsOf
<1>4. ASSUME NEW r \in Sales
      PROVE  /\ Market!CellsOf(Market!Held(SaleHold(r))) = IF SoldTo(r) THEN {} ELSE WholeWay(SeatsOf(r))
             /\ Market!CellsOf(Market!Sold(SaleHold(r))) = IF SoldTo(r) THEN WholeWay(SeatsOf(r)) ELSE {}
  <2>1. PICK held, sold : held = Market!Held(SaleHold(r)) /\ sold = Market!Sold(SaleHold(r))
    OBVIOUS
  <2>2. \A s \in Seats : /\ held \in SeatClaims(s) <=> owner[s] = r /\ ~ SoldTo(r)
                         /\ sold \in SeatClaims(s) <=> owner[s] = r /\ SoldTo(r)
    BY <1>2, <2>1
  <2>3. /\ Market!CellsOf(held) = {cell \in Seats \X {"whole way"} : held \in SeatClaims(cell[1])}
        /\ Market!CellsOf(sold) = {cell \in Seats \X {"whole way"} : sold \in SeatClaims(cell[1])}
    BY <1>1
  <2> QED BY <2>1, <2>2, <2>3 DEF WholeWay, SeatsOf
<1>5. ASSUME NEW u \in Seats, owner[u] # "elsewhere" PROVE Market!OwnsNothing(OtherHold(u))
  <2>1. \A s \in Seats : /\ Market!Held(OtherHold(u)) \notin SeatClaims(s)
                         /\ Market!Sold(OtherHold(u)) \notin SeatClaims(s)
    BY <1>2, <1>5
  <2>2. Market!CellsOf(Market!Held(OtherHold(u))) = {} /\ Market!CellsOf(Market!Sold(OtherHold(u))) = {}
    BY <1>1, <2>1
  <2> QED BY <2>2 DEF Market!OwnsNothing
<1> QED BY <1>3, <1>4, <1>5

\* A step that moves no seat, and makes no sale of what somebody has, is not seen.
LEMMA MarketStays ==
    ASSUME UNCHANGED owner,
           \A r \in Sales : (\E s \in Seats : owner[s] = r) => (SoldTo(r)' <=> SoldTo(r)),
           TypeOK
    PROVE  UNCHANGED CounterMarketView
<1> SUFFICES ASSUME NEW s \in Seats PROVE SeatClaims(s)' = SeatClaims(s)
    BY DEF CounterMarketView
<1>1. owner[s] \in {"free", "quota", "elsewhere"} \cup Sales
  BY TypesSplit
<1>2. SoldTo(owner[s])' <=> (Offline(owner[s])' \/ stage'[owner[s]] = "ticketed")
  BY DEF SoldTo, Offline
<1>3. CASE owner[s] \in Sales
  <2>1. PICK r \in Sales : r = owner[s]
    BY <1>3
  <2>2. SoldTo(owner[s])' <=> SoldTo(r)'
    BY <2>1 DEF SoldTo, Offline
  <2>3. SoldTo(owner[s])' = SoldTo(owner[s])
    BY <2>1, <2>2, SoldToIs
  <2> QED BY <2>3, ClaimsOnSeat
<1>4. CASE owner[s] \notin Sales
  BY <1>1, <1>4, ClaimsOnSeat DEF ClaimOf
<1> QED BY <1>3, <1>4

\* The seats of S change hands, and whoever had one of the others has it as before.
LEMMA SeatsMove ==
    ASSUME TypeOK, NEW S \in SUBSET Seats, NEW o, NEW sold \in BOOLEAN,
           owner' = [s \in Seats |-> IF s \in S THEN o ELSE owner[s]],
           SoldTo(o)' <=> sold,
           \A r \in Sales : r # o => (SoldTo(r)' <=> SoldTo(r)),
           \A s \in Seats : owner[s] = o => s \in S \/ o \notin Sales
    PROVE  \A s \in Seats : SeatClaims(s)' = IF s \in S THEN ClaimOf(o, s, sold) ELSE SeatClaims(s)
<1> SUFFICES ASSUME NEW s \in Seats
             PROVE  SeatClaims(s)' = IF s \in S THEN ClaimOf(o, s, sold) ELSE SeatClaims(s)
    OBVIOUS
<1>1. CASE s \in S
  <2>1. owner'[s] = o
    BY <1>1
  <2>2. SoldTo(owner[s])' <=> SoldTo(o)'
    BY <2>1 DEF SoldTo, Offline
  <2>3. SoldTo(owner[s])' = sold
    BY <2>2, SoldToIs
  <2> QED BY <1>1, <2>1, <2>3, ClaimsOnSeat
<1>2. CASE s \notin S
  <2>0. owner'[s] = owner[s] /\ owner[s] \in {"free", "quota", "elsewhere"} \cup Sales
    BY <1>2, TypesSplit
  <2>1. CASE owner[s] \in Sales
    <3>1. PICK r \in Sales : r = owner[s] /\ r # o
      BY <1>2, <2>1
    <3>2. SoldTo(owner[s])' <=> SoldTo(r)'
      BY <2>0, <3>1 DEF SoldTo, Offline
    <3>3. SoldTo(owner[s])' = SoldTo(owner[s])
      BY <3>1, <3>2, SoldToIs
    <3> QED BY <1>2, <2>0, <3>3, ClaimsOnSeat
  <2>2. CASE owner[s] \notin Sales
    BY <1>2, <2>0, <2>2, ClaimsOnSeat DEF ClaimOf
  <2> QED BY <2>1, <2>2
<1> QED BY <1>1, <1>2

LEMMA WholeWayParts ==
    ASSUME NEW S \in SUBSET Seats
    PROVE  /\ WholeWay(S) \in SUBSET Market!Cells
           /\ S # {} <=> WholeWay(S) # {}
           /\ \A cell \in WholeWay(S) : cell[1] \in S /\ CounterMarketView[cell] = SeatClaims(cell[1])
<1>1. WholeWay(S) \subseteq Seats \X {"whole way"}
  BY DEF WholeWay
<1>2. \A s \in S : <<s, "whole way">> \in WholeWay(S)
  BY DEF WholeWay
<1>3. \A cell \in WholeWay(S) : cell[1] \in S /\ CounterMarketView[cell] = SeatClaims(cell[1])
  BY <1>1 DEF WholeWay, CounterMarketView
<1> QED BY <1>1, <1>2, <1>3 DEF Market!Cells

LEMMA RecordKept ==
    ASSUME SeatsRecorded, UNCHANGED owner, \A r \in Sales : sale[r] # NoSale => sale'[r] = sale[r]
    PROVE  SeatsRecorded'
BY DEF SeatsRecorded

\* A sale is granted all its seats.
LEMMA SeatsTaken ==
    ASSUME TypeOK, SeatsRecorded, NEW r \in Sales, NEW from \in {"free", "quota"}, TakeSeats(r, from),
           sale[r] # NoSale, sale' = sale, Offline(r) <=> from = "quota"
    PROVE  SeatsRecorded' /\ Market!Next
<1>0. /\ owner \in [Seats -> {"free", "quota", "elsewhere"} \cup Sales] /\ stage \in [Sales -> Stages]
      /\ r \notin {"free", "quota", "elsewhere"}
  BY TypesSplit, CounterConstants
<1>1. PICK S : S = sale[r].seats
  OBVIOUS
<1>2. S \in SUBSET Seats /\ S # {}
  <2>1. sale[r] \in SaleRows
    BY TypesSplit
  <2> QED BY <1>1, <2>1 DEF SaleRows
<1>3. /\ \A s \in S : owner[s] = from
      /\ owner' = [s \in Seats |-> IF s \in S THEN r ELSE owner[s]]
      /\ stage' = [stage EXCEPT ![r] = "seated"]
  BY <1>1 DEF TakeSeats
<1>4. SeatsRecorded'
  BY <1>1, <1>3 DEF SeatsRecorded
<1>5. \A s \in Seats : owner[s] # r
  BY <1>0, <1>1, <1>3 DEF SeatsRecorded
<1>6. /\ SoldTo(r)' <=> from = "quota"
      /\ \A q \in Sales : q # r => (SoldTo(q)' <=> SoldTo(q))
  BY <1>0, <1>3 DEF SoldTo, Offline
<1>7. \A s \in Seats : SeatClaims(s)' = IF s \in S THEN ClaimOf(r, s, from = "quota") ELSE SeatClaims(s)
  BY <1>2, <1>3, <1>5, <1>6, SeatsMove
<1>8. PICK new : new = IF from = "quota" THEN {Market!Sold(SaleHold(r))} ELSE {Market!Held(SaleHold(r))}
  OBVIOUS
<1>9. Market!Grant(WholeWay(S), new)
  <2>1. \A s : ClaimOf(r, s, from = "quota") = new
    BY <1>0, <1>8 DEF ClaimOf
  <2>2. \A s \in Seats : SeatClaims(s)' = IF s \in S THEN new ELSE SeatClaims(s)
    BY <1>7, <2>1
  <2> QED BY <1>2, <2>2, SeatsGranted
<1>10. WholeWay(S) \in SUBSET Market!Cells /\ WholeWay(S) # {}
  BY <1>2, WholeWayParts
<1>11. Market!OwnsNothing(SaleHold(r))
  <2>1. SeatsOf(r) = {} /\ WholeWay({}) = {}
    BY <1>5 DEF SeatsOf, WholeWay
  <2> QED BY <2>1, CellsOfOwners DEF Market!OwnsNothing
<1>12. CASE from = "free"
  <2>1. \A cell \in WholeWay(S) : CounterMarketView[cell] = {}
    <3>1. \A s \in S : SeatClaims(s) = {}
      BY <1>3, <1>12, ClaimsOnSeat DEF ClaimOf
    <3> QED BY <1>2, <3>1, WholeWayParts
  <2>2. PICK claim : claim = Market!Held(SaleHold(r))
    OBVIOUS
  <2>3. claim \in Market!Claims /\ claim.kind = "held" /\ claim.who = SaleHold(r) /\ new = {claim}
    BY <1>8, <1>12, <2>2 DEF Market!Held, Market!Claims
  <2>4. Market!Take(claim, WholeWay(S))
    BY <1>9, <1>10, <1>11, <2>1, <2>3 DEF Market!Take, CounterMarketView
  <2> QED BY <1>4, <1>10, <2>3, <2>4 DEF Market!Next
<1>13. CASE from = "quota"
  <2>1. WholeWay(S) \subseteq Market!CellsOf(Market!Quota(ThisCounter))
    <3>1. S \subseteq SeatsOf("quota")
      BY <1>2, <1>3, <1>13 DEF SeatsOf
    <3> QED BY <3>1, CellsOfOwners DEF WholeWay
  <2>2. Market!CounterSells(ThisCounter, SaleHold(r), WholeWay(S))
    BY <1>8, <1>9, <1>10, <1>11, <1>13, <2>1 DEF Market!CounterSells
  <2> QED BY <1>4, <1>10, <2>2 DEF Market!Next
<1> QED BY <1>12, <1>13

\* Online sale r is ticketed: what it holds, if it holds any seat still, is sold to it.
LEMMA SeatsBought ==
    ASSUME TypeOK, SeatsRecorded, NEW r \in Sales, sale' = sale, UNCHANGED owner,
           stage[r] = "paid", stage' = [stage EXCEPT ![r] = "ticketed"]
    PROVE  SeatsRecorded' /\ [Market!Next]_CounterMarketView
<1>0. stage \in [Sales -> Stages] /\ r \notin {"free", "quota", "elsewhere"}
      /\ owner \in [Seats -> {"free", "quota", "elsewhere"} \cup Sales]
  BY TypesSplit, CounterConstants
<1>1. SeatsRecorded'
  BY RecordKept
<1>2. /\ \A q \in Sales : q # r => (SoldTo(q)' <=> SoldTo(q))
      /\ SoldTo(r)' /\ (SoldTo(r) <=> Offline(r))
  BY <1>0 DEF SoldTo, Offline
<1>3. CASE Offline(r) \/ \A s \in Seats : owner[s] # r
  <2>1. UNCHANGED CounterMarketView
    BY <1>2, <1>3, MarketStays
  <2> QED BY <1>1, <2>1
<1>4. CASE ~ Offline(r) /\ \E s \in Seats : owner[s] = r
  <2>1. PICK S : S = SeatsOf(r)
    OBVIOUS
  <2>2. S \in SUBSET Seats /\ S # {} /\ \A s \in Seats : s \in S <=> owner[s] = r
    BY <1>4, <2>1 DEF SeatsOf
  <2>3. \A s \in Seats : SeatClaims(s)' = IF s \in S THEN ClaimOf(r, s, TRUE) ELSE SeatClaims(s)
    <3>1. owner' = [s \in Seats |-> IF s \in S THEN r ELSE owner[s]]
      BY <1>0, <2>2
    <3> QED BY <1>2, <2>2, <3>1, SeatsMove
  <2>4. \A s \in Seats : SeatClaims(s)' = IF s \in S THEN {Market!Sold(SaleHold(r))} ELSE SeatClaims(s)
    BY <1>0, <2>3 DEF ClaimOf
  <2>5. Market!Grant(WholeWay(S), {Market!Sold(SaleHold(r))})
    BY <2>2, <2>4, SeatsGranted
  <2>6. Market!CellsOf(Market!Held(SaleHold(r))) = WholeWay(S) /\ WholeWay(S) # {}
    BY <1>2, <1>4, <2>1, <2>2, CellsOfOwners, WholeWayParts
  <2>7. Market!Buy(SaleHold(r))
    BY <2>5, <2>6 DEF Market!Buy
  <2> QED BY <1>1, <2>7 DEF Market!Next
<1> QED BY <1>3, <1>4

\* The hold of online sale r lapses: it gives back all it holds.
LEMMA SeatsLapse ==
    ASSUME TypeOK, SeatsRecorded, NEW r \in Sales, Lapse(r)
    PROVE  SeatsRecorded' /\ Market!Next
<1>0. stage \in [Sales -> Stages] /\ "free" \notin Sales
  BY TypesSplit, CounterConstants
<1>1. PICK S : S = SeatsOf(r)
  OBVIOUS
<1>2. S \in SUBSET Seats /\ \A s \in Seats : s \in S <=> owner[s] = r
  BY <1>1 DEF SeatsOf
<1>3. /\ owner' = [s \in Seats |-> IF s \in S THEN "free" ELSE owner[s]]
      /\ stage' = [stage EXCEPT ![r] = "expired"] /\ sale' = sale
      /\ stage[r] # "ticketed" /\ ~ Offline(r)
  BY <1>2 DEF Lapse, clientVars, Offline
<1>4. SeatsRecorded'
  BY <1>0, <1>3 DEF SeatsRecorded
<1>5. PICK sold \in BOOLEAN : SoldTo("free")' <=> sold
  BY SoldToIs
<1>6. \A q \in Sales : q # "free" => (SoldTo(q)' <=> SoldTo(q))
  BY <1>0, <1>3 DEF SoldTo, Offline
<1>7. \A s \in Seats : SeatClaims(s)' = IF s \in S THEN ClaimOf("free", s, sold) ELSE SeatClaims(s)
  BY <1>0, <1>2, <1>3, <1>5, <1>6, SeatsMove
<1>8. Market!Grant(WholeWay(S), {})
  <2>1. \A s \in Seats : SeatClaims(s)' = IF s \in S THEN {} ELSE SeatClaims(s)
    BY <1>7 DEF ClaimOf
  <2> QED BY <1>2, <2>1, SeatsGranted
<1>9. ~ SoldTo(r)
  BY <1>3 DEF SoldTo
<1>10. Market!CellsOf(Market!Held(SaleHold(r))) = WholeWay(S)
  BY <1>1, <1>9, CellsOfOwners
<1>11. UNION {Market!CellsOf([kind |-> "held", who |-> h]) : h \in {SaleHold(r)}} = WholeWay(S)
  BY <1>10 DEF Market!Held
<1>12. Market!GiveBack("held", {SaleHold(r)})
  BY <1>8, <1>11 DEF Market!GiveBack
<1>13. {SaleHold(r)} \in SUBSET ({SaleHold(q) : q \in Sales} \cup {OtherHold(s) : s \in Seats})
  OBVIOUS
<1> QED BY <1>4, <1>12, <1>13 DEF Market!Next

\* Seats that no sale has change hands between the counter, the public and other channels.
LEMMA SeatsPass ==
    ASSUME TypeOK, SeatsRecorded, UNCHANGED <<sale, stage>>, NEW S \in SUBSET Seats,
           NEW from \in {"free", "quota"}, NEW to \in {"free", "quota", "elsewhere"},
           \A s \in S : owner[s] = from, owner' = [s \in Seats |-> IF s \in S THEN to ELSE owner[s]]
    PROVE  /\ SeatsRecorded'
           /\ \A s \in Seats : SeatClaims(s)' = IF s \in S THEN ClaimOf(to, s, FALSE) ELSE SeatClaims(s)
           /\ from = "free" => \A cell \in WholeWay(S) : CounterMarketView[cell] = {}
<1>0. to \notin Sales
  BY CounterConstants
<1>1. SeatsRecorded'
  BY <1>0 DEF SeatsRecorded
<1>2. PICK sold \in BOOLEAN : SoldTo(to)' <=> sold
  BY SoldToIs
<1>3. \A q \in Sales : SoldTo(q)' <=> SoldTo(q)
  BY DEF SoldTo, Offline
<1>4. \A s \in Seats : SeatClaims(s)' = IF s \in S THEN ClaimOf(to, s, sold) ELSE SeatClaims(s)
  BY <1>0, <1>2, <1>3, SeatsMove
<1>5. \A s : ClaimOf(to, s, sold) = ClaimOf(to, s, FALSE)
  BY DEF ClaimOf
<1>6. \A s \in S : from = "free" => SeatClaims(s) = {}
  BY ClaimsOnSeat DEF ClaimOf
<1>7. from = "free" => \A cell \in WholeWay(S) : CounterMarketView[cell] = {}
  BY <1>6, WholeWayParts
<1> QED BY <1>1, <1>4, <1>5, <1>7

LEMMA QuotaSteps ==
    ASSUME TypeOK, SeatsRecorded, NEW t \in Terminals,
           (\E S \in SUBSET Seats : Reserve(t, S)) \/ (\E s \in Seats : Release(t, s))
    PROVE  SeatsRecorded' /\ [Market!Next]_CounterMarketView
<1>0. owner \in [Seats -> {"free", "quota", "elsewhere"} \cup Sales]
  BY TypesSplit
<1>1. ASSUME NEW S \in SUBSET Seats, Reserve(t, S)
      PROVE  SeatsRecorded' /\ [Market!Next]_CounterMarketView
  <2>1. /\ S # {} /\ \A s \in S : owner[s] = "free"
        /\ owner' = [s \in Seats |-> IF s \in S THEN "quota" ELSE owner[s]]
        /\ UNCHANGED <<sale, stage>>
    BY <1>1 DEF Reserve, Reservable, SeatsOf
  <2>2. /\ SeatsRecorded'
        /\ \A s \in Seats : SeatClaims(s)' = IF s \in S THEN ClaimOf("quota", s, FALSE) ELSE SeatClaims(s)
        /\ \A cell \in WholeWay(S) : CounterMarketView[cell] = {}
    BY <2>1, SeatsPass
  <2>3. PICK claim : claim = Market!Quota(ThisCounter)
    OBVIOUS
  <2>4. \A s \in Seats : SeatClaims(s)' = IF s \in S THEN {claim} ELSE SeatClaims(s)
    BY <2>2, <2>3 DEF ClaimOf
  <2>5. Market!Grant(WholeWay(S), {claim})
    BY <2>4, SeatsGranted
  <2>6. claim \in Market!Claims /\ claim.kind = "quota"
    BY <2>3 DEF Market!Claims, Market!Quota
  <2>7. WholeWay(S) \in SUBSET Market!Cells /\ WholeWay(S) # {}
    BY <2>1, WholeWayParts
  <2>8. Market!Take(claim, WholeWay(S))
    BY <2>2, <2>5, <2>6, <2>7 DEF Market!Take, CounterMarketView
  <2> QED BY <2>2, <2>6, <2>7, <2>8 DEF Market!Next
<1>2. ASSUME NEW s \in Seats, Release(t, s)
      PROVE  SeatsRecorded' /\ [Market!Next]_CounterMarketView
  <2>0. owner' = [owner EXCEPT ![s] = IF @ = "quota" THEN "free" ELSE @] /\ UNCHANGED <<sale, stage>>
    BY <1>2 DEF Release
  <2>1. CASE owner[s] = "quota"
    <3>1. PICK S \in SUBSET Seats : S = {s}
      OBVIOUS
    <3>2. (\A u \in S : owner[u] = "quota") /\ owner' = [u \in Seats |-> IF u \in S THEN "free" ELSE owner[u]]
      BY <1>0, <2>0, <2>1, <3>1
    <3>3. /\ SeatsRecorded'
          /\ \A u \in Seats : SeatClaims(u)' = IF u \in S THEN ClaimOf("free", u, FALSE) ELSE SeatClaims(u)
      BY <2>0, <3>2, SeatsPass
    <3>4. \A u \in Seats : SeatClaims(u)' = IF u \in S THEN {} ELSE SeatClaims(u)
      BY <3>3 DEF ClaimOf
    <3>5. Market!Grant(WholeWay(S), {})
      BY <3>4, SeatsGranted
    <3>6. WholeWay(S) \subseteq Market!CellsOf(Market!Quota(ThisCounter)) /\ WholeWay(S) \in SUBSET Market!Cells
      <4>1. S \subseteq SeatsOf("quota")
        BY <2>1, <3>1 DEF SeatsOf
      <4> QED BY <4>1, CellsOfOwners, WholeWayParts DEF WholeWay
    <3>7. Market!CounterReturns(ThisCounter, WholeWay(S))
      BY <3>5, <3>6 DEF Market!CounterReturns
    <3> QED BY <3>3, <3>6, <3>7 DEF Market!Next
  <2>2. CASE owner[s] # "quota"
    <3>1. UNCHANGED owner
      BY <1>0, <2>0, <2>2
    <3>2. \A r \in Sales : SoldTo(r)' <=> SoldTo(r)
      BY <2>0 DEF SoldTo, Offline
    <3>3. UNCHANGED CounterMarketView
      BY <3>1, <3>2, MarketStays
    <3> QED BY <2>0, <3>1, <3>3, RecordKept
  <2> QED BY <2>1, <2>2
<1> QED BY <1>1, <1>2

LEMMA ElsewhereStep ==
    ASSUME TypeOK, SeatsRecorded, NEW s \in Seats, SoldElsewhere(s)
    PROVE  SeatsRecorded' /\ Market!Next
<1>0. owner \in [Seats -> {"free", "quota", "elsewhere"} \cup Sales]
  BY TypesSplit
<1>1. PICK S \in SUBSET Seats : S = {s}
  OBVIOUS
<1>2. /\ \A u \in S : owner[u] = "free"
      /\ owner' = [u \in Seats |-> IF u \in S THEN "elsewhere" ELSE owner[u]]
      /\ UNCHANGED <<sale, stage>> /\ owner[s] # "elsewhere"
  BY <1>0, <1>1 DEF SoldElsewhere, clientVars
<1>3. /\ SeatsRecorded'
      /\ \A u \in Seats : SeatClaims(u)' = IF u \in S THEN ClaimOf("elsewhere", u, FALSE) ELSE SeatClaims(u)
      /\ \A cell \in WholeWay(S) : CounterMarketView[cell] = {}
  BY <1>2, SeatsPass
<1>4. PICK claim : claim = Market!Held(OtherHold(s))
  OBVIOUS
<1>5. \A u \in Seats : SeatClaims(u)' = IF u \in S THEN {claim} ELSE SeatClaims(u)
  BY <1>1, <1>3, <1>4 DEF ClaimOf
<1>6. Market!Grant(WholeWay(S), {claim})
  BY <1>5, SeatsGranted
<1>7. claim \in Market!Claims /\ claim.kind = "held" /\ claim.who = OtherHold(s)
  BY <1>4 DEF Market!Claims, Market!Held
<1>8. Market!OwnsNothing(OtherHold(s))
  BY <1>2, CellsOfOwners
<1>9. WholeWay(S) \in SUBSET Market!Cells /\ WholeWay(S) # {}
  BY <1>1, WholeWayParts
<1>10. Market!Take(claim, WholeWay(S))
  BY <1>3, <1>6, <1>7, <1>8, <1>9 DEF Market!Take, CounterMarketView
<1> QED BY <1>3, <1>7, <1>9, <1>10 DEF Market!Next

LEMMA CounterMarketStep ==
    DeskSound /\ SeatsRecorded /\ [Next]_vars => SeatsRecorded' /\ [Market!Next]_CounterMarketView
<1> SUFFICES ASSUME DeskSound, SeatsRecorded, [Next]_vars
             PROVE  SeatsRecorded' /\ [Market!Next]_CounterMarketView
    OBVIOUS
<1>0. TypeOK /\ RequestsSound
  BY DEF DeskSound
<1>1. ASSUME UNCHANGED <<owner, stage, sale>> PROVE SeatsRecorded' /\ [Market!Next]_CounterMarketView
  <2>1. \A r \in Sales : SoldTo(r)' <=> SoldTo(r)
    BY <1>1 DEF SoldTo, Offline
  <2> QED BY <1>0, <1>1, <2>1, MarketStays, RecordKept
<1>2. ASSUME NEW t \in Terminals,
             \/ OpenDesk(t) \/ OpenQuota(t) \/ Install(t) \/ LineChanges(t) \/ CloseShift(t) \/ StepBack(t)
             \/ \E S \in SUBSET Seats : AskToPay(t, S)
             \/ \E k \in Shifts : OpenShift(t, k)
             \/ \E c \in Conns : Flush(t, c)
      PROVE  SeatsRecorded' /\ [Market!Next]_CounterMarketView
  <2>1. UNCHANGED <<owner, stage, sale>>
    BY <1>2 DEF OpenDesk, OpenQuota, Install, LineChanges, CloseShift, StepBack, AskToPay, OpenShift,
                Flush, serverVars
  <2> QED BY <1>1, <2>1
<1>3. ASSUME NEW t \in Terminals,
             (\E S \in SUBSET Seats : Reserve(t, S)) \/ (\E s \in Seats : Release(t, s))
      PROVE  SeatsRecorded' /\ [Market!Next]_CounterMarketView
  BY <1>0, <1>3, QuotaSteps
<1>4. ASSUME NEW t \in Terminals, NEW r \in Sales, NEW S \in SUBSET Seats, NEW c, NEW m \in Methods,
             OfflineSell(t, r, S) \/ Sell(t, c, r, m)
      PROVE  SeatsRecorded' /\ [Market!Next]_CounterMarketView
  <2>1. sale[r] = NoSale /\ sale' = [sale EXCEPT ![r] = sale'[r]] /\ UNCHANGED <<owner, stage>>
    BY <1>0, <1>4, NewSales DEF OfflineSell, Sell, serverVars
  <2>2. \A q \in Sales : q # r => sale'[q] = sale[q]
    BY <1>0, <2>1, TypesSplit
  <2>3. \A s \in Seats : owner[s] # r
    BY <2>1 DEF SeatsRecorded
  <2>4. \A q \in Sales : q # r => (SoldTo(q)' <=> SoldTo(q))
    BY <2>1, <2>2 DEF SoldTo, Offline
  <2>5. \A q \in Sales : sale[q] # NoSale => sale'[q] = sale[q]
    BY <2>1, <2>2
  <2> QED BY <1>0, <2>1, <2>3, <2>4, <2>5, MarketStays, RecordKept
<1>5. ASSUME NEW r \in Sales, Lapse(r) PROVE SeatsRecorded' /\ [Market!Next]_CounterMarketView
  BY <1>0, <1>5, SeatsLapse
<1>6. ASSUME NEW s \in Seats, SoldElsewhere(s) PROVE SeatsRecorded' /\ [Market!Next]_CounterMarketView
  BY <1>0, <1>6, ElsewhereStep
<1>7. ASSUME NEW c \in Conns, Flushed(c) \/ Sold(c) \/ Drop(c) \/ Claim(c) \/ ClaimFails(c) \/ Drawer(c)
      PROVE  SeatsRecorded' /\ [Market!Next]_CounterMarketView
  <2>1. UNCHANGED <<owner, stage, sale>>
    BY <1>7 DEF Flushed, Sold, Drop, Claim, ClaimFails, Drawer, clientVars, serverVars
  <2> QED BY <1>1, <2>1
<1>8. ASSUME NEW c \in Conns, ReplaySeats(c) \/ HoldSeats(c) \/ Pay(c) \/ Ticket(c)
      PROVE  SeatsRecorded' /\ [Market!Next]_CounterMarketView
  <2>1. conn[c] # Idle /\ conn[c].todo # <<>> /\ sale' = sale
    BY <1>8 DEF ReplaySeats, HoldSeats, Pay, Ticket, At, clientVars
  <2>2. /\ Current(c) \in Sales /\ sale[Current(c)] # NoSale
        /\ conn[c].kind = "flush" => Offline(Current(c))
        /\ conn[c].kind = "sale" => SoldOnline(Current(c))
        /\ conn[c].kind \in {"flush", "sale"}
    BY <1>0, <2>1, Handled, RequestParts
  <2>3. PICK r \in Sales : r = Current(c)
    BY <2>2
  <2>4. /\ sale[r] # NoSale /\ stage \in [Sales -> Stages]
        /\ conn[c].kind = "flush" => Offline(r)
        /\ conn[c].kind = "sale" => ~ Offline(r)
        /\ conn[c].kind = "sale" => conn[c].at # "seats"
    BY <1>0, <2>2, <2>3, TypesSplit DEF SoldOnline, Offline, RequestsSound, RequestSound
  <2>5. CASE ReplaySeats(c)
    <3>1. Offline(r)
      BY <2>2, <2>4, <2>5 DEF ReplaySeats, At
    <3>2. CASE TakeSeats(r, "quota")
      BY <1>0, <2>1, <2>4, <3>1, <3>2, SeatsTaken
    <3>3. CASE UNCHANGED <<owner, stage>>
      BY <1>1, <2>1, <3>3
    <3> QED BY <2>3, <2>5, <3>2, <3>3 DEF ReplaySeats
  <2>6. CASE HoldSeats(c)
    <3>1. ~ Offline(r)
      BY <2>4, <2>6 DEF HoldSeats
    <3>2. CASE TakeSeats(r, "free")
      BY <1>0, <2>1, <2>4, <3>1, <3>2, SeatsTaken
    <3>3. CASE UNCHANGED <<owner, stage>>
      BY <1>1, <2>1, <3>3
    <3> QED BY <2>3, <2>6, <3>2, <3>3 DEF HoldSeats
  <2>7. CASE Pay(c)
    <3>1. UNCHANGED owner
      BY <2>7 DEF Pay
    <3>2. CASE stage' = [stage EXCEPT ![r] = IF @ = "seated" THEN "paid" ELSE @]
      <4>1. \A q \in Sales : SoldTo(q)' <=> SoldTo(q)
        BY <2>1, <2>4, <3>2 DEF SoldTo, Offline
      <4> QED BY <1>0, <2>1, <3>1, <4>1, MarketStays, RecordKept
    <3>3. CASE UNCHANGED stage
      BY <1>1, <2>1, <3>1, <3>3
    <3> QED BY <2>3, <2>7, <3>2, <3>3 DEF Pay
  <2>8. CASE Ticket(c)
    <3>1. UNCHANGED owner
      BY <2>8 DEF Ticket
    <3>2. CASE stage[r] = "paid" /\ stage' = [stage EXCEPT ![r] = "ticketed"]
      BY <1>0, <2>1, <3>1, <3>2, SeatsBought
    <3>3. CASE UNCHANGED stage
      BY <1>1, <2>1, <3>1, <3>3
    <3> QED BY <2>3, <2>8, <3>2, <3>3 DEF Ticket
  <2> QED BY <1>8, <2>5, <2>6, <2>7, <2>8
<1>9. CASE UNCHANGED vars
  BY <1>1, <1>9 DEF vars, serverVars
<1>10. ASSUME NEW t \in Terminals, NEW r \in Sales, NEW S \in SUBSET Seats, OfflineSell(t, r, S)
       PROVE  SeatsRecorded' /\ [Market!Next]_CounterMarketView
  <2>1. "CASH" \in Methods
    BY DEF Methods
  <2> QED BY <1>4, <1>10, <2>1
<1> QED BY <1>2, <1>3, <1>4, <1>5, <1>6, <1>7, <1>8, <1>9, <1>10 DEF Next

LEMMA CounterMarketInit == Init => SeatsRecorded /\ Market!Init
<1> SUFFICES ASSUME Init PROVE SeatsRecorded /\ Market!Init
    OBVIOUS
<1>1. \A s \in Seats : owner[s] = "free"
  BY DEF Init
<1>2. \A s \in Seats : SeatClaims(s) = {}
  BY <1>1, ClaimsOnSeat DEF ClaimOf
<1>3. SeatsRecorded
  BY <1>1, CounterConstants DEF SeatsRecorded
<1> QED BY <1>2, <1>3 DEF Market!Init, Market!Cells

\* The counter keeps to the seat market: however its requests are cut, doubled or mixed
\* with lapsing holds, seats are reserved, held and sold offline only as inventory-service
\* grants them, and a sale's seats are taken, sold and given back together.
THEOREM CounterKeepsToTheMarket == Spec => ImplementsMarket
<1>1. DeskSound /\ SeatsRecorded /\ [Next]_vars
          => SeatsRecorded' /\ [Market!Next]_[cell \in Seats \X {"whole way"} |-> SeatClaims(cell[1])]
  BY CounterMarketStep DEF CounterMarketView
<1> QED BY <1>1, CounterMarketInit, SpecDeskSound, PTL DEF Spec, ImplementsMarket, Market!Spec
=============================================================================
