---------------------------- MODULE JourneyProofs -----------------------------
(***************************************************************************)
(* The theorems about the two parts of Journey: Checkout, from the seat map *)
(* to the payment, and MyBooking, a booking that is cancelled, moved and kept*)
(* on a device, each for every value of its constants, and about the two    *)
(* together.  They share no state.                                          *)
(***************************************************************************)
EXTENDS Journey, DataProofs, SequenceTheorems

-----------------------------------------------------------------------------
(* Checkout                                                                 *)

HoldRows    == [status : {"none", "HELD", "CONFIRMED", "EXPIRED"}, seats : SUBSET Seats]
BookingRows == [status : BookingStatuses, hold : Holds \cup {None}]
PageCalls   == [at : {"sent", "refused"}, from : Urls, seats : SUBSET Seats]
PageAnswers == [at : {"answered"}, from : Urls, to : Urls]

\* A booking has the seats of a hold that exists and names them, a ticket has seats, and
\* a payment reference is for a booking.
ServerSound ==
    /\ hold \in [Holds -> HoldRows] /\ late \subseteq Holds
    /\ booking \in [Bookings -> BookingRows] /\ named \in [Bookings -> SUBSET Seats]
    /\ intent \in [Txns -> Bookings \cup {None}] /\ charged \in [Txns -> Nat]
    /\ \A b \in Bookings : booking[b].status # "none" =>
          /\ booking[b].hold \in Holds /\ hold[booking[b].hold].status # "none"
          /\ named[b] = hold[booking[b].hold].seats
    /\ \A b \in Bookings : booking[b].status = "TICKETED" => hold[booking[b].hold].status = "CONFIRMED"
    /\ \A t \in Txns : intent[t] # None => booking[intent[t]].status # "none"

\* What the server has on record when it has sent somebody to u.
Reached(u) ==
    /\ u \in Urls
    /\ u.page = "checkout" => hold[u.id].status # "none"
    /\ u.page = "sandbox" => intent[u.id] # None
    /\ u.page = "confirmation" => booking[u.id].status = "TICKETED"

TabsTyped ==
    /\ url \in [Tabs -> Urls] /\ visited \in [Tabs -> SUBSET Urls]
    /\ stored \in [Tabs -> Holds \cup {None}] /\ shown \in [Tabs -> SUBSET Seats]
    /\ selected \in [Tabs -> SUBSET Seats] /\ form \in [Tabs -> SUBSET Seats]
    /\ over \in [Tabs -> BOOLEAN] /\ seen \in [Tabs -> BookingStatuses]

\* A tab has only been where the server sent it; the form of a checkout page has the seats
\* of the hold of that page or none yet.
TabSound(k) ==
    /\ url[k] \in visited[k] /\ \A u \in visited[k] : Reached(u)
    /\ On(k, "checkout") => form[k] \in {{}, hold[url[k].id].seats}
    /\ IsFiniteSet(selected[k]) /\ Cardinality(selected[k]) <= MaxSeats
TabsSound == TabsTyped /\ \A k \in Tabs : TabSound(k)

\* A request for a booking names the seats of its hold.
CallSound(k) ==
    \/ call[k] = Quiet
    \/ /\ call[k] \in PageCalls /\ Reached(call[k].from)
       /\ call[k].at = "sent" /\ call[k].from.page = "checkout" =>
             call[k].seats = hold[call[k].from.id].seats
    \/ call[k] \in PageAnswers /\ Reached(call[k].from) /\ Reached(call[k].to)
CallsSound ==
    /\ call \in [Tabs -> {Quiet} \cup PageCalls \cup PageAnswers]
    /\ \A k \in Tabs : CallSound(k)

CheckoutSound == ServerSound /\ TabsSound /\ CallsSound

\* What the server has on record it does not take back.
ServerKeeps ==
    /\ \A h \in Holds : hold[h].status # "none" =>
          hold'[h].status # "none" /\ hold'[h].seats = hold[h].seats
    /\ \A t \in Txns : intent[t] # None => intent'[t] # None
    /\ \A b \in Bookings : booking[b].status = "TICKETED" => booking'[b].status = "TICKETED"

LEMMA AddressOf ==
    ASSUME NEW u \in Urls
    PROVE  /\ u.page \in {"trip", "checkout", "payment", "sandbox", "confirmation"}
           /\ u.page = "checkout" => u.id \in Holds
           /\ u.page \in {"payment", "confirmation"} => u.id \in Bookings
           /\ u.page = "sandbox" => u.id \in Txns
BY DEF Urls, Trip, Pax, Pay, Provider, Thanks

LEMMA ReachedKept ==
    ASSUME ServerKeeps, NEW u, Reached(u)
    PROVE  Reached(u)'
<1>1. u \in Urls
  BY DEF Reached
<1> QED BY <1>1, AddressOf DEF Reached, ServerKeeps

LEMMA TabsKept ==
    ASSUME TabsSound, ServerKeeps, UNCHANGED tab
    PROVE  TabsSound'
<1>1. UNCHANGED <<url, visited, stored, shown, selected, form, over, seen>>
  BY DEF tab, page
<1>2. ASSUME NEW k \in Tabs PROVE TabSound(k)'
  <2>1. TabSound(k) /\ url[k] \in Urls
    BY DEF TabsSound, TabsTyped
  <2>2. \A u \in visited[k] : Reached(u)'
    BY <2>1, ReachedKept DEF TabSound
  <2>3. ASSUME On(k, "checkout")'
        PROVE  form'[k] \in {{}, hold'[url[k].id].seats}
    <3>1. On(k, "checkout") /\ url[k].id \in Holds /\ hold[url[k].id].status # "none"
      BY <1>1, <2>1, <2>3, AddressOf DEF On, TabSound, Reached
    <3> QED BY <1>1, <2>1, <3>1 DEF TabSound, ServerKeeps
  <2> QED BY <1>1, <2>1, <2>2, <2>3 DEF TabSound
<1> QED BY <1>1, <1>2 DEF TabsSound, TabsTyped

\* The calls of the other tabs.
LEMMA CallKept ==
    ASSUME CallsSound, ServerKeeps, NEW k \in Tabs, call'[k] = call[k]
    PROVE  CallSound(k)'
<1>1. CallSound(k)
  BY DEF CallsSound
<1>2. ASSUME NEW u, Reached(u)
      PROVE  /\ u \in Urls
             /\ u.page = "checkout" => /\ hold'[u.id].status # "none"
                                       /\ hold'[u.id].seats = hold[u.id].seats
             /\ u.page = "sandbox" => intent'[u.id] # None
             /\ u.page = "confirmation" => booking'[u.id].status = "TICKETED"
  <2>1. u \in Urls
    BY <1>2 DEF Reached
  <2> QED BY <1>2, <2>1, AddressOf DEF Reached, ServerKeeps
<1>3. CASE call[k] = Quiet
  BY <1>3 DEF CallSound
<1>4. CASE call[k] # Quiet /\ call[k] \in PageAnswers
  BY <1>1, <1>2, <1>4 DEF CallSound, Reached, PageCalls, PageAnswers
<1>5. CASE call[k] # Quiet /\ call[k] \in PageCalls
  <2>1. Reached(call[k].from) /\ call[k] \in PageCalls
        /\ (call[k].at = "sent" /\ call[k].from.page = "checkout" =>
               call[k].seats = hold[call[k].from.id].seats)
    BY <1>1, <1>5 DEF CallSound, PageCalls, PageAnswers
  <2> QED BY <1>2, <2>1 DEF CallSound, Reached
<1> QED BY <1>1, <1>3, <1>4, <1>5 DEF CallSound

\* A step of tab k that leaves the calls of the others alone.
LEMMA CallsKept ==
    ASSUME CallsSound, ServerKeeps, NEW k \in Tabs, NEW c,
           c \in {Quiet} \cup PageCalls \cup PageAnswers,
           call' = [call EXCEPT ![k] = c], call'[k] = c => CallSound(k)'
    PROVE  CallsSound'
<1>1. call \in [Tabs -> {Quiet} \cup PageCalls \cup PageAnswers]
  BY DEF CallsSound
<1>2. /\ call' \in [Tabs -> {Quiet} \cup PageCalls \cup PageAnswers] /\ call'[k] = c
      /\ \A l \in Tabs : l # k => call'[l] = call[l]
  BY <1>1
<1>3. \A l \in Tabs : CallSound(l)'
  BY <1>2, CallKept
<1> QED BY <1>2, <1>3 DEF CallsSound

LEMMA CallsSame ==
    ASSUME CallsSound, ServerKeeps, UNCHANGED call
    PROVE  CallsSound'
<1>1. \A l \in Tabs : CallSound(l)'
  BY CallKept
<1> QED BY <1>1 DEF CallsSound

LEMMA SameServerKeeps ==
    ASSUME UNCHANGED server
    PROVE  ServerKeeps /\ (ServerSound => ServerSound') /\ \A u : Reached(u) => Reached(u)'
<1>1. UNCHANGED <<hold, late, booking, named, intent, charged>>
  BY DEF server
<1>2. ServerKeeps
  BY <1>1 DEF ServerKeeps
<1> QED BY <1>1, <1>2, ReachedKept DEF ServerSound

\* The page of one tab changes.
LEMMA OneTabChanges ==
    ASSUME TabsSound, UNCHANGED server, TabsTyped', NEW k \in Tabs, TabSound(k)',
           \A l \in Tabs : l # k =>
              /\ url'[l] = url[l] /\ visited'[l] = visited[l] /\ form'[l] = form[l]
              /\ selected'[l] = selected[l]
    PROVE  TabsSound'
<1>1. UNCHANGED <<hold, booking, intent>> /\ \A u : Reached(u) => Reached(u)'
  BY SameServerKeeps DEF server
<1>2. ASSUME NEW l \in Tabs, l # k PROVE TabSound(l)'
  <2>1. TabSound(l)
    BY DEF TabsSound
  <2> QED BY <1>1, <1>2, <2>1 DEF TabSound, On
<1> QED BY <1>2 DEF TabsSound

LEMMA OpenKeeps ==
    ASSUME ServerSound, TabsSound, UNCHANGED server, NEW k \in Tabs, NEW u, Reached(u), Open(k, u),
           stored' \in [Tabs -> Holds \cup {None}]
    PROVE  TabsSound'
<1>1. u \in Urls /\ hold' = hold /\ \A v : Reached(v) => Reached(v)'
  BY SameServerKeeps DEF server, Reached
<1>2. Remembered(k, u) \in SUBSET Seats
      /\ (u.page = "checkout" => Remembered(k, u) \in {{}, hold[u.id].seats})
  <2>1. u.page = "checkout" => hold[u.id].seats \in SUBSET Seats
    BY <1>1, AddressOf DEF ServerSound, HoldRows
  <2> QED BY <2>1 DEF Remembered
<1>3. "none" \in BookingStatuses /\ FALSE \in BOOLEAN
  BY DEF BookingStatuses
<1>4. TabsTyped'
  BY <1>1, <1>2, <1>3 DEF Open, TabsSound, TabsTyped
<1>5. /\ url'[k] = u /\ visited'[k] = visited[k] \cup {u} /\ form'[k] = Remembered(k, u)
      /\ selected'[k] = {}
  BY DEF Open, TabsSound, TabsTyped
<1>6. TabSound(k)'
  <2>1. IsFiniteSet({}) /\ Cardinality({}) = 0 /\ 0 <= MaxSeats
    BY FS_EmptySet, CheckoutConstants
  <2>2. \A v \in visited'[k] : Reached(v)'
    BY <1>1, <1>5 DEF TabsSound, TabSound
  <2> QED BY <1>1, <1>2, <1>5, <2>1, <2>2 DEF TabSound, On
<1>7. \A l \in Tabs : l # k => /\ url'[l] = url[l] /\ visited'[l] = visited[l]
                               /\ form'[l] = form[l] /\ selected'[l] = selected[l]
  BY DEF Open, TabsSound, TabsTyped
<1> QED BY <1>4, <1>6, <1>7, OneTabChanges

LEMMA TakenIsOfSeats == ServerSound => Taken \subseteq Seats
BY DEF ServerSound, HoldRows, Taken

LEMMA FewerSelected ==
    ASSUME TabsSound, NEW k \in Tabs, NEW S, S \subseteq selected[k]
    PROVE  S \subseteq Seats /\ IsFiniteSet(S) /\ Cardinality(S) <= MaxSeats
<1>1. IsFiniteSet(selected[k]) /\ Cardinality(selected[k]) <= MaxSeats /\ selected[k] \subseteq Seats
  BY DEF TabsSound, TabSound, TabsTyped
<1>2. IsFiniteSet(S) /\ Cardinality(S) <= Cardinality(selected[k])
  BY <1>1, FS_Subset
<1>3. Cardinality(S) \in Nat /\ Cardinality(selected[k]) \in Nat /\ MaxSeats \in Nat
  BY <1>1, <1>2, FS_CardinalityType, CheckoutConstants
<1> QED BY <1>1, <1>2, <1>3

\* The selection of one tab changes.
LEMMA SelectionKeeps ==
    ASSUME TabsSound, UNCHANGED server, NEW k \in Tabs, NEW S \in SUBSET Seats,
           IsFiniteSet(S), Cardinality(S) <= MaxSeats,
           selected' = [selected EXCEPT ![k] = S], shown' \in [Tabs -> SUBSET Seats],
           UNCHANGED <<url, visited, stored, form, over, seen>>
    PROVE  TabsSound'
<1>1. TabsTyped' /\ selected'[k] = S
  BY DEF TabsSound, TabsTyped
<1>2. \A l \in Tabs : l # k => selected'[l] = selected[l]
  BY DEF TabsSound, TabsTyped
<1>3. hold' = hold /\ \A v : Reached(v) => Reached(v)'
  BY SameServerKeeps DEF server
<1>4. TabSound(k)'
  BY <1>1, <1>3 DEF TabsSound, TabSound, On
<1> QED BY <1>1, <1>2, <1>4, OneTabChanges

\* The rest of the page of one tab changes: the form, the notice that the hold is gone,
\* the status loaded.
LEMMA PageKeeps ==
    ASSUME TabsSound, UNCHANGED server, NEW k \in Tabs, NEW S \in SUBSET Seats, NEW o \in BOOLEAN,
           NEW s \in BookingStatuses, On(k, "checkout") => S \in {{}, hold[url[k].id].seats},
           form' = [form EXCEPT ![k] = S], over' = [over EXCEPT ![k] = o],
           seen' = [seen EXCEPT ![k] = s],
           UNCHANGED <<url, visited, stored, shown, selected>>
    PROVE  TabsSound'
<1>1. TabsTyped' /\ form'[k] = S
  BY DEF TabsSound, TabsTyped
<1>2. \A l \in Tabs : l # k => form'[l] = form[l]
  BY DEF TabsSound, TabsTyped
<1>3. hold' = hold /\ \A v : Reached(v) => Reached(v)'
  BY SameServerKeeps DEF server
<1>4. TabSound(k)'
  BY <1>1, <1>3 DEF TabsSound, TabSound, On
<1> QED BY <1>1, <1>2, <1>4, OneTabChanges

\* What is sent, refused, and answered.
LEMMA SendKeeps ==
    ASSUME CheckoutSound, NEW k \in Tabs, NEW S \in SUBSET Seats, Send(k, S),
           On(k, "checkout") => S = hold[url[k].id].seats
    PROVE  CheckoutSound'
<1>1. UNCHANGED server /\ UNCHANGED tab
  BY DEF Send
<1>2. url[k] \in Urls /\ Reached(url[k])
  BY DEF CheckoutSound, TabsSound, TabsTyped, TabSound
<1> DEFINE c == [at |-> "sent", from |-> url[k], seats |-> S]
<1>3. c \in PageCalls /\ c.from = url[k] /\ c.seats = S /\ c.at = "sent"
  BY <1>2 DEF PageCalls
<1>4. call' = [call EXCEPT ![k] = c]
  BY DEF Send
<1> HIDE DEF c
<1>5. ServerSound' /\ TabsSound' /\ ServerKeeps /\ hold' = hold
  BY <1>1, SameServerKeeps, TabsKept DEF CheckoutSound, server
<1>6. call'[k] = c => CallSound(k)'
  BY <1>1, <1>2, <1>3, <1>5 DEF CallSound, Reached, On, server
<1>7. CallsSound'
  BY <1>3, <1>4, <1>5, <1>6, CallsKept DEF CheckoutSound
<1> QED BY <1>5, <1>7 DEF CheckoutSound

LEMMA CallParts ==
    ASSUME CallsSound, NEW k \in Tabs, call[k] # Quiet
    PROVE  /\ call[k].from \in Urls /\ Reached(call[k].from)
           /\ call[k].at \in {"sent", "refused"} => call[k] \in PageCalls /\ call[k].seats \subseteq Seats
           /\ call[k].at = "answered" => call[k].to \in Urls /\ Reached(call[k].to)
           /\ call[k].at = "sent" /\ call[k].from.page = "checkout" =>
                 call[k].seats = hold[call[k].from.id].seats
BY DEF CallsSound, CallSound, PageCalls, PageAnswers

LEMMA RefuseKeeps ==
    ASSUME CallsSound, ServerKeeps, NEW k \in Tabs, NEW p, Sent(k, p), Refuse(k)
    PROVE  CallsSound'
<1> DEFINE c == [call[k] EXCEPT !.at = "refused"]
<1>1. call[k] # Quiet /\ call[k] \in PageCalls /\ Reached(call[k].from)
  BY CallParts DEF Sent
<1>2. c \in PageCalls /\ c.from = call[k].from /\ c.at = "refused"
  BY <1>1 DEF PageCalls
<1>3. call' = [call EXCEPT ![k] = c]
  BY DEF Refuse
<1> HIDE DEF c
<1>4. c.from \in Urls
  BY <1>1, <1>2 DEF Reached
<1>5. call'[k] = c => CallSound(k)'
  <2>1. Reached(call[k].from)'
        <=> /\ call'[k].from \in Urls
            /\ call'[k].from.page = "checkout" => hold'[call'[k].from.id].status # "none"
            /\ call'[k].from.page = "sandbox" => intent'[call'[k].from.id] # None
            /\ call'[k].from.page = "confirmation" => booking'[call'[k].from.id].status = "TICKETED"
    BY DEF Reached
  <2> QED BY <1>1, <1>2, <1>4, <2>1, AddressOf DEF CallSound, Reached, ServerKeeps
<1> QED BY <1>2, <1>3, <1>5, CallsKept

LEMMA AnswerKeeps ==
    ASSUME CallsSound, ServerKeeps, NEW k \in Tabs, NEW p, Sent(k, p), NEW u, Reached(u)',
           Answer(k, u)
    PROVE  CallsSound'
<1> DEFINE c == [at |-> "answered", from |-> call[k].from, to |-> u]
<1>1. call[k] # Quiet /\ Reached(call[k].from)
  BY CallParts DEF Sent
<1>2. call[k].from \in Urls /\ u \in Urls
  BY <1>1 DEF Reached
<1>3. c \in PageAnswers /\ c.from = call[k].from /\ c.to = u
  BY <1>2 DEF PageAnswers
<1>4. call' = [call EXCEPT ![k] = c]
  BY DEF Answer
<1> HIDE DEF c
<1>5. call'[k] = c => CallSound(k)'
  BY <1>1, <1>2, <1>3, AddressOf DEF CallSound, Reached, ServerKeeps
<1> QED BY <1>3, <1>4, <1>5, CallsKept

\* A hold is made, confirmed or expires.
LEMMA HoldChanges ==
    ASSUME ServerSound, NEW h \in Holds, NEW r \in HoldRows,
           hold' = [hold EXCEPT ![h] = r], UNCHANGED <<booking, named, intent, charged>>,
           late' \subseteq Holds, r.status # "none",
           hold[h].status # "none" => r.seats = hold[h].seats,
           hold[h].status = "CONFIRMED" => r.status = "CONFIRMED"
    PROVE  ServerSound' /\ ServerKeeps /\ hold'[h] = r
<1>1. /\ hold' \in [Holds -> HoldRows] /\ hold'[h] = r
      /\ \A g \in Holds : g # h => hold'[g] = hold[g]
  BY DEF ServerSound
<1>2. \A b \in Bookings : booking[b].status = "TICKETED" => booking[b].status # "none"
  OBVIOUS
<1>3. ServerKeeps
  BY <1>1 DEF ServerKeeps
<1>4. ServerSound'
  BY <1>1, <1>2 DEF ServerSound
<1> QED BY <1>1, <1>3, <1>4

LEMMA AcquireKeeps ==
    ASSUME ServerSound, NEW h \in Holds, NEW S \in SUBSET Seats, AcquireHold(h, S)
    PROVE  ServerSound' /\ ServerKeeps /\ hold'[h].status # "none"
<1> DEFINE r == [status |-> "HELD", seats |-> S]
<1>1. r \in HoldRows /\ r.status = "HELD"
  BY DEF HoldRows
<1>2. hold[h].status = "none" /\ hold' = [hold EXCEPT ![h] = r]
      /\ UNCHANGED <<booking, named, intent, charged>> /\ late' \subseteq Holds
  BY DEF AcquireHold, NoHold, ServerSound
<1> HIDE DEF r
<1> QED BY <1>1, <1>2, HoldChanges

LEMMA CreateHoldSound ==
    ASSUME CheckoutSound, NEW k \in Tabs, CreateHold(k)
    PROVE  CheckoutSound'
<1>1. Sent(k, "trip") /\ UNCHANGED tab /\ call[k].seats \subseteq Seats
  BY CallParts DEF CreateHold, Sent, CheckoutSound
<1>2. CASE \E h \in Holds : AcquireHold(h, call[k].seats) /\ Answer(k, Pax(h))
  <2>1. PICK h \in Holds : AcquireHold(h, call[k].seats) /\ Answer(k, Pax(h))
    BY <1>2
  <2>2. ServerSound' /\ ServerKeeps /\ hold'[h].status # "none"
    BY <1>1, <2>1, AcquireKeeps DEF CheckoutSound
  <2>3. Pax(h) \in Urls /\ Pax(h).page = "checkout" /\ Pax(h).id = h
    BY DEF Pax, Urls
  <2>4. Reached(Pax(h))'
    BY <2>2, <2>3 DEF Reached
  <2> QED BY <1>1, <2>1, <2>2, <2>4, AnswerKeeps, TabsKept DEF CheckoutSound
<1>3. CASE Refuse(k) /\ UNCHANGED server
  BY <1>1, <1>3, SameServerKeeps, RefuseKeeps, TabsKept DEF CheckoutSound
<1> QED BY <1>2, <1>3 DEF CreateHold

LEMMA CreateBookingSound ==
    ASSUME CheckoutSound, NEW k \in Tabs, CreateBooking(k)
    PROVE  CheckoutSound'
<1>1. Sent(k, "checkout") /\ UNCHANGED tab
  BY DEF CreateBooking
<1>2. CASE Refuse(k) /\ UNCHANGED server
  BY <1>1, <1>2, SameServerKeeps, RefuseKeeps, TabsKept DEF CheckoutSound
<1>3. CASE ~ (Refuse(k) /\ UNCHANGED server)
  <2> DEFINE h == call[k].from.id
             S == call[k].seats
             entry == [status |-> "PAYMENT_PENDING", hold |-> h]
  <2>1. h \in Holds /\ S = hold[h].seats /\ S \subseteq Seats
    BY <1>1, CallParts, AddressOf DEF CheckoutSound, Sent
  <2>2. PICK b \in Bookings : /\ booking[b] = NoRow /\ Bookable(h)
                              /\ booking' = [booking EXCEPT ![b] = entry]
                              /\ named' = [named EXCEPT ![b] = S]
                              /\ Answer(k, Pay(b)) /\ UNCHANGED <<hold, late, intent, charged>>
    BY <1>3 DEF CreateBooking
  <2>3. entry \in BookingRows /\ entry.status = "PAYMENT_PENDING" /\ entry.hold = h
    BY <2>1 DEF BookingRows, BookingStatuses
  <2>4. hold[h].status = "HELD" /\ booking[b].status = "none"
    BY <2>2 DEF Bookable, NoRow
  <2> HIDE DEF h, S, entry
  <2>5. /\ booking' \in [Bookings -> BookingRows] /\ booking'[b] = entry
        /\ \A c \in Bookings : c # b => booking'[c] = booking[c] /\ named'[c] = named[c]
        /\ named' \in [Bookings -> SUBSET Seats] /\ named'[b] = S
    BY <2>1, <2>2, <2>3 DEF CheckoutSound, ServerSound
  <2>6. ServerKeeps
    BY <2>2, <2>4, <2>5 DEF ServerKeeps
  <2>7. ServerSound'
    BY <2>1, <2>2, <2>3, <2>4, <2>5 DEF CheckoutSound, ServerSound
  <2>8. Pay(b) \in Urls /\ Pay(b).page = "payment"
    BY DEF Pay, Urls
  <2>9. Reached(Pay(b))'
    BY <2>8 DEF Reached
  <2> QED BY <1>1, <2>2, <2>6, <2>7, <2>9, AnswerKeeps, TabsKept DEF CheckoutSound
<1> QED BY <1>2, <1>3

LEMMA PaymentIntentSound ==
    ASSUME CheckoutSound, NEW k \in Tabs, PaymentIntent(k)
    PROVE  CheckoutSound'
<1>1. Sent(k, "payment") /\ UNCHANGED tab
  BY DEF PaymentIntent
<1>2. CASE Refuse(k) /\ UNCHANGED server
  BY <1>1, <1>2, SameServerKeeps, RefuseKeeps, TabsKept DEF CheckoutSound
<1>3. CASE ~ (Refuse(k) /\ UNCHANGED server)
  <2> DEFINE b == call[k].from.id
  <2>1. b \in Bookings /\ b # None
    BY <1>1, CallParts, AddressOf, CheckoutConstants DEF CheckoutSound, Sent
  <2>2. PICK t \in Txns : /\ intent[t] = None /\ booking[b].status = "PAYMENT_PENDING"
                          /\ intent' = [intent EXCEPT ![t] = b]
                          /\ Answer(k, Provider(t)) /\ UNCHANGED <<hold, late, booking, named, charged>>
    BY <1>3 DEF PaymentIntent
  <2> HIDE DEF b
  <2>3. /\ intent' \in [Txns -> Bookings \cup {None}] /\ intent'[t] = b
        /\ \A q \in Txns : q # t => intent'[q] = intent[q]
    BY <2>1, <2>2 DEF CheckoutSound, ServerSound
  <2>4. ServerKeeps
    BY <2>1, <2>2, <2>3 DEF ServerKeeps
  <2>5. ServerSound'
    BY <2>1, <2>2, <2>3 DEF CheckoutSound, ServerSound
  <2>6. Provider(t) \in Urls /\ Provider(t).page = "sandbox" /\ Provider(t).id = t
    BY DEF Provider, Urls
  <2>7. Reached(Provider(t))'
    BY <2>1, <2>3, <2>6 DEF Reached
  <2> QED BY <1>1, <2>2, <2>4, <2>5, <2>7, AnswerKeeps, TabsKept DEF CheckoutSound
<1> QED BY <1>2, <1>3

\* A payment that finds the seats makes a ticket of its booking, any other leaves the rows
\* as they were.
LEMMA WebhookKeeps ==
    ASSUME ServerSound, NEW t \in Txns, intent[t] # None, Webhook(t)
    PROVE  ServerSound' /\ ServerKeeps /\ intent' = intent
<1> DEFINE b == intent[t]
           h == booking[b].hold
           held == [hold[h] EXCEPT !.status = "CONFIRMED"]
           entry == [booking[b] EXCEPT !.status = "TICKETED"]
<1>1. b \in Bookings /\ booking[b].status # "none" /\ h \in Holds /\ hold[h].status # "none"
  BY DEF ServerSound
<1>2. charged' \in [Txns -> Nat] /\ UNCHANGED <<late, named, intent>>
  BY DEF Webhook, Charge, ServerSound
<1>3. CASE UNCHANGED <<hold, booking>>
  BY <1>2, <1>3 DEF ServerSound, ServerKeeps
<1>4. CASE Ticket(b)
  <2>1. hold' = [hold EXCEPT ![h] = held] /\ booking' = [booking EXCEPT ![b] = entry]
    BY <1>4 DEF Ticket
  <2>2. held \in HoldRows /\ held.status = "CONFIRMED" /\ held.seats = hold[h].seats
    BY <1>1 DEF ServerSound, HoldRows
  <2>3. entry \in BookingRows /\ entry.status = "TICKETED" /\ entry.hold = h
    BY <1>1 DEF ServerSound, BookingRows, BookingStatuses
  <2> HIDE DEF b, h, held, entry
  <2>4. /\ hold' \in [Holds -> HoldRows] /\ hold'[h] = held
        /\ \A g \in Holds : g # h => hold'[g] = hold[g]
        /\ booking' \in [Bookings -> BookingRows] /\ booking'[b] = entry
        /\ \A c \in Bookings : c # b => booking'[c] = booking[c]
    BY <1>1, <2>1, <2>2, <2>3 DEF ServerSound
  <2>5. ServerKeeps
    BY <1>1, <1>2, <2>2, <2>3, <2>4 DEF ServerKeeps
  <2>6. ASSUME NEW c \in Bookings, booking'[c].status # "none"
        PROVE  /\ booking'[c].hold \in Holds /\ hold'[booking'[c].hold].status # "none"
               /\ named'[c] = hold'[booking'[c].hold].seats
               /\ booking'[c].status = "TICKETED" => hold'[booking'[c].hold].status = "CONFIRMED"
    <3>1. /\ booking[c].status # "none" /\ booking'[c].hold = booking[c].hold
          /\ c # b => booking'[c].status = booking[c].status
      BY <1>1, <2>3, <2>4, <2>6 DEF h
    <3>2. booking[c].hold \in Holds /\ hold[booking[c].hold].status # "none"
          /\ named[c] = hold[booking[c].hold].seats
      BY <3>1 DEF ServerSound
    <3>3. CASE booking[c].hold = h
      BY <1>2, <2>2, <2>4, <3>1, <3>2, <3>3
    <3>4. CASE booking[c].hold # h
      <4>1. c # b
        BY <3>4 DEF h
      <4> QED BY <1>2, <2>4, <3>1, <3>2, <3>4, <4>1 DEF ServerSound
    <3> QED BY <3>3, <3>4
  <2>7. \A q \in Txns : intent'[q] # None => booking'[intent'[q]].status # "none"
    BY <1>1, <1>2, <2>3, <2>4 DEF ServerSound
  <2> QED BY <1>2, <2>4, <2>5, <2>6, <2>7 DEF ServerSound
<1> QED BY <1>3, <1>4 DEF Webhook

LEMMA SandboxSound ==
    ASSUME CheckoutSound, NEW k \in Tabs, SandboxComplete(k)
    PROVE  CheckoutSound'
<1> DEFINE t == call[k].from.id
<1>1. Sent(k, "sandbox") /\ UNCHANGED tab /\ Webhook(t) /\ Outcome(k, intent[t])
  BY DEF SandboxComplete
<1>2. t \in Txns /\ intent[t] # None
  BY <1>1, CallParts, AddressOf DEF CheckoutSound, Sent, Reached
<1> HIDE DEF t
<1>3. ServerSound' /\ ServerKeeps
  BY <1>1, <1>2, WebhookKeeps DEF CheckoutSound
<1>4. intent[t] \in Bookings
  BY <1>2 DEF CheckoutSound, ServerSound
<1>5. CASE Refuse(k)
  BY <1>1, <1>3, <1>5, RefuseKeeps, TabsKept DEF CheckoutSound
<1>6. CASE booking'[intent[t]].status = "TICKETED" /\ Answer(k, Thanks(intent[t]))
  <2> DEFINE b == intent[t]
  <2>1. Thanks(b) \in Urls /\ Thanks(b).page = "confirmation" /\ Thanks(b).id = b
    BY <1>4 DEF Thanks, Urls
  <2>2. PICK u : u = Thanks(b)
    OBVIOUS
  <2>3. Reached(u)' /\ Answer(k, u)
    BY <1>6, <2>1, <2>2 DEF Reached
  <2> QED BY <1>1, <1>3, <2>3, AnswerKeeps, TabsKept DEF CheckoutSound
<1> QED BY <1>1, <1>5, <1>6 DEF Outcome

LEMMA ArriveSound ==
    ASSUME CheckoutSound, NEW k \in Tabs, Arrive(k)
    PROVE  CheckoutSound'
<1> DEFINE u == call[k].to
           h == IF u.page = "checkout" THEN u.id ELSE IF u.page = "payment" THEN None ELSE stored[k]
<1>1. UNCHANGED server /\ call' = [call EXCEPT ![k] = Quiet] /\ Open(k, u)
      /\ stored' = [stored EXCEPT ![k] = h]
  BY DEF Arrive
<1>2. u \in Urls /\ Reached(u)
  BY CallParts DEF Arrive, CheckoutSound
<1>3. h \in Holds \cup {None}
  BY <1>2, AddressOf DEF CheckoutSound, TabsSound, TabsTyped
<1> HIDE DEF u, h
<1>4. stored' \in [Tabs -> Holds \cup {None}]
  BY <1>1, <1>3 DEF CheckoutSound, TabsSound, TabsTyped
<1>5. ServerSound' /\ ServerKeeps /\ TabsSound'
  BY <1>1, <1>2, <1>4, SameServerKeeps, OpenKeeps DEF CheckoutSound
<1>6. CallsSound'
  BY <1>1, <1>5, CallsKept DEF CheckoutSound, CallSound
<1> QED BY <1>5, <1>6 DEF CheckoutSound

LEMMA RefusedSound ==
    ASSUME CheckoutSound, NEW k \in Tabs, Refused(k)
    PROVE  CheckoutSound'
<1>1. UNCHANGED server /\ call' = [call EXCEPT ![k] = Quiet]
  BY DEF Refused
<1>2. ServerSound' /\ ServerKeeps
  BY <1>1, SameServerKeeps DEF CheckoutSound
<1>3. CallsSound'
  BY <1>1, <1>2, CallsKept DEF CheckoutSound, CallSound
<1>4. CASE UNCHANGED tab
  BY <1>2, <1>3, <1>4, TabsKept DEF CheckoutSound
<1>5. CASE SeatTaken(k)
  <2>1. {} \subseteq Seats /\ IsFiniteSet({}) /\ Cardinality({}) <= MaxSeats
    BY FS_EmptySet, CheckoutConstants
  <2>2. /\ selected' = [selected EXCEPT ![k] = {}] /\ shown' \in [Tabs -> SUBSET Seats]
        /\ UNCHANGED <<url, visited, stored, form, over, seen>>
    BY <1>5, TakenIsOfSeats DEF SeatTaken, CheckoutSound, TabsSound, TabsTyped
  <2>3. TabsSound'
    BY <1>1, <2>1, <2>2, SelectionKeeps DEF CheckoutSound
  <2> QED BY <1>2, <1>3, <2>3 DEF CheckoutSound
<1>6. CASE HoldExpired(k)
  <2>1. /\ form[k] \in SUBSET Seats /\ seen[k] \in BookingStatuses
        /\ form' = [form EXCEPT ![k] = form[k]] /\ seen' = [seen EXCEPT ![k] = seen[k]]
        /\ over' = [over EXCEPT ![k] = TRUE] /\ TRUE \in BOOLEAN
        /\ On(k, "checkout") => form[k] \in {{}, hold[url[k].id].seats}
        /\ UNCHANGED <<url, visited, stored, shown, selected>>
    BY <1>6 DEF HoldExpired, CheckoutSound, TabsSound, TabsTyped, TabSound
  <2>2. TabsSound'
    BY <1>1, <2>1, PageKeeps DEF CheckoutSound
  <2> QED BY <1>2, <1>3, <2>2 DEF CheckoutSound
<1> QED BY <1>4, <1>5, <1>6 DEF Refused

\* The steps of a page that ask the server nothing, or only read.
LEMMA PageStepSound ==
    ASSUME CheckoutSound, NEW k \in Tabs,
           Revisit(k) \/ Poll(k) \/ (\E s \in Seats : Toggle(k, s)) \/ CheckHold(k) \/ LoadBooking(k)
    PROVE  CheckoutSound'
<1>1. UNCHANGED server /\ UNCHANGED call
  BY DEF Revisit, Poll, Toggle, CheckHold, LoadBooking
<1>2. ServerSound' /\ CallsSound'
  BY <1>1, SameServerKeeps, CallsSame DEF CheckoutSound
<1>a. TabsSound /\ TabsTyped /\ TabSound(k) /\ ServerSound
  BY DEF CheckoutSound, TabsSound
<1>3. CASE Revisit(k)
  <2>1. PICK u \in visited[k] : Open(k, u)
    BY <1>3 DEF Revisit
  <2>2. Reached(u) /\ stored' \in [Tabs -> Holds \cup {None}]
    BY <1>3, <1>a DEF Revisit, TabSound, TabsTyped
  <2> QED BY <1>1, <1>2, <1>a, <2>1, <2>2, OpenKeeps DEF CheckoutSound
<1>4. CASE Poll(k)
  <2> DEFINE S == selected[k] \ Taken
  <2>1. S \in SUBSET Seats /\ IsFiniteSet(S) /\ Cardinality(S) <= MaxSeats
    BY <1>a, FewerSelected
  <2>2. /\ selected' = [selected EXCEPT ![k] = S] /\ shown' \in [Tabs -> SUBSET Seats]
        /\ UNCHANGED <<url, visited, stored, form, over, seen>>
    BY <1>4, <1>a, TakenIsOfSeats DEF Poll, Redraw, TabsTyped
  <2> HIDE DEF S
  <2> QED BY <1>1, <1>2, <1>a, <2>1, <2>2, SelectionKeeps DEF CheckoutSound
<1>5. ASSUME NEW s \in Seats, Toggle(k, s) PROVE CheckoutSound'
  <2> DEFINE S == IF s \in selected[k] THEN selected[k] \ {s} ELSE selected[k] \cup {s}
  <2>1. S \in SUBSET Seats /\ IsFiniteSet(S) /\ Cardinality(S) <= MaxSeats
    <3>1. CASE s \in selected[k]
      BY <1>a, <3>1, FewerSelected
    <3>2. CASE s \notin selected[k]
      <4>1. IsFiniteSet(selected[k]) /\ selected[k] \subseteq Seats /\ Cardinality(selected[k]) < MaxSeats
        BY <1>5, <1>a, <3>2 DEF Toggle, TabSound, TabsTyped
      <4>2. /\ IsFiniteSet(selected[k] \cup {s})
            /\ Cardinality(selected[k] \cup {s}) = Cardinality(selected[k]) + 1
            /\ Cardinality(selected[k]) \in Nat
        BY <3>2, <4>1, FS_AddElement, FS_CardinalityType
      <4> QED BY <3>2, <4>1, <4>2, CheckoutConstants
    <3> QED BY <3>1, <3>2
  <2>2. /\ selected' = [selected EXCEPT ![k] = S] /\ shown' \in [Tabs -> SUBSET Seats]
        /\ UNCHANGED <<url, visited, stored, form, over, seen>>
    BY <1>5, <1>a DEF Toggle, TabsTyped
  <2> HIDE DEF S
  <2> QED BY <1>1, <1>2, <1>a, <2>1, <2>2, SelectionKeeps DEF CheckoutSound
<1>6. CASE CheckHold(k)
  <2> DEFINE h == url[k].id
             S == IF form[k] = {} THEN hold[h].seats ELSE form[k]
             o == over[k] \/ hold[h].status # "HELD" \/ h \in late
  <2>1. h \in Holds
    BY <1>6, <1>a, AddressOf DEF CheckHold, On, TabsTyped
  <2>2. S \in SUBSET Seats /\ S \in {{}, hold[h].seats} /\ o \in BOOLEAN
    BY <1>6, <1>a, <2>1 DEF CheckHold, ServerSound, HoldRows, TabsTyped, TabSound
  <2>3. /\ form' = [form EXCEPT ![k] = S] /\ over' = [over EXCEPT ![k] = o]
        /\ seen' = [seen EXCEPT ![k] = seen[k]] /\ seen[k] \in BookingStatuses
        /\ UNCHANGED <<url, visited, stored, shown, selected>>
    BY <1>6, <1>a DEF CheckHold, TabsTyped
  <2> HIDE DEF S, o
  <2> QED BY <1>1, <1>2, <1>a, <2>2, <2>3, PageKeeps DEF CheckoutSound
<1>7. CASE LoadBooking(k)
  <2> DEFINE s == booking[url[k].id].status
  <2>1. s \in BookingStatuses
    <3>1. url[k].id \in Bookings
      BY <1>7, <1>a, AddressOf DEF LoadBooking, On, TabsTyped
    <3> QED BY <1>a, <3>1 DEF ServerSound, BookingRows
  <2>2. /\ form[k] \in SUBSET Seats /\ over[k] \in BOOLEAN
        /\ form' = [form EXCEPT ![k] = form[k]] /\ over' = [over EXCEPT ![k] = over[k]]
        /\ seen' = [seen EXCEPT ![k] = s]
        /\ On(k, "checkout") => form[k] \in {{}, hold[url[k].id].seats}
        /\ UNCHANGED <<url, visited, stored, shown, selected>>
    BY <1>7, <1>a DEF LoadBooking, TabsTyped, TabSound
  <2> HIDE DEF s
  <2> QED BY <1>1, <1>2, <1>a, <2>1, <2>2, PageKeeps DEF CheckoutSound
<1> QED BY <1>3, <1>4, <1>5, <1>6, <1>7

LEMMA AsksSound ==
    ASSUME CheckoutSound, NEW k \in Tabs, Proceed(k) \/ Submit(k) \/ PayNow(k) \/ Approve(k)
    PROVE  CheckoutSound'
<1>1. TabsTyped /\ TabSound(k)
  BY DEF CheckoutSound, TabsSound
<1>2. \E S \in SUBSET Seats : Send(k, S) /\ (On(k, "checkout") => S = hold[url[k].id].seats)
  BY <1>1 DEF Proceed, Submit, PayNow, Approve, On, TabsTyped, TabSound
<1> QED BY <1>2, SendKeeps

LEMMA OthersHoldSound ==
    ASSUME CheckoutSound, NEW h \in Holds,
           Deadline(h) \/ Sweep(h) \/ \E S \in SUBSET Seats : OthersHold(h, S)
    PROVE  CheckoutSound'
<1>1. UNCHANGED tab /\ UNCHANGED call
  BY DEF Deadline, Sweep, OthersHold
<1>2. ServerSound' /\ ServerKeeps
  <2>1. CASE Deadline(h)
    BY <2>1 DEF Deadline, CheckoutSound, ServerSound, ServerKeeps
  <2>2. CASE Sweep(h)
    <3> DEFINE r == [hold[h] EXCEPT !.status = "EXPIRED"]
    <3>1. r \in HoldRows /\ r.status = "EXPIRED" /\ r.seats = hold[h].seats
      BY DEF CheckoutSound, ServerSound, HoldRows
    <3>2. /\ hold' = [hold EXCEPT ![h] = r] /\ UNCHANGED <<booking, named, intent, charged>>
          /\ late' \subseteq Holds /\ hold[h].status = "HELD"
      BY <2>2 DEF Sweep, CheckoutSound, ServerSound
    <3> HIDE DEF r
    <3> QED BY <3>1, <3>2, HoldChanges DEF CheckoutSound
  <2>3. CASE \E S \in SUBSET Seats : OthersHold(h, S)
    BY <2>3, AcquireKeeps DEF OthersHold, CheckoutSound
  <2> QED BY <2>1, <2>2, <2>3
<1> QED BY <1>1, <1>2, TabsKept, CallsSame DEF CheckoutSound

LEMMA CheckoutInitSound == Init => CheckoutSound
<1> SUFFICES ASSUME Init PROVE CheckoutSound
  OBVIOUS
<1>1. /\ NoHold \in HoldRows /\ NoRow \in BookingRows /\ NoRow.status = "none"
      /\ "none" \in BookingStatuses /\ 0 \in Nat
  BY DEF NoHold, NoRow, HoldRows, BookingRows, BookingStatuses
<1>2. ServerSound
  BY <1>1 DEF Init, ServerSound
<1>3. Trip \in Urls /\ Trip.page = "trip"
  BY DEF Trip, Urls
<1>4. TabsTyped
  BY <1>1, <1>3 DEF Init, TabsTyped
<1>5. IsFiniteSet({}) /\ Cardinality({}) <= MaxSeats
  BY FS_EmptySet, CheckoutConstants
<1>6. \A k \in Tabs : TabSound(k)
  BY <1>3, <1>5 DEF Init, TabSound, Reached, On
<1>7. CallsSound
  BY DEF Init, CallsSound, CallSound
<1> QED BY <1>2, <1>4, <1>6, <1>7 DEF CheckoutSound, TabsSound

LEMMA CheckoutSoundKept == CheckoutSound /\ [Next]_vars => CheckoutSound'
<1> SUFFICES ASSUME CheckoutSound, [Next]_vars PROVE CheckoutSound'
  OBVIOUS
<1>1. ASSUME NEW k \in Tabs, Revisit(k) \/ Poll(k) \/ (\E s \in Seats : Toggle(k, s)) \/ CheckHold(k)
                               \/ LoadBooking(k)
      PROVE  CheckoutSound'
  BY <1>1, PageStepSound
<1>2. ASSUME NEW k \in Tabs, Proceed(k) \/ Submit(k) \/ PayNow(k) \/ Approve(k)
      PROVE  CheckoutSound'
  BY <1>2, AsksSound
<1>3. ASSUME NEW k \in Tabs, CreateHold(k) \/ CreateBooking(k) \/ PaymentIntent(k) \/ SandboxComplete(k)
      PROVE  CheckoutSound'
  BY <1>3, CreateHoldSound, CreateBookingSound, PaymentIntentSound, SandboxSound
<1>4. ASSUME NEW k \in Tabs, Arrive(k) \/ Refused(k)
      PROVE  CheckoutSound'
  BY <1>4, ArriveSound, RefusedSound
<1>5. ASSUME NEW k \in Tabs, Lost(k)
      PROVE  CheckoutSound'
  <2>1. UNCHANGED server /\ UNCHANGED tab /\ call' = [call EXCEPT ![k] = Quiet]
    BY <1>5 DEF Lost
  <2>2. ServerSound' /\ ServerKeeps
    BY <2>1, SameServerKeeps DEF CheckoutSound
  <2> QED BY <2>1, <2>2, TabsKept, CallsKept DEF CheckoutSound, CallSound
<1>6. ASSUME NEW h \in Holds, Deadline(h) \/ Sweep(h) \/ \E S \in SUBSET Seats : OthersHold(h, S)
      PROVE  CheckoutSound'
  BY <1>6, OthersHoldSound
<1>7. CASE UNCHANGED vars
  <2>1. UNCHANGED server /\ UNCHANGED tab /\ UNCHANGED call
    BY <1>7 DEF vars
  <2> QED BY <2>1, SameServerKeeps, TabsKept, CallsSame DEF CheckoutSound
<1> QED BY <1>1, <1>2, <1>3, <1>4, <1>5, <1>6, <1>7 DEF Next

LEMMA CheckoutSoundAlways == Spec => []CheckoutSound
BY CheckoutInitSound, CheckoutSoundKept, PTL DEF Spec

\* The rows, the pages of every tab and the requests keep their types (checkout/page.tsx).
THEOREM CheckoutTypes == Spec => []TypeOK
<1>1. CheckoutSound => TypeOK
  BY DEF CheckoutSound, ServerSound, TabsSound, TabsTyped, TabSound, CallsSound, TypeOK, HoldRows,
         BookingRows, PageCalls, PageAnswers
<1> QED BY <1>1, CheckoutSoundAlways, PTL

\* Whatever is reloaded, gone back to or answered late, a booking has a passenger for each
\* seat of its hold and for no other (checkout/page.tsx, handleCreateBooking).
THEOREM PassengersAlwaysFitSeats == Spec => []PassengersFitSeats
<1>1. CheckoutSound => PassengersFitSeats
  BY DEF CheckoutSound, ServerSound, PassengersFitSeats
<1> QED BY <1>1, CheckoutSoundAlways, PTL

\* A confirmation page, also one gone back to, is of a ticket whose seats are confirmed
\* (sandbox/page.tsx, handleSandboxComplete).
THEOREM ConfirmedAlwaysHaveSeats == Spec => []ConfirmedHaveSeats
<1>1. CheckoutSound => ConfirmedHaveSeats
  BY DEF CheckoutSound, ServerSound, TabsSound, TabSound, Reached, On, ConfirmedHaveSeats, Urls,
         Trip, Pax, Pay, Provider, Thanks
<1> QED BY <1>1, CheckoutSoundAlways, PTL

-----------------------------------------------------------------------------
(* The passenger in the seat market                                         *)

\* Hold h has seat s, and no two holds have one.
HasSeat(h, s) == hold[h].status \in {"HELD", "CONFIRMED"} /\ s \in hold[h].seats
OneHoldPerSeat == \A s \in Seats : \A g, h \in Holds : HasSeat(g, s) /\ HasSeat(h, s) => g = h

MarketView == [cell \in Seats \X {"whole way"} |-> SeatClaims(cell[1])]
WholeWay(S) == S \X {"whole way"}
ClaimOf(h) == [kind |-> IF hold[h].status = "HELD" THEN "held" ELSE "sold", who |-> h]

LEMMA ClaimsOnSeat ==
    ASSUME NEW s
    PROVE  /\ SeatClaims(s) = {ClaimOf(h) : h \in {g \in Holds : HasSeat(g, s)}}
           /\ SeatClaims(s)' = {ClaimOf(h)' : h \in {g \in Holds : HasSeat(g, s)'}}
<1>1. SeatClaims(s) = {ClaimOf(h) : h \in {g \in Holds : HasSeat(g, s)}}
  BY DEF SeatClaims, LiveHolds, ClaimOf, HasSeat
<1>2. SeatClaims(s)' = {ClaimOf(h)' : h \in {g \in Holds : HasSeat(g, s)'}}
  BY DEF SeatClaims, LiveHolds, ClaimOf, HasSeat
<1> QED BY <1>1, <1>2

LEMMA SeatsGranted ==
    ASSUME NEW S \in SUBSET Seats, NEW new,
           \A s \in Seats : SeatClaims(s)' = IF s \in S THEN new ELSE SeatClaims(s)
    PROVE  Market!Grant(WholeWay(S), new)
BY DEF Market!Grant, Market!Cells, WholeWay

\* What a hold has in the market are its seats, while it is live.
LEMMA CellsOfHold ==
    ASSUME ServerSound, NEW h \in Holds
    PROVE  /\ hold[h].seats \in SUBSET Seats
           /\ Market!CellsOf(Market!Held(h)) =
                 IF hold[h].status = "HELD" THEN WholeWay(hold[h].seats) ELSE {}
           /\ Market!CellsOf(Market!Sold(h)) =
                 IF hold[h].status = "CONFIRMED" THEN WholeWay(hold[h].seats) ELSE {}
<1>1. hold[h].seats \in SUBSET Seats
  BY DEF ServerSound, HoldRows
<1>2. ASSUME NEW s \in Seats
      PROVE  /\ Market!Held(h) \in SeatClaims(s) <=> HasSeat(h, s) /\ hold[h].status = "HELD"
             /\ Market!Sold(h) \in SeatClaims(s) <=> HasSeat(h, s) /\ hold[h].status = "CONFIRMED"
  BY ClaimsOnSeat DEF ClaimOf, HasSeat, Market!Held, Market!Sold
<1>3. ASSUME NEW claim
      PROVE  Market!CellsOf(claim) = {cell \in Seats \X {"whole way"} : claim \in SeatClaims(cell[1])}
  BY DEF Market!CellsOf, Market!Cells
<1>4. Market!CellsOf(Market!Held(h)) = IF hold[h].status = "HELD" THEN WholeWay(hold[h].seats) ELSE {}
  BY <1>1, <1>2, <1>3 DEF HasSeat, WholeWay
<1>5. Market!CellsOf(Market!Sold(h)) = IF hold[h].status = "CONFIRMED" THEN WholeWay(hold[h].seats) ELSE {}
  BY <1>1, <1>2, <1>3 DEF HasSeat, WholeWay
<1> QED BY <1>1, <1>4, <1>5

LEMMA HoldsStay ==
    ASSUME OneHoldPerSeat, hold' = hold
    PROVE  OneHoldPerSeat' /\ UNCHANGED MarketView
<1>1. \A s, h : (HasSeat(h, s)' <=> HasSeat(h, s)) /\ ClaimOf(h)' = ClaimOf(h)
  BY DEF HasSeat, ClaimOf
<1>2. \A s \in Seats : SeatClaims(s)' = SeatClaims(s)
  BY DEF SeatClaims, LiveHolds
<1> QED BY <1>1, <1>2 DEF OneHoldPerSeat, MarketView

\* One row of seat_holds changes: its seats are taken, sold or given back together.
LEMMA HoldMoves ==
    ASSUME ServerSound, OneHoldPerSeat, NEW h \in Holds, NEW row \in HoldRows,
           hold' = [hold EXCEPT ![h] = row],
           \/ hold[h] = NoHold /\ row.status = "HELD" /\ row.seats \cap Taken = {}
           \/ /\ hold[h].status = "HELD" /\ row.seats = hold[h].seats
              /\ row.status \in {"CONFIRMED", "EXPIRED"}
    PROVE  OneHoldPerSeat' /\ [Market!Next]_MarketView
<1>0. hold \in [Holds -> HoldRows]
  BY DEF ServerSound
<1>1. PICK S, st : S = row.seats /\ st = row.status
  OBVIOUS
<1>2. S \in SUBSET Seats
  BY <1>1 DEF HoldRows
<1>3. hold[h] = NoHold => hold[h].status = "none"
  BY DEF NoHold
<1>4. /\ \A g \in Holds \ {h} : hold'[g] = hold[g] /\ ClaimOf(g)' = ClaimOf(g)
      /\ \A g \in Holds \ {h} : \A s : HasSeat(g, s)' <=> HasSeat(g, s)
      /\ hold'[h] = row
      /\ \A s : HasSeat(h, s)' <=> st \in {"HELD", "CONFIRMED"} /\ s \in S
      /\ \A s : HasSeat(h, s) <=> hold[h].status = "HELD" /\ s \in S
  BY <1>0, <1>1, <1>3 DEF HasSeat, ClaimOf
<1>5. ASSUME NEW s \in S, NEW g \in Holds \ {h} PROVE ~ HasSeat(g, s)
  <2>1. CASE hold[h] = NoHold
    BY <1>1, <1>3, <1>5, <2>1 DEF HasSeat, Taken
  <2>2. CASE hold[h].status = "HELD"
    BY <1>2, <1>4, <1>5, <2>2 DEF OneHoldPerSeat
  <2> QED BY <2>1, <2>2
<1>6. OneHoldPerSeat'
  BY <1>4, <1>5 DEF OneHoldPerSeat
<1>7. ASSUME NEW s \in Seats
      PROVE  SeatClaims(s)' = IF s \in S THEN IF st = "HELD" THEN {Market!Held(h)}
                                              ELSE IF st = "CONFIRMED" THEN {Market!Sold(h)} ELSE {}
                              ELSE SeatClaims(s)
  <2>1. CASE s \in S /\ st \in {"HELD", "CONFIRMED"}
    <3>1. {g \in Holds : HasSeat(g, s)'} = {h}
      BY <1>4, <1>5, <2>1
    <3>2. ClaimOf(h)' = IF st = "HELD" THEN Market!Held(h) ELSE Market!Sold(h)
      BY <1>1, <1>4 DEF ClaimOf, Market!Held, Market!Sold
    <3> QED BY <2>1, <3>1, <3>2, ClaimsOnSeat
  <2>2. CASE s \in S /\ st \notin {"HELD", "CONFIRMED"}
    <3>1. {g \in Holds : HasSeat(g, s)'} = {}
      BY <1>4, <1>5, <2>2
    <3> QED BY <2>2, <3>1, ClaimsOnSeat
  <2>3. CASE s \notin S
    <3>1. \A g \in Holds : (HasSeat(g, s)' <=> HasSeat(g, s)) /\ (HasSeat(g, s) => ClaimOf(g)' = ClaimOf(g))
      BY <1>4, <2>3
    <3> QED BY <2>3, <3>1, ClaimsOnSeat
  <2> QED BY <2>1, <2>2, <2>3
<1>8. CASE S = {}
  <2>1. \A s \in Seats : SeatClaims(s)' = SeatClaims(s)
    BY <1>7, <1>8
  <2> QED BY <1>6, <2>1 DEF MarketView
<1>9. ASSUME S # {} PROVE WholeWay(S) # {} /\ WholeWay(S) \in SUBSET Market!Cells
  <2>1. PICK s \in S : TRUE
    BY <1>9
  <2>2. <<s, "whole way">> \in WholeWay(S)
    BY <2>1 DEF WholeWay
  <2>3. WholeWay(S) \subseteq Seats \X {"whole way"}
    BY <1>2 DEF WholeWay
  <2> QED BY <2>2, <2>3 DEF Market!Cells
<1>10. CASE S # {} /\ hold[h] = NoHold
  <2>1. st = "HELD" /\ S \cap Taken = {}
    BY <1>1, <1>3, <1>10
  <2>2. \A s \in S : SeatClaims(s) = {}
    <3>1. \A s \in S : {g \in Holds : HasSeat(g, s)} = {}
      BY <1>3, <1>4, <1>5, <1>10
    <3> QED BY <3>1, ClaimsOnSeat
  <2>3. \A cell \in WholeWay(S) : MarketView[cell] = {}
    BY <1>2, <2>2 DEF WholeWay, MarketView
  <2>4. Market!OwnsNothing(h)
    BY <1>3, <1>10, CellsOfHold DEF Market!OwnsNothing
  <2>5. Market!Grant(WholeWay(S), {Market!Held(h)})
    BY <1>2, <1>7, <2>1, SeatsGranted
  <2>6. Market!Held(h) \in Market!Claims /\ Market!Held(h).kind = "held" /\ Market!Held(h).who = h
    BY DEF Market!Held, Market!Claims
  <2>7. Market!Take(Market!Held(h), WholeWay(S))
    BY <1>9, <1>10, <2>3, <2>4, <2>5, <2>6 DEF Market!Take, MarketView
  <2> QED BY <1>6, <1>9, <1>10, <2>6, <2>7 DEF Market!Next
<1>11. CASE S # {} /\ hold[h].status = "HELD" /\ st = "CONFIRMED"
  <2>1. Market!CellsOf(Market!Held(h)) = WholeWay(S)
    BY <1>1, <1>3, <1>11, CellsOfHold
  <2>2. Market!Grant(WholeWay(S), {Market!Sold(h)})
    BY <1>2, <1>7, <1>11, SeatsGranted
  <2>3. Market!Buy(h)
    BY <1>9, <1>11, <2>1, <2>2 DEF Market!Buy
  <2> QED BY <1>6, <2>3 DEF Market!Next
<1>12. CASE S # {} /\ hold[h].status = "HELD" /\ st = "EXPIRED"
  <2>1. Market!CellsOf(Market!Held(h)) = WholeWay(S)
    BY <1>1, <1>3, <1>12, CellsOfHold
  <2>2. Market!Grant(WholeWay(S), {})
    BY <1>2, <1>7, <1>12, SeatsGranted
  <2>3. UNION {Market!CellsOf([kind |-> "held", who |-> g]) : g \in {h}} = WholeWay(S)
    BY <2>1 DEF Market!Held
  <2>4. Market!GiveBack("held", {h})
    BY <2>2, <2>3 DEF Market!GiveBack
  <2> QED BY <1>6, <2>4 DEF Market!Next
<1> QED BY <1>1, <1>8, <1>10, <1>11, <1>12

LEMMA CheckoutMarketStep ==
    CheckoutSound /\ OneHoldPerSeat /\ [Next]_vars => OneHoldPerSeat' /\ [Market!Next]_MarketView
<1> SUFFICES ASSUME CheckoutSound, OneHoldPerSeat, [Next]_vars
             PROVE  OneHoldPerSeat' /\ [Market!Next]_MarketView
    OBVIOUS
<1>0. ServerSound /\ CallsSound /\ hold \in [Holds -> HoldRows]
  BY DEF CheckoutSound, ServerSound
<1>1. ASSUME UNCHANGED hold PROVE OneHoldPerSeat' /\ [Market!Next]_MarketView
  BY <1>1, HoldsStay
<1>2. ASSUME NEW h \in Holds, NEW S \in SUBSET Seats, AcquireHold(h, S)
      PROVE  OneHoldPerSeat' /\ [Market!Next]_MarketView
  <2> DEFINE row == [status |-> "HELD", seats |-> S]
  <2>1. row \in HoldRows /\ row.status = "HELD" /\ row.seats = S
    BY DEF HoldRows
  <2> HIDE DEF row
  <2>2. hold' = [hold EXCEPT ![h] = row] /\ hold[h] = NoHold /\ row.seats \cap Taken = {}
    BY <1>2, <2>1 DEF AcquireHold, row
  <2> QED BY <1>0, <2>1, <2>2, HoldMoves
<1>3. ASSUME NEW h \in Holds, NEW st \in {"CONFIRMED", "EXPIRED"}, hold[h].status = "HELD",
             hold' = [hold EXCEPT ![h].status = st]
      PROVE  OneHoldPerSeat' /\ [Market!Next]_MarketView
  <2> DEFINE row == [hold[h] EXCEPT !.status = st]
  <2>1. row \in HoldRows /\ row.status = st /\ row.seats = hold[h].seats
    BY <1>0 DEF HoldRows
  <2>2. hold' = [hold EXCEPT ![h] = row]
    BY <1>0, <1>3
  <2> HIDE DEF row
  <2> QED BY <1>0, <1>3, <2>1, <2>2, HoldMoves
<1>4. ASSUME NEW k \in Tabs, CreateHold(k) PROVE OneHoldPerSeat' /\ [Market!Next]_MarketView
  <2>1. CASE \E h \in Holds : AcquireHold(h, call[k].seats)
    <3>1. call[k].seats \in SUBSET Seats
      BY <1>0, <1>4 DEF CreateHold, Sent, CallsSound, CallSound, PageCalls, PageAnswers, Quiet
    <3> QED BY <1>2, <2>1, <3>1
  <2>2. CASE UNCHANGED server
    BY <1>1, <2>2 DEF server
  <2> QED BY <1>4, <2>1, <2>2 DEF CreateHold
<1>5. ASSUME NEW k \in Tabs, SandboxComplete(k) PROVE OneHoldPerSeat' /\ [Market!Next]_MarketView
  <2> DEFINE t == call[k].from.id
             h == booking[intent[t]].hold
  <2>1. Webhook(t)
    BY <1>5 DEF SandboxComplete
  <2>2. CASE UNCHANGED <<hold, booking>>
    BY <1>1, <2>2
  <2>3. CASE Ticket(intent[t]) /\ Confirmable(h)
    <3>1. h \in Holds
      <4>1. call[k].from.page = "sandbox" /\ Reached(call[k].from)
        BY <1>0, <1>5 DEF SandboxComplete, Sent, CallsSound, CallSound, PageCalls, PageAnswers, Quiet
      <4>2. t \in Txns /\ intent[t] # None
        BY <4>1, AddressOf DEF Reached
      <4>3. intent[t] \in Bookings /\ booking[intent[t]].status # "none"
        BY <1>0, <4>2 DEF ServerSound
      <4> QED BY <1>0, <4>3 DEF ServerSound
    <3>2. hold' = [hold EXCEPT ![h].status = "CONFIRMED"]
      BY <2>3 DEF Ticket
    <3>3. CASE hold[h].status = "HELD"
      BY <1>3, <3>1, <3>2, <3>3
    <3>4. CASE hold[h].status = "CONFIRMED"
      <4>1. [hold[h] EXCEPT !.status = "CONFIRMED"] = hold[h]
        BY <1>0, <3>1, <3>4 DEF HoldRows
      <4>2. hold' = hold
        BY <1>0, <3>1, <3>2, <4>1
      <4> QED BY <1>1, <4>2
    <3> QED BY <2>3, <3>3, <3>4 DEF Confirmable
  <2> QED BY <2>1, <2>2, <2>3 DEF Webhook
<1>6. ASSUME NEW h \in Holds, (\E S \in SUBSET Seats : OthersHold(h, S)) \/ Sweep(h)
      PROVE  OneHoldPerSeat' /\ [Market!Next]_MarketView
  BY <1>2, <1>3, <1>6 DEF OthersHold, Sweep
<1> QED
  BY <1>1, <1>4, <1>5, <1>6
     DEF Next, vars, server, Revisit, Poll, Proceed, Send, CheckHold, Submit, CreateBooking,
         LoadBooking, PayNow, PaymentIntent, Approve, Toggle, Arrive, Refused, Lost, Deadline

LEMMA CheckoutMarketInit == Init => OneHoldPerSeat /\ Market!Init
<1> SUFFICES ASSUME Init PROVE OneHoldPerSeat /\ Market!Init
    OBVIOUS
<1>1. \A h \in Holds : \A s : ~ HasSeat(h, s)
  BY DEF Init, HasSeat, NoHold
<1>2. \A s \in Seats : SeatClaims(s) = {}
  BY <1>1, ClaimsOnSeat
<1> QED BY <1>1, <1>2 DEF OneHoldPerSeat, Market!Init, Market!Cells

\* The passengers keep to the seat market: whatever is reloaded, paid late, paid twice or
\* approved for a hold that has lapsed, the seats of a hold are taken while they are free,
\* sold together and given back by their hold alone (store.go, HandleWebhook).
THEOREM CheckoutKeepsToTheMarket == Spec => ImplementsMarket
<1>1. CheckoutSound /\ OneHoldPerSeat /\ [Next]_vars
          => OneHoldPerSeat' /\ [Market!Next]_[cell \in Seats \X {"whole way"} |-> SeatClaims(cell[1])]
  BY CheckoutMarketStep DEF MarketView
<1> QED BY <1>1, CheckoutMarketInit, CheckoutSoundAlways, PTL DEF Spec, ImplementsMarket, Market!Spec

-----------------------------------------------------------------------------
(* MyBooking                                                                *)

Rows == [status : Statuses, trip : Trips \cup {Unset}, seats : SUBSET BusSeats,
         party : Nat, total : Nat, of : Pnrs \cup {Unset}]
RefundRows == [status : {"none", "REQUESTED", "SUCCESS", "REJECTED"}, amount : Nat]

Exists(p)   == mine[p].status # "none"
Ticketed(p) == mine[p].status = "TICKETED"
Price       == Total(FirstTrip, Cardinality(FirstSeats))
Requested   == {p \in Pnrs : refund[p].status = "REQUESTED"}
Owing       == SumFunctionOnSet(Amounts, Requested)
Returned    == SumFunctionOnSet(Amounts, Settled)

Tickets == [pnr : Pnrs, status : Statuses]

Letters == [to : MyTabs \cup {Unset}, pnr : Pnrs, status : Statuses]
Places  == Trips \X BusSeats

ServerTyped ==
    /\ mine \in [Pnrs -> Rows] /\ refund \in [Pnrs -> RefundRows] /\ owed \in Int
    /\ elsewhere \subseteq Places /\ tier \in [Trips -> 0 .. Len(Pct)]
BookingTabsTyped ==
    /\ opened \in [MyTabs -> Pages] /\ req \in [MyTabs -> Calls \cup {Silent}]
    /\ \A k \in MyTabs : Cardinality(opened[k].picked) <= mine[opened[k].pnr].party
DeviceTyped ==
    /\ answers \subseteq Letters
    /\ kept \in Seq(Tickets) /\ Len(kept) <= MaxKept /\ shell \in BOOLEAN

LEMMA TypesSplit == MyBookingTypeOK <=> ServerTyped /\ BookingTabsTyped /\ DeviceTyped
BY DEF MyBookingTypeOK, ServerTyped, BookingTabsTyped, DeviceTyped, Rows, RefundRows, Tickets, Letters, Places

\* The rows.  A refund is granted with the cancellation, so a booking that may still be
\* cancelled or moved has none.
RowsSound ==
    /\ Exists(Bought)
    /\ \A p, q \in Pnrs : Ticketed(p) /\ Ticketed(q) => p = q
    /\ \A p \in Pnrs : Ticketed(p) => mine[p].trip \in Trips
    /\ \A p \in Pnrs : mine[p].status \in {"none", "PAYMENT_PENDING", "TICKETED"} =>
                           refund[p] = NoRefund

\* The money.  The books owe at least the refunds that are requested, and what is owed
\* and was returned leaves the price of the ticket that is still good.
MoneySound ==
    /\ Owing <= owed /\ owed + Returned <= Price
    /\ \A p \in Pnrs : Ticketed(p) => owed + Returned + mine[p].total <= Price

\* The pages.  What a move was said to cost is what it costs, since the rows it is
\* computed from keep their party and their total.
Quoted(p, choice) == choice.trip \in Trips /\ choice.difference = Difference(p, choice.trip)

PageSound(k) ==
    /\ Exists(opened[k].pnr)
    /\ opened[k].choice # NoChoice => Quoted(opened[k].pnr, opened[k].choice)

BookingCallSound(k) ==
    req[k] # Silent =>
       /\ Exists(req[k].pnr) /\ Exists(req[k].new)
       /\ req[k].do = "move" => /\ Quoted(req[k].pnr, req[k].choice)
                                /\ Cardinality(req[k].seats) = mine[req[k].pnr].party

PagesSound == \A k \in MyTabs : PageSound(k) /\ BookingCallSound(k)

PurchaseSound == MyBookingTypeOK /\ RowsSound /\ MoneySound /\ PagesSound

\* What never changes about a booking once it exists.
RowsKept ==
    \A p \in Pnrs : Exists(p) => /\ Exists(p)'
                                 /\ mine'[p].party = mine[p].party
                                 /\ mine'[p].total = mine[p].total

-----------------------------------------------------------------------------
(* Counting                                                                 *)

LEMMA SeatsCount == ASSUME NEW S \in SUBSET BusSeats PROVE Cardinality(S) \in Nat
BY FS_Subset, FS_CardinalityType, MyBookingConstants

LEMMA TotalType ==
    ASSUME NEW t \in Trips, NEW n \in Nat PROVE Total(t, n) \in Nat
<1>1. Fare[t] \in Nat /\ ServiceFee \in Nat
  BY MyBookingConstants
<1>2. Fare[t] * n \in Nat
  BY <1>1
<1> QED BY <1>1, <1>2 DEF Total

LEMMA PriceType == Price \in Nat
<1>1. FirstSeats \in SUBSET BusSeats /\ FirstTrip \in Trips
  BY MyBookingConstants
<1> QED BY <1>1, SeatsCount, TotalType DEF Price

LEMMA PartsFinite ==
    /\ Requested \in SUBSET Pnrs /\ Settled \in SUBSET Pnrs
    /\ IsFiniteSet(Requested) /\ IsFiniteSet(Settled)
<1>1. Requested \in SUBSET Pnrs /\ Settled \in SUBSET Pnrs
  BY DEF Requested, Settled
<1> QED BY <1>1, FS_Subset, MyBookingConstants

LEMMA AmountsType ==
    ASSUME ServerTyped
    PROVE  \A p \in Pnrs : Amounts[p] = refund[p].amount /\ Amounts[p] \in Nat
BY DEF ServerTyped, RefundRows, Amounts

LEMMA SumsType == ASSUME ServerTyped PROVE Owing \in Nat /\ Returned \in Nat
<1>1. \A p \in Pnrs : Amounts[p] \in Nat
  BY AmountsType
<1> QED BY <1>1, PartsFinite, SumNat DEF Owing, Returned

\* A tier pays back a part of the price.
LEMMA PartOfPrice ==
    ASSUME ServerTyped, NEW p \in Pnrs, Ticketed(p), mine[p].trip \in Trips,
           Quote(p).cancellable
    PROVE  Quote(p).refund \in 0 .. mine[p].total
<1> DEFINE t == mine[p].total
           c == Pct[tier[mine[p].trip]]
<1>1. t \in Nat
  BY DEF ServerTyped, Rows
<1>2. tier[mine[p].trip] \in 1 .. Len(Pct)
  BY MyBookingConstants DEF ServerTyped, Quote, NoQuote
<1>3. c \in 0 .. 100
  <2>1. Pct \in Seq(0 .. 100)
    BY MyBookingConstants
  <2> QED BY <1>2, <2>1, ElementOfSeq
<1>4. Quote(p).refund = (t * c) \div 100
  BY DEF Quote, NoQuote
<1> HIDE DEF t, c
<1>5. t * c \in Nat /\ t * c <= t * 100
  BY <1>1, <1>3
<1>6. (t * c) \div 100 \in 0 .. t
  BY <1>1, <1>5
<1> QED BY <1>4, <1>6 DEF t
-----------------------------------------------------------------------------
(* The server                                                               *)

LEMMA InitSound == ASSUME MyBookingInit PROVE PurchaseSound
<1>1. /\ Price \in Nat /\ Cardinality(FirstSeats) \in Nat /\ FirstSeats \in SUBSET BusSeats
      /\ FirstTrip \in Trips /\ Bought \in Pnrs /\ Cardinality({}) = 0
      /\ Unset \notin Pnrs \cup Trips \cup MyTabs
  BY PriceType, SeatsCount, FS_EmptySet, MyBookingConstants
<1>2. ServerTyped
  BY <1>1, MyBookingConstants
     DEF MyBookingInit, ServerTyped, Rows, RefundRows, NoBooking, NoRefund, Statuses, Price
<1>3. BookingTabsTyped
  <2>1. Fresh("find", Bought) \in Pages
    BY <1>1 DEF Fresh, Pages, Unseen, NoQuote, NoChoice, NotTold, Statuses
  <2>2. Fresh("find", Bought).picked = {} /\ Fresh("find", Bought).pnr = Bought
    BY DEF Fresh
  <2>3. opened \in [MyTabs -> Pages] /\ req \in [MyTabs -> Calls \cup {Silent}]
    BY <2>1 DEF MyBookingInit
  <2>4. mine[Bought].party \in Nat
    BY <1>1, <1>2 DEF ServerTyped, Rows
  <2>5. \A k \in MyTabs : opened[k] = Fresh("find", Bought)
    BY DEF MyBookingInit
  <2>6. \A k \in MyTabs : Cardinality(opened[k].picked) <= mine[opened[k].pnr].party
    BY <1>1, <2>2, <2>4, <2>5
  <2> QED BY <2>3, <2>6 DEF BookingTabsTyped
<1>4. DeviceTyped
  <2>1. MaxKept \in Nat \ {0}
    BY MyBookingConstants
  <2>2. answers = {} /\ kept = <<>> /\ shell = FALSE
    BY DEF MyBookingInit
  <2>3. kept \in Seq(Tickets) /\ Len(kept) = 0
    BY <2>2
  <2>4. answers \subseteq Letters /\ Len(kept) <= MaxKept
    BY <2>1, <2>2, <2>3
  <2> QED BY <2>2, <2>3, <2>4 DEF DeviceTyped
<1>5. RowsSound
  BY <1>1 DEF MyBookingInit, RowsSound, Exists, Ticketed, NoBooking
<1>6. MoneySound
  <2>1. Requested = {} /\ Settled = {}
    BY DEF MyBookingInit, Requested, Settled, NoRefund
  <2>2. Owing = 0 /\ Returned = 0 /\ owed = 0
    BY <2>1, SumEmpty DEF MyBookingInit, Owing, Returned
  <2>3. \A p \in Pnrs : Ticketed(p) => mine[p].total = Price
    BY DEF MyBookingInit, Ticketed, NoBooking, Price
  <2> QED BY <1>1, <2>2, <2>3 DEF MoneySound
<1>7. PagesSound
  <2>1. \A k \in MyTabs : opened[k].pnr = Bought /\ opened[k].choice = NoChoice /\ req[k] = Silent
    BY DEF MyBookingInit, Fresh
  <2> QED BY <1>1, <2>1 DEF MyBookingInit, PagesSound, PageSound, BookingCallSound, Exists
<1> QED BY <1>2, <1>3, <1>4, <1>5, <1>6, <1>7, TypesSplit DEF PurchaseSound

ServerKept == ServerTyped' /\ RowsSound' /\ MoneySound' /\ RowsKept

\* Rows, refunds and debts as they were.
LEMMA SameBooks ==
    ASSUME PurchaseSound, UNCHANGED <<mine, refund, owed>>,
           elsewhere' \subseteq Places, tier' \in [Trips -> 0 .. Len(Pct)]
    PROVE  ServerKept
<1>1. ServerTyped'
  BY TypesSplit DEF PurchaseSound, ServerTyped
<1>2. RowsSound' /\ RowsKept
  BY DEF PurchaseSound, RowsSound, RowsKept, Exists, Ticketed
<1>3. Owing' = Owing /\ Returned' = Returned
  BY DEF Owing, Returned, Requested, Settled, Amounts
<1>4. MoneySound'
  BY <1>3 DEF PurchaseSound, MoneySound, Ticketed
<1> QED BY <1>1, <1>2, <1>4 DEF ServerKept

LEMMA CancelKeeps ==
    ASSUME PurchaseSound, NEW k \in MyTabs, Cancel(k)
    PROVE  ServerKept
<1> DEFINE p == req[k].pnr
           r == Quote(p).refund
<1>0. Bought \in Pnrs
  BY MyBookingConstants
<1>1. ServerTyped /\ BookingTabsTyped
  BY TypesSplit DEF PurchaseSound
<1>2. p \in Pnrs
  BY <1>1 DEF Cancel, Posted, BookingTabsTyped, Calls
<1>3. CASE ~ Quote(p).cancellable
  BY <1>1, <1>3, SameBooks DEF Cancel, ServerTyped
<1>4. CASE Quote(p).cancellable
  <2>1. Ticketed(p) /\ mine[p].trip \in Trips /\ refund[p] = NoRefund
    BY <1>2, <1>4 DEF Quote, NoQuote, Active, Ticketed, PurchaseSound, RowsSound
  <2>2. r \in 0 .. mine[p].total /\ mine[p].total \in Nat
    BY <1>1, <1>2, <1>4, <2>1, PartOfPrice DEF ServerTyped, Rows
  <2>3. /\ mine' = [mine EXCEPT ![p].seats = {},
                 ![p].status = IF r > 0 THEN "REFUND_PENDING" ELSE "CANCELLED"]
        /\ refund' = [refund EXCEPT ![p] =
                 [status |-> IF r > 0 THEN "REQUESTED" ELSE "REJECTED", amount |-> r]]
        /\ owed' = owed + r /\ UNCHANGED <<elsewhere, tier>>
    BY <1>4 DEF Cancel
  <2> HIDE DEF r, p
  <2>4. ServerTyped'
    <3> DEFINE row == [mine[p] EXCEPT !.seats = {},
                          !.status = IF r > 0 THEN "REFUND_PENDING" ELSE "CANCELLED"]
               paid == [status |-> IF r > 0 THEN "REQUESTED" ELSE "REJECTED", amount |-> r]
    <3>1. row \in Rows
      BY <1>1, <1>2 DEF ServerTyped, Rows, Statuses
    <3>2. paid \in RefundRows
      BY <2>2 DEF RefundRows
    <3>3. mine' = [mine EXCEPT ![p] = row] /\ refund' = [refund EXCEPT ![p] = paid]
      BY <2>3
    <3> HIDE DEF row, paid
    <3>4. mine' \in [Pnrs -> Rows] /\ refund' \in [Pnrs -> RefundRows]
      BY <1>1, <3>1, <3>2, <3>3 DEF ServerTyped
    <3>5. owed' \in Int
      BY <1>1, <2>2, <2>3 DEF ServerTyped
    <3> QED BY <1>1, <2>3, <3>4, <3>5 DEF ServerTyped
  <2>5. /\ \A q \in Pnrs \ {p} : mine'[q] = mine[q] /\ refund'[q] = refund[q]
        /\ mine'[p].status \in {"REFUND_PENDING", "CANCELLED"}
        /\ mine'[p].party = mine[p].party /\ mine'[p].total = mine[p].total
    BY <1>1, <1>2, <2>3 DEF ServerTyped, Rows
  <2>6. RowsSound' /\ RowsKept
    BY <1>0, <1>2, <2>1, <2>5 DEF PurchaseSound, RowsSound, RowsKept, Exists, Ticketed, NoRefund
  <2>7. /\ \A q \in Pnrs \ {p} : Amounts'[q] = Amounts[q]
        /\ Amounts'[p] = r /\ p \notin Requested /\ p \notin Settled
        /\ \A q \in Pnrs : Amounts[q] \in Nat /\ Amounts'[q] \in Nat
    <3>1. Amounts' = [q \in Pnrs |-> refund'[q].amount] /\ Amounts = [q \in Pnrs |-> refund[q].amount]
      BY DEF Amounts
    <3>2. refund'[p].amount = r
      BY <1>1, <1>2, <2>3 DEF ServerTyped
    <3>3. \A q \in Pnrs : refund[q].amount \in Nat /\ refund'[q].amount \in Nat
      BY <1>1, <2>4 DEF ServerTyped, RefundRows
    <3> QED BY <1>2, <2>1, <2>5, <3>1, <3>2, <3>3 DEF Requested, Settled, NoRefund
  <2>8. Settled' = Settled /\ Requested' = IF r > 0 THEN Requested \cup {p} ELSE Requested
    <3>1. refund'[p].status = IF r > 0 THEN "REQUESTED" ELSE "REJECTED"
      BY <1>1, <1>2, <2>3 DEF ServerTyped
    <3> QED BY <1>2, <2>1, <2>5, <3>1 DEF Settled, Requested, NoRefund
  <2>9. Returned' = Returned
    BY <2>7, <2>8, PartsFinite, SumSame DEF Returned
  <2>10. Owing' = Owing + r
    <3>1. SumFunctionOnSet(Amounts', Requested) = Owing
      BY <2>7, PartsFinite, SumSame DEF Owing
    <3>2. CASE r > 0
      <4>1. SumFunctionOnSet(Amounts', Requested \cup {p}) = r + SumFunctionOnSet(Amounts', Requested)
        BY <1>2, <2>2, <2>7, PartsFinite, SumAdd
      <4> QED BY <1>1, <2>2, <2>8, <3>1, <3>2, <4>1, SumsType DEF Owing
    <3>3. CASE ~ (r > 0)
      BY <1>1, <2>2, <2>8, <3>1, <3>3, SumsType DEF Owing
    <3> QED BY <3>2, <3>3
  <2>11. \A q \in Pnrs : ~ Ticketed(q)'
    BY <1>2, <2>1, <2>5 DEF PurchaseSound, RowsSound, Ticketed
  <2>12. owed \in Int /\ owed + Returned + mine[p].total <= Price /\ Owing <= owed
    BY <1>1, <1>2, <2>1 DEF ServerTyped, PurchaseSound, MoneySound
  <2>13. MoneySound'
    BY <1>1, <2>2, <2>3, <2>9, <2>10, <2>11, <2>12, SumsType, PriceType DEF MoneySound
  <2> QED BY <2>4, <2>6, <2>13 DEF ServerKept
<1> QED BY <1>3, <1>4

LEMMA SettleKeeps ==
    ASSUME PurchaseSound, NEW k \in MyTabs, SettleRefund(k)
    PROVE  ServerKept
<1> DEFINE p == req[k].pnr
<1>0. Bought \in Pnrs
  BY MyBookingConstants
<1>1. ServerTyped /\ BookingTabsTyped
  BY TypesSplit DEF PurchaseSound
<1>2. p \in Pnrs
  BY <1>1 DEF SettleRefund, Posted, BookingTabsTyped, Calls
<1>3. CASE refund[p].status # "REQUESTED"
  BY <1>1, <1>3, SameBooks DEF SettleRefund, ServerTyped
<1>4. CASE refund[p].status = "REQUESTED"
  <2>1. /\ mine' = [mine EXCEPT ![p].status = "REFUNDED"]
        /\ refund' = [refund EXCEPT ![p].status = "SUCCESS"]
        /\ owed' = owed - refund[p].amount /\ UNCHANGED <<elsewhere, tier>>
    BY <1>4 DEF SettleRefund
  <2>2. refund[p] # NoRefund /\ refund[p].amount \in Nat
    BY <1>1, <1>2, <1>4 DEF NoRefund, ServerTyped, RefundRows
  <2>3. mine[p].status \notin {"none", "PAYMENT_PENDING", "TICKETED"}
    BY <1>2, <2>2 DEF PurchaseSound, RowsSound
  <2> HIDE DEF p
  <2>4. ServerTyped'
    <3> DEFINE row == [mine[p] EXCEPT !.status = "REFUNDED"]
               paid == [refund[p] EXCEPT !.status = "SUCCESS"]
    <3>1. row \in Rows
      BY <1>1, <1>2 DEF ServerTyped, Rows, Statuses
    <3>2. paid \in RefundRows
      BY <1>1, <1>2 DEF ServerTyped, RefundRows
    <3>3. mine' = [mine EXCEPT ![p] = row] /\ refund' = [refund EXCEPT ![p] = paid]
      BY <2>1
    <3> HIDE DEF row, paid
    <3> QED BY <1>1, <1>2, <2>1, <2>2, <3>1, <3>2, <3>3 DEF ServerTyped
  <2>5. /\ \A q \in Pnrs \ {p} : mine'[q] = mine[q] /\ refund'[q] = refund[q]
        /\ mine'[p].status = "REFUNDED" /\ refund'[p].status = "SUCCESS"
        /\ refund'[p].amount = refund[p].amount
        /\ mine'[p].party = mine[p].party /\ mine'[p].total = mine[p].total
    BY <1>1, <1>2, <2>1 DEF ServerTyped, Rows, RefundRows
  <2>6. RowsSound' /\ RowsKept
    BY <1>0, <1>2, <2>3, <2>5 DEF PurchaseSound, RowsSound, RowsKept, Exists, Ticketed
  <2>7. Amounts' = Amounts /\ \A q \in Pnrs : Amounts[q] \in Nat
    BY <1>1, <1>2, <2>5 DEF Amounts, ServerTyped, RefundRows
  <2>8. Amounts[p] = refund[p].amount
    BY <1>2 DEF Amounts
  <2>9. /\ Settled' = Settled \cup {p} /\ p \notin Settled
        /\ Requested' = Requested \ {p} /\ p \in Requested
    BY <1>2, <1>4, <2>5 DEF Settled, Requested
  <2>10. Returned' = refund[p].amount + Returned
    BY <2>2, <2>7, <2>8, <2>9, PartsFinite, SumAdd DEF Returned
  <2>11. Owing = refund[p].amount + Owing'
    BY <2>2, <2>7, <2>8, <2>9, PartsFinite, SumRemove DEF Owing
  <2>12. Owing' \in Nat
    BY <2>4, <2>9, <2>7, PartsFinite, SumNat, FS_Subset DEF Owing
  <2>13. \A q \in Pnrs : Ticketed(q)' => Ticketed(q) /\ mine'[q].total = mine[q].total
    BY <2>5 DEF Ticketed
  <2>14. \A q \in Pnrs : mine[q].total \in Nat
    BY <1>1 DEF ServerTyped, Rows
  <2>15. owed \in Int /\ MoneySound
    BY <1>1 DEF ServerTyped, PurchaseSound
  <2>16. Owing' <= owed' /\ owed' + Returned' = owed + Returned
    BY <1>1, <2>1, <2>2, <2>10, <2>11, <2>12, <2>15, SumsType DEF MoneySound
  <2>17. Price' = Price
    BY DEF Price
  <2>18. MoneySound'
    BY <2>13, <2>15, <2>16, <2>17 DEF MoneySound
  <2> QED BY <2>4, <2>6, <2>18 DEF ServerKept
<1> QED BY <1>3, <1>4

LEMMA LapseKeeps ==
    ASSUME PurchaseSound, NEW p \in Pnrs, Lapse(p)
    PROVE  ServerKept
<1>1. ServerTyped
  BY TypesSplit DEF PurchaseSound
<1>2. mine' = [mine EXCEPT ![p].seats = {}] /\ UNCHANGED <<refund, owed, elsewhere, tier>>
  BY DEF Lapse
<1>3. ServerTyped'
  BY <1>1, <1>2 DEF ServerTyped, Rows
<1>4. \A q \in Pnrs : /\ mine'[q].status = mine[q].status /\ mine'[q].trip = mine[q].trip
                      /\ mine'[q].party = mine[q].party /\ mine'[q].total = mine[q].total
  BY <1>1, <1>2 DEF ServerTyped, Rows
<1>5. Owing' = Owing /\ Returned' = Returned
  BY <1>2 DEF Owing, Returned, Requested, Settled, Amounts
<1>6. \A q \in Pnrs : Exists(q)' = Exists(q) /\ Ticketed(q)' = Ticketed(q)
  BY <1>4 DEF Exists, Ticketed
<1>7. RowsKept
  BY <1>4, <1>6 DEF RowsKept
<1>8. RowsSound'
  BY <1>2, <1>4 DEF PurchaseSound, RowsSound, Exists, Ticketed
<1>9. MoneySound'
  BY <1>2, <1>4, <1>5, <1>6 DEF PurchaseSound, MoneySound, Price
<1> QED BY <1>3, <1>7, <1>8, <1>9 DEF ServerKept

LEMMA MoveKeeps ==
    ASSUME PurchaseSound, NEW k \in MyTabs, Move(k)
    PROVE  ServerKept
<1> DEFINE p == req[k].pnr
           t == req[k].choice.trip
           S == req[k].seats
           total == Total(t, Cardinality(S))
<1>1. ServerTyped /\ BookingTabsTyped
  BY TypesSplit DEF PurchaseSound
<1>2. p \in Pnrs /\ S \in SUBSET BusSeats
  BY <1>1 DEF Move, Posted, BookingTabsTyped, Calls
<1>3. t \in Trips
  BY DEF Move, Posted, PurchaseSound, PagesSound, BookingCallSound, Quoted
<1>4. CASE UNCHANGED <<mine, owed>>
  BY <1>1, <1>4, SameBooks DEF Move, ServerTyped
<1>5. ASSUME NEW new \in Pnrs, Movable(p, t, S), mine[new] = NoBooking, Moved(p, new, t, S)
      PROVE  ServerKept
  <2>1. Cardinality(S) \in Nat /\ total \in Nat
    BY <1>2, <1>3, SeatsCount, TotalType
  <2>2. /\ mine' = [mine EXCEPT ![p].status = "CANCELLED", ![p].seats = {},
              ![new] = [status |-> IF total > mine[p].total THEN "PAYMENT_PENDING" ELSE "TICKETED",
                        trip |-> t, seats |-> S, party |-> Cardinality(S), total |-> total, of |-> p]]
        /\ owed' = owed + Max({0, mine[p].total - total})
        /\ UNCHANGED <<refund, elsewhere, tier>>
    BY <1>5 DEF Moved, Move
  <2>3. Ticketed(p) /\ new # p /\ mine[new].status = "none"
    BY <1>5 DEF Movable, Active, Ticketed, NoBooking
  <2>4. mine[p].total \in Nat /\ owed \in Int
    BY <1>1, <1>2 DEF ServerTyped, Rows
  <2> HIDE DEF p, t, S, total
  <2>5. Max({0, mine[p].total - total}) =
            IF mine[p].total > total THEN mine[p].total - total ELSE 0
    BY <2>1, <2>4 DEF Max
  <2>6. ServerTyped'
    <3> DEFINE old == [mine[p] EXCEPT !.status = "CANCELLED", !.seats = {}]
               row == [status |-> IF total > mine[p].total THEN "PAYMENT_PENDING" ELSE "TICKETED",
                       trip |-> t, seats |-> S, party |-> Cardinality(S), total |-> total, of |-> p]
    <3>1. old \in Rows
      BY <1>1, <1>2 DEF ServerTyped, Rows, Statuses
    <3>2. row \in Rows
      BY <1>2, <1>3, <2>1 DEF Rows, Statuses
    <3>3. mine' = [mine EXCEPT ![p] = old, ![new] = row]
      BY <2>2
    <3> HIDE DEF old, row
    <3>4. mine' \in [Pnrs -> Rows]
      BY <1>1, <3>1, <3>2, <3>3 DEF ServerTyped
    <3>5. owed' \in Int
      BY <2>1, <2>2, <2>4, <2>5
    <3> QED BY <1>1, <2>2, <3>4, <3>5 DEF ServerTyped
  <2>7. /\ \A q \in Pnrs \ {p, new} : mine'[q] = mine[q]
        /\ mine'[p].status = "CANCELLED" /\ mine'[p].party = mine[p].party
        /\ mine'[p].total = mine[p].total
        /\ mine'[new] =
              [status |-> IF total > mine[p].total THEN "PAYMENT_PENDING" ELSE "TICKETED",
               trip |-> t, seats |-> S, party |-> Cardinality(S), total |-> total, of |-> p]
    BY <1>1, <1>2, <1>5, <2>2, <2>3 DEF ServerTyped, Rows
  <2>8. /\ mine'[new].status = IF total > mine[p].total THEN "PAYMENT_PENDING" ELSE "TICKETED"
        /\ mine'[new].trip = t /\ mine'[new].total = total
    BY <2>7
  <2>9. \A q \in Pnrs : Ticketed(q)' => q = new
    BY <1>2, <2>3, <2>7 DEF Ticketed, PurchaseSound, RowsSound
  <2>10. RowsKept
    BY <2>3, <2>7 DEF RowsKept, Exists
  <2>11. RowsSound'
    <3>1. refund[new] = NoRefund
      BY <1>5, <2>3 DEF PurchaseSound, RowsSound
    <3>2. Exists(Bought)'
      BY <2>10, MyBookingConstants DEF RowsKept, PurchaseSound, RowsSound
    <3>3. \A q \in Pnrs : Ticketed(q)' => mine'[q].trip \in Trips
      BY <1>3, <2>8, <2>9
    <3>4. \A q \in Pnrs : mine'[q].status \in {"none", "PAYMENT_PENDING", "TICKETED"} =>
                              refund'[q] = NoRefund
      BY <2>2, <2>7, <3>1 DEF PurchaseSound, RowsSound
    <3> QED BY <2>9, <3>2, <3>3, <3>4 DEF RowsSound
  <2>12. Owing' = Owing /\ Returned' = Returned /\ Price' = Price
    BY <2>2 DEF Owing, Returned, Requested, Settled, Amounts, Price
  <2>13. owed + Returned + mine[p].total <= Price /\ Owing <= owed
    BY <1>2, <2>3 DEF PurchaseSound, MoneySound
  <2>14. Owing \in Nat /\ Returned \in Nat /\ Price \in Nat
    BY <1>1, SumsType, PriceType
  <2>15. /\ Owing' <= owed' /\ owed' + Returned' <= Price'
         /\ Ticketed(new)' => owed' + Returned' + total <= Price'
    BY <2>1, <2>2, <2>4, <2>5, <2>8, <2>12, <2>13, <2>14 DEF Ticketed
  <2>16. MoneySound'
    BY <2>8, <2>9, <2>15 DEF MoneySound
  <2> QED BY <2>6, <2>10, <2>11, <2>16 DEF ServerKept
<1> QED BY <1>4, <1>5 DEF Move

LEMMA ServerStep == ASSUME PurchaseSound, [MyBookingNext]_myBookingVars PROVE ServerKept
<1>1. ServerTyped
  BY TypesSplit DEF PurchaseSound
<1>2. CASE UNCHANGED records
  BY <1>1, <1>2, SameBooks DEF records, ServerTyped
<1>3. ASSUME NEW t \in Trips, NEW s \in BusSeats, OthersBuy(t, s) PROVE ServerKept
  <2>1. elsewhere' \subseteq Places
    BY <1>1, <1>3 DEF OthersBuy, ServerTyped, Places
  <2> QED BY <1>1, <1>3, <2>1, SameBooks DEF OthersBuy, ServerTyped
<1>4. ASSUME NEW t \in Trips, TimePasses(t) PROVE ServerKept
  <2>1. tier' \in [Trips -> 0 .. Len(Pct)]
    BY <1>1, <1>4, MyBookingConstants DEF TimePasses, ServerTyped
  <2> QED BY <1>1, <1>4, <2>1, SameBooks DEF TimePasses, ServerTyped
<1>5. ASSUME NEW k \in MyTabs,
             Leave(k) \/ LoadManage(k) \/ Ask(k) \/ Confirm(k) \/ Settle(k) \/ LoadOptions(k)
               \/ ConfirmMove(k) \/ Answered(k) \/ NoAnswer(k) \/ ServeTicket(k) \/ TicketFails(k)
               \/ Warm(k) \/ \E p \in Pnrs : Find(k, p)
      PROVE  UNCHANGED records
  BY <1>5 DEF Leave, LoadManage, Ask, Confirm, Settle, LoadOptions, ConfirmMove, Post, Answered,
              NoAnswer, ServeTicket, TicketFails, Warm, Find, records
<1>6. ASSUME NEW k \in MyTabs,
             \/ \E at \in {"manage", "ticket", "reschedule"} : Follow(k, at)
             \/ \E t \in Trips : Choose(k, t)
             \/ \E s \in BusSeats : Pick(k, s)
      PROVE  UNCHANGED records
  BY <1>6 DEF Follow, Choose, Pick, records
<1>7. ASSUME NEW a \in answers, ArriveTicket(a) PROVE UNCHANGED records
  BY <1>7 DEF ArriveTicket, records
<1>8. CASE UNCHANGED myBookingVars
  BY <1>2, <1>8 DEF myBookingVars
<1> QED BY <1>2, <1>3, <1>4, <1>5, <1>6, <1>7, <1>8, CancelKeeps, SettleKeeps, MoveKeeps, LapseKeeps
       DEF MyBookingNext
-----------------------------------------------------------------------------
(* The tabs                                                                 *)

BookingTabsKept == BookingTabsTyped' /\ PagesSound'

\* What a page is when it is mounted, and what an answer may write into it.
GoodPage(n) ==
    /\ n \in Pages /\ Exists(n.pnr) /\ Cardinality(n.picked) <= mine[n.pnr].party
    /\ n.choice # NoChoice => Quoted(n.pnr, n.choice)
GoodCall(c) ==
    /\ c \in Calls /\ Exists(c.pnr) /\ Exists(c.new)
    /\ c.do = "move" => /\ Quoted(c.pnr, c.choice)
                        /\ Cardinality(c.seats) = mine[c.pnr].party

TabsGood ==
    /\ opened \in [MyTabs -> Pages] /\ req \in [MyTabs -> Calls \cup {Silent}]
    /\ \A k \in MyTabs : GoodPage(opened[k]) /\ (req[k] # Silent => GoodCall(req[k]))

LEMMA GoodTabs == BookingTabsTyped /\ PagesSound <=> TabsGood
<1>1. ASSUME req \in [MyTabs -> Calls \cup {Silent}], opened \in [MyTabs -> Pages], NEW k \in MyTabs
      PROVE  /\ opened[k] \in Pages /\ (req[k] # Silent => req[k] \in Calls)
  BY <1>1
<1> QED BY <1>1 DEF TabsGood, BookingTabsTyped, PagesSound, PageSound, BookingCallSound, GoodPage, GoodCall

LEMMA GoodTabsAfter == (BookingTabsTyped /\ PagesSound <=> TabsGood)'
BY GoodTabs, PTL

\* A page stays good while the rows keep what it was computed from.
LEMMA GoodStays ==
    ASSUME RowsKept
    PROVE  /\ \A n \in Pages : GoodPage(n) => GoodPage(n)'
           /\ \A c \in Calls : GoodCall(c) => GoodCall(c)'
<1>1. \A p \in Pnrs : Exists(p) => Exists(p)' /\ mine'[p].party = mine[p].party
  BY DEF RowsKept
<1>2. \A p \in Pnrs : \A ch : Exists(p) /\ Quoted(p, ch) => Quoted(p, ch)'
  BY DEF RowsKept, Quoted, Difference, Total
<1>3. \A n \in Pages : n.pnr \in Pnrs
  BY DEF Pages
<1>4. \A c \in Calls : c.pnr \in Pnrs /\ c.new \in Pnrs
  BY DEF Calls
<1>5. ASSUME NEW n \in Pages, GoodPage(n) PROVE GoodPage(n)'
  BY <1>1, <1>2, <1>3, <1>5 DEF GoodPage
<1>6. ASSUME NEW c \in Calls, GoodCall(c) PROVE GoodCall(c)'
  BY <1>1, <1>2, <1>4, <1>6 DEF GoodCall
<1> QED BY <1>5, <1>6

\* One tab shows another page or has another request.
LEMMA TabChanges ==
    ASSUME BookingTabsTyped, PagesSound, RowsKept, NEW k \in MyTabs, NEW n, NEW c,
           opened' = [opened EXCEPT ![k] = n], req' = [req EXCEPT ![k] = c],
           n \in Pages, GoodPage(n)', c = Silent \/ (c \in Calls /\ GoodCall(c)')
    PROVE  BookingTabsKept
<1>1. /\ opened \in [MyTabs -> Pages] /\ req \in [MyTabs -> Calls \cup {Silent}]
      /\ \A j \in MyTabs : GoodPage(opened[j]) /\ (req[j] # Silent => GoodCall(req[j]))
  BY GoodTabs DEF TabsGood
<1>2. opened' \in [MyTabs -> Pages] /\ req' \in [MyTabs -> Calls \cup {Silent}]
  BY <1>1
<1>3. ASSUME NEW j \in MyTabs PROVE GoodPage(opened[j])' /\ (req'[j] # Silent => GoodCall(req[j])')
  <2>1. CASE j = k
    <3>1. opened'[j] = n /\ req'[j] = c
      BY <1>1, <2>1
    <3>2. GoodPage(opened[j])'
      BY <3>1 DEF GoodPage, Exists, Quoted, Difference, Total
    <3>3. ASSUME c # Silent PROVE GoodCall(req[j])'
      <4>1. GoodCall(c)'
        BY <3>3
      <4> QED BY <3>1, <4>1 DEF GoodCall, Exists, Quoted, Difference, Total
    <3> QED BY <3>1, <3>2, <3>3
  <2>2. CASE j # k
    <3>1. opened'[j] = opened[j] /\ req'[j] = req[j]
      BY <1>1, <2>2
    <3>2. GoodPage(opened[j]) /\ opened[j] \in Pages
      BY <1>1
    <3>3. req[j] # Silent => GoodCall(req[j]) /\ req[j] \in Calls
      BY <1>1
    <3>4. \A x \in Pages : GoodPage(x) => GoodPage(x)'
      BY GoodStays
    <3>5. \A x \in Calls : GoodCall(x) => GoodCall(x)'
      BY GoodStays
    <3>6. GoodPage(opened[j])'
      BY <3>1, <3>2, <3>4 DEF GoodPage
    <3>7. req'[j] # Silent => GoodCall(req[j])'
      BY <3>1, <3>3, <3>5 DEF GoodCall
    <3> QED BY <3>6, <3>7
  <2> QED BY <2>1, <2>2
<1> QED BY <1>2, <1>3, GoodTabsAfter DEF BookingTabsKept, TabsGood

\* What mounts is good, and what is on its way no longer updates a page.
LEMMA FreshIsGood ==
    ASSUME ServerTyped, NEW p \in Pnrs, Exists(p),
           NEW at \in {"find", "manage", "reschedule", "ticket", "503"}
    PROVE  GoodPage(Fresh(at, p))
<1> DEFINE n == Fresh(at, p)
<1>1. n \in Pages
  BY DEF Fresh, Pages, Unseen, NoQuote, NoChoice, NotTold, Statuses
<1>2. n.pnr = p /\ n.picked = {} /\ n.choice = NoChoice
  BY DEF Fresh
<1>3. Cardinality({}) = 0 /\ mine[p].party \in Nat
  BY FS_EmptySet DEF ServerTyped, Rows
<1> QED BY <1>1, <1>2, <1>3 DEF GoodPage

LEMMA MountKeeps ==
    ASSUME PurchaseSound, RowsKept, NEW k \in MyTabs, NEW n \in Pages, GoodPage(n), Mount(k, n)
    PROVE  BookingTabsKept
<1>1. BookingTabsTyped /\ PagesSound
  BY TypesSplit DEF PurchaseSound
<1>2. opened' = [opened EXCEPT ![k] = n]
  BY DEF Mount
<1>3. GoodPage(n)'
  BY GoodStays
<1>4. CASE req[k] = Silent
  <2>1. req' = [req EXCEPT ![k] = Silent]
    BY <1>1, <1>4 DEF Mount, BookingTabsTyped
  <2> QED BY <1>1, <1>2, <1>3, <2>1, TabChanges
<1>5. CASE req[k] # Silent
  <2>0. PICK c : c = [req[k] EXCEPT !.here = FALSE]
    OBVIOUS
  <2>1. req[k] \in Calls /\ GoodCall(req[k])
    BY <1>1, <1>5, GoodTabs DEF TabsGood
  <2>2. c \in Calls /\ c.pnr = req[k].pnr /\ c.new = req[k].new /\ c.do = req[k].do
        /\ c.choice = req[k].choice /\ c.seats = req[k].seats
    BY <2>0, <2>1 DEF Calls
  <2>3. req' = [req EXCEPT ![k] = c]
    BY <1>5, <2>0 DEF Mount
  <2>4. GoodCall(c)
    BY <2>1, <2>2 DEF GoodCall
  <2>5. GoodCall(c)'
    BY <2>2, <2>4, GoodStays
  <2> QED BY <1>1, <1>2, <1>3, <2>2, <2>3, <2>5, TabChanges
<1> QED BY <1>4, <1>5

\* The page of a tab changes, its request does not; and the other way round.
LEMMA PageChanges ==
    ASSUME PurchaseSound, RowsKept, NEW k \in MyTabs, NEW n \in Pages, GoodPage(n),
           opened' = [opened EXCEPT ![k] = n], req' = req
    PROVE  BookingTabsKept
<1>1. BookingTabsTyped /\ PagesSound
  BY TypesSplit DEF PurchaseSound
<1>2. GoodPage(n)'
  BY GoodStays
<1>3. PICK c : c = req[k]
  OBVIOUS
<1>4. req' = [req EXCEPT ![k] = c] /\ (c = Silent \/ (c \in Calls /\ GoodCall(c)))
  BY <1>1, <1>3, GoodTabs DEF TabsGood
<1>5. c = Silent \/ (c \in Calls /\ GoodCall(c)')
  BY <1>4, GoodStays
<1> QED BY <1>1, <1>2, <1>4, <1>5, TabChanges

LEMMA RequestChanges ==
    ASSUME PurchaseSound, RowsKept, NEW k \in MyTabs, NEW c,
           c = Silent \/ (c \in Calls /\ GoodCall(c)'),
           req' = [req EXCEPT ![k] = c], opened' = opened
    PROVE  BookingTabsKept
<1>1. BookingTabsTyped /\ PagesSound
  BY TypesSplit DEF PurchaseSound
<1>2. PICK n : n = opened[k]
  OBVIOUS
<1>3. opened' = [opened EXCEPT ![k] = n] /\ n \in Pages /\ GoodPage(n)
  BY <1>1, <1>2, GoodTabs DEF TabsGood
<1>4. GoodPage(n)'
  BY <1>3, GoodStays
<1> QED BY <1>1, <1>3, <1>4, TabChanges
LEMMA TabsStay ==
    ASSUME PurchaseSound, RowsKept, opened' = opened, req' = req PROVE BookingTabsKept
<1>1. TabsGood
  BY TypesSplit, GoodTabs DEF PurchaseSound
<1>2. ASSUME NEW k \in MyTabs PROVE GoodPage(opened[k])' /\ (req'[k] # Silent => GoodCall(req[k])')
  <2>1. PICK n, c : n = opened[k] /\ c = req[k]
    OBVIOUS
  <2>2. n \in Pages /\ GoodPage(n) /\ (c # Silent => c \in Calls /\ GoodCall(c))
    BY <1>1, <2>1 DEF TabsGood
  <2>3. GoodPage(n)' /\ (c # Silent => GoodCall(c)')
    BY <2>2, GoodStays
  <2>4. opened'[k] = n /\ req'[k] = c
    BY <2>1
  <2>5. GoodPage(opened[k])'
    BY <2>3, <2>4 DEF GoodPage, Exists, Quoted, Difference, Total
  <2>6. req'[k] # Silent => GoodCall(req[k])'
    BY <2>3, <2>4 DEF GoodCall, Exists, Quoted, Difference, Total
  <2> QED BY <2>5, <2>6
<1> QED BY <1>1, <1>2, GoodTabsAfter DEF TabsGood, BookingTabsKept

LEMMA SamePage ==
    ASSUME NEW m \in Pages, NEW n \in Pages, GoodPage(m),
           n.pnr = m.pnr, n.picked = m.picked, n.choice = m.choice
    PROVE  GoodPage(n)
BY DEF GoodPage

LEMMA SameRequest ==
    ASSUME NEW m \in Calls, NEW n \in Calls, GoodCall(m)', n.pnr = m.pnr, n.do = m.do,
           n.choice = m.choice, n.seats = m.seats, n.new \in Pnrs, Exists(n.new)'
    PROVE  GoodCall(n)'
BY DEF GoodCall

LEMMA RecalledType == ASSUME DeviceTyped, NEW p PROVE Recalled(p) \in Statuses
<1> DEFINE S == {i \in DOMAIN kept : kept[i].pnr = p}
<1>1. S \in SUBSET Nat /\ S \in SUBSET (1 .. Len(kept)) /\ kept \in Seq(Tickets)
  BY DEF DeviceTyped
<1>2. CASE S = {}
  BY <1>2 DEF Recalled, Statuses
<1>3. CASE S # {}
  <2>1. \E n \in S : \A m \in S : n <= m
    BY <1>1, <1>3, LeastNat
  <2>2. Min(S) \in S
    BY <2>1 DEF Min
  <2>3. kept[Min(S)] \in Tickets
    BY <1>1, <2>2, ElementOfSeq
  <2>4. Recalled(p) = kept[Min(S)].status
    BY <1>3 DEF Recalled
  <2> QED BY <2>3, <2>4 DEF Tickets
<1> QED BY <1>2, <1>3

LEMMA QuoteType ==
    ASSUME PurchaseSound, NEW p \in Pnrs
    PROVE  Quote(p) \in [cancellable : BOOLEAN, refund : Int]
<1>1. ServerTyped
  BY TypesSplit DEF PurchaseSound
<1>2. CASE Quote(p) = NoQuote
  BY <1>2 DEF NoQuote
<1>3. CASE Quote(p) # NoQuote
  <2>1. Ticketed(p) /\ mine[p].trip \in Trips /\ Quote(p).cancellable = TRUE
    BY <1>3 DEF Quote, Active, Ticketed, PurchaseSound, RowsSound
  <2>2. Quote(p).refund \in 0 .. mine[p].total /\ mine[p].total \in Nat
    BY <1>1, <2>1, PartOfPrice DEF ServerTyped, Rows
  <2>3. PICK r : r = (mine[p].total * Pct[tier[mine[p].trip]]) \div 100
    OBVIOUS
  <2>4. Quote(p) = [cancellable |-> TRUE, refund |-> r]
    BY <1>3, <2>3 DEF Quote
  <2> QED BY <2>2, <2>4
<1> QED BY <1>2, <1>3

LEMMA ShownPage ==
    ASSUME PurchaseSound, NEW k \in MyTabs
    PROVE  /\ opened[k] \in Pages /\ GoodPage(opened[k]) /\ opened[k].pnr \in Pnrs /\ Exists(opened[k].pnr)
           /\ req[k] # Silent => req[k] \in Calls /\ GoodCall(req[k])
<1>1. TabsGood
  BY TypesSplit, GoodTabs DEF PurchaseSound
<1>2. opened[k] \in Pages /\ GoodPage(opened[k]) /\ (req[k] # Silent => req[k] \in Calls /\ GoodCall(req[k]))
  BY <1>1 DEF TabsGood
<1>3. opened[k].pnr \in Pnrs
  BY <1>2 DEF Pages
<1> QED BY <1>2, <1>3 DEF GoodPage

LEMMA MountsKeep ==
    ASSUME PurchaseSound, RowsKept, NEW k \in MyTabs,
           \/ Leave(k) \/ \E p \in Pnrs : Find(k, p)
           \/ \E at \in {"manage", "ticket", "reschedule"} : Follow(k, at)
    PROVE  BookingTabsKept
<1>1. ServerTyped /\ DeviceTyped /\ Bought \in Pnrs /\ Exists(Bought)
  BY TypesSplit, MyBookingConstants DEF PurchaseSound, RowsSound
<1>2. CASE Leave(k)
  <2>1. GoodPage(Fresh("find", Bought)) /\ Fresh("find", Bought) \in Pages
    BY <1>1, FreshIsGood DEF GoodPage
  <2> QED BY <1>2, <2>1, MountKeeps DEF Leave
<1>3. ASSUME NEW p \in Pnrs, Find(k, p) PROVE BookingTabsKept
  <2>1. Exists(p)
    BY <1>3 DEF Find, Exists
  <2>2. GoodPage(Fresh("manage", p)) /\ Fresh("manage", p) \in Pages
    BY <1>1, <2>1, FreshIsGood DEF GoodPage
  <2> QED BY <1>3, <2>2, MountKeeps DEF Find
<1>4. ASSUME NEW at \in {"manage", "ticket", "reschedule"}, Follow(k, at) PROVE BookingTabsKept
  <2>1. PICK p : p = opened[k].pnr
    OBVIOUS
  <2>2. p \in Pnrs /\ Exists(p)
    BY <2>1, ShownPage
  <2>3. PICK n : n \in (IF at = "ticket" THEN Drawn(p) ELSE {Fresh(at, p)}) /\ Mount(k, n)
    BY <1>4, <2>1 DEF Follow
  <2>4. \A x \in {"find", "manage", "reschedule", "ticket", "503"} :
            GoodPage(Fresh(x, p)) /\ Fresh(x, p) \in Pages
    BY <1>1, <2>2, FreshIsGood DEF GoodPage
  <2>5. CASE n = [Fresh("ticket", p) EXCEPT !.seen.status = Recalled(p)]
    <3>1. PICK m, st : m = Fresh("ticket", p) /\ st = Recalled(p)
      OBVIOUS
    <3>2. m \in Pages /\ GoodPage(m) /\ st \in Statuses /\ n = [m EXCEPT !.seen.status = st]
      BY <1>1, <2>4, <2>5, <3>1, RecalledType
    <3>3. n \in Pages /\ n.pnr = m.pnr /\ n.picked = m.picked /\ n.choice = m.choice
      BY <3>2 DEF Pages
    <3> QED BY <2>3, <3>2, <3>3, SamePage, MountKeeps
  <2>6. CASE \E x \in {"find", "manage", "reschedule", "ticket", "503"} : n = Fresh(x, p)
    BY <2>3, <2>4, <2>6, MountKeeps
  <2> QED BY <2>3, <2>5, <2>6 DEF Drawn
<1> QED BY <1>2, <1>3, <1>4
LEMMA LoadsKeep ==
    ASSUME PurchaseSound, RowsKept, NEW k \in MyTabs,
           LoadManage(k) \/ Ask(k) \/ LoadOptions(k) \/ ServeTicket(k) \/ TicketFails(k)
    PROVE  BookingTabsKept
<1> PICK m : m = opened[k]
  OBVIOUS
<1>1. m \in Pages /\ GoodPage(m) /\ m.pnr \in Pnrs
  BY ShownPage
<1>2. ServerTyped
  BY TypesSplit DEF PurchaseSound
<1>3. SUFFICES \E n \in Pages : /\ opened' = [opened EXCEPT ![k] = n] /\ req' = req
                               /\ n.pnr = m.pnr /\ n.picked = m.picked /\ n.choice = m.choice
  BY <1>1, SamePage, PageChanges
<1>4. CASE LoadManage(k)
  <2>1. PICK b, r, q : b = mine[m.pnr].status /\ r = refund[m.pnr].status /\ q = Quote(m.pnr)
    OBVIOUS
  <2>2. /\ b \in Statuses /\ r \in {"none", "REQUESTED", "SUCCESS", "REJECTED"}
        /\ q \in [cancellable : BOOLEAN, refund : Int]
    BY <1>1, <1>2, <2>1, QuoteType DEF ServerTyped, Rows, RefundRows
  <2> DEFINE n1 == [m EXCEPT !.seen = [status |-> b, refund |-> r]]
             n2 == [n1 EXCEPT !.quote = q]
  <2>3. /\ n1 \in Pages /\ n1.pnr = m.pnr /\ n1.picked = m.picked /\ n1.choice = m.choice
        /\ n2 \in Pages /\ n2.pnr = m.pnr /\ n2.picked = m.picked /\ n2.choice = m.choice
    BY <1>1, <2>2 DEF Pages
  <2>4. opened' \in {[opened EXCEPT ![k] = n1], [opened EXCEPT ![k] = n2]} /\ req' = req
    BY <1>4, <2>1 DEF LoadManage, Loaded
  <2> QED BY <2>3, <2>4
<1>5. CASE Ask(k)
  <2> DEFINE n == [m EXCEPT !.asking = ~ @]
  <2>1. n \in Pages /\ n.pnr = m.pnr /\ n.picked = m.picked /\ n.choice = m.choice
    BY <1>1 DEF Pages
  <2>2. opened' = [opened EXCEPT ![k] = n] /\ req' = req
    BY <1>5 DEF Ask
  <2> QED BY <2>1, <2>2
<1>6. CASE LoadOptions(k)
  <2>1. PICK ts : ts = Eligible(m.pnr)
    OBVIOUS
  <2>2. ts \in SUBSET Trips
    BY <2>1 DEF Eligible
  <2> DEFINE n == [m EXCEPT !.offers = ts]
  <2>3. n \in Pages /\ n.pnr = m.pnr /\ n.picked = m.picked /\ n.choice = m.choice
    BY <1>1, <2>2 DEF Pages
  <2>4. opened' = [opened EXCEPT ![k] = n] /\ req' = req
    BY <1>6, <2>1 DEF LoadOptions
  <2> QED BY <2>3, <2>4
<1>7. CASE ServeTicket(k) \/ TicketFails(k)
  <2> DEFINE n == [m EXCEPT !.asked = TRUE]
  <2>1. n \in Pages /\ n.pnr = m.pnr /\ n.picked = m.picked /\ n.choice = m.choice
    BY <1>1 DEF Pages
  <2>2. opened' = [opened EXCEPT ![k] = n] /\ req' = req
    BY <1>7 DEF ServeTicket, TicketFails
  <2> QED BY <2>1, <2>2
<1> QED BY <1>4, <1>5, <1>6, <1>7

LEMMA ChooseKeeps ==
    ASSUME PurchaseSound, RowsKept, NEW k \in MyTabs, NEW t \in Trips, Choose(k, t)
    PROVE  BookingTabsKept
<1> PICK m : m = opened[k]
  OBVIOUS
<1>1. m \in Pages /\ GoodPage(m) /\ m.pnr \in Pnrs /\ Exists(m.pnr)
  BY ShownPage
<1>2. mine[m.pnr].party \in Nat /\ mine[m.pnr].total \in Nat
  BY <1>1, TypesSplit DEF PurchaseSound, ServerTyped, Rows
<1>3. PICK d, F : d = Difference(m.pnr, t) /\ F = BusSeats \ TakenOn(t)
  OBVIOUS
<1>4. d \in Int /\ F \in SUBSET BusSeats
  BY <1>2, <1>3, TotalType DEF Difference
<1> DEFINE n == [m EXCEPT !.choice = [trip |-> t, difference |-> d], !.free = F, !.picked = {}]
<1>5. n \in Pages /\ n.pnr = m.pnr /\ n.picked = {} /\ n.choice = [trip |-> t, difference |-> d]
  BY <1>1, <1>4 DEF Pages
<1>6. opened' = [opened EXCEPT ![k] = n] /\ req' = req
  BY <1>3 DEF Choose
<1>7. GoodPage(n)
  <2> HIDE DEF n
  <2>1. Cardinality({}) = 0
    BY FS_EmptySet
  <2> QED BY <1>1, <1>2, <1>3, <1>5, <2>1 DEF GoodPage, Quoted
<1> QED BY <1>5, <1>6, <1>7, PageChanges

LEMMA ToggleKeeps ==
    ASSUME PurchaseSound, RowsKept, NEW k \in MyTabs, NEW s \in BusSeats, Pick(k, s)
    PROVE  BookingTabsKept
<1> PICK m : m = opened[k]
  OBVIOUS
<1>1. m \in Pages /\ GoodPage(m) /\ m.pnr \in Pnrs
  BY ShownPage
<1>2. m.picked \in SUBSET BusSeats /\ IsFiniteSet(m.picked) /\ Cardinality(m.picked) \in Nat
  <2>1. m.picked \in SUBSET BusSeats
    BY <1>1 DEF Pages
  <2> QED BY <2>1, FS_Subset, SeatsCount, MyBookingConstants
<1>3. mine[m.pnr].party \in Nat
  BY <1>1, TypesSplit DEF PurchaseSound, ServerTyped, Rows
<1> DEFINE P == IF s \in m.picked THEN m.picked \ {s} ELSE m.picked \cup {s}
           n == [m EXCEPT !.picked = P]
<1>4. P \in SUBSET BusSeats /\ Cardinality(P) <= mine[m.pnr].party
  <2>1. CASE s \in m.picked
    <3>1. P = m.picked \ {s} /\ Cardinality(m.picked) <= mine[m.pnr].party
      BY <1>1, <2>1 DEF GoodPage
    <3> HIDE DEF P
    <3>2. Cardinality(P) = Cardinality(m.picked) - 1
      BY <1>2, <2>1, <3>1, FS_RemoveElement
    <3> QED BY <1>2, <1>3, <3>1, <3>2
  <2>2. CASE s \notin m.picked
    <3>1. P = m.picked \cup {s} /\ Cardinality(m.picked) < mine[m.pnr].party
      BY <2>2 DEF Pick
    <3> HIDE DEF P
    <3>2. Cardinality(P) = Cardinality(m.picked) + 1
      BY <1>2, <2>2, <3>1, FS_AddElement
    <3> QED BY <1>2, <1>3, <3>1, <3>2
  <2> QED BY <2>1, <2>2
<1>5. opened' = [opened EXCEPT ![k] = n] /\ req' = req
  BY DEF Pick
<1> HIDE DEF P
<1>6. n \in Pages /\ n.pnr = m.pnr /\ n.picked = P /\ n.choice = m.choice
  BY <1>1, <1>4 DEF Pages
<1>7. GoodPage(n)
  <2> HIDE DEF n
  <2> QED BY <1>1, <1>4, <1>6 DEF GoodPage
<1> QED BY <1>5, <1>6, <1>7, PageChanges

\* What a tab sends, and what becomes of it.
LEMMA BookingSendKeeps ==
    ASSUME PurchaseSound, RowsKept, NEW k \in MyTabs, NEW do \in {"cancel", "settle", "move"},
           NEW c \in [trip : Trips \cup {Unset}, difference : Int], NEW S \in SUBSET BusSeats,
           Post(k, do, c, S),
           do = "move" => /\ Quoted(opened[k].pnr, c)
                          /\ Cardinality(S) = mine[opened[k].pnr].party
    PROVE  BookingTabsKept
<1>1. PICK p : p = opened[k].pnr
  OBVIOUS
<1>2. p \in Pnrs /\ Exists(p)
  BY <1>1, ShownPage
<1> DEFINE r == [at |-> "sent", do |-> do, pnr |-> p, here |-> TRUE, choice |-> c, seats |-> S,
                 result |-> 0, new |-> p]
<1>3. r \in Calls /\ r.pnr = p /\ r.new = p /\ r.do = do /\ r.choice = c /\ r.seats = S
  BY <1>2 DEF Calls
<1>4. req' = [req EXCEPT ![k] = r] /\ opened' = opened
  BY <1>1 DEF Post
<1> HIDE DEF r
<1>5. GoodCall(r)
  BY <1>1, <1>2, <1>3 DEF GoodCall
<1>6. GoodCall(r)'
  BY <1>3, <1>5, GoodStays
<1> QED BY <1>3, <1>4, <1>6, RequestChanges

LEMMA SendsKeep ==
    ASSUME PurchaseSound, RowsKept, NEW k \in MyTabs,
           Confirm(k) \/ Settle(k) \/ ConfirmMove(k)
    PROVE  BookingTabsKept
<1>1. NoChoice \in [trip : Trips \cup {Unset}, difference : Int]
  BY DEF NoChoice
<1>2. CASE Confirm(k)
  BY <1>1, <1>2, BookingSendKeeps DEF Confirm
<1>3. CASE Settle(k)
  BY <1>1, <1>3, BookingSendKeeps DEF Settle
<1>4. CASE ConfirmMove(k)
  <2>1. PICK m : m = opened[k]
    OBVIOUS
  <2>2. m \in Pages /\ GoodPage(m)
    BY <2>1, ShownPage
  <2>3. PICK c, S : c = m.choice /\ S = m.picked
    OBVIOUS
  <2>4. c \in [trip : Trips \cup {Unset}, difference : Int] /\ S \in SUBSET BusSeats
    BY <2>2, <2>3 DEF Pages
  <2>5. /\ Post(k, "move", c, S) /\ Quoted(opened[k].pnr, c)
        /\ Cardinality(S) = mine[opened[k].pnr].party
    BY <1>4, <2>1, <2>2, <2>3 DEF ConfirmMove, GoodPage
  <2> QED BY <2>4, <2>5, BookingSendKeeps
<1> QED BY <1>2, <1>3, <1>4

LEMMA ServedKeeps ==
    ASSUME PurchaseSound, RowsKept, NEW k \in MyTabs,
           Cancel(k) \/ SettleRefund(k) \/ Move(k)
    PROVE  BookingTabsKept
<1>1. req[k] # Silent
  BY DEF Cancel, SettleRefund, Move, Posted
<1> PICK m : m = req[k]
  OBVIOUS
<1>2. m \in Calls /\ GoodCall(m) /\ m.pnr \in Pnrs /\ m.new \in Pnrs
  <2>1. m \in Calls /\ GoodCall(m)
    BY <1>1, ShownPage
  <2> QED BY <2>1 DEF Calls
<1>3. GoodCall(m)' /\ Exists(m.new)'
  <2>1. GoodCall(m)'
    BY <1>2, GoodStays
  <2> QED BY <2>1 DEF GoodCall
<1>4. SUFFICES ASSUME NEW c \in Calls, req' = [req EXCEPT ![k] = c], opened' = opened,
                      c.pnr = m.pnr, c.do = m.do, c.choice = m.choice, c.seats = m.seats,
                      c.new \in Pnrs, Exists(c.new)'
               PROVE  BookingTabsKept
  <2>1. CASE Cancel(k)
    <3>1. PICK q : q = Quote(m.pnr)
      OBVIOUS
    <3>2. q.refund \in Int
      BY <1>2, <3>1, QuoteType
    <3> DEFINE c1 == [m EXCEPT !.at = "answered", !.result = q.refund]
               c2 == [m EXCEPT !.at = "refused"]
    <3>3. /\ c1 \in Calls /\ c1.pnr = m.pnr /\ c1.do = m.do /\ c1.choice = m.choice
          /\ c1.seats = m.seats /\ c1.new = m.new
          /\ c2 \in Calls /\ c2.pnr = m.pnr /\ c2.do = m.do /\ c2.choice = m.choice
          /\ c2.seats = m.seats /\ c2.new = m.new
      BY <1>2, <3>2 DEF Calls
    <3>4. /\ req' \in {[req EXCEPT ![k] = c1], [req EXCEPT ![k] = c2]} /\ opened' = opened
      BY <2>1, <3>1 DEF Cancel, Decline
    <3> HIDE DEF c1, c2
    <3> QED BY <1>2, <1>3, <1>4, <3>3, <3>4
  <2>2. CASE SettleRefund(k)
    <3> DEFINE c1 == [m EXCEPT !.at = "answered"]
    <3>1. /\ c1 \in Calls /\ c1.pnr = m.pnr /\ c1.do = m.do /\ c1.choice = m.choice
          /\ c1.seats = m.seats /\ c1.new = m.new
      BY <1>2 DEF Calls
    <3>2. req' = [req EXCEPT ![k] = c1] /\ opened' = opened
      BY <2>2 DEF SettleRefund
    <3> HIDE DEF c1
    <3> QED BY <1>2, <1>3, <1>4, <3>1, <3>2
  <2>3. CASE Move(k)
    <3>1. CASE Decline(k)
      <4> DEFINE c1 == [m EXCEPT !.at = "refused"]
      <4>1. /\ c1 \in Calls /\ c1.pnr = m.pnr /\ c1.do = m.do /\ c1.choice = m.choice
            /\ c1.seats = m.seats /\ c1.new = m.new
        BY <1>2 DEF Calls
      <4>2. req' = [req EXCEPT ![k] = c1] /\ opened' = opened
        BY <2>3, <3>1 DEF Move, Decline
      <4> HIDE DEF c1
      <4> QED BY <1>2, <1>3, <1>4, <4>1, <4>2
    <3>2. ASSUME NEW new \in Pnrs, Moved(m.pnr, new, m.choice.trip, m.seats),
                 req' = [req EXCEPT ![k].at = "answered", ![k].new = new]
          PROVE  BookingTabsKept
      <4> DEFINE c1 == [m EXCEPT !.at = "answered", !.new = new]
      <4>1. /\ c1 \in Calls /\ c1.pnr = m.pnr /\ c1.do = m.do /\ c1.choice = m.choice
            /\ c1.seats = m.seats /\ c1.new = new
        BY <1>2 DEF Calls
      <4>2. req' = [req EXCEPT ![k] = c1] /\ opened' = opened
        BY <2>3, <3>2 DEF Move
      <4>3. mine'[new].status \in {"PAYMENT_PENDING", "TICKETED"}
        BY <1>2, <3>2, TypesSplit DEF Moved, PurchaseSound, ServerTyped
      <4>4. Exists(new)'
        BY <4>3 DEF Exists
      <4> HIDE DEF c1
      <4> QED BY <1>4, <4>1, <4>2, <4>4
    <3> QED BY <2>3, <3>1, <3>2 DEF Move
  <2> QED BY <2>1, <2>2, <2>3
<1>5. GoodCall(c)'
  BY <1>2, <1>3, <1>4, SameRequest
<1> QED BY <1>4, <1>5, RequestChanges
LEMMA AnswersKeep ==
    ASSUME PurchaseSound, RowsKept, NEW k \in MyTabs,
           Answered(k) \/ NoAnswer(k)
    PROVE  BookingTabsKept
<1>0. PICK m, c : m = opened[k] /\ c = req[k]
  OBVIOUS
<1>1. /\ m \in Pages /\ GoodPage(m) /\ c \in Calls /\ c.new \in Pnrs /\ Exists(c.new) /\ c.result \in Int
  <2>1. c \in Calls /\ GoodCall(c) /\ m \in Pages /\ GoodPage(m)
    BY <1>0, ShownPage DEF Answered, NoAnswer
  <2> QED BY <2>1 DEF Calls, GoodCall
<1>2. ServerTyped /\ BookingTabsTyped /\ PagesSound
  BY TypesSplit DEF PurchaseSound
<1>3. req' = [req EXCEPT ![k] = Silent]
  BY DEF Answered, NoAnswer
<1>4. CASE opened' = opened
  BY <1>3, <1>4, RequestChanges
<1>5. ASSUME NEW n \in Pages, GoodPage(n), opened' = [opened EXCEPT ![k] = n] PROVE BookingTabsKept
  <2>1. GoodPage(n)'
    BY <1>5, GoodStays
  <2> QED BY <1>2, <1>3, <1>5, <2>1, TabChanges
<1>6. CASE opened' = [opened EXCEPT ![k] = Fresh("manage", req[k].new)]
  <2>1. GoodPage(Fresh("manage", c.new)) /\ Fresh("manage", c.new) \in Pages
    BY <1>1, <1>2, FreshIsGood DEF GoodPage
  <2> QED BY <1>0, <1>5, <1>6, <2>1
<1>7. CASE opened' = [opened EXCEPT ![k] = Cancelled(k)]
  <2> DEFINE n == [m EXCEPT !.told = c.result, !.asking = FALSE]
  <2>1. n \in Pages /\ n.pnr = m.pnr /\ n.picked = m.picked /\ n.choice = m.choice
    BY <1>1 DEF Pages
  <2>2. opened' = [opened EXCEPT ![k] = n]
    BY <1>0, <1>7 DEF Cancelled
  <2> HIDE DEF n
  <2>3. GoodPage(n)
    BY <1>1, <2>1, SamePage
  <2> QED BY <1>5, <2>1, <2>2, <2>3
<1> QED BY <1>4, <1>6, <1>7 DEF Answered, NoAnswer

LEMMA ArriveKeeps ==
    ASSUME PurchaseSound, RowsKept, NEW a \in answers, ArriveTicket(a) PROVE BookingTabsKept
<1>1. a \in Letters
  BY TypesSplit DEF PurchaseSound, DeviceTyped
<1>2. CASE a.to = Unset
  BY <1>2, TabsStay DEF ArriveTicket
<1>3. CASE a.to # Unset
  <2>1. PICK k, st, m : k = a.to /\ st = a.status /\ m = opened[k]
    OBVIOUS
  <2>2. k \in MyTabs /\ st \in Statuses
    BY <1>1, <1>3, <2>1 DEF Letters
  <2>3. m \in Pages /\ GoodPage(m)
    BY <2>1, <2>2, ShownPage
  <2> DEFINE n == [m EXCEPT !.seen.status = st]
  <2>4. n \in Pages /\ n.pnr = m.pnr /\ n.picked = m.picked /\ n.choice = m.choice
    BY <2>2, <2>3 DEF Pages
  <2>5. opened' = [opened EXCEPT ![k] = n] /\ req' = req
    BY <1>3, <2>1 DEF ArriveTicket
  <2> HIDE DEF n
  <2>6. GoodPage(n)
    BY <2>3, <2>4, SamePage
  <2> QED BY <2>2, <2>4, <2>5, <2>6, PageChanges
<1> QED BY <1>2, <1>3

LEMMA TabsStep ==
    ASSUME PurchaseSound, RowsKept, [MyBookingNext]_myBookingVars PROVE BookingTabsKept
<1>1. ASSUME NEW k \in MyTabs, Warm(k) PROVE BookingTabsKept
  BY <1>1, TabsStay DEF Warm
<1>2. ASSUME NEW p \in Pnrs, Lapse(p) PROVE BookingTabsKept
  BY <1>2, TabsStay DEF Lapse
<1>3. ASSUME NEW t \in Trips, TimePasses(t) \/ \E s \in BusSeats : OthersBuy(t, s) PROVE BookingTabsKept
  BY <1>3, TabsStay DEF TimePasses, OthersBuy
<1>4. CASE UNCHANGED myBookingVars
  BY <1>4, TabsStay DEF myBookingVars
<1> QED BY <1>1, <1>2, <1>3, <1>4, MountsKeep, LoadsKeep, ChooseKeeps, ToggleKeeps, SendsKeep,
           ServedKeeps, AnswersKeep, ArriveKeeps
       DEF MyBookingNext

-----------------------------------------------------------------------------
(* The device                                                               *)

LEMMA RememberKeeps ==
    ASSUME DeviceTyped, NEW p \in Pnrs, NEW st \in Statuses, Remember(p, st)
    PROVE  kept' \in Seq(Tickets) /\ Len(kept') <= MaxKept
<1> DEFINE others == Without(kept, Copies(p))
           now == <<[pnr |-> p, status |-> st]>> \o others
           n == Min({Len(now), MaxKept})
<1>1. MaxKept \in Nat \ {0}
  BY MyBookingConstants
<1>2. others \in Seq(Tickets)
  BY WithoutLeaves DEF DeviceTyped
<1>3. [pnr |-> p, status |-> st] \in Tickets
  BY DEF Tickets
<1> HIDE DEF others
<1>4. now \in Seq(Tickets)
  BY <1>2, <1>3
<1>5. kept' = SubSeq(now, 1, n)
  BY DEF Remember, others
<1> HIDE DEF now
<1>6. n = IF Len(now) <= MaxKept THEN Len(now) ELSE MaxKept
  BY <1>1, <1>4 DEF Min
<1> HIDE DEF n
<1>7. n \in Nat /\ n <= Len(now) /\ n <= MaxKept /\ Len(now) \in Nat
  BY <1>1, <1>4, <1>6
<1>8. \A i \in 1 .. n : now[i] \in Tickets
  BY <1>4, <1>7, ElementOfSeq
<1>9. SubSeq(now, 1, n) \in Seq(Tickets) /\ Len(SubSeq(now, 1, n)) = IF 1 <= n THEN n - 1 + 1 ELSE 0
  BY <1>7, <1>8, SubSeqProperties
<1> QED BY <1>1, <1>5, <1>7, <1>9

LEMMA DeviceStep ==
    ASSUME PurchaseSound, [MyBookingNext]_myBookingVars PROVE DeviceTyped'
<1>1. DeviceTyped /\ ServerTyped
  BY TypesSplit DEF PurchaseSound
<1>2. ASSUME answers' \subseteq Letters, kept' = kept, shell' \in BOOLEAN PROVE DeviceTyped'
  BY <1>1, <1>2 DEF DeviceTyped, Letters, Tickets
<1>3. ASSUME NEW k \in MyTabs,
             answers' = {IF a.to = k THEN [a EXCEPT !.to = Unset] ELSE a : a \in answers},
             kept' = kept, shell' = shell
      PROVE  DeviceTyped'
  <2>1. \A a \in Letters : [a EXCEPT !.to = Unset] \in Letters
    BY DEF Letters
  <2>2. answers' \subseteq Letters
    BY <1>1, <1>3, <2>1 DEF DeviceTyped
  <2> QED BY <1>1, <1>2, <1>3, <2>2 DEF DeviceTyped
<1>4. CASE UNCHANGED <<answers, kept, shell>>
  BY <1>1, <1>2, <1>4 DEF DeviceTyped
<1>5. ASSUME NEW k \in MyTabs,
             \/ Leave(k) \/ \E p \in Pnrs : Find(k, p)
             \/ \E at \in {"manage", "ticket", "reschedule"} : Follow(k, at)
      PROVE  DeviceTyped'
  BY <1>3, <1>5 DEF Leave, Find, Follow, Mount, device
<1>6. ASSUME NEW k \in MyTabs, Answered(k) PROVE DeviceTyped'
  BY <1>3, <1>4, <1>6 DEF Answered, device
<1>7. ASSUME NEW k \in MyTabs, ServeTicket(k) PROVE DeviceTyped'
  <2>1. [to |-> k, pnr |-> opened[k].pnr, status |-> mine[opened[k].pnr].status] \in Letters
    <3>1. opened[k].pnr \in Pnrs
      BY ShownPage
    <3>2. mine[opened[k].pnr].status \in Statuses
      BY <1>1, <3>1 DEF ServerTyped, Rows
    <3> QED BY <3>1, <3>2 DEF Letters
  <2>2. answers' \subseteq Letters /\ kept' = kept /\ shell' = shell
    BY <1>1, <1>7, <2>1 DEF ServeTicket, DeviceTyped, device
  <2> QED BY <1>1, <1>2, <2>2 DEF DeviceTyped
<1>8. ASSUME NEW a \in answers, ArriveTicket(a) PROVE DeviceTyped'
  <2>1. a.pnr \in Pnrs /\ a.status \in Statuses
    BY <1>1 DEF DeviceTyped, Letters
  <2>2. kept' \in Seq(Tickets) /\ Len(kept') <= MaxKept
    BY <1>1, <1>8, <2>1, RememberKeeps DEF ArriveTicket
  <2> QED BY <1>1, <1>8, <2>2 DEF ArriveTicket, DeviceTyped, Letters, Tickets
<1>9. ASSUME NEW k \in MyTabs, TicketFails(k) PROVE DeviceTyped'
  <2>1. answers' \subseteq Letters /\ kept' = kept /\ shell' = shell
    BY <1>1, <1>9 DEF TicketFails, DeviceTyped, device
  <2> QED BY <1>1, <1>2, <2>1 DEF DeviceTyped
<1>10. ASSUME NEW k \in MyTabs, Warm(k) PROVE DeviceTyped'
  BY <1>1, <1>2, <1>10 DEF Warm, DeviceTyped
<1>11. ASSUME NEW k \in MyTabs,
              LoadManage(k) \/ Ask(k) \/ Confirm(k) \/ Cancel(k) \/ Settle(k) \/ SettleRefund(k)
                \/ LoadOptions(k) \/ ConfirmMove(k) \/ Move(k) \/ NoAnswer(k)
       PROVE  UNCHANGED <<answers, kept, shell>>
  BY <1>11 DEF LoadManage, Ask, Confirm, Cancel, Settle, SettleRefund, LoadOptions, ConfirmMove,
               Move, NoAnswer, Post, device
<1>12. ASSUME NEW k \in MyTabs, (\E t \in Trips : Choose(k, t)) \/ \E s \in BusSeats : Pick(k, s)
       PROVE  UNCHANGED <<answers, kept, shell>>
  BY <1>12 DEF Choose, Pick, device
<1>13. CASE \/ \E p \in Pnrs : Lapse(p)
            \/ \E t \in Trips, s \in BusSeats : OthersBuy(t, s)
            \/ \E t \in Trips : TimePasses(t)
            \/ UNCHANGED myBookingVars
  BY <1>4, <1>13 DEF Lapse, OthersBuy, TimePasses, myBookingVars, device
<1> QED BY <1>4, <1>5, <1>6, <1>7, <1>8, <1>9, <1>10, <1>11, <1>12, <1>13 DEF MyBookingNext
-----------------------------------------------------------------------------
LEMMA PurchaseSoundKept ==
    ASSUME PurchaseSound, [MyBookingNext]_myBookingVars PROVE PurchaseSound' /\ RowsKept
<1>1. ServerTyped' /\ RowsSound' /\ MoneySound' /\ RowsKept
  BY ServerStep DEF ServerKept
<1>2. BookingTabsTyped' /\ PagesSound'
  BY <1>1, TabsStep DEF BookingTabsKept
<1>3. DeviceTyped'
  BY DeviceStep
<1>4. MyBookingTypeOK' <=> ServerTyped' /\ BookingTabsTyped' /\ DeviceTyped'
  BY TypesSplit, PTL
<1> QED BY <1>1, <1>2, <1>3, <1>4 DEF PurchaseSound

LEMMA PurchaseSoundAlways == MyBookingSpec => []PurchaseSound
<1>1. MyBookingInit => PurchaseSound
  BY InitSound
<1>2. PurchaseSound /\ [MyBookingNext]_myBookingVars => PurchaseSound'
  BY PurchaseSoundKept
<1> QED BY <1>1, <1>2, PTL DEF MyBookingSpec

\* Rows, pages, requests and the tickets kept on the device keep their types
\* (manage/[pnr]/page.tsx, lib/offlineTickets.ts).
THEOREM MyBookingTypes == MyBookingSpec => []MyBookingTypeOK
<1>1. PurchaseSound => MyBookingTypeOK
  BY DEF PurchaseSound
<1> QED BY <1>1, PurchaseSoundAlways, PTL

\* From however many tabs, and however often an answer was lost, a purchase ends in one
\* ticket at most, and no more goes back than was paid (postbooking.go).
THEOREM OneTicketPerPurchaseAlways == MyBookingSpec => []OneTicketPerPurchase
<1>1. ASSUME PurchaseSound PROVE OneTicketPerPurchase
  <2> DEFINE T == {p \in Pnrs : mine[p].status = "TICKETED"}
  <2>1. ServerTyped /\ RowsSound /\ MoneySound
    BY <1>1, TypesSplit DEF PurchaseSound
  <2>2. Cardinality(T) <= 1
    <3>1. T = {} \/ \E p : T = {p}
      BY <2>1 DEF RowsSound, Ticketed
    <3> HIDE DEF T
    <3>2. Cardinality({}) = 0 /\ \A p : Cardinality({p}) = 1
      BY FS_EmptySet, FS_Singleton
    <3> QED BY <3>1, <3>2
  <2>3. owed \in Int /\ Owing \in Nat /\ Owing <= owed /\ owed + Returned <= Price
    BY <2>1, SumsType DEF ServerTyped, MoneySound
  <2>4. owed >= 0
    BY <2>3
  <2> QED BY <2>2, <2>3, <2>4 DEF OneTicketPerPurchase, Returned, Price
<1>2. PurchaseSound => OneTicketPerPurchase
  BY <1>1
<1> QED BY <1>2, PurchaseSoundAlways, PTL

\* What a served move changes.
Charged ==
    \A k \in MyTabs :
        (Posted(k, "move") /\ req'[k] # Silent /\ req'[k].at = "answered")
        => mine'[req'[k].new].total - mine[req[k].pnr].total = req[k].choice.difference

LEMMA RequestsElsewhere ==
    ASSUME PurchaseSound, NEW k \in MyTabs, Posted(k, "move"), [MyBookingNext]_myBookingVars,
           req'[k] # Silent, req'[k].at = "answered"
    PROVE  Move(k)
<1>1. req \in [MyTabs -> Calls \cup {Silent}]
  BY TypesSplit DEF PurchaseSound, BookingTabsTyped
<1>2. req[k] \in Calls /\ req[k].at = "sent" /\ req[k].do = "move"
  BY <1>1 DEF Posted
<1>3. req'[k] # req[k] /\ req'[k].at # "refused" /\ req'[k].at # "sent"
  BY <1>2
<1>4. ASSUME NEW j \in MyTabs, req' = [req EXCEPT ![j] = Silent] PROVE FALSE
  BY <1>1, <1>3, <1>4
<1>5. ASSUME NEW j \in MyTabs, NEW at \in {"sent", "refused"}, NEW c, req' = [req EXCEPT ![j] = c],
             c.at = at
      PROVE  FALSE
  BY <1>1, <1>3, <1>5
<1>6. ASSUME NEW j \in MyTabs, NEW n, Mount(j, n) PROVE FALSE
  <2>1. req' = req \/ req' = [req EXCEPT ![j].here = FALSE]
    BY <1>6 DEF Mount
  <2>2. CASE j = k /\ req' = [req EXCEPT ![j].here = FALSE]
    <3>1. req'[k].at = req[k].at
      BY <1>1, <1>2, <2>2 DEF Calls
    <3> QED BY <1>2, <1>3, <3>1
  <2> QED BY <1>1, <1>3, <2>1, <2>2
<1>7. ASSUME NEW j \in MyTabs, NEW do, NEW c, NEW S, Post(j, do, c, S) PROVE FALSE
  BY <1>1, <1>2, <1>3, <1>7 DEF Post
<1>8. ASSUME NEW j \in MyTabs,
             Leave(j) \/ (\E p \in Pnrs : Find(j, p))
               \/ \E at \in {"manage", "ticket", "reschedule"} : Follow(j, at)
      PROVE  FALSE
  BY <1>6, <1>8 DEF Leave, Find, Follow
<1>9. ASSUME NEW j \in MyTabs, Confirm(j) \/ Settle(j) \/ ConfirmMove(j) PROVE FALSE
  BY <1>7, <1>9 DEF Confirm, Settle, ConfirmMove
<1>10. ASSUME NEW j \in MyTabs, Answered(j) \/ NoAnswer(j) PROVE FALSE
  BY <1>4, <1>10 DEF Answered, NoAnswer
<1>11. ASSUME NEW j \in MyTabs, Cancel(j) PROVE FALSE
  <2>1. j # k
    BY <1>2, <1>11 DEF Cancel, Posted
  <2>2. \E c : req' = [req EXCEPT ![j] = c]
    BY <1>11 DEF Cancel, Decline
  <2> QED BY <1>1, <1>3, <2>1, <2>2
<1>12. ASSUME NEW j \in MyTabs, SettleRefund(j) PROVE FALSE
  <2>1. j # k
    BY <1>2, <1>12 DEF SettleRefund, Posted
  <2> QED BY <1>1, <1>3, <1>12, <2>1 DEF SettleRefund
<1>13. ASSUME NEW j \in MyTabs \ {k}, Move(j) PROVE FALSE
  <2>1. \E c : req' = [req EXCEPT ![j] = c]
    BY <1>13 DEF Move, Decline
  <2> QED BY <1>1, <1>3, <1>13, <2>1
<1>14. ASSUME req' = req PROVE FALSE
  BY <1>3, <1>14
<1>15. ASSUME NEW j \in MyTabs,
              LoadManage(j) \/ Ask(j) \/ LoadOptions(j) \/ ServeTicket(j) \/ TicketFails(j) \/ Warm(j)
                \/ (\E t \in Trips : Choose(j, t)) \/ (\E s \in BusSeats : Pick(j, s))
       PROVE  FALSE
  BY <1>14, <1>15 DEF LoadManage, Ask, LoadOptions, ServeTicket, TicketFails, Warm, Choose, Pick
<1>16. CASE \/ \E a \in answers : ArriveTicket(a)
            \/ \E p \in Pnrs : Lapse(p)
            \/ \E t \in Trips, s \in BusSeats : OthersBuy(t, s)
            \/ \E t \in Trips : TimePasses(t)
            \/ UNCHANGED myBookingVars
  BY <1>14, <1>16 DEF ArriveTicket, Lapse, OthersBuy, TimePasses, myBookingVars
<1> QED BY <1>8, <1>9, <1>10, <1>11, <1>12, <1>13, <1>15, <1>16 DEF MyBookingNext

LEMMA MovesAsQuoted == ASSUME PurchaseSound, [MyBookingNext]_myBookingVars PROVE Charged
<1> SUFFICES ASSUME NEW k \in MyTabs, Posted(k, "move"), req'[k] # Silent, req'[k].at = "answered"
             PROVE  mine'[req'[k].new].total - mine[req[k].pnr].total = req[k].choice.difference
  BY DEF Charged
<1>1. Move(k)
  BY RequestsElsewhere
<1>2. ServerTyped /\ BookingTabsTyped
  BY TypesSplit DEF PurchaseSound
<1>3. PICK m : m = req[k]
  OBVIOUS
<1>4. /\ m \in Calls /\ GoodCall(m) /\ m.do = "move" /\ m.pnr \in Pnrs /\ m.at = "sent"
  <2>1. m \in Calls /\ GoodCall(m)
    BY <1>3, ShownPage DEF Posted
  <2> QED BY <1>3, <2>1 DEF Posted, Calls
<1> DEFINE p == m.pnr
           total == Total(m.choice.trip, Cardinality(m.seats))
<1>5. total - mine[p].total = m.choice.difference
  BY <1>4 DEF GoodCall, Quoted, Difference
<1>6. PICK new \in Pnrs : /\ Moved(p, new, m.choice.trip, m.seats)
                          /\ req' = [req EXCEPT ![k].at = "answered", ![k].new = new]
  <2>1. ~ Decline(k)
    BY <1>2, <1>3, <1>4 DEF Decline, BookingTabsTyped, Calls
  <2> QED BY <1>1, <1>3, <2>1 DEF Move
<1>7. req'[k].new = new
  BY <1>2, <1>3, <1>4, <1>6 DEF BookingTabsTyped, Calls
<1>8. mine'[new].total = total
  BY <1>2, <1>4, <1>6 DEF Moved, ServerTyped
<1> QED BY <1>3, <1>5, <1>7, <1>8

\* What a move costs is what the page showed, whatever happened to the booking, the fare
\* of the other trips or the page meanwhile (reschedule/page.tsx:21-22).
THEOREM MovesCostTheQuote == MyBookingSpec => MoveCostsTheQuote
<1>1. PurchaseSound /\ [MyBookingNext]_myBookingVars => [Charged]_myBookingVars
  BY MovesAsQuoted
<1> QED BY <1>1, PurchaseSoundAlways, PTL DEF MyBookingSpec, MoveCostsTheQuote, Charged

-----------------------------------------------------------------------------
(* Journey                                                                  *)

\* However many tabs, holds, bookings and trips there are, what is stored and shown on the
\* way from the seat map to the ticket at hand keeps its type: JourneyTypeOK.
THEOREM JourneyTypes == JourneySpec => []JourneyTypeOK
BY CheckoutTypes, MyBookingTypes, PTL DEF JourneySpec, JourneyTypeOK
=============================================================================
