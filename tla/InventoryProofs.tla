--------------------------- MODULE InventoryProofs ---------------------------
(***************************************************************************)
(* The theorems about Inventory, for every trip, every set of holds and    *)
(* counters and every number of segments.                                  *)
(***************************************************************************)
EXTENDS Inventory, TLAPS

-----------------------------------------------------------------------------
(* Types                                                                    *)

\* The bit operations keep an array of masks an array of masks.
LEMMA SetType ==
    ASSUME NEW f \in [Seats -> SUBSET Segments], NEW S, NEW m \in SUBSET Segments
    PROVE  Set(f, S, m) \in [Seats -> SUBSET Segments]
BY DEF Set

LEMMA ClearType ==
    ASSUME NEW f \in [Seats -> SUBSET Segments], NEW S, NEW m
    PROVE  Clear(f, S, m) \in [Seats -> SUBSET Segments]
BY DEF Clear

\* A journey is a non-empty set of segments of the trip.
LEMMA JourneyType == \A m \in Journeys : m \in SUBSET Segments /\ m # {}
<1> USE InventoryConstants
<1> SUFFICES ASSUME NEW b \in Segments, NEW d \in 1 .. NumSegments
             PROVE  SegmentMask(b, d) \subseteq Segments
    BY DEF Journeys
<1> QED BY DEF SegmentMask, Segments

LEMMA NewHoldType ==
    ASSUME TypeOK, NEW h \in Holds, NEW st \in Statuses, NEW S \in SUBSET Seats,
           NEW m \in Journeys, NewHold(h, st, S, m)
    PROVE  /\ status' \in [Holds -> Statuses]
           /\ items' \in [Holds -> SUBSET Seats]
           /\ mask' \in [Holds -> SUBSET Segments]
BY JourneyType DEF NewHold, TypeOK

LEMMA ReleaseBitsType ==
    ASSUME TypeOK, NEW H \in SUBSET Holds, NEW st \in Statuses, ReleaseBits(H, st)
    PROVE  TypeOK'
BY DEF ReleaseBits, LogReleased, TypeOK

\* TypeOK is preserved by every transaction.
LEMMA TypeStep == TypeOK /\ [Next]_vars => TypeOK'
<1> SUFFICES ASSUME TypeOK, [Next]_vars PROVE TypeOK'
    OBVIOUS
<1>1. ASSUME NEW h \in Holds, NEW S \in SUBSET Seats, NEW m \in Journeys,
             AcquireHold(h, S, m)
      PROVE  TypeOK'
  <2>1. m \in SUBSET Segments  BY JourneyType
  <2>2. hold' \in [Seats -> SUBSET Segments] /\ logHold' \in [Seats -> SUBSET Segments]
        BY <1>1, <2>1, SetType DEF AcquireHold, LogHeld, TypeOK
  <2>3. "HELD" \in Statuses  BY DEF Statuses
  <2>4. NewHold(h, "HELD", S, m)  BY <1>1 DEF AcquireHold
  <2> QED BY <1>1, <2>2, <2>3, <2>4, NewHoldType DEF AcquireHold, LogHeld, TypeOK
<1>2. ASSUME NEW h \in Holds, ConfirmHold(h) PROVE TypeOK'
  <2>1. mask[h] \in SUBSET Segments  BY DEF TypeOK
  <2>2. /\ hold' \in [Seats -> SUBSET Segments] /\ logHold' \in [Seats -> SUBSET Segments]
        /\ sold' \in [Seats -> SUBSET Segments] /\ logSold' \in [Seats -> SUBSET Segments]
        BY <1>2, <2>1, SetType, ClearType DEF ConfirmHold, LogBooked, TypeOK
  <2> QED BY <1>2, <2>2 DEF ConfirmHold, LogBooked, TypeOK, Statuses
<1>3. ASSUME NEW h \in Holds, ReleaseHold(h) PROVE TypeOK'
  BY <1>3, ReleaseBitsType DEF ReleaseHold, Statuses
<1>4. ASSUME NEW H \in SUBSET Holds, SweepExpired(H) PROVE TypeOK'
  BY <1>4, ReleaseBitsType DEF SweepExpired, Statuses
<1>5. ASSUME NEW h \in Holds, ReleaseConfirmed(h) PROVE TypeOK'
  <2>1. sold' \in [Seats -> SUBSET Segments]
        BY <1>5, ClearType DEF ReleaseConfirmed, TypeOK
  <2>2. logHold' \in [Seats -> SUBSET Segments]
        BY <1>5 DEF ReleaseConfirmed, LogReleased, TypeOK
  <2> QED BY <1>5, <2>1, <2>2 DEF ReleaseConfirmed, LogReleased, TypeOK, Statuses
<1>6. ASSUME NEW h \in Holds, DeadlinePasses(h) PROVE TypeOK'
  BY <1>6 DEF DeadlinePasses, TypeOK, seatVars, holdVars, logVars
<1>7. ASSUME NEW c \in Counters, NEW S \in SUBSET Seats, NEW m \in Journeys,
             AllocateQuota(c, S, m)
      PROVE  TypeOK'
  <2>1. blocked' \in [Seats -> SUBSET Segments]
        BY <1>7, SetType, JourneyType DEF AllocateQuota, TypeOK
  <2>2. QuotaOf(c, S, m) \subseteq QuotaRows
        BY DEF QuotaOf, QuotaRow, QuotaRows
  <2> QED BY <1>7, <2>1, <2>2 DEF AllocateQuota, TypeOK, holdVars, logVars
<1>8. ASSUME NEW c \in Counters, NEW S \in SUBSET Seats, NEW m \in Journeys,
             ReleaseQuota(c, S, m)
      PROVE  TypeOK'
  <2>1. blocked' \in [Seats -> SUBSET Segments]
        BY <1>8, ClearType DEF ReleaseQuota, TypeOK
  <2> QED BY <1>8, <2>1 DEF ReleaseQuota, TypeOK, holdVars, logVars
<1>9. ASSUME NEW c \in Counters, NEW h \in Holds, NEW S \in SUBSET Seats,
             NEW m \in Journeys, SellQuota(c, h, S, m)
      PROVE  TypeOK'
  <2>1. m \in SUBSET Segments  BY JourneyType
  <2>2. /\ sold' \in [Seats -> SUBSET Segments] /\ blocked' \in [Seats -> SUBSET Segments]
        /\ logHold' \in [Seats -> SUBSET Segments] /\ logSold' \in [Seats -> SUBSET Segments]
        BY <1>9, <2>1, SetType, ClearType DEF SellQuota, LogBooked, TypeOK
  <2>3. "CONFIRMED" \in Statuses  BY DEF Statuses
  <2>4. NewHold(h, "CONFIRMED", S, m)  BY <1>9 DEF SellQuota
  <2> QED BY <1>9, <2>2, <2>3, <2>4, NewHoldType DEF SellQuota, TypeOK
<1>10. CASE UNCHANGED vars
  BY <1>10 DEF vars, seatVars, holdVars, logVars, TypeOK
<1> QED BY <1>1, <1>2, <1>3, <1>4, <1>5, <1>6, <1>7, <1>8, <1>9, <1>10 DEF Next

LEMMA TypeInit == Init => TypeOK
BY InventoryConstants DEF Init, TypeOK, Statuses

\* Every reachable state of the seat tables is well typed: no operation of
\* store.go or quota.go writes a mask outside the trip's segments, a row of an
\* unknown seat or a status the CHECK constraints do not list.
THEOREM InventoryTypeCorrect == Spec => []TypeOK
<1>1. Init => TypeOK  BY TypeInit
<1>2. TypeOK /\ [Next]_vars => TypeOK'  BY TypeStep
<1> QED BY <1>1, <1>2, PTL DEF Spec

-----------------------------------------------------------------------------
(* Ownership                                                                *)

\* MasksMatchOwners cell by cell: the form in which the proof uses it.
HeldBit(s, k)  == \E h \in Holds : status[h] = "HELD" /\ Owns(h, s, k)
SoldBit(s, k)  == \E h \in Holds : status[h] = "CONFIRMED" /\ Owns(h, s, k)
QuotaBit(s, k) == \E q \in allocated : q.seat = s /\ k \in q.mask

Accounted ==
    \A s \in Seats, k \in Segments :
        /\ k \in hold[s] <=> HeldBit(s, k)
        /\ k \in sold[s] <=> SoldBit(s, k)
        /\ k \in blocked[s] <=> (s \in Crew \/ QuotaBit(s, k))

\* The inductive invariant.  NoDoubleSale alone is not inductive: the guards
\* look at the masks, so a step can be shown to respect the other owners only
\* while the masks account for them; and the masks stay right when bits are
\* cleared only because no second owner shares the bits.
IInv == TypeOK /\ Accounted /\ NoDoubleSale

LEMMA AccountedMatches == TypeOK /\ Accounted => MasksMatchOwners
<1> SUFFICES ASSUME TypeOK, Accounted, NEW s \in Seats
             PROVE  /\ hold[s] = Bits(HeldHolds, s)
                    /\ sold[s] = Bits(ConfirmedHolds, s)
                    /\ blocked[s] = QuotaBits(s) \cup (IF s \in Crew THEN Segments ELSE {})
    BY DEF MasksMatchOwners
<1>1. \A h \in Holds : mask[h] \subseteq Segments  BY DEF TypeOK
<1>2. \A q \in allocated : q.mask \subseteq Segments
      BY JourneyType DEF TypeOK, QuotaRows
<1>3. hold[s] \subseteq Segments /\ sold[s] \subseteq Segments /\ blocked[s] \subseteq Segments
      BY DEF TypeOK
<1>4. hold[s] = Bits(HeldHolds, s)
  BY <1>1, <1>3 DEF Accounted, HeldBit, Owns, Bits, HeldHolds
<1>5. sold[s] = Bits(ConfirmedHolds, s)
  BY <1>1, <1>3 DEF Accounted, SoldBit, Owns, Bits, ConfirmedHolds
<1>6. blocked[s] = QuotaBits(s) \cup (IF s \in Crew THEN Segments ELSE {})
  BY <1>2, <1>3 DEF Accounted, QuotaBit, QuotaBits
<1> QED BY <1>4, <1>5, <1>6

\* A seat that passes the guard of a conditional UPDATE is nobody's.
LEMMA FreeMeansUnowned ==
    ASSUME IInv, NEW s \in Seats, NEW m \in Journeys, Free(s, m)
    PROVE  /\ s \notin Crew
           /\ \A h \in LiveHolds : s \in items[h] => mask[h] \cap m = {}
           /\ \A q \in allocated : q.seat = s => q.mask \cap m = {}
<1>1. m \subseteq Segments /\ m # {}  BY JourneyType
<1>2. s \notin Crew  BY <1>1 DEF IInv, Accounted, Free
<1>3. ASSUME NEW h \in LiveHolds, s \in items[h] PROVE mask[h] \cap m = {}
  BY <1>1, <1>3 DEF IInv, Accounted, Free, HeldBit, SoldBit, Owns, LiveHolds,
                    HeldHolds, ConfirmedHolds
<1>4. ASSUME NEW q \in allocated, q.seat = s PROVE q.mask \cap m = {}
  BY <1>1, <1>4 DEF IInv, Accounted, Free, QuotaBit
<1> QED BY <1>2, <1>3, <1>4

LEMMA OwnershipInit == Init => IInv
<1> SUFFICES ASSUME Init PROVE IInv
    OBVIOUS
<1>1. TypeOK  BY TypeInit
<1>2. Accounted
  BY DEF Init, Accounted, HeldBit, SoldBit, QuotaBit
<1>3. NoDoubleSale
  BY DEF Init, NoDoubleSale, HoldsExclusive, QuotaExclusive, HoldsRespectQuota,
         CrewNeverSold, LiveHolds, HeldHolds, ConfirmedHolds
<1> QED BY <1>1, <1>2, <1>3 DEF IInv

\* A new live hold takes over cells nobody else has: AcquireHold from free
\* cells, SellQuota from the counter's own quota.
LEMMA NewHoldExclusive ==
    ASSUME IInv, TypeOK', NEW h \in Holds, NEW st \in {"HELD", "CONFIRMED"},
           NEW S \in SUBSET Seats, NEW m \in Journeys, NewHold(h, st, S, m),
           allocated' \subseteq allocated,
           S \cap Crew = {},
           \A g \in LiveHolds, s \in S : s \in items[g] => mask[g] \cap m = {},
           \A q \in allocated' : q.seat \in S => q.mask \cap m = {}
    PROVE  NoDoubleSale'
<1>1. \A g \in Holds \ {h} : /\ status'[g] = status[g]
                              /\ items'[g] = items[g] /\ mask'[g] = mask[g]
  BY DEF IInv, TypeOK, NewHold
<1>2. items'[h] = S /\ mask'[h] = m /\ h \in LiveHolds' /\ h \notin LiveHolds
  BY DEF IInv, TypeOK, NewHold, LiveHolds, HeldHolds, ConfirmedHolds
<1>3. LiveHolds' \ {h} \subseteq LiveHolds /\ LiveHolds' \subseteq Holds
  BY <1>1 DEF LiveHolds, HeldHolds, ConfirmedHolds
<1>4. HoldsExclusive'
  BY <1>1, <1>2, <1>3 DEF IInv, NoDoubleSale, HoldsExclusive
<1>5. QuotaExclusive'
  BY DEF IInv, NoDoubleSale, QuotaExclusive
<1>6. HoldsRespectQuota'
  BY <1>1, <1>2, <1>3 DEF IInv, NoDoubleSale, HoldsRespectQuota
<1>7. CrewNeverSold'
  BY <1>1, <1>2, <1>3 DEF IInv, NoDoubleSale, CrewNeverSold
<1> QED BY <1>4, <1>5, <1>6, <1>7 DEF NoDoubleSale

\* Settling holds only shrinks the set of owners.
LEMMA FewerOwnersExclusive ==
    ASSUME IInv, LiveHolds' \subseteq LiveHolds, items' = items, mask' = mask,
           allocated' \subseteq allocated
    PROVE  NoDoubleSale'
BY DEF IInv, NoDoubleSale, HoldsExclusive, QuotaExclusive, HoldsRespectQuota,
       CrewNeverSold

LEMMA AcquireHoldOwnership ==
    ASSUME IInv, TypeOK', NEW h \in Holds, NEW S \in SUBSET Seats,
           NEW m \in Journeys, AcquireHold(h, S, m)
    PROVE  IInv'
<1>1. /\ S \cap Crew = {}
      /\ \A g \in LiveHolds, s \in S : s \in items[g] => mask[g] \cap m = {}
      /\ \A q \in allocated : q.seat \in S => q.mask \cap m = {}
  BY FreeMeansUnowned DEF AcquireHold
<1>2. NoDoubleSale'
  BY <1>1, NewHoldExclusive DEF AcquireHold
<1>3. ASSUME NEW s \in Seats, NEW k \in Segments
      PROVE  /\ k \in hold'[s] <=> HeldBit(s, k)'
             /\ k \in sold'[s] <=> SoldBit(s, k)'
             /\ k \in blocked'[s] <=> (s \in Crew \/ QuotaBit(s, k)')
  <2>1. /\ k \in hold[s] <=> HeldBit(s, k)
        /\ k \in sold[s] <=> SoldBit(s, k)
        /\ k \in blocked[s] <=> (s \in Crew \/ QuotaBit(s, k))
    BY DEF IInv, Accounted
  <2>2. k \in hold'[s] <=> k \in hold[s] \/ (s \in S /\ k \in m)
    BY DEF AcquireHold, Set
  <2>3. HeldBit(s, k)' <=> HeldBit(s, k) \/ (s \in S /\ k \in m)
    BY DEF AcquireHold, NewHold, HeldBit, Owns, IInv, TypeOK
  <2>4. SoldBit(s, k)' <=> SoldBit(s, k)
    BY DEF AcquireHold, NewHold, SoldBit, Owns, IInv, TypeOK
  <2> QED BY <2>1, <2>2, <2>3, <2>4 DEF AcquireHold, QuotaBit
<1>4. Accounted'  BY <1>3 DEF Accounted
<1> QED BY <1>2, <1>4 DEF IInv

LEMMA ConfirmHoldOwnership ==
    ASSUME IInv, TypeOK', NEW h \in Holds, ConfirmHold(h)
    PROVE  IInv'
<1>1. LiveHolds' \subseteq LiveHolds
  BY DEF ConfirmHold, LiveHolds, HeldHolds, ConfirmedHolds, IInv, TypeOK
<1>2. NoDoubleSale'
  BY <1>1, FewerOwnersExclusive DEF ConfirmHold
<1>3. ASSUME NEW s \in Seats, NEW k \in Segments
      PROVE  /\ k \in hold'[s] <=> HeldBit(s, k)'
             /\ k \in sold'[s] <=> SoldBit(s, k)'
             /\ k \in blocked'[s] <=> (s \in Crew \/ QuotaBit(s, k)')
  <2>1. /\ k \in hold[s] <=> HeldBit(s, k)
        /\ k \in sold[s] <=> SoldBit(s, k)
        /\ k \in blocked[s] <=> (s \in Crew \/ QuotaBit(s, k))
    BY DEF IInv, Accounted
  <2>2. /\ k \in hold'[s] <=> k \in hold[s] /\ ~Owns(h, s, k)
        /\ k \in sold'[s] <=> k \in sold[s] \/ Owns(h, s, k)
    BY DEF ConfirmHold, Set, Clear, Owns
  <2>3. \A g \in Holds : g # h /\ status[g] = "HELD" /\ Owns(g, s, k) => ~Owns(h, s, k)
    BY DEF IInv, NoDoubleSale, HoldsExclusive, LiveHolds, HeldHolds, ConfirmedHolds,
           ConfirmHold, Owns
  <2>4. HeldBit(s, k)' <=> HeldBit(s, k) /\ ~Owns(h, s, k)
    BY <2>3 DEF ConfirmHold, HeldBit, Owns, IInv, TypeOK
  <2>5. SoldBit(s, k)' <=> SoldBit(s, k) \/ Owns(h, s, k)
    BY DEF ConfirmHold, SoldBit, Owns, IInv, TypeOK
  <2> QED BY <2>1, <2>2, <2>4, <2>5 DEF ConfirmHold, QuotaBit
<1>4. Accounted'  BY <1>3 DEF Accounted
<1> QED BY <1>2, <1>4 DEF IInv

LEMMA ReleaseBitsOwnership ==
    ASSUME IInv, TypeOK', NEW H \in SUBSET Holds, NEW st \in {"RELEASED", "EXPIRED"},
           \A h \in H : status[h] = "HELD", ReleaseBits(H, st)
    PROVE  IInv'
<1>1. LiveHolds' \subseteq LiveHolds
  BY DEF ReleaseBits, LiveHolds, HeldHolds, ConfirmedHolds
<1>2. NoDoubleSale'
  BY <1>1, FewerOwnersExclusive DEF ReleaseBits
<1>3. ASSUME NEW s \in Seats, NEW k \in Segments
      PROVE  /\ k \in hold'[s] <=> HeldBit(s, k)'
             /\ k \in sold'[s] <=> SoldBit(s, k)'
             /\ k \in blocked'[s] <=> (s \in Crew \/ QuotaBit(s, k)')
  <2>1. /\ k \in hold[s] <=> HeldBit(s, k)
        /\ k \in sold[s] <=> SoldBit(s, k)
        /\ k \in blocked[s] <=> (s \in Crew \/ QuotaBit(s, k))
    BY DEF IInv, Accounted
  <2>2. k \in hold'[s] <=> k \in hold[s] /\ ~(\E h \in H : Owns(h, s, k))
    BY DEF ReleaseBits, Bits, Owns
  <2>3. \A g \in Holds \ H : status[g] = "HELD" /\ Owns(g, s, k)
                              => ~(\E h \in H : Owns(h, s, k))
    BY DEF IInv, NoDoubleSale, HoldsExclusive, LiveHolds, HeldHolds, ConfirmedHolds,
           Owns
  <2>4. HeldBit(s, k)' <=> HeldBit(s, k) /\ ~(\E h \in H : Owns(h, s, k))
    BY <2>3 DEF ReleaseBits, HeldBit, Owns
  <2>5. SoldBit(s, k)' <=> SoldBit(s, k)
    BY DEF ReleaseBits, SoldBit, Owns
  <2> QED BY <2>1, <2>2, <2>4, <2>5 DEF ReleaseBits, QuotaBit
<1>4. Accounted'  BY <1>3 DEF Accounted
<1> QED BY <1>2, <1>4 DEF IInv

LEMMA ReleaseConfirmedOwnership ==
    ASSUME IInv, TypeOK', NEW h \in Holds, ReleaseConfirmed(h)
    PROVE  IInv'
<1>1. LiveHolds' \subseteq LiveHolds
  BY DEF ReleaseConfirmed, LiveHolds, HeldHolds, ConfirmedHolds, IInv, TypeOK
<1>2. NoDoubleSale'
  BY <1>1, FewerOwnersExclusive DEF ReleaseConfirmed
<1>3. ASSUME NEW s \in Seats, NEW k \in Segments
      PROVE  /\ k \in hold'[s] <=> HeldBit(s, k)'
             /\ k \in sold'[s] <=> SoldBit(s, k)'
             /\ k \in blocked'[s] <=> (s \in Crew \/ QuotaBit(s, k)')
  <2>1. /\ k \in hold[s] <=> HeldBit(s, k)
        /\ k \in sold[s] <=> SoldBit(s, k)
        /\ k \in blocked[s] <=> (s \in Crew \/ QuotaBit(s, k))
    BY DEF IInv, Accounted
  <2>2. k \in sold'[s] <=> k \in sold[s] /\ ~Owns(h, s, k)
    BY DEF ReleaseConfirmed, Clear, Owns
  <2>3. \A g \in Holds : g # h /\ status[g] = "CONFIRMED" /\ Owns(g, s, k) => ~Owns(h, s, k)
    BY DEF IInv, NoDoubleSale, HoldsExclusive, LiveHolds, HeldHolds, ConfirmedHolds,
           ReleaseConfirmed, Owns
  <2>4. SoldBit(s, k)' <=> SoldBit(s, k) /\ ~Owns(h, s, k)
    BY <2>3 DEF ReleaseConfirmed, SoldBit, Owns, IInv, TypeOK
  <2>5. HeldBit(s, k)' <=> HeldBit(s, k)
    BY DEF ReleaseConfirmed, HeldBit, Owns, IInv, TypeOK
  <2> QED BY <2>1, <2>2, <2>4, <2>5 DEF ReleaseConfirmed, QuotaBit
<1>4. Accounted'  BY <1>3 DEF Accounted
<1> QED BY <1>2, <1>4 DEF IInv

\* What QuotaOf builds: one row per seat, all of counter c and journey m.
LEMMA QuotaOfRows ==
    ASSUME NEW c, NEW S, NEW m
    PROVE  /\ \A q \in QuotaOf(c, S, m) :
                q.counter = c /\ q.seat \in S /\ q.mask = m /\ q = QuotaRow(c, q.seat, m)
           /\ \A s \in S : /\ QuotaRow(c, s, m) \in QuotaOf(c, S, m)
                           /\ QuotaRow(c, s, m).seat = s
                           /\ QuotaRow(c, s, m).mask = m
BY DEF QuotaOf, QuotaRow

LEMMA AllocateQuotaOwnership ==
    ASSUME IInv, TypeOK', NEW c \in Counters, NEW S \in SUBSET Seats,
           NEW m \in Journeys, AllocateQuota(c, S, m)
    PROVE  IInv'
<1>1. /\ S \cap Crew = {}
      /\ \A g \in LiveHolds, s \in S : s \in items[g] => mask[g] \cap m = {}
      /\ \A q \in allocated : q.seat \in S => q.mask \cap m = {}
  BY FreeMeansUnowned DEF AllocateQuota
<1>2. \A q \in QuotaOf(c, S, m) : q.seat \in S /\ q.mask = m /\ q = QuotaRow(c, q.seat, m)
  BY QuotaOfRows
<1>3. /\ allocated' = allocated \cup QuotaOf(c, S, m)
      /\ LiveHolds' = LiveHolds /\ items' = items /\ mask' = mask
  BY DEF AllocateQuota, holdVars, LiveHolds, HeldHolds, ConfirmedHolds
<1>4. NoDoubleSale'
  <2>1. HoldsExclusive'  BY <1>3 DEF IInv, NoDoubleSale, HoldsExclusive
  <2>2. QuotaExclusive'
    BY <1>1, <1>2, <1>3 DEF IInv, NoDoubleSale, QuotaExclusive
  <2>3. HoldsRespectQuota'
    BY <1>1, <1>2, <1>3 DEF IInv, NoDoubleSale, HoldsRespectQuota
  <2>4. CrewNeverSold'
    BY <1>1, <1>2, <1>3 DEF IInv, NoDoubleSale, CrewNeverSold
  <2> QED BY <2>1, <2>2, <2>3, <2>4 DEF NoDoubleSale
<1>5. ASSUME NEW s \in Seats, NEW k \in Segments
      PROVE  /\ k \in hold'[s] <=> HeldBit(s, k)'
             /\ k \in sold'[s] <=> SoldBit(s, k)'
             /\ k \in blocked'[s] <=> (s \in Crew \/ QuotaBit(s, k)')
  <2>1. /\ k \in hold[s] <=> HeldBit(s, k)
        /\ k \in sold[s] <=> SoldBit(s, k)
        /\ k \in blocked[s] <=> (s \in Crew \/ QuotaBit(s, k))
    BY DEF IInv, Accounted
  <2>2. k \in blocked'[s] <=> k \in blocked[s] \/ (s \in S /\ k \in m)
    BY DEF AllocateQuota, Set
  <2>3. s \in S => QuotaRow(c, s, m) \in allocated' /\ QuotaRow(c, s, m).seat = s
                     /\ QuotaRow(c, s, m).mask = m
    BY <1>3, QuotaOfRows
  <2>4. QuotaBit(s, k)' <=> QuotaBit(s, k) \/ (s \in S /\ k \in m)
    BY <1>2, <1>3, <2>3 DEF QuotaBit
  <2> QED BY <2>1, <2>2, <2>4
          DEF AllocateQuota, holdVars, HeldBit, SoldBit, Owns
<1>6. Accounted'  BY <1>5 DEF Accounted
<1> QED BY <1>4, <1>6 DEF IInv

LEMMA ReleaseQuotaOwnership ==
    ASSUME IInv, TypeOK', NEW c \in Counters, NEW S \in SUBSET Seats,
           NEW m \in Journeys, ReleaseQuota(c, S, m)
    PROVE  IInv'
<1> DEFINE mine == {s \in S : QuotaRow(c, s, m) \in allocated}
<1>1. /\ allocated' = allocated \ QuotaOf(c, mine, m)
      /\ blocked' = Clear(blocked, mine, m)
      /\ LiveHolds' = LiveHolds /\ items' = items /\ mask' = mask
      /\ hold' = hold /\ sold' = sold /\ status' = status
  BY DEF ReleaseQuota, holdVars, LiveHolds, HeldHolds, ConfirmedHolds
<1>2. NoDoubleSale'
  BY <1>1, FewerOwnersExclusive
<1>3. ASSUME NEW s \in Seats, NEW k \in Segments
      PROVE  /\ k \in hold'[s] <=> HeldBit(s, k)'
             /\ k \in sold'[s] <=> SoldBit(s, k)'
             /\ k \in blocked'[s] <=> (s \in Crew \/ QuotaBit(s, k)')
  <2>1. /\ k \in hold[s] <=> HeldBit(s, k)
        /\ k \in sold[s] <=> SoldBit(s, k)
        /\ k \in blocked[s] <=> (s \in Crew \/ QuotaBit(s, k))
    BY DEF IInv, Accounted
  <2>2. k \in blocked'[s] <=> k \in blocked[s] /\ ~(s \in mine /\ k \in m)
    BY <1>1 DEF Clear
  <2>3. ASSUME s \in mine, k \in m
        PROVE  s \notin Crew /\ ~QuotaBit(s, k)'
    <3> DEFINE row == QuotaRow(c, s, m)
    <3>1. row \in allocated /\ row.seat = s /\ row.mask = m
      BY <2>3 DEF QuotaRow
    <3>2. row \in QuotaOf(c, mine, m)
      BY <2>3 DEF QuotaOf
    <3>3. s \notin Crew
      BY <3>1 DEF IInv, NoDoubleSale, CrewNeverSold
    <3>4. \A q \in allocated : q # row /\ q.seat = s => k \notin q.mask
      BY <2>3, <3>1 DEF IInv, NoDoubleSale, QuotaExclusive
    <3> QED BY <1>1, <3>2, <3>3, <3>4 DEF QuotaBit
  <2>4. ASSUME ~(s \in mine /\ k \in m)
        PROVE  QuotaBit(s, k)' <=> QuotaBit(s, k)
    <3>1. \A q \in QuotaOf(c, mine, m) : q.seat \in mine /\ q.mask = m
      BY QuotaOfRows
    <3> QED BY <1>1, <2>4, <3>1 DEF QuotaBit
  <2> QED BY <1>1, <2>1, <2>2, <2>3, <2>4 DEF HeldBit, SoldBit, Owns
<1>4. Accounted'  BY <1>3 DEF Accounted
<1> QED BY <1>2, <1>4 DEF IInv

LEMMA SellQuotaOwnership ==
    ASSUME IInv, TypeOK', NEW c \in Counters, NEW h \in Holds,
           NEW S \in SUBSET Seats, NEW m \in Journeys, SellQuota(c, h, S, m)
    PROVE  IInv'
<1>1. \A s \in S : /\ QuotaRow(c, s, m) \in allocated
                   /\ QuotaRow(c, s, m) \in QuotaOf(c, S, m)
                   /\ QuotaRow(c, s, m).seat = s /\ QuotaRow(c, s, m).mask = m
  BY DEF SellQuota, QuotaOf, QuotaRow
<1>2. allocated' = allocated \ QuotaOf(c, S, m)
  BY DEF SellQuota
<1>3. S \cap Crew = {}
  BY <1>1 DEF IInv, NoDoubleSale, CrewNeverSold
<1>4. \A g \in LiveHolds, s \in S : s \in items[g] => mask[g] \cap m = {}
  BY <1>1 DEF IInv, NoDoubleSale, HoldsRespectQuota
<1>5. \A q \in allocated' : q.seat \in S => q.mask \cap m = {}
  BY <1>1, <1>2 DEF IInv, NoDoubleSale, QuotaExclusive
<1>6. NoDoubleSale'
  BY <1>2, <1>3, <1>4, <1>5, NewHoldExclusive DEF SellQuota
<1>7. ASSUME NEW s \in Seats, NEW k \in Segments
      PROVE  /\ k \in hold'[s] <=> HeldBit(s, k)'
             /\ k \in sold'[s] <=> SoldBit(s, k)'
             /\ k \in blocked'[s] <=> (s \in Crew \/ QuotaBit(s, k)')
  <2>1. /\ k \in hold[s] <=> HeldBit(s, k)
        /\ k \in sold[s] <=> SoldBit(s, k)
        /\ k \in blocked[s] <=> (s \in Crew \/ QuotaBit(s, k))
    BY DEF IInv, Accounted
  <2>2. /\ k \in sold'[s] <=> k \in sold[s] \/ (s \in S /\ k \in m)
        /\ k \in blocked'[s] <=> k \in blocked[s] /\ ~(s \in S /\ k \in m)
    BY DEF SellQuota, Set, Clear
  <2>3. SoldBit(s, k)' <=> SoldBit(s, k) \/ (s \in S /\ k \in m)
    BY DEF SellQuota, NewHold, SoldBit, Owns, IInv, TypeOK
  <2>4. HeldBit(s, k)' <=> HeldBit(s, k)
    BY DEF SellQuota, NewHold, HeldBit, Owns, IInv, TypeOK
  <2>5. s \in S /\ k \in m => s \notin Crew /\ ~QuotaBit(s, k)'
    BY <1>3, <1>5 DEF QuotaBit
  <2>6. ~(s \in S /\ k \in m) => (QuotaBit(s, k)' <=> QuotaBit(s, k))
    <3>1. \A q \in QuotaOf(c, S, m) : q.seat \in S /\ q.mask = m
      BY QuotaOfRows
    <3> QED BY <1>2, <3>1 DEF QuotaBit
  <2> QED BY <2>1, <2>2, <2>3, <2>4, <2>5, <2>6 DEF SellQuota
<1>8. Accounted'  BY <1>7 DEF Accounted
<1> QED BY <1>6, <1>8 DEF IInv

\* Every transaction preserves the inductive invariant.
LEMMA OwnershipStep == IInv /\ [Next]_vars => IInv'
<1> SUFFICES ASSUME IInv, [Next]_vars PROVE IInv'
    OBVIOUS
<1>1. TypeOK'  BY TypeStep DEF IInv
<1>2. ASSUME NEW h \in Holds, DeadlinePasses(h) PROVE IInv'
  BY <1>1, <1>2 DEF DeadlinePasses, seatVars, holdVars, IInv, Accounted, HeldBit,
     SoldBit, QuotaBit, Owns, NoDoubleSale, HoldsExclusive, QuotaExclusive,
     HoldsRespectQuota, CrewNeverSold, LiveHolds, HeldHolds, ConfirmedHolds
<1>3. CASE UNCHANGED vars
  BY <1>1, <1>3 DEF vars, seatVars, holdVars, IInv, Accounted, HeldBit,
     SoldBit, QuotaBit, Owns, NoDoubleSale, HoldsExclusive, QuotaExclusive,
     HoldsRespectQuota, CrewNeverSold, LiveHolds, HeldHolds, ConfirmedHolds
<1>4. ASSUME NEW h \in Holds, ReleaseHold(h) PROVE IInv'
  BY <1>1, <1>4, ReleaseBitsOwnership DEF ReleaseHold
<1>5. ASSUME NEW H \in SUBSET Holds, SweepExpired(H) PROVE IInv'
  BY <1>1, <1>5, ReleaseBitsOwnership DEF SweepExpired
<1> QED BY <1>1, <1>2, <1>3, <1>4, <1>5, AcquireHoldOwnership,
           ConfirmHoldOwnership, ReleaseConfirmedOwnership,
           AllocateQuotaOwnership, ReleaseQuotaOwnership, SellQuotaOwnership
        DEF Next

LEMMA SpecOwnership == Spec => []IInv
<1>1. Init => IInv  BY OwnershipInit
<1>2. IInv /\ [Next]_vars => IInv'  BY OwnershipStep
<1> QED BY <1>1, <1>2, PTL DEF Spec

\* Two travellers, or a traveller and a counter, never have the same segment
\* of the same seat, whatever the interleaving of holds, payments, expiry,
\* cancellations and quota.
THEOREM SeatsNeverSoldTwice == Spec => []NoDoubleSale
<1>1. IInv => NoDoubleSale  BY DEF IInv
<1> QED BY <1>1, SpecOwnership, PTL

\* The owner-less masks of trip_seats always state exactly what the rows of
\* seat_hold_items and quota_items state.
THEOREM MasksAlwaysMatchOwners == Spec => []MasksMatchOwners
<1>1. IInv => MasksMatchOwners  BY AccountedMatches DEF IInv
<1> QED BY <1>1, SpecOwnership, PTL

-----------------------------------------------------------------------------
(* Retries, races and the event log                                         *)

\* The body of the action property BitsLeaveWithOwner.
BitLeavesWithOwner(s, k) ==
    /\ k \in hold[s] \ hold'[s] =>
         \E h \in HeldHolds : Owns(h, s, k) /\ status'[h] # "HELD"
    /\ k \in sold[s] \ sold'[s] =>
         \E h \in ConfirmedHolds : Owns(h, s, k) /\ status'[h] = "RELEASED"
    /\ k \in blocked[s] \ blocked'[s] =>
         \E q \in allocated \ allocated' : q.seat = s /\ k \in q.mask

LEMMA BitsLeaveStep ==
    ASSUME IInv, [Next]_vars, NEW s \in Seats, NEW k \in Segments
    PROVE  BitLeavesWithOwner(s, k)
<1> USE DEF BitLeavesWithOwner
<1>1. ASSUME NEW h \in Holds, NEW S \in SUBSET Seats, NEW m \in Journeys,
             AcquireHold(h, S, m)
      PROVE  BitLeavesWithOwner(s, k)
  BY <1>1 DEF AcquireHold, Set
<1>2. ASSUME NEW h \in Holds, ConfirmHold(h) PROVE BitLeavesWithOwner(s, k)
  BY <1>2 DEF ConfirmHold, Set, Clear, Owns, HeldHolds, IInv, TypeOK
<1>3. ASSUME NEW H \in SUBSET Holds, NEW st \in {"RELEASED", "EXPIRED"},
             \A h \in H : status[h] = "HELD", ReleaseBits(H, st)
      PROVE  BitLeavesWithOwner(s, k)
  BY <1>3 DEF ReleaseBits, Bits, Owns, HeldHolds
<1>4. ASSUME NEW h \in Holds, ReleaseHold(h) PROVE BitLeavesWithOwner(s, k)
  BY <1>3, <1>4 DEF ReleaseHold
<1>5. ASSUME NEW H \in SUBSET Holds, SweepExpired(H) PROVE BitLeavesWithOwner(s, k)
  BY <1>3, <1>5 DEF SweepExpired
<1>6. ASSUME NEW h \in Holds, ReleaseConfirmed(h) PROVE BitLeavesWithOwner(s, k)
  BY <1>6 DEF ReleaseConfirmed, Clear, Owns, ConfirmedHolds, IInv, TypeOK
<1>7. ASSUME NEW h \in Holds, DeadlinePasses(h) PROVE BitLeavesWithOwner(s, k)
  BY <1>7 DEF DeadlinePasses, seatVars
<1>8. ASSUME NEW c \in Counters, NEW S \in SUBSET Seats, NEW m \in Journeys,
             AllocateQuota(c, S, m)
      PROVE  BitLeavesWithOwner(s, k)
  BY <1>8 DEF AllocateQuota, Set
<1>9. ASSUME NEW c \in Counters, NEW S \in SUBSET Seats, NEW m \in Journeys,
             ReleaseQuota(c, S, m)
      PROVE  BitLeavesWithOwner(s, k)
  <2> DEFINE mine == {t \in S : QuotaRow(c, t, m) \in allocated}
  <2>1. /\ allocated' = allocated \ QuotaOf(c, mine, m)
        /\ blocked' = Clear(blocked, mine, m) /\ hold' = hold /\ sold' = sold
    BY <1>9 DEF ReleaseQuota
  <2>2. s \in mine => /\ QuotaRow(c, s, m) \in allocated \ allocated'
                      /\ QuotaRow(c, s, m).seat = s /\ QuotaRow(c, s, m).mask = m
    BY <2>1, QuotaOfRows
  <2>3. k \in blocked[s] \ blocked'[s] => s \in mine /\ k \in m
    BY <2>1 DEF Clear
  <2> QED BY <2>1, <2>2, <2>3
<1>10. ASSUME NEW c \in Counters, NEW h \in Holds, NEW S \in SUBSET Seats,
              NEW m \in Journeys, SellQuota(c, h, S, m)
       PROVE  BitLeavesWithOwner(s, k)
  <2>1. s \in S => /\ QuotaRow(c, s, m) \in allocated \ allocated'
                   /\ QuotaRow(c, s, m).seat = s /\ QuotaRow(c, s, m).mask = m
    BY <1>10, QuotaOfRows DEF SellQuota
  <2>2. k \in blocked[s] \ blocked'[s] => s \in S /\ k \in m
    BY <1>10 DEF SellQuota, Clear
  <2> QED BY <1>10, <2>1, <2>2 DEF SellQuota, Set
<1>11. CASE UNCHANGED vars
  BY <1>11 DEF vars, seatVars
<1> QED BY <1>1, <1>2, <1>4, <1>5, <1>6, <1>7, <1>8, <1>9, <1>10, <1>11 DEF Next

\* No second release, late sweep or repeated confirmation ever frees a bit that
\* belongs to somebody else.
THEOREM OnlyOwnersFreeSeats == Spec => BitsLeaveWithOwner
<1>1. IInv /\ [Next]_vars =>
        [\A s \in Seats, k \in Segments :
            /\ k \in hold[s] \ hold'[s] =>
                 \E h \in HeldHolds : Owns(h, s, k) /\ status'[h] # "HELD"
            /\ k \in sold[s] \ sold'[s] =>
                 \E h \in ConfirmedHolds : Owns(h, s, k) /\ status'[h] = "RELEASED"
            /\ k \in blocked[s] \ blocked'[s] =>
                 \E q \in allocated \ allocated' : q.seat = s /\ k \in q.mask]_vars
  BY BitsLeaveStep DEF BitLeavesWithOwner
<1> QED BY <1>1, SpecOwnership, PTL DEF Spec, BitsLeaveWithOwner

\* ReplayCoversLive needs the owners as well: SEAT_RELEASED of a sold seat clears
\* replayed hold bits, which is harmless only because nobody else holds them.
LEMMA ReplayStep == IInv /\ ReplayCoversLive /\ [Next]_vars => ReplayCoversLive'
<1> SUFFICES ASSUME IInv, ReplayCoversLive, [Next]_vars, NEW s \in Seats
             PROVE  logHold'[s] = hold'[s] /\ sold'[s] \subseteq logSold'[s]
    BY DEF ReplayCoversLive
<1>1. logHold[s] = hold[s] /\ sold[s] \subseteq logSold[s]
  BY DEF ReplayCoversLive
<1>2. ASSUME NEW h \in Holds, NEW S \in SUBSET Seats, NEW m \in Journeys,
             AcquireHold(h, S, m)
      PROVE  logHold'[s] = hold'[s] /\ sold'[s] \subseteq logSold'[s]
  BY <1>1, <1>2 DEF AcquireHold, LogHeld, Set
<1>3. ASSUME NEW h \in Holds, ConfirmHold(h)
      PROVE  logHold'[s] = hold'[s] /\ sold'[s] \subseteq logSold'[s]
  BY <1>1, <1>3 DEF ConfirmHold, LogBooked, Set, Clear
<1>4. ASSUME NEW H \in SUBSET Holds, NEW st, ReleaseBits(H, st)
      PROVE  logHold'[s] = hold'[s] /\ sold'[s] \subseteq logSold'[s]
  BY <1>1, <1>4 DEF ReleaseBits, LogReleased
<1>5. ASSUME NEW h \in Holds, ReleaseConfirmed(h)
      PROVE  logHold'[s] = hold'[s] /\ sold'[s] \subseteq logSold'[s]
  <2>1. hold[s] \cap Bits({h}, s) = {}
    <3>1. hold[s] = Bits(HeldHolds, s)
      BY AccountedMatches DEF IInv, MasksMatchOwners
    <3>2. \A g \in HeldHolds : s \in items[g] /\ s \in items[h]
                                => mask[g] \cap mask[h] = {}
      BY <1>5 DEF ReleaseConfirmed, IInv, NoDoubleSale, HoldsExclusive, LiveHolds,
                  HeldHolds, ConfirmedHolds
    <3> QED BY <3>1, <3>2 DEF Bits
  <2> QED BY <1>1, <1>5, <2>1 DEF ReleaseConfirmed, LogReleased, Clear
<1>6. ASSUME NEW c \in Counters, NEW h \in Holds, NEW S \in SUBSET Seats,
             NEW m \in Journeys, SellQuota(c, h, S, m)
      PROVE  logHold'[s] = hold'[s] /\ sold'[s] \subseteq logSold'[s]
  <2>1. s \in S => hold[s] \cap m = {}
    <3>1. hold[s] = Bits(HeldHolds, s)
      BY AccountedMatches DEF IInv, MasksMatchOwners
    <3>2. s \in S => \A g \in HeldHolds : s \in items[g] => mask[g] \cap m = {}
      BY <1>6, QuotaOfRows DEF SellQuota, IInv, NoDoubleSale, HoldsRespectQuota,
                              LiveHolds
    <3> QED BY <3>1, <3>2 DEF Bits
  <2> QED BY <1>1, <1>6, <2>1 DEF SellQuota, LogBooked, Set, Clear
<1>7. ASSUME \/ \E h \in Holds : DeadlinePasses(h)
             \/ \E c \in Counters, S \in SUBSET Seats, m \in Journeys :
                   AllocateQuota(c, S, m) \/ ReleaseQuota(c, S, m)
             \/ UNCHANGED vars
      PROVE  logHold'[s] = hold'[s] /\ sold'[s] \subseteq logSold'[s]
  BY <1>1, <1>7 DEF DeadlinePasses, AllocateQuota, ReleaseQuota, vars, seatVars, logVars
<1> QED BY <1>2, <1>3, <1>4, <1>5, <1>6, <1>7 DEF Next, ReleaseHold, SweepExpired

\* Replaying the append-only log always finds exactly the live hold bits and
\* never misses a sale.
THEOREM ReplayNeverLosesASale == Spec => []ReplayCoversLive
<1>1. Init => ReplayCoversLive  BY DEF Init, ReplayCoversLive
<1>2. IInv /\ ReplayCoversLive /\ [Next]_vars => ReplayCoversLive'  BY ReplayStep
<1> QED BY <1>1, <1>2, SpecOwnership, PTL DEF Spec

-----------------------------------------------------------------------------
(* Refinement of SeatMarket                                                 *)

\* Who has a claim on a cell: the three parts of ClaimsOn.
HoldersOf(s, k) == {h \in HeldHolds : Owns(h, s, k)}
BuyersOf(s, k)  == {h \in ConfirmedHolds : Owns(h, s, k)}
QuotasOf(s, k)  == {q \in allocated : q.seat = s /\ k \in q.mask}

\* The market's view of the tables.
Rights == [cell \in Seats \X Segments |-> ClaimsOn(cell[1], cell[2])]

\* The cells of the seats S for the journey m.
Block(S, m) == S \X m

LEMMA ClaimsOfCell ==
    ASSUME NEW s, NEW k
    PROVE  ClaimsOn(s, k) = {Market!Held(h) : h \in HoldersOf(s, k)}
                            \cup {Market!Sold(h) : h \in BuyersOf(s, k)}
                            \cup {Market!Quota(q.counter) : q \in QuotasOf(s, k)}
BY DEF ClaimsOn, HoldersOf, BuyersOf, QuotasOf, Market!Held, Market!Sold, Market!Quota

LEMMA ClaimsOfCellNext ==
    ASSUME NEW s, NEW k
    PROVE  ClaimsOn(s, k)' = {Market!Held(h) : h \in HoldersOf(s, k)'}
                            \cup {Market!Sold(h) : h \in BuyersOf(s, k)'}
                            \cup {Market!Quota(q.counter) : q \in QuotasOf(s, k)'}
BY DEF ClaimsOn, HoldersOf, BuyersOf, QuotasOf, Market!Held, Market!Sold, Market!Quota

LEMMA MarketInit == Init => Market!Init
<1> SUFFICES ASSUME Init PROVE Market!Init
    OBVIOUS
<1>1. ASSUME NEW s \in Seats, NEW k \in Segments PROVE ClaimsOn(s, k) = {}
  <2>1. HoldersOf(s, k) = {} /\ BuyersOf(s, k) = {} /\ QuotasOf(s, k) = {}
        BY DEF Init, HoldersOf, BuyersOf, QuotasOf, HeldHolds, ConfirmedHolds
  <2> QED BY <2>1, ClaimsOfCell
<1> QED BY <1>1 DEF Market!Init, Market!Cells

\* Cells change hands one by one: what Grant asks of the rows.
LEMMA Granted ==
    ASSUME NEW C, NEW new,
           \A s \in Seats, k \in Segments :
               ClaimsOn(s, k)' = IF <<s, k>> \in C THEN new ELSE ClaimsOn(s, k)
    PROVE  Market!Grant(C, new)
BY DEF Market!Grant, Market!Cells

\* Whoever has a claim on a cell has a live row there.
LEMMA FreeCellsUnclaimed ==
    ASSUME IInv, NEW s \in Seats, NEW m \in Journeys, Free(s, m), NEW k \in m
    PROVE  ClaimsOn(s, k) = {}
<1>1. HoldersOf(s, k) = {} /\ BuyersOf(s, k) = {} /\ QuotasOf(s, k) = {}
  BY FreeMeansUnowned DEF HoldersOf, BuyersOf, QuotasOf, HeldHolds, ConfirmedHolds, LiveHolds, Owns
<1> QED BY <1>1, ClaimsOfCell

\* The cells a hold has in the market are those of its rows.
LEMMA CellsOfHold ==
    ASSUME IInv, NEW h \in Holds
    PROVE  /\ Market!CellsOf(Market!Held(h)) =
                  IF status[h] = "HELD" THEN Block(items[h], mask[h]) ELSE {}
           /\ Market!CellsOf(Market!Sold(h)) =
                  IF status[h] = "CONFIRMED" THEN Block(items[h], mask[h]) ELSE {}
<1>1. items[h] \subseteq Seats /\ mask[h] \subseteq Segments
  BY DEF IInv, TypeOK
<1>2. ASSUME NEW s \in Seats, NEW k \in Segments
      PROVE  /\ Market!Held(h) \in ClaimsOn(s, k) <=> status[h] = "HELD" /\ Owns(h, s, k)
             /\ Market!Sold(h) \in ClaimsOn(s, k) <=> status[h] = "CONFIRMED" /\ Owns(h, s, k)
  BY ClaimsOfCell DEF HoldersOf, BuyersOf, HeldHolds, ConfirmedHolds, Market!Held, Market!Sold, Market!Quota
<1>3. ASSUME NEW claim
      PROVE  Market!CellsOf(claim) = {cell \in Seats \X Segments : claim \in ClaimsOn(cell[1], cell[2])}
  BY DEF Market!CellsOf, Market!Cells
<1> QED BY <1>1, <1>2, <1>3 DEF Block, Owns

LEMMA CellsOfQuota ==
    ASSUME NEW c \in Counters, NEW S \in SUBSET Seats, NEW m \in Journeys,
           QuotaOf(c, S, m) \subseteq allocated
    PROVE  Block(S, m) \subseteq Market!CellsOf(Market!Quota(c))
<1>1. m \subseteq Segments  BY JourneyType
<1>2. ASSUME NEW s \in S, NEW k \in m PROVE Market!Quota(c) \in ClaimsOn(s, k)
  <2>1. QuotaRow(c, s, m) \in QuotasOf(s, k)  BY DEF QuotasOf, QuotaOf, QuotaRow
  <2>2. QuotaRow(c, s, m).counter = c  BY DEF QuotaRow
  <2> QED BY <2>1, <2>2, ClaimsOfCell
<1> QED BY <1>1, <1>2 DEF Block, Market!CellsOf, Market!Cells

\* Nobody else has a claim on a cell of a live hold, nor on one of a quota row.
LEMMA OneClaim ==
    ASSUME IInv, NEW s \in Seats, NEW k \in Segments
    PROVE  /\ \A h \in HeldHolds : Owns(h, s, k) =>
                 HoldersOf(s, k) = {h} /\ BuyersOf(s, k) = {} /\ QuotasOf(s, k) = {}
           /\ \A h \in ConfirmedHolds : Owns(h, s, k) =>
                 HoldersOf(s, k) = {} /\ BuyersOf(s, k) = {h} /\ QuotasOf(s, k) = {}
           /\ \A q \in QuotasOf(s, k) :
                 HoldersOf(s, k) = {} /\ BuyersOf(s, k) = {} /\ QuotasOf(s, k) = {q}
<1>1. \A g, h \in LiveHolds : Owns(g, s, k) /\ Owns(h, s, k) => g = h
  BY DEF IInv, NoDoubleSale, HoldsExclusive, Owns
<1>2. \A h \in LiveHolds, q \in QuotasOf(s, k) : ~Owns(h, s, k)
  BY DEF IInv, NoDoubleSale, HoldsRespectQuota, Owns, QuotasOf
<1>3. \A q, r \in QuotasOf(s, k) : q = r
  BY DEF IInv, NoDoubleSale, QuotaExclusive, QuotasOf
<1>4. ASSUME NEW h \in HeldHolds, Owns(h, s, k)
      PROVE  HoldersOf(s, k) = {h} /\ BuyersOf(s, k) = {} /\ QuotasOf(s, k) = {}
  BY <1>1, <1>2, <1>4 DEF HoldersOf, BuyersOf, LiveHolds, HeldHolds, ConfirmedHolds
<1>5. ASSUME NEW h \in ConfirmedHolds, Owns(h, s, k)
      PROVE  HoldersOf(s, k) = {} /\ BuyersOf(s, k) = {h} /\ QuotasOf(s, k) = {}
  BY <1>1, <1>2, <1>5 DEF HoldersOf, BuyersOf, LiveHolds, HeldHolds, ConfirmedHolds
<1>6. ASSUME NEW q \in QuotasOf(s, k)
      PROVE  HoldersOf(s, k) = {} /\ BuyersOf(s, k) = {} /\ QuotasOf(s, k) = {q}
  BY <1>2, <1>3, <1>6 DEF HoldersOf, BuyersOf, LiveHolds
<1> QED BY <1>4, <1>5, <1>6

\* A step that changes no row with a claim on a cell leaves its claims alone.
LEMMA Unclaimed ==
    ASSUME NEW s, NEW k,
           UNCHANGED <<HoldersOf(s, k), BuyersOf(s, k), QuotasOf(s, k)>>
    PROVE  ClaimsOn(s, k)' = ClaimsOn(s, k)
BY ClaimsOfCell, ClaimsOfCellNext

LEMMA BlockOfCells ==
    ASSUME NEW S \in SUBSET Seats, NEW m \in Journeys
    PROVE  /\ Block(S, m) \in SUBSET Market!Cells
           /\ S # {} => Block(S, m) # {}
<1>1. m \subseteq Segments /\ m # {}  BY JourneyType
<1>2. Block(S, m) \in SUBSET Market!Cells  BY <1>1 DEF Block, Market!Cells
<1>3. ASSUME NEW s \in S PROVE Block(S, m) # {}
  <2>1. PICK k \in m : TRUE  BY <1>1
  <2>2. <<s, k>> \in Block(S, m)  BY DEF Block
  <2> QED BY <2>2
<1> QED BY <1>2, <1>3

LEMMA AcquireTakes ==
    ASSUME IInv, NEW h \in Holds, NEW S \in SUBSET Seats, NEW m \in Journeys,
           AcquireHold(h, S, m)
    PROVE  Market!Next
<1>1. m \subseteq Segments /\ m # {}  BY JourneyType
<1>2. Block(S, m) # {} /\ Block(S, m) \in SUBSET Market!Cells
  BY BlockOfCells DEF AcquireHold
<1>3. \A cell \in Block(S, m) : Rights[cell] = {}
  BY <1>1, FreeCellsUnclaimed DEF AcquireHold, Block, Rights
<1>4. Market!OwnsNothing(h)
  BY CellsOfHold DEF AcquireHold, NewHold, Market!OwnsNothing
<1>5. ASSUME NEW s \in Seats, NEW k \in Segments
      PROVE  ClaimsOn(s, k)' = IF <<s, k>> \in Block(S, m) THEN {Market!Held(h)} ELSE ClaimsOn(s, k)
  <2>0. /\ \A g \in Holds : status'[g] = IF g = h THEN "HELD" ELSE status[g]
        /\ \A g \in Holds : items'[g] = IF g = h THEN S ELSE items[g]
        /\ \A g \in Holds : mask'[g] = IF g = h THEN m ELSE mask[g]
        /\ status[h] = "NONE" /\ allocated' = allocated
        BY DEF IInv, TypeOK, AcquireHold, NewHold
  <2>1. CASE <<s, k>> \in Block(S, m)
    <3>1. ClaimsOn(s, k) = {}
          BY <1>1, <2>1, FreeCellsUnclaimed DEF AcquireHold, Block
    <3>2. HoldersOf(s, k) = {} /\ BuyersOf(s, k) = {} /\ QuotasOf(s, k) = {}
          BY <3>1, ClaimsOfCell
    <3>3. HoldersOf(s, k)' = {h} /\ BuyersOf(s, k)' = {} /\ QuotasOf(s, k)' = {}
          BY <2>0, <2>1, <3>2
             DEF HoldersOf, BuyersOf, QuotasOf, HeldHolds, ConfirmedHolds, Owns, Block
    <3> QED BY <2>1, <3>3, ClaimsOfCellNext
  <2>2. CASE <<s, k>> \notin Block(S, m)
    <3>1. UNCHANGED <<HoldersOf(s, k), BuyersOf(s, k), QuotasOf(s, k)>>
          BY <2>0, <2>2 DEF HoldersOf, BuyersOf, QuotasOf, HeldHolds, ConfirmedHolds, Owns, Block
    <3> QED BY <2>2, <3>1, Unclaimed
  <2> QED BY <2>1, <2>2
<1>6. Market!Grant(Block(S, m), {Market!Held(h)})  BY <1>5, Granted
<1>7. Market!Held(h) \in Market!Claims /\ Market!Held(h).kind = "held" /\ Market!Held(h).who = h
  BY DEF Market!Held, Market!Claims
<1>8. Market!Take(Market!Held(h), Block(S, m))
  BY <1>2, <1>3, <1>4, <1>6, <1>7 DEF Market!Take, Rights
<1> QED BY <1>2, <1>7, <1>8 DEF Market!Next

LEMMA ConfirmBuys ==
    ASSUME IInv, NEW h \in Holds, ConfirmHold(h)
    PROVE  [Market!Next]_Rights
<1> DEFINE C == Block(items[h], mask[h])
<1>1. Market!CellsOf(Market!Held(h)) = C
  BY CellsOfHold DEF ConfirmHold
<1>2. /\ \A g \in Holds : status'[g] = IF g = h THEN "CONFIRMED" ELSE status[g]
      /\ items' = items /\ mask' = mask /\ allocated' = allocated /\ status[h] = "HELD"
  BY DEF IInv, TypeOK, ConfirmHold
<1>3. ASSUME NEW s \in Seats, NEW k \in Segments
      PROVE  ClaimsOn(s, k)' = IF <<s, k>> \in C THEN {Market!Sold(h)} ELSE ClaimsOn(s, k)
  <2>1. CASE <<s, k>> \in C
    <3>1. h \in HeldHolds /\ Owns(h, s, k)  BY <1>2, <2>1 DEF HeldHolds, Owns, Block
    <3>2. HoldersOf(s, k) = {h} /\ BuyersOf(s, k) = {} /\ QuotasOf(s, k) = {}
          BY <3>1, OneClaim
    <3>3. HoldersOf(s, k)' = {}
          BY <1>2, <3>2 DEF HoldersOf, HeldHolds, Owns
    <3>4. BuyersOf(s, k)' = {h}
          BY <1>2, <3>1, <3>2 DEF BuyersOf, ConfirmedHolds, Owns
    <3>5. QuotasOf(s, k)' = {}
          BY <1>2, <3>2 DEF QuotasOf
    <3> QED BY <2>1, <3>3, <3>4, <3>5, ClaimsOfCellNext
  <2>2. CASE <<s, k>> \notin C
    <3>1. UNCHANGED <<HoldersOf(s, k), BuyersOf(s, k), QuotasOf(s, k)>>
          BY <1>2, <2>2 DEF HoldersOf, BuyersOf, QuotasOf, HeldHolds, ConfirmedHolds, Owns, Block
    <3> QED BY <2>2, <3>1, Unclaimed
  <2> QED BY <2>1, <2>2
<1>4. CASE C = {}
  <2>1. \A s \in Seats, k \in Segments : ClaimsOn(s, k)' = ClaimsOn(s, k)
        BY <1>3, <1>4
  <2> QED BY <2>1 DEF Rights
<1>5. CASE C # {}
  <2>1. Market!Grant(C, {Market!Sold(h)})  BY <1>3, Granted
  <2>2. Market!Buy(h)  BY <1>1, <1>5, <2>1 DEF Market!Buy
  <2> QED BY <2>2 DEF Market!Next
<1> QED BY <1>4, <1>5

\* Holds that end give back what they have: ReleaseHold and SweepExpired ...
LEMMA HeldGivesBack ==
    ASSUME IInv, NEW H \in SUBSET Holds, NEW st \in {"RELEASED", "EXPIRED"},
           \A h \in H : status[h] = "HELD", ReleaseBits(H, st)
    PROVE  Market!Next
<1> DEFINE C == UNION {Market!CellsOf([kind |-> "held", who |-> h]) : h \in H}
<1>1. /\ \A g \in Holds : status'[g] = IF g \in H THEN st ELSE status[g]
      /\ items' = items /\ mask' = mask /\ allocated' = allocated
  BY DEF ReleaseBits
<1>2. ASSUME NEW h \in H
      PROVE  Market!CellsOf([kind |-> "held", who |-> h]) = Block(items[h], mask[h])
  BY CellsOfHold DEF Market!Held
<1>3. ASSUME NEW s, NEW k PROVE <<s, k>> \in C <=> \E h \in H : Owns(h, s, k)
  <2>1. \A h \in H : <<s, k>> \in Market!CellsOf([kind |-> "held", who |-> h]) <=> Owns(h, s, k)
        BY <1>2 DEF Owns, Block
  <2> QED BY <2>1
<1> HIDE DEF C
<1>4. ASSUME NEW s \in Seats, NEW k \in Segments
      PROVE  ClaimsOn(s, k)' = IF <<s, k>> \in C THEN {} ELSE ClaimsOn(s, k)
  <2>1. CASE <<s, k>> \in C
    <3>1. PICK h \in H : Owns(h, s, k)  BY <1>3, <2>1
    <3>2. HoldersOf(s, k) = {h} /\ BuyersOf(s, k) = {} /\ QuotasOf(s, k) = {}
          BY <3>1, OneClaim DEF HeldHolds
    <3>3. HoldersOf(s, k)' = {} /\ BuyersOf(s, k)' = {}
          BY <1>1, <3>2 DEF HoldersOf, BuyersOf, HeldHolds, ConfirmedHolds, Owns
    <3>4. QuotasOf(s, k)' = {}
          BY <1>1, <3>2 DEF QuotasOf
    <3> QED BY <2>1, <3>3, <3>4, ClaimsOfCellNext
  <2>2. CASE <<s, k>> \notin C
    <3>1. \A h \in H : ~Owns(h, s, k)  BY <1>3, <2>2
    <3>2. UNCHANGED <<HoldersOf(s, k), BuyersOf(s, k), QuotasOf(s, k)>>
          BY <1>1, <3>1 DEF HoldersOf, BuyersOf, QuotasOf, HeldHolds, ConfirmedHolds, Owns
    <3> QED BY <2>2, <3>2, Unclaimed
  <2> QED BY <2>1, <2>2
<1>5. Market!Grant(C, {})  BY <1>4, Granted
<1>6. Market!GiveBack("held", H)  BY <1>5 DEF Market!GiveBack, C
<1> QED BY <1>6 DEF Market!Next

\* ... and ReleaseConfirmed.
LEMMA SoldGivesBack ==
    ASSUME IInv, NEW h \in Holds, ReleaseConfirmed(h)
    PROVE  Market!Next
<1> DEFINE C == Block(items[h], mask[h])
<1>1. /\ \A g \in Holds : status'[g] = IF g = h THEN "RELEASED" ELSE status[g]
      /\ items' = items /\ mask' = mask /\ allocated' = allocated /\ status[h] = "CONFIRMED"
  BY DEF IInv, TypeOK, ReleaseConfirmed
<1>2. UNION {Market!CellsOf([kind |-> "sold", who |-> g]) : g \in {h}} = C
  BY <1>1, CellsOfHold DEF Market!Sold
<1>3. ASSUME NEW s \in Seats, NEW k \in Segments
      PROVE  ClaimsOn(s, k)' = IF <<s, k>> \in C THEN {} ELSE ClaimsOn(s, k)
  <2>1. CASE <<s, k>> \in C
    <3>1. h \in ConfirmedHolds /\ Owns(h, s, k)  BY <1>1, <2>1 DEF ConfirmedHolds, Owns, Block
    <3>2. HoldersOf(s, k) = {} /\ BuyersOf(s, k) = {h} /\ QuotasOf(s, k) = {}
          BY <3>1, OneClaim
    <3>3. HoldersOf(s, k)' = {} /\ BuyersOf(s, k)' = {}
          BY <1>1, <3>2 DEF HoldersOf, BuyersOf, HeldHolds, ConfirmedHolds, Owns
    <3>4. QuotasOf(s, k)' = {}
          BY <1>1, <3>2 DEF QuotasOf
    <3> QED BY <2>1, <3>3, <3>4, ClaimsOfCellNext
  <2>2. CASE <<s, k>> \notin C
    <3>1. UNCHANGED <<HoldersOf(s, k), BuyersOf(s, k), QuotasOf(s, k)>>
          BY <1>1, <2>2 DEF HoldersOf, BuyersOf, QuotasOf, HeldHolds, ConfirmedHolds, Owns, Block
    <3> QED BY <2>2, <3>1, Unclaimed
  <2> QED BY <2>1, <2>2
<1>4. Market!Grant(C, {})  BY <1>3, Granted
<1>5. Market!GiveBack("sold", {h})  BY <1>2, <1>4 DEF Market!GiveBack
<1> QED BY <1>5 DEF Market!Next

\* Rows that appear for a counter are cells it takes ...
LEMMA AllocateTakes ==
    ASSUME IInv, NEW c \in Counters, NEW S \in SUBSET Seats, NEW m \in Journeys,
           AllocateQuota(c, S, m)
    PROVE  Market!Next
<1>1. m \subseteq Segments /\ m # {}  BY JourneyType
<1>2. Block(S, m) # {} /\ Block(S, m) \in SUBSET Market!Cells
  BY BlockOfCells DEF AllocateQuota
<1>3. \A cell \in Block(S, m) : Rights[cell] = {}
  BY <1>1, FreeCellsUnclaimed DEF AllocateQuota, Block, Rights
<1>4. ASSUME NEW s \in Seats, NEW k \in Segments
      PROVE  ClaimsOn(s, k)' = IF <<s, k>> \in Block(S, m) THEN {Market!Quota(c)} ELSE ClaimsOn(s, k)
  <2>1. status' = status /\ items' = items /\ mask' = mask /\ allocated' = allocated \cup QuotaOf(c, S, m)
        BY DEF AllocateQuota, holdVars
  <2>2. HoldersOf(s, k)' = HoldersOf(s, k) /\ BuyersOf(s, k)' = BuyersOf(s, k)
        BY <2>1 DEF HoldersOf, BuyersOf, HeldHolds, ConfirmedHolds, Owns
  <2>3. CASE <<s, k>> \in Block(S, m)
    <3>1. ClaimsOn(s, k) = {}
          BY <1>1, <2>3, FreeCellsUnclaimed DEF AllocateQuota, Block
    <3>2. HoldersOf(s, k) = {} /\ BuyersOf(s, k) = {} /\ QuotasOf(s, k) = {}
          BY <3>1, ClaimsOfCell
    <3>3. QuotasOf(s, k)' = {QuotaRow(c, s, m)}
          BY <2>1, <2>3, <3>2 DEF QuotasOf, QuotaOf, QuotaRow, Block
    <3>4. QuotaRow(c, s, m).counter = c  BY DEF QuotaRow
    <3> QED BY <2>2, <2>3, <3>2, <3>3, <3>4, ClaimsOfCellNext
  <2>4. CASE <<s, k>> \notin Block(S, m)
    <3>1. QuotasOf(s, k)' = QuotasOf(s, k)
          BY <2>1, <2>4 DEF QuotasOf, QuotaOf, QuotaRow, Block
    <3> QED BY <2>2, <2>4, <3>1, Unclaimed
  <2> QED BY <2>3, <2>4
<1>5. Market!Grant(Block(S, m), {Market!Quota(c)})  BY <1>4, Granted
<1>6. Market!Quota(c) \in Market!Claims /\ Market!Quota(c).kind = "quota"
  BY DEF Market!Quota, Market!Claims
<1>7. Market!Take(Market!Quota(c), Block(S, m))
  BY <1>2, <1>3, <1>5, <1>6 DEF Market!Take, Rights
<1> QED BY <1>2, <1>6, <1>7 DEF Market!Next

\* Rows of a counter are alone on their cells, so they leave one by one.
LEMMA QuotaLeaves ==
    ASSUME IInv, NEW c \in Counters, NEW S \in SUBSET Seats, NEW m \in Journeys,
           QuotaOf(c, S, m) \subseteq allocated,
           allocated' = allocated \ QuotaOf(c, S, m),
           NEW s \in Seats, NEW k \in Segments
    PROVE  /\ <<s, k>> \in Block(S, m) =>
                 /\ HoldersOf(s, k) = {} /\ BuyersOf(s, k) = {}
                 /\ QuotasOf(s, k)' = {}
           /\ <<s, k>> \notin Block(S, m) => QuotasOf(s, k)' = QuotasOf(s, k)
<1>1. ASSUME <<s, k>> \in Block(S, m)
      PROVE  HoldersOf(s, k) = {} /\ BuyersOf(s, k) = {} /\ QuotasOf(s, k)' = {}
  <2>1. QuotaRow(c, s, m) \in QuotasOf(s, k)
        BY <1>1 DEF QuotasOf, QuotaOf, QuotaRow, Block
  <2>2. HoldersOf(s, k) = {} /\ BuyersOf(s, k) = {} /\ QuotasOf(s, k) = {QuotaRow(c, s, m)}
        BY <2>1, OneClaim
  <2>3. QuotaRow(c, s, m) \in QuotaOf(c, S, m)  BY <1>1 DEF QuotaOf, Block
  <2>4. QuotasOf(s, k)' \subseteq QuotasOf(s, k) \ QuotaOf(c, S, m)  BY DEF QuotasOf
  <2> QED BY <2>2, <2>3, <2>4
<1>2. ASSUME <<s, k>> \notin Block(S, m) PROVE QuotasOf(s, k)' = QuotasOf(s, k)
  BY <1>2 DEF QuotasOf, QuotaOf, QuotaRow, Block
<1> QED BY <1>1, <1>2

\* ... cells it returns ...
LEMMA ReleaseReturns ==
    ASSUME IInv, NEW c \in Counters, NEW S \in SUBSET Seats, NEW m \in Journeys,
           ReleaseQuota(c, S, m)
    PROVE  Market!Next
<1> DEFINE mine == {s \in S : QuotaRow(c, s, m) \in allocated}
<1>1. /\ mine \in SUBSET Seats /\ QuotaOf(c, mine, m) \subseteq allocated
      /\ allocated' = allocated \ QuotaOf(c, mine, m)
      /\ status' = status /\ items' = items /\ mask' = mask
  BY DEF ReleaseQuota, QuotaOf, holdVars
<1> HIDE DEF mine
<1>2. Block(mine, m) \subseteq Market!CellsOf(Market!Quota(c)) /\ Block(mine, m) \in SUBSET Market!Cells
  BY <1>1, CellsOfQuota, BlockOfCells
<1>3. ASSUME NEW s \in Seats, NEW k \in Segments
      PROVE  ClaimsOn(s, k)' = IF <<s, k>> \in Block(mine, m) THEN {} ELSE ClaimsOn(s, k)
  <2>1. HoldersOf(s, k)' = HoldersOf(s, k) /\ BuyersOf(s, k)' = BuyersOf(s, k)
        BY <1>1 DEF HoldersOf, BuyersOf, HeldHolds, ConfirmedHolds, Owns
  <2>2. CASE <<s, k>> \in Block(mine, m)
    <3>1. HoldersOf(s, k) = {} /\ BuyersOf(s, k) = {} /\ QuotasOf(s, k)' = {}
          BY <1>1, <2>2, QuotaLeaves
    <3> QED BY <2>1, <2>2, <3>1, ClaimsOfCellNext
  <2>3. CASE <<s, k>> \notin Block(mine, m)
    <3>1. QuotasOf(s, k)' = QuotasOf(s, k)  BY <1>1, <2>3, QuotaLeaves
    <3> QED BY <2>1, <2>3, <3>1, Unclaimed
  <2> QED BY <2>2, <2>3
<1>4. Market!Grant(Block(mine, m), {})  BY <1>3, Granted
<1>5. Market!CounterReturns(c, Block(mine, m))  BY <1>2, <1>4 DEF Market!CounterReturns
<1> QED BY <1>2, <1>5 DEF Market!Next

\* ... or sells.
LEMMA SellSells ==
    ASSUME IInv, NEW c \in Counters, NEW h \in Holds, NEW S \in SUBSET Seats,
           NEW m \in Journeys, SellQuota(c, h, S, m)
    PROVE  Market!Next
<1>1. /\ \A g \in Holds : status'[g] = IF g = h THEN "CONFIRMED" ELSE status[g]
      /\ \A g \in Holds : items'[g] = IF g = h THEN S ELSE items[g]
      /\ \A g \in Holds : mask'[g] = IF g = h THEN m ELSE mask[g]
      /\ status[h] = "NONE" /\ S # {} /\ QuotaOf(c, S, m) \subseteq allocated
      /\ allocated' = allocated \ QuotaOf(c, S, m)
  BY DEF IInv, TypeOK, SellQuota, NewHold
<1>2. /\ Block(S, m) \subseteq Market!CellsOf(Market!Quota(c))
      /\ Block(S, m) # {} /\ Block(S, m) \in SUBSET Market!Cells
  BY <1>1, CellsOfQuota, BlockOfCells
<1>3. Market!OwnsNothing(h)
  BY <1>1, CellsOfHold DEF Market!OwnsNothing
<1>4. ASSUME NEW s \in Seats, NEW k \in Segments
      PROVE  ClaimsOn(s, k)' = IF <<s, k>> \in Block(S, m) THEN {Market!Sold(h)} ELSE ClaimsOn(s, k)
  <2>1. CASE <<s, k>> \in Block(S, m)
    <3>1. HoldersOf(s, k) = {} /\ BuyersOf(s, k) = {} /\ QuotasOf(s, k)' = {}
          BY <1>1, <2>1, QuotaLeaves
    <3>2. HoldersOf(s, k)' = {}
          BY <1>1, <3>1 DEF HoldersOf, HeldHolds, Owns
    <3>3. BuyersOf(s, k)' = {h}
          BY <1>1, <2>1, <3>1 DEF BuyersOf, ConfirmedHolds, Owns, Block
    <3> QED BY <2>1, <3>1, <3>2, <3>3, ClaimsOfCellNext
  <2>2. CASE <<s, k>> \notin Block(S, m)
    <3>1. QuotasOf(s, k)' = QuotasOf(s, k)  BY <1>1, <2>2, QuotaLeaves
    <3>2. UNCHANGED <<HoldersOf(s, k), BuyersOf(s, k)>>
          BY <1>1, <2>2 DEF HoldersOf, BuyersOf, HeldHolds, ConfirmedHolds, Owns, Block
    <3> QED BY <2>2, <3>1, <3>2, Unclaimed
  <2> QED BY <2>1, <2>2
<1>5. Market!Grant(Block(S, m), {Market!Sold(h)})  BY <1>4, Granted
<1>6. Market!CounterSells(c, h, Block(S, m))
  BY <1>2, <1>3, <1>5 DEF Market!CounterSells
<1> QED BY <1>2, <1>6 DEF Market!Next

LEMMA MarketStep == IInv /\ [Next]_vars => [Market!Next]_Rights
<1> SUFFICES ASSUME IInv, [Next]_vars PROVE [Market!Next]_Rights
    OBVIOUS
<1>1. ASSUME NEW h \in Holds, NEW S \in SUBSET Seats, NEW m \in Journeys,
             AcquireHold(h, S, m)
      PROVE  [Market!Next]_Rights
  BY <1>1, AcquireTakes
<1>2. ASSUME NEW h \in Holds, ConfirmHold(h) PROVE [Market!Next]_Rights
  BY <1>2, ConfirmBuys
<1>3. ASSUME NEW h \in Holds, ReleaseHold(h) PROVE [Market!Next]_Rights
  BY <1>3, HeldGivesBack DEF ReleaseHold
<1>4. ASSUME NEW H \in SUBSET Holds, SweepExpired(H) PROVE [Market!Next]_Rights
  BY <1>4, HeldGivesBack DEF SweepExpired
<1>5. ASSUME NEW h \in Holds, ReleaseConfirmed(h) PROVE [Market!Next]_Rights
  BY <1>5, SoldGivesBack
<1>6. ASSUME UNCHANGED <<holdVars, allocated>> PROVE [Market!Next]_Rights
  <2>1. ASSUME NEW s \in Seats, NEW k \in Segments PROVE ClaimsOn(s, k)' = ClaimsOn(s, k)
    <3>1. UNCHANGED <<HoldersOf(s, k), BuyersOf(s, k), QuotasOf(s, k)>>
          BY <1>6 DEF HoldersOf, BuyersOf, QuotasOf, HeldHolds, ConfirmedHolds, Owns, holdVars
    <3> QED BY <3>1, Unclaimed
  <2> QED BY <2>1 DEF Rights
<1>7. ASSUME NEW c \in Counters, NEW S \in SUBSET Seats, NEW m \in Journeys,
             AllocateQuota(c, S, m)
      PROVE  [Market!Next]_Rights
  BY <1>7, AllocateTakes
<1>8. ASSUME NEW c \in Counters, NEW S \in SUBSET Seats, NEW m \in Journeys,
             ReleaseQuota(c, S, m)
      PROVE  [Market!Next]_Rights
  BY <1>8, ReleaseReturns
<1>9. ASSUME NEW c \in Counters, NEW h \in Holds, NEW S \in SUBSET Seats,
             NEW m \in Journeys, SellQuota(c, h, S, m)
      PROVE  [Market!Next]_Rights
  BY <1>9, SellSells
<1>10. ASSUME NEW h \in Holds, DeadlinePasses(h) PROVE [Market!Next]_Rights
  BY <1>6, <1>10 DEF DeadlinePasses
<1>11. CASE UNCHANGED vars
  BY <1>6, <1>11 DEF vars
<1> QED BY <1>1, <1>2, <1>3, <1>4, <1>5, <1>7, <1>8, <1>9, <1>10, <1>11 DEF Next

\* inventory-service keeps the promise of SeatMarket: cells change hands one
\* owner at a time, all of an owner's cells together, and nobody but the owner
\* moves them, whatever transactions of store.go and quota.go interleave.
THEOREM InventoryIsASeatMarket == Spec => ImplementsMarket
<1>1. IInv /\ [Next]_vars => [Market!Next]_[cell \in Seats \X Segments |-> ClaimsOn(cell[1], cell[2])]
  BY MarketStep DEF Rights
<1> QED BY <1>1, MarketInit, SpecOwnership, PTL DEF Spec, ImplementsMarket, Market!Spec
=============================================================================
