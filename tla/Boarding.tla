------------------------------ MODULE Boarding ------------------------------
(***************************************************************************)
(* Boarding one departure: the scanners of the crew (apps/web/app/driver,  *)
(* pages scan and manifest) and handleScan of httpapi/driver.go.           *)
(*                                                                         *)
(* A scanner sends each scan under a client_ref it mints first.  Without a *)
(* line it decides from its cached manifest and queues the scan; the queue *)
(* is posted again, one scan at a time, when the line comes back, when the *)
(* page is opened or its trip changes, and at "Send now", so two flushes   *)
(* may run at once.  A request whose line is cut (NoLine) runs no further  *)
(* in the server, whichever of its statements it had reached.              *)
(***************************************************************************)
EXTENDS Queues, SequencesExt, FiniteSetsExt

CONSTANTS
    Devices, Scans, Conns,
    Tickets,        \* natural numbers, in the order of their seats
    Pnrs,
    PnrOf,          \* the booking reference of each ticket
    OnTrip          \* the tickets for this departure

ASSUME BoardingConstants ==
    /\ Tickets \subseteq Nat \ {0}
    /\ PnrOf \in [Tickets -> Pnrs]
    /\ OnTrip \subseteq Tickets

VARIABLES
    ticket,     \* ticket[t]: commerce.tickets.status
    row,        \* row[r]: the verdict in ops.boarding_scans
    scan,       \* scan[r]: the payload, once the device has minted r
    provisional,    \* the scans the helper was told are not confirmed yet
    manifest,   \* manifest[d]: the passenger list the device last loaded
    queue,      \* queue[d]: jatra.scan.queue
    conn,       \* conn[c]: the request that connection c carries
    marked      \* history: the tickets that scan r has marked BOARDED

records == <<ticket, row, marked>>
device == <<scan, provisional, manifest, queue>>
boardingVars == <<records, device, conn>>

-----------------------------------------------------------------------------
NoRequest    == [kind |-> "idle"]
Unread  == [pnr |-> "none"]
AnySeat == 0
NoVerdict == [result |-> "none", ticket |-> 0]

ScanResults  == {"BOARDED", "ALREADY_BOARDED", "NOT_FOUND", "WRONG_TRIP",
             "CANCELLED", "BAD_TOKEN"}
Verdicts == [result : ScanResults, ticket : Tickets \cup {0}]
Payloads == [pnr : Pnrs, seat : Tickets \cup {AnySeat}, by : Devices]
Lists    == [listed : SUBSET Tickets, boarded : SUBSET Tickets]
ScanRequests == [kind : {"scan", "flush"}, from : Devices, todo : Seq(Scans),
             done : SUBSET Scans, at : {"prior", "find", "mark", "record", "answer"},
             verdict : Verdicts \cup {NoVerdict},
             ok : BOOLEAN]     \* a flush looks at the status alone: 200 or not

\* The type of tickets, scans and the devices of the crew (driver.go, scan/page.tsx).
BoardingTypeOK ==
    /\ ticket \in [Tickets -> {"VALID", "BOARDED", "CANCELLED"}]
    /\ row \in [Scans -> Verdicts \cup {NoVerdict}]
    /\ scan \in [Scans -> Payloads \cup {Unread}]
    /\ provisional \subseteq Scans
    /\ manifest \in [Devices -> Lists]
    /\ queue \in [Devices -> Seq(Scans)]
    /\ conn \in [Conns -> ScanRequests \cup {NoRequest}]
    /\ marked \in [Scans -> SUBSET Tickets]

BoardingInit ==
    /\ ticket = [t \in Tickets |-> "VALID"]
    /\ row = [r \in Scans |-> NoVerdict]
    /\ scan = [r \in Scans |-> Unread]
    /\ provisional = {}
    /\ manifest = [d \in Devices |-> [listed |-> {}, boarded |-> {}]]
    /\ queue = [d \in Devices |-> <<>>]
    /\ conn = [c \in Conns |-> NoRequest]
    /\ marked = [r \in Scans |-> {}]

-----------------------------------------------------------------------------
(* The manifest                                                             *)

\* handleManifest lists the seats of the bookings that are still ticketed.
ServerList ==
    [listed  |-> {t \in OnTrip : ticket[t] # "CANCELLED"},
     boarded |-> {t \in OnTrip : ticket[t] = "BOARDED"}]

\* Both pages keep the list they load in jatra.manifest.<trip>, and show that
\* copy when loading fails.
LoadManifest(d) ==
    /\ manifest' = [manifest EXCEPT ![d] = ServerList]
    /\ UNCHANGED <<records, scan, provisional, queue, conn>>

\* loadManifest() after an answer: it may fail, and the old list stays.
ReloadList(d) == manifest' \in {manifest, [manifest EXCEPT ![d] = ServerList]}

-----------------------------------------------------------------------------
(* The scanner                                                              *)

Request(k, d, rs) == [kind |-> k, from |-> d, todo |-> rs, done |-> {},
                      at |-> "prior", verdict |-> NoVerdict, ok |-> FALSE]

\* Mutant of Scan: the form may be submitted with nothing in it.
ScanBlank(d, c, r, p, seat) ==
    /\ conn[c] = NoRequest /\ scan[r] = Unread
    /\ scan' = [scan EXCEPT ![r] = [pnr |-> "", seat |-> seat, by |-> d]]
    /\ conn' = [conn EXCEPT ![c] = Request("scan", d, <<r>>)]
    /\ UNCHANGED <<records, provisional, manifest, queue>>

\* The form is submitted with a booking reference and, perhaps, a seat.
Scan(d, c, r, p, seat) ==
    /\ conn[c] = NoRequest /\ scan[r] = Unread
    /\ scan' = [scan EXCEPT ![r] = [pnr |-> p, seat |-> seat, by |-> d]]
    /\ conn' = [conn EXCEPT ![c] = Request("scan", d, <<r>>)]
    /\ UNCHANGED <<records, provisional, manifest, queue>>

\* 200 or a refusal: the verdict is shown and the list is loaded again.
VerdictShown(c) ==
    /\ conn[c].kind = "scan" /\ conn[c].at = "answer"
    /\ ReloadList(conn[c].from)
    /\ conn' = [conn EXCEPT ![c] = NoRequest]
    /\ UNCHANGED <<records, scan, provisional, queue>>

\* The passenger the device finds in its list: the first that matches.
Matches(d, r) == {t \in manifest[d].listed :
    PnrOf[t] = scan[r].pnr /\ scan[r].seat \in {AnySeat, t}}
LocallyBoards(d, r) ==
    Matches(d, r) # {} /\ Min(Matches(d, r)) \notin manifest[d].boarded

\* The line is cut under a scan: only a local BOARDED is queued.
NoLineScanning(c) ==
    LET d == conn[c].from
        r == Head(conn[c].todo)
    IN  /\ conn[c].kind = "scan"
        /\ IF LocallyBoards(d, r)
           THEN /\ queue' = [queue EXCEPT ![d] = Append(@, r)]
                /\ provisional' = provisional \cup {r}
           ELSE UNCHANGED <<queue, provisional>>
        /\ conn' = [conn EXCEPT ![c] = NoRequest]
        /\ UNCHANGED <<records, scan, manifest>>

\* Every trigger of flush() starts one more, whatever is under way.
FlushQueue(d, c) ==
    /\ conn[c] = NoRequest /\ queue[d] # <<>>
    /\ conn' = [conn EXCEPT ![c] = Request("flush", d, queue[d])]
    /\ UNCHANGED <<records, device>>

Flushing(c) == conn[c].kind = "flush" /\ conn[c].todo # <<>>
NextScan(c, settled) ==
    conn' = [conn EXCEPT ![c].todo = Tail(@), ![c].at = "prior", ![c].verdict = NoVerdict,
                         ![c].ok = FALSE, ![c].done = @ \cup settled]

\* spost returned: a 200 settles the scan, a refusal is caught and dropped.
FlushedOne(c) ==
    /\ Flushing(c) /\ conn[c].at = "answer"
    /\ NextScan(c, IF conn[c].ok THEN {Head(conn[c].todo)} ELSE {})
    /\ UNCHANGED <<records, device>>

\* The line is cut under a flush: the loop goes on with the next scan.
NoLineFlushing(c) ==
    /\ Flushing(c)
    /\ NextScan(c, {})
    /\ UNCHANGED <<records, device>>

\* Mutant of FlushEnds: the queue read at the start is written back.
FlushEndsStale(c) ==
    LET d == conn[c].from IN
    /\ conn[c].kind = "flush" /\ conn[c].todo = <<>>
    /\ queue' = [queue EXCEPT ![d] = <<>>]
    /\ IF conn[c].done # {} THEN ReloadList(d) ELSE UNCHANGED manifest
    /\ conn' = [conn EXCEPT ![c] = NoRequest]
    /\ UNCHANGED <<records, scan, provisional>>

\* The settled scans leave the queue as it is now, not as it was.
FlushEnds(c) ==
    LET d == conn[c].from IN
    /\ conn[c].kind = "flush" /\ conn[c].todo = <<>>
    /\ queue' = [queue EXCEPT ![d] = Without(@, conn[c].done)]
    /\ IF conn[c].done # {} THEN ReloadList(d) ELSE UNCHANGED manifest
    /\ conn' = [conn EXCEPT ![c] = NoRequest]
    /\ UNCHANGED <<records, scan, provisional>>

-----------------------------------------------------------------------------
(* handleScan, one statement at a time                                      *)

AtStep(c, label) == conn[c] # NoRequest /\ conn[c].todo # <<>> /\ conn[c].at = label
CurrentScan(c)   == Head(conn[c].todo)
Verdict(res, t) == [result |-> res, ticket |-> t]
GoesOn(c, label, v) == conn' = [conn EXCEPT ![c].at = label, ![c].verdict = v]
Respond(c, ok) ==
    conn' = [conn EXCEPT ![c].at = "answer", ![c].verdict = NoVerdict,
                         ![c].ok = ok /\ conn[c].kind = "flush"]

\* A scan on record is answered 200 with its first verdict.
Prior(c) ==
    /\ AtStep(c, "prior")
    /\ IF row[CurrentScan(c)] # NoVerdict
       THEN Respond(c, TRUE)
       ELSE GoesOn(c, "find", NoVerdict)
    /\ UNCHANGED <<records, device>>

\* The ticket of this seat, or the first one of the booking, those still to
\* board before the others.
TicketsFor(s) == {t \in Tickets : PnrOf[t] = s.pnr /\ s.seat \in {AnySeat, t}}
FirstTicket(S) ==
    LET waiting == {t \in S : ticket[t] = "VALID"}
    IN  IF waiting # {} THEN Min(waiting) ELSE Min(S)

Judge(t) ==
    CASE t \notin OnTrip            -> "WRONG_TRIP"
      [] ticket[t] = "CANCELLED"    -> "CANCELLED"
      [] ticket[t] = "BOARDED"      -> "ALREADY_BOARDED"
      [] OTHER                      -> "BOARDED"

\* validateScan up to the UPDATE; a query that fails reads as BAD_TOKEN.
Find(c) ==
    LET found == TicketsFor(scan[CurrentScan(c)])
        t     == FirstTicket(found)
    IN  /\ AtStep(c, "find")
        /\ \/ GoesOn(c, "record", Verdict("BAD_TOKEN", 0))
           \/ found = {} /\ GoesOn(c, "record", Verdict("NOT_FOUND", 0))
           \/ /\ found # {}
              /\ GoesOn(c, IF Judge(t) = "BOARDED" THEN "mark" ELSE "record",
                      Verdict(Judge(t), t))
        /\ UNCHANGED <<records, device>>

\* Mutant of Mark: the status is set without looking at it again.
MarkAnyway(c) ==
    LET t == conn[c].verdict.ticket IN
    /\ AtStep(c, "mark")
    /\ ticket' = [ticket EXCEPT ![t] = "BOARDED"]
    /\ marked' = [marked EXCEPT ![CurrentScan(c)] = @ \cup {t}]
    /\ GoesOn(c, "record", conn[c].verdict)
    /\ UNCHANGED <<row, device>>

\* UPDATE ... WHERE status = 'VALID'.  No row touched, or an error, reads as
\* ALREADY_BOARDED.
Mark(c) ==
    LET t == conn[c].verdict.ticket IN
    /\ AtStep(c, "mark")
    /\ \/ /\ ticket[t] = "VALID"
          /\ ticket' = [ticket EXCEPT ![t] = "BOARDED"]
          /\ marked' = [marked EXCEPT ![CurrentScan(c)] = @ \cup {t}]
          /\ GoesOn(c, "record", conn[c].verdict)
       \/ /\ GoesOn(c, "record", Verdict("ALREADY_BOARDED", t))
          /\ UNCHANGED <<ticket, marked>>
    /\ UNCHANGED <<row, device>>

\* INSERT ... ON CONFLICT DO NOTHING; a failure is only logged.
RecordScan(c) ==
    /\ AtStep(c, "record")
    /\ \/ row' = [row EXCEPT ![CurrentScan(c)] = IF @ = NoVerdict THEN conn[c].verdict ELSE @]
       \/ UNCHANGED row
    /\ Respond(c, conn[c].verdict.result = "BOARDED")
    /\ UNCHANGED <<ticket, marked, device>>

\* The booking is cancelled: CancelBooking sets all its tickets.
CancelBooking(p) ==
    /\ \E t \in Tickets : PnrOf[t] = p /\ ticket[t] # "CANCELLED"
    /\ ticket' = [t \in Tickets |-> IF PnrOf[t] = p THEN "CANCELLED" ELSE ticket[t]]
    /\ UNCHANGED <<row, marked, device, conn>>

-----------------------------------------------------------------------------
BoardingNext ==
    \/ \E d \in Devices : LoadManifest(d)
    \/ \E d \in Devices, c \in Conns : FlushQueue(d, c)
    \/ \E d \in Devices, c \in Conns, r \in Scans, p \in Pnrs :
          \E seat \in {t \in Tickets : PnrOf[t] = p} \cup {AnySeat} : Scan(d, c, r, p, seat)
    \/ \E c \in Conns :
          \/ VerdictShown(c) \/ NoLineScanning(c)
          \/ FlushedOne(c) \/ NoLineFlushing(c) \/ FlushEnds(c)
          \/ Prior(c) \/ Find(c) \/ Mark(c) \/ RecordScan(c)
    \/ \E p \in Pnrs : CancelBooking(p)

BoardingSpec == BoardingInit /\ [][BoardingNext]_boardingVars

-----------------------------------------------------------------------------
\* Two devices that scan one ticket in the same second make one boarding: no
\* two scans have marked, nor are on record as having boarded, the same ticket.
OneBoardingPerTicket ==
    \A q, r \in Scans : q # r =>
        /\ marked[q] \cap marked[r] = {}
        /\ row[q].result = "BOARDED" /\ row[r].result = "BOARDED"
              => row[q].ticket # row[r].ticket

\* A passenger let in without a line is not forgotten: their scan is in the
\* queue until the server has it on record or has marked a ticket for it,
\* whatever is scanned, cut or flushed twice in the meantime.
NoBoardingForgotten ==
    \A r \in Scans : r \in provisional =>
        \/ \E d \in Devices : Contains(queue[d], r)
        \/ row[r] # NoVerdict \/ marked[r] # {}

-----------------------------------------------------------------------------
\* driver.go:21-23: a queue is flushed repeatedly "without double-marking
\* anyone": one scan lets at most one passenger in.
OneScanOneTicket == \A r \in Scans : Cardinality(marked[r]) <= 1
=============================================================================
