----------------------------- MODULE MCTripOps -----------------------------
(* Instances of TripOps for TLC.  A behaviour has one of four plots, so     *)
(* that their states do not multiply: "desks", the crew and the office      *)
(* press at the same time and nobody watches; "watch", the office moves the *)
(* trip and loses no answer, the crew shares its position, the detector     *)
(* and the control room run without a fault and nobody acknowledges;        *)
(* "incident", the trip stands still and the crew reports; "track", it      *)
(* stands still and a passenger watches.                                    *)
EXTENDS TripOps, TLC

CONSTANTS crew, office
VARIABLE plot

TwoDesks == {crew, office}
Roles    == (crew :> "crew") @@ (office :> "office")

MCInit ==
    /\ Init
    /\ plot \in {"desks", "watch", "incident", "track"}

Sharing == (desk[crew].saw = "loading" /\ Load(crew))
           \/ Share \/ Located \/ PingLost \/ Position

MCNext ==
    /\ UNCHANGED plot
    /\ \/ /\ plot = "desks" /\ \E d \in Desks : DeskNext(d)
          /\ \A d \in Desks : desk'[d].error => req' # req \/ desk'[d].saw = "loading" \/ desk[d].error
       \/ /\ plot = "watch"
          /\ \/ Load(office) \/ (\E s \in TripStatuses : Advance(office, s))
             \/ Check(office) \/ Write(office) \/ Told(office)
             \/ trip.status \in Moving /\ Sharing
             \/ TimePasses /\ trip'.fix # "20 min" /\ (trip'.late # trip.late => trip.status \in Waiting)
             \/ ScanStarts \/ ScanLateDeparture \/ ScanGPSOffline
             \/ OpenRoom \/ Poll
       \/ plot = "incident" /\ (CrewNext \/ JobsNext \/ RoomNext)
       \/ plot = "track" /\ (Sharing \/ TrackNext \/ TimePasses)

MCSpec == MCInit /\ [][MCNext]_<<vars, plot>> /\ Fairness
=============================================================================
