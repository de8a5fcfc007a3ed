----------------------------- MODULE MCFinance -----------------------------
(* Instances for TLC of the two places where the platform owes an account,  *)
(* the operator's settlements (Settlement) and the agent's wallet           *)
(* (AgentDesk), and of the sign-in of the staff who look after them         *)
(* (StaffSession).  They share no state here; a behaviour is about one.     *)
(*                                                                          *)
(* Settlement: two windows of f1, one of f2, one booking, one period.       *)
(* AgentDesk: two clerks, one of whom may also approve, on credit for one   *)
(* ticket of one seat.  StaffSession: two tabs, one of which stays at the   *)
(* switcher, and an employee without any workplace.                         *)
EXTENDS Finance, TLC

CONSTANTS b1, w1, w2, w3, f1, f2,
          k1, k2, r1, r2, q1, s1, s2,
          t1, t2, place, switcher

VARIABLE plot

OneBooking  == {b1}
Windows     == {w1, w2, w3}
TwoStaff    == {f1, f2}
SignedIn    == w1 :> f1 @@ w2 :> f1 @@ w3 :> f2
DayOf1      == b1 :> 1
OnePeriod   == {<<1, 1>>}
NoneOrHalf  == {0, 525}

TwoClerks    == {k1, k2}
TwoApprovers == {k1, f1}
TwoSales     == {r1, r2}
OneRecharge  == {q1}
TwoSeats     == {s1, s2}

TwoTabs  == {t1, t2}
OnePlace == {place}

\* Seats and sales are alike.
Alike == Permutations(TwoSeats) \cup Permutations(TwoSales)

MCInit ==
    /\ plot \in {"settlement", "wallet", "sign-in"}
    /\ Init /\ AgentInit /\ StaffInit
    /\ plot # "sign-in" => ~ account.on

\* The clerk who may approve asks for the money, and nothing is asked for or approved
\* once a sale has been ticketed.
WalletPlot ==
    /\ AgentNext
    /\ recharge' # recharge => /\ recharge'[q1].by = k1
                               /\ \A r \in TwoSales : made[r] # "TICKETED"

\* The second session ends by logout alone, and the second tab stays at the switcher
\* and only signs in and out.
SignInPlot ==
    /\ StaffNext
    /\ Len(signIn) = 2 => signIn'[2].live = signIn[2].live \/ req' # req
    /\ tab'[t2].to = switcher
    /\ req'[t2].at # "idle" => req'[t2].what \in {"me", "login", "logout"}

\* Of the two windows of f1, one is for calculating and reviewing and the other for
\* approving and paying; f2 does either in one window.
SettlementPlot ==
    /\ Next
    /\ approving'[w1] = Idle /\ shown'[w1].status \notin {"APPROVED", "PAID"}
    /\ shown'[w2].status # "CALCULATED"

MCNext ==
    /\ UNCHANGED plot
    /\ \/ plot = "settlement" /\ SettlementPlot /\ UNCHANGED <<agentVars, staffVars>>
       \/ plot = "wallet" /\ WalletPlot /\ UNCHANGED <<vars, staffVars>>
       \/ plot = "sign-in" /\ SignInPlot /\ UNCHANGED <<vars, agentVars>>

MCSpec == MCInit /\ [][MCNext]_<<vars, agentVars, staffVars, plot>>
=============================================================================
