------------------------------- MODULE Ledger -------------------------------
(***************************************************************************)
(* The journals commerce-service posts for online sales (commerce.go and   *)
(* cancellation.go).  A journal is a function from account codes to        *)
(* amounts, debits positive and credits negative, and the ledger is the    *)
(* sum of the journals posted to it; the parties of a line are left out.   *)
(* Every total is at least the service fee, so Go's truncating division    *)
(* and \div agree on the amounts below.                                    *)
(***************************************************************************)
EXTENDS Integers

CONSTANT ServiceFee        \* the platform's fee per booking (5000 poisha)

ASSUME LedgerConstants == ServiceFee \in Nat

\* 1101 Gateway Clearing, 2101 Operator Payable, 2201 Refund Payable,
\* 4101 Platform Revenue, 5102 Gateway Fee Expense.
Accounts == {"1101", "2101", "2201", "4101", "5102"}

Journals     == [Accounts -> Int]
EmptyJournal == [a \in Accounts |-> 0]

\* finance.assert_journal_balanced, and finance.trial_balance of a ledger.
Variance(j) == j["1101"] + j["2101"] + j["2201"] + j["4101"] + j["5102"]

Posted(ledger, j) == [a \in Accounts |-> ledger[a] + j[a]]

Commission(total)    == (total - ServiceFee) \div 10
OperatorShare(total) == total - ServiceFee - Commission(total)
PlatformShare(total) == Commission(total) + ServiceFee

\* An online sale: the provider keeps 1.5% of the gross.
GatewayFee(gross) == (gross * 15) \div 1000
GatewayPostings(gross) ==
    [EmptyJournal EXCEPT !["1101"] = gross - GatewayFee(gross),
                         !["5102"] = GatewayFee(gross),
                         !["2101"] = -OperatorShare(gross),
                         !["4101"] = -PlatformShare(gross)]

\* A changed departure: the old split is reversed, the new one applied, and
\* the difference is collected by the gateway or owed to the passenger.
ReschedulePostings(old, new) ==
    [EmptyJournal EXCEPT !["2101"] = OperatorShare(old) - OperatorShare(new),
                         !["4101"] = PlatformShare(old) - PlatformShare(new),
                         !["1101"] = IF new > old THEN new - old ELSE 0,
                         !["2201"] = IF new < old THEN new - old ELSE 0]

\* Mutant of CancellationPostings: the operator's share is not clawed back.
CancellationFromPlatform(gross, refund) ==
    [EmptyJournal EXCEPT !["4101"] = refund - (refund * OperatorShare(gross)) \div gross,
                         !["2201"] = -refund]

\* A cancellation: the refund is taken back from operator and platform in the
\* proportion in which the sale paid them.
CancellationPostings(gross, refund) ==
    LET operatorRefund == (refund * OperatorShare(gross)) \div gross
    IN  [EmptyJournal EXCEPT !["2101"] = operatorRefund,
                             !["4101"] = refund - operatorRefund,
                             !["2201"] = -refund]

\* The refund is paid out.
RefundPostings(amount) ==
    [EmptyJournal EXCEPT !["2201"] = amount, !["1101"] = -amount]
=============================================================================
