------------------------------ MODULE Finance ------------------------------
(***************************************************************************)
(* Where the platform owes an account: the operator's settlements          *)
(* (Settlement), the agent's wallet (AgentDesk) and the sign-in of the     *)
(* staff who look after them (StaffSession).  They share no state here:    *)
(* the behaviours of the whole are those in which each part goes its way.  *)
(***************************************************************************)
EXTENDS Settlement, AgentDesk, StaffSession

FinanceSpec == Spec /\ AgentSpec /\ StaffSpec

\* The types of the three parts (CalculateSettlement and after, channels.go; wallet.go;
\* lib/staff.ts and mfa.go).
FinanceTypeOK == TypeOK /\ AgentTypeOK /\ StaffTypeOK
=============================================================================
