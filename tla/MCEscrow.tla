------------------------------ MODULE MCEscrow ------------------------------
(* Two funders, the wallets of the bidder and of the auditor (either may have *)
(* the auditor's page open), and two milestones of budget 1.                  *)
EXTENDS Escrow, TLC

CONSTANTS fay, gil, bid, aud, own, m1, m2

OracleIsHolder == [c \in Condition |-> Holder]
UnitBudget == [c \in Condition |-> 1]

FunderSymmetry == Permutations(Funder)
=============================================================================
