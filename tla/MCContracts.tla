---------------------------- MODULE MCContracts ----------------------------
(* Two instances that share a run and nothing else.                         *)
(*   negotiation: two projects competing for names and symbols, two         *)
(*     accounts that may each own a project or bid on it, one auditor and   *)
(*     one set of terms to bid;                                             *)
(*   tokens: two accounts, one of them the oracle; three outcome slots, so  *)
(*     that partial partitions exist, and a report that gives them 0, 1 and *)
(*     2 thirds, so that payouts are rounded.                               *)
EXTENDS Negotiation, ConditionalTokens, TLC

CONSTANTS ann, ben, carol, p1, p2, s1, s2, t1, u1, alice, bob, c1

VARIABLE part   \* the contracts at work

OracleIsAlice == [c \in Condition |-> alice]
Uneven == {[s \in Slot |-> s - 1]}

MCSymmetry ==
  Permutations(Party) \cup Permutations(Name) \cup Permutations(Symbol)

ContractsInit == part \in {"negotiation", "tokens"} /\ Init /\ CollateralInit

ContractsNext ==
  \/ part = "negotiation" /\ Next /\ UNCHANGED <<part, daiVars, ctVars>>
  \/ part = "tokens" /\ ConditionalTokensNext /\ UNCHANGED <<part, vars>>

ContractsSpec == ContractsInit /\ [][ContractsNext]_<<part, vars, daiVars, ctVars>>
=============================================================================
