------------------------- MODULE ConditionalTokens -------------------------
(***************************************************************************)
(* ConditionalToken.sol: outcome tokens backed by Dai.  A condition is a   *)
(* question put to an oracle; each of its outcome slots ends up with a     *)
(* share of the payout.  Splitting locks collateral and mints one position *)
(* per part of a partition of the slots, merging does the reverse, and     *)
(* after the oracle has reported, positions are redeemed for their share.  *)
(*                                                                         *)
(* A condition id is a hash of oracle, question and slot count, and a      *)
(* position id a hash of collateral, condition and index set (CTHelpers);  *)
(* with no collisions a position is the pair <<condition, index set>> and  *)
(* an index set a subset of Slot.  Modelled with Dai as the collateral and *)
(* parentCollectionId zero, the only values the application passes.        *)
(***************************************************************************)
EXTENDS Dai, FiniteSets, FiniteSetsExt, Functions

CONSTANTS CT,          \* the address of this contract
          Condition,   \* condition ids
          Oracle,      \* Oracle[c]: the account whose report resolves c
          Slot,        \* outcome slots of every condition
          Unprepared   \* payoutNumerators of a condition not yet prepared

ASSUME ConditionalTokensAssumption ==
  /\ CT \in Address
  /\ Oracle \in [Condition -> Address]
  /\ IsFiniteSet(Slot) /\ Cardinality(Slot) > 1
  /\ Unprepared \notin [Slot -> Nat]

VARIABLES payoutNumerators, payoutDenominator,
          positions   \* ERC1155 balances: positions[a][p]

ctVars == <<payoutNumerators, payoutDenominator, positions>>

IndexSet == {I \in SUBSET Slot : I # {} /\ I # Slot}
Position == Condition \X IndexSet

\* The type invariant: a condition is unprepared or has a numerator per slot, and
\* no balance is negative or too large for its integer.
ConditionalTokensTypeOK ==
  /\ DaiTypeOK
  /\ payoutNumerators \in [Condition -> [Slot -> Wad] \cup {Unprepared}]
  /\ payoutDenominator \in [Condition -> Wad]
  /\ positions \in [Address -> [Position -> Wad]]

ConditionalTokensInit ==
  /\ payoutNumerators = [c \in Condition |-> Unprepared]
  /\ payoutDenominator = [c \in Condition |-> 0]
  /\ positions = [a \in Address |-> [p \in Position |-> 0]]

Prepared(c) == payoutNumerators[c] # Unprepared

\* Faulty variant: a condition may be prepared again.
PrepareConditionAgain(c) ==
  /\ payoutNumerators' = [payoutNumerators EXCEPT ![c] = [s \in Slot |-> 0]]
  /\ UNCHANGED <<payoutDenominator, positions>>

\* prepareCondition: any sender, once per condition.
PrepareCondition(c) ==
  /\ ~Prepared(c)
  /\ payoutNumerators' = [payoutNumerators EXCEPT ![c] = [s \in Slot |-> 0]]
  /\ UNCHANGED <<payoutDenominator, positions>>

\* reportPayouts: the sender is part of the condition id, so only the oracle
\* reaches the condition; once, and not with all zeroes.
ReportPayouts(sender, c, payouts) ==
  LET den == SumFunctionOnSet(payouts, Slot) IN
  /\ sender = Oracle[c]
  /\ Prepared(c)
  /\ payoutDenominator[c] = 0
  /\ den \in 1..MaxUint
  /\ payoutNumerators' = [payoutNumerators EXCEPT ![c] = payouts]
  /\ payoutDenominator' = [payoutDenominator EXCEPT ![c] = den]
  /\ UNCHANGED positions

-----------------------------------------------------------------------------
(* Splitting and merging.                                                  *)

\* The loop over the partition: at least two index sets, non-empty and not
\* full, pairwise disjoint.
ValidPartition(partition) ==
  /\ Cardinality(partition) > 1
  /\ partition \subseteq IndexSet
  /\ \A I, J \in partition : I # J => I \cap J = {}

\* Account a's positions after a change by delta[I] on each index set I of c.
Adjusted(a, c, delta) ==
  [positions EXCEPT ![a] =
    [p \in Position |-> IF p[1] = c /\ p[2] \in DOMAIN delta
                        THEN positions[a][p] + delta[p[2]]
                        ELSE positions[a][p]]]

InRange(f) == \A p \in Position : f[p] \in Wad

\* splitPosition: collateral is locked when the partition covers all slots,
\* otherwise the position of the slots it covers is burnt.
SplitPosition(sender, c, partition, amount) ==
  LET whole == UNION partition
      minted == [I \in partition |-> amount]
      change == IF whole = Slot THEN minted
                ELSE [I \in partition \cup {whole} |-> IF I = whole THEN -amount ELSE amount] IN
  /\ Prepared(c)
  /\ ValidPartition(partition)
  /\ IF whole = Slot
     THEN TransferFrom(CT, sender, CT, amount)
     ELSE UNCHANGED daiVars
  /\ InRange(Adjusted(sender, c, change)[sender])
  /\ positions' = Adjusted(sender, c, change)
  /\ UNCHANGED <<payoutNumerators, payoutDenominator>>

\* mergePositions: the reverse, with collateral.transfer as the way out.
MergePositions(sender, c, partition, amount) ==
  LET whole == UNION partition
      burnt == [I \in partition |-> -amount]
      change == IF whole = Slot THEN burnt
                ELSE [I \in partition \cup {whole} |-> IF I = whole THEN amount ELSE -amount] IN
  /\ Prepared(c)
  /\ ValidPartition(partition)
  /\ IF whole = Slot
     THEN TransferFrom(CT, CT, sender, amount)
     ELSE UNCHANGED daiVars
  /\ InRange(Adjusted(sender, c, change)[sender])
  /\ positions' = Adjusted(sender, c, change)
  /\ UNCHANGED <<payoutNumerators, payoutDenominator>>

-----------------------------------------------------------------------------
(* Redemption.                                                             *)

\* The numerator of an index set: the sum over its slots.
Numerator(c, I) == SumFunctionOnSet(payoutNumerators[c], I)

\* Faulty variant: the payout is rounded up.
PayoutRoundedUp(a, c, I) ==
  (positions[a][<<c, I>>] * Numerator(c, I) + payoutDenominator[c] - 1)
    \div payoutDenominator[c]

\* The payout of a's stake in index set I of c, rounded down.
Payout(a, c, I) == (positions[a][<<c, I>>] * Numerator(c, I)) \div payoutDenominator[c]

\* redeemPositions: burns the sender's whole stake in each index set given and
\* pays the sum.  A repeated index set finds the stake gone, so they form a set.
RedeemPositions(sender, c, indexSets) ==
  LET total == SumFunctionOnSet([I \in indexSets |-> Payout(sender, c, I)], indexSets) IN
  /\ payoutDenominator[c] > 0
  /\ indexSets \subseteq IndexSet
  /\ \A I \in indexSets : positions[sender][<<c, I>>] * Numerator(c, I) <= MaxUint
  /\ IF total > 0
     THEN TransferFrom(CT, CT, sender, total)
     ELSE UNCHANGED daiVars
  /\ positions' = Adjusted(sender, c, [I \in indexSets |-> -positions[sender][<<c, I>>]])
  /\ UNCHANGED <<payoutNumerators, payoutDenominator>>

\* ERC1155 safeTransferFrom, by the owner of the stake.
SafeTransferFrom(sender, to, p, amount) ==
  LET taken == [positions EXCEPT ![sender][p] = @ - amount]
      moved == [taken EXCEPT ![to][p] = @ + amount] IN
  /\ positions[sender][p] >= amount
  /\ InRange(moved[to])
  /\ positions' = moved
  /\ UNCHANGED <<payoutNumerators, payoutDenominator>>

-----------------------------------------------------------------------------
(* The contract used by any number of accounts, each call from a User.     *)
CONSTANTS User,        \* externally owned accounts
          Spender,     \* accounts they give allowances to
          Amount,      \* amounts a call may name
          Report,      \* payout vectors an oracle may report
          MaxSupply,   \* bound: Dai minted in a run
          MaxStake,    \* bound: a stake that is still split or merged into
          MaxRedeem    \* bound: index sets named by one redemption

ASSUME CallersAssumption ==
  /\ IsFiniteSet(Address) /\ IsFiniteSet(Condition)
  /\ User \subseteq Address \ {CT}   \* a contract's address has no private key
  /\ Spender \subseteq Address
  /\ Amount \subseteq Wad
  /\ Report \subseteq [Slot -> Wad]

Partition == {P \in SUBSET IndexSet : ValidPartition(P)}
Redeemable == {S \in SUBSET IndexSet : S # {} /\ Cardinality(S) <= MaxRedeem}

StakeBounded == \A a \in User, p \in Position : positions[a][p] <= MaxStake

DaiStep ==
  /\ \/ \E u \in User, w \in Amount : totalSupply + w <= MaxSupply /\ Mint(u, w)
     \/ \E u, v \in User, w \in Amount : Burn(u, v, w)
     \/ \E u \in User, a \in Spender, w \in Amount : Approve(u, a, w)
     \/ \E u \in User, a \in Spender, allowed \in BOOLEAN : Permit(u, a, allowed)
     \/ \E u, src \in User, dst \in Address, w \in Amount : TransferFrom(u, src, dst, w)
  /\ UNCHANGED ctVars

Prepare == (\E c \in Condition : PrepareCondition(c)) /\ UNCHANGED daiVars

ReportStep ==
  /\ \E u \in User, c \in Condition, r \in Report : ReportPayouts(u, c, r)
  /\ UNCHANGED daiVars

Split == \E u \in User, c \in Condition, P \in Partition, w \in Amount :
           SplitPosition(u, c, P, w) /\ StakeBounded'

Merge == \E u \in User, c \in Condition, P \in Partition, w \in Amount :
           MergePositions(u, c, P, w) /\ StakeBounded'

Redeem == \E u \in User, c \in Condition, S \in Redeemable : RedeemPositions(u, c, S)

PositionTransfer ==
  /\ \E u, v \in User, p \in Position, w \in Amount :
       SafeTransferFrom(u, v, p, w) /\ StakeBounded'
  /\ UNCHANGED daiVars

ConditionalTokensNext ==
  DaiStep \/ Prepare \/ ReportStep \/ Split \/ Merge \/ Redeem \/ PositionTransfer

CollateralInit == DaiInit /\ ConditionalTokensInit

ConditionalTokensSpec ==
  CollateralInit /\ [][ConditionalTokensNext]_<<daiVars, ctVars>>

-----------------------------------------------------------------------------
(* Properties.                                                             *)

\* No call creates or destroys Dai except mint and burn: the balances of all
\* accounts, this contract's collateral included, add up to totalSupply.
DaiConserved == SumFunctionOnSet(balanceOf, Address) = totalSupply

\* Stake in index set I of c over all accounts.
Stake(c, I) == SumFunctionOnSet([a \in Address |-> positions[a][<<c, I>>]], Address)

\* Stake that a report giving everything to slot s would have to pay.
SlotStake(c, s) ==
  SumFunctionOnSet([I \in IndexSet |-> Stake(c, I)], {I \in IndexSet : s \in I})

\* What all positions of c are worth together, times its denominator.
Worth(c) == SumFunctionOnSet([I \in IndexSet |-> Stake(c, I) * Numerator(c, I)], IndexSet)

\* The most condition c can still cost: before the report, the largest stake
\* on any one slot (the report may give that slot everything); after it, what
\* all outstanding positions together are worth, rounded up.
Owed(c) ==
  IF ~Prepared(c) THEN 0
  ELSE IF payoutDenominator[c] = 0
  THEN Max({SlotStake(c, s) : s \in Slot})
  ELSE (Worth(c) + payoutDenominator[c] - 1) \div payoutDenominator[c]

\* The contract can always pay everyone, whoever redeems first and whatever
\* the oracles report: its Dai covers what all conditions together can cost.
\* Splits and merges of partial partitions, transfers of positions, rounding
\* and merges after the report must all keep it.
Solvent == balanceOf[CT] >= SumFunctionOnSet([c \in Condition |-> Owed(c)], Condition)

\* The accounts of Dai and of the conditional tokens fit: splits, merges,
\* transfers and redemptions conserve Dai and leave enough to pay every position.
TokensConsistent == ConditionalTokensTypeOK /\ DaiConserved /\ Solvent
=============================================================================
