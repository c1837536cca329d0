------------------------------- MODULE Escrow -------------------------------
(***************************************************************************)
(* The funding of one project: SecurityToken (funding tokens sold for Dai),*)
(* HolderContract (the escrow) and the pages of the application that drive *)
(* them, each page a sequence of transactions that other pages' run        *)
(* between: FunderPage buys a token and moves the Dai to the escrow,       *)
(* AuditorPage locks a milestone's budget in conditional tokens and later  *)
(* reports on it, BidderPage redeems.  A transaction that reverts, or that *)
(* the wallet refuses to sign, throws and the page shows its error alert.  *)
(* A transaction has been executed when its await returns, as on the       *)
(* development chain the application is run against.                       *)
(*                                                                         *)
(* A milestone is a condition whose oracle is the escrow; its two slots are*)
(* approval (1) and rejection (2).  borrowERC20 is not called by any page  *)
(* and is left out; tenor, roles and ERC721 ownership are abstracted.      *)
(***************************************************************************)
EXTENDS ConditionalTokens, Sequences

CONSTANTS Token,             \* the SecurityToken contract
          Holder,            \* the HolderContract of the project
          Zero,              \* address(0), holderContract before setHolder
          Owner, Bidder, Auditor,
          Funder,            \* accounts using FunderPage
          AuditorSession,    \* wallets with AuditorPage or BidderPage open
          MilestoneOne,      \* the milestone a page starts with
          Budget,            \* Budget[c]: the escrow's budgets, one per milestone
          WalletMayRefuse,   \* whether a wallet may refuse to sign a transaction
          MaxTokens          \* bound: funding tokens sold

ASSUME EscrowAssumption ==
  /\ {Token, Holder, Zero, CT} \subseteq Address \ User
  /\ Token # Holder /\ Zero \notin {Token, Holder} /\ CT \notin {Token, Holder, Zero}
  /\ {Owner, Bidder, Auditor} \cup Funder \cup AuditorSession \subseteq User
  /\ Bidder \notin Funder
  /\ MilestoneOne \in Condition
  /\ Budget \in [Condition -> Nat]
  /\ Slot = {1, 2}
  /\ WalletMayRefuse \in BOOLEAN
  /\ MaxSupply \in Nat /\ MaxSupply < MaxUint   \* no finite amount is "unlimited"

VARIABLES holderContract,    \* SecurityToken.holderContract
          fundedTokens,      \* SecurityToken.fundedTokens; a token's id is its index
          totalValue,        \* HolderContract.totalValue
          page, form,        \* FunderPage: next step, and the value in its form
          atSubmit,          \* history: when the form was submitted, the funder's tokens
                             \* and whether the funding period had been started
          setting, milestone \* AuditorPage: next step, and the milestone selected

contractVars == <<holderContract, fundedTokens, totalValue>>
funderVars == <<page, form, atSubmit>>
auditorVars == <<setting, milestone>>
escrowVars == <<daiVars, ctVars, contractVars, funderVars, auditorVars>>

FundingToken == [projectFunder : Address, fundingValue : Wad]

\* The type invariant: accounts of the escrow and the awaits of each open page.
EscrowTypeOK ==
  /\ ConditionalTokensTypeOK
  /\ holderContract \in Address
  /\ fundedTokens \in Seq(FundingToken)
  /\ totalValue \in Wad
  /\ page \in [Funder -> {"idle", "approve", "buyOne", "recieve", "success", "error"}]
  /\ form \in [Funder -> Wad]
  /\ atSubmit \in [Funder -> [tokens : Nat, open : BOOLEAN]]
  /\ setting \in [AuditorSession ->
       {"idle", "prepare", "split", "transfer", "success", "error"}]
  /\ milestone \in [AuditorSession -> Condition]

EscrowInit ==
  /\ CollateralInit
  /\ holderContract = Zero
  /\ fundedTokens = <<>>
  /\ totalValue = 0
  /\ page = [f \in Funder |-> "idle"]
  /\ form = [f \in Funder |-> 0]
  /\ atSubmit = [f \in Funder |-> [tokens |-> 0, open |-> FALSE]]
  /\ setting = [s \in AuditorSession |-> "idle"]
  /\ milestone = [s \in AuditorSession |-> MilestoneOne]

TokensOf(f) == Cardinality({i \in DOMAIN fundedTokens : fundedTokens[i].projectFunder = f})

-----------------------------------------------------------------------------
(* SecurityToken.                                                          *)

SetHolder(sender, h) ==
  /\ sender = Owner
  /\ holderContract' = h
  /\ UNCHANGED <<daiVars, ctVars, fundedTokens, totalValue>>

\* buyOne: recieveERC20, then approveERC20toHolder, which overwrites whatever
\* allowance the escrow still had, then mint.
BuyOneEnabled(sender, value) ==
  /\ MaySpend(sender, Token, value)
  /\ Moved(sender, Token, value)[Token] <= MaxUint

BuyOne(sender, value) ==
  /\ BuyOneEnabled(sender, value)
  /\ balanceOf' = Moved(sender, Token, value)
  /\ allowance' = [Spent(sender, Token, value) EXCEPT ![Token][holderContract] = value]
  /\ fundedTokens' = Append(fundedTokens, [projectFunder |-> sender, fundingValue |-> value])
  /\ UNCHANGED <<totalSupply, ctVars, holderContract, totalValue>>

-----------------------------------------------------------------------------
(* HolderContract.                                                         *)

\* recieveERC20: any caller; the allowance to ConditionalTokens is set to the
\* new totalValue.
RecieveEnabled(src, value) ==
  /\ MaySpend(src, Holder, value)
  /\ totalValue + value <= MaxUint

RecieveERC20(src, value) ==
  /\ RecieveEnabled(src, value)
  /\ balanceOf' = Moved(src, Holder, value)
  /\ totalValue' = totalValue + value
  /\ allowance' = [Spent(src, Holder, value) EXCEPT ![Holder][CT] = totalValue']
  /\ UNCHANGED <<totalSupply, ctVars, holderContract, fundedTokens>>

\* callSplitPosition with the partition the page passes, [0b01, 0b10].
SplitEnabled(c, value) ==
  /\ Prepared(c)
  /\ MaySpend(Holder, CT, value)
  /\ totalValue >= value

CallSplitPosition(c, value) ==
  /\ SplitPosition(Holder, c, {{1}, {2}}, value)
  /\ totalValue >= value
  /\ totalValue' = totalValue - value
  /\ UNCHANGED <<holderContract, fundedTokens>>

\* transferCTtoBidder: the escrow's whole stake in the position.
TransferCTtoBidder(sender, p) ==
  /\ sender = Bidder
  /\ SafeTransferFrom(Holder, sender, p, positions[Holder][p])
  /\ UNCHANGED <<daiVars, contractVars>>

CallReportPayouts(sender, c, outcome) ==
  /\ sender = Auditor
  /\ ReportPayouts(Holder, c, outcome)
  /\ UNCHANGED <<daiVars, contractVars>>

-----------------------------------------------------------------------------
(* FunderPage.buyOne: approve, buyOne and recieveERC20, one transaction    *)
(* each, with an await between them.                                       *)

FunderSubmit(f, value) ==
  /\ page[f] \in {"idle", "success", "error"}
  /\ page' = [page EXCEPT ![f] = "approve"]
  /\ form' = [form EXCEPT ![f] = value]
  /\ atSubmit' = [atSubmit EXCEPT ![f] =
       [tokens |-> TokensOf(f), open |-> holderContract # Zero]]
  /\ UNCHANGED <<daiVars, ctVars, contractVars, auditorVars>>

FunderStep(f, from, to) ==
  /\ page[f] = from
  /\ page' = [page EXCEPT ![f] = to]
  /\ UNCHANGED <<form, atSubmit, auditorVars>>

FunderApprove(f) ==
  /\ FunderStep(f, "approve", "buyOne")
  /\ Approve(f, Token, form[f])
  /\ UNCHANGED <<ctVars, contractVars>>

FunderBuyOne(f) ==
  /\ FunderStep(f, "buyOne", "recieve")
  /\ Len(fundedTokens) < MaxTokens
  /\ BuyOne(f, form[f])

FunderRecieve(f) ==
  /\ FunderStep(f, "recieve", "success")
  /\ RecieveERC20(Token, form[f])

\* The catch branch: a reverted transaction or a refused signature.
FunderError(f) ==
  /\ \/ page[f] = "buyOne" /\ ~BuyOneEnabled(f, form[f])
     \/ page[f] = "recieve" /\ ~RecieveEnabled(Token, form[f])
     \/ WalletMayRefuse /\ page[f] \in {"approve", "buyOne", "recieve"}
  /\ FunderStep(f, page[f], "error")
  /\ UNCHANGED <<daiVars, ctVars, contractVars>>

-----------------------------------------------------------------------------
(* AuditorPage.setConditions: compare the budget with totalValue, then     *)
(* prepareCondition, callSplitPosition and transferCTtoBidder.             *)

SetConditions(s, c) ==
  /\ setting[s] \in {"idle", "success", "error"}
  /\ milestone' = [milestone EXCEPT ![s] = c]
  /\ setting' = [setting EXCEPT ![s] = IF Budget[c] > totalValue THEN "error" ELSE "prepare"]
  /\ UNCHANGED <<daiVars, ctVars, contractVars, funderVars>>

AuditorStep(s, from, to) ==
  /\ setting[s] = from
  /\ setting' = [setting EXCEPT ![s] = to]
  /\ UNCHANGED <<milestone, funderVars>>

AuditorPrepare(s) ==
  /\ AuditorStep(s, "prepare", "split")
  /\ PrepareCondition(milestone[s])
  /\ UNCHANGED <<daiVars, contractVars>>

AuditorSplit(s) ==
  /\ AuditorStep(s, "split", "transfer")
  /\ CallSplitPosition(milestone[s], Budget[milestone[s]])

AuditorTransfer(s) ==
  /\ AuditorStep(s, "transfer", "success")
  /\ TransferCTtoBidder(s, <<milestone[s], {1}>>)

AuditorError(s) ==
  /\ \/ setting[s] = "prepare" /\ Prepared(milestone[s])
     \/ setting[s] = "split" /\ ~SplitEnabled(milestone[s], Budget[milestone[s]])
     \/ setting[s] = "transfer" /\ s # Bidder
     \/ WalletMayRefuse /\ setting[s] \in {"prepare", "split", "transfer"}
  /\ AuditorStep(s, setting[s], "error")
  /\ UNCHANGED <<daiVars, ctVars, contractVars>>

\* AuditorPage.reportAudit: always reports [1, 0].  BidderPage.redeemTokens:
\* always redeems the approval position.  One transaction each.
ReportAudit(s, c) ==
  /\ CallReportPayouts(s, c, [x \in Slot |-> IF x = 1 THEN 1 ELSE 0])
  /\ UNCHANGED <<funderVars, auditorVars>>

RedeemTokens(s, c) ==
  /\ RedeemPositions(s, c, {{1}})
  /\ UNCHANGED <<contractVars, funderVars, auditorVars>>

\* OpenLawPage.setEscrowStartFunding, by the owner.
StartFunding ==
  /\ holderContract = Zero
  /\ SetHolder(Owner, Holder)
  /\ UNCHANGED <<funderVars, auditorVars>>

\* Dai reaches the funders.
Faucet(f, w) ==
  /\ totalSupply + w <= MaxSupply
  /\ Mint(f, w)
  /\ UNCHANGED <<ctVars, contractVars, funderVars, auditorVars>>

-----------------------------------------------------------------------------
FunderPage == \E f \in Funder :
  \/ \E w \in Amount : FunderSubmit(f, w)
  \/ FunderApprove(f) \/ FunderBuyOne(f) \/ FunderRecieve(f) \/ FunderError(f)

AuditorPage == \E s \in AuditorSession :
  \/ \E c \in Condition : SetConditions(s, c) \/ ReportAudit(s, c)
  \/ AuditorPrepare(s) \/ AuditorSplit(s) \/ AuditorTransfer(s) \/ AuditorError(s)

BidderPage == \E s \in AuditorSession, c \in Condition : RedeemTokens(s, c)

EscrowNext ==
  \/ StartFunding
  \/ \E f \in Funder, w \in Amount : Faucet(f, w)
  \/ FunderPage \/ AuditorPage \/ BidderPage

EscrowSpec == EscrowInit /\ [][EscrowNext]_escrowVars

-----------------------------------------------------------------------------
(* Properties.                                                             *)

\* The three numbers the escrow relies on stay equal through every
\* interleaving of the pages: the totalValue it shows and checks, the Dai it
\* holds, and the allowance ConditionalTokens needs to lock a budget.
EscrowAccountsAgree ==
  /\ totalValue = balanceOf[Holder]
  /\ totalValue = allowance[Holder][CT]

\* Every Dai a funding token was sold for is still in the token contract, in
\* the escrow or locked in ConditionalTokens, or was paid to the bidder.
FundingConserved ==
  SumFunctionOnSet([i \in DOMAIN fundedTokens |-> fundedTokens[i].fundingValue],
                   DOMAIN fundedTokens)
    = balanceOf[Token] + balanceOf[Holder] + balanceOf[CT] + balanceOf[Bidder]

\* The bidder is paid a milestone's budget at most once, and only after the
\* auditor has reported on that milestone.
PaidOnlyReportedMilestones ==
  balanceOf[Bidder]
    <= SumFunctionOnSet(Budget, {c \in Condition : payoutDenominator[c] > 0})

\* What FunderPage tells the user in its error alert: "Looks like that didn't
\* go through".  Not so, even once the funding period has started: another
\* funder's buyOne between this funder's buyOne and recieveERC20 overwrites the
\* allowance the latter needs.
FailedPurchaseTookNothing ==
  \A f \in Funder :
    page[f] = "error" /\ atSubmit[f].open => TokensOf(f) = atSubmit[f].tokens

\* What AuditorPage tells the user in its error alert: "Milestone has already
\* been set, or there isn't enough funding for this milestone yet."  Not so
\* when an earlier attempt prepared the condition and then failed to split,
\* even granting that another page may be in the middle of setting it.
MilestoneSet(c) ==
  payoutDenominator[c] > 0 \/ \E a \in Address, I \in IndexSet : positions[a][<<c, I>>] > 0

MilestoneErrorExplained ==
  [][\A s \in AuditorSession :
       setting'[s] = "error" /\ setting[s] # "error" =>
         \/ MilestoneSet(milestone'[s])
         \/ \E t \in AuditorSession \ {s} :
              milestone[t] = milestone'[s] /\ setting[t] \in {"prepare", "split"}
         \/ Budget[milestone'[s]] > totalValue]_escrowVars

\* The escrow is in order between any two transactions of the pages: its three
\* accounts agree, no funding is lost, and the bidder has been paid for reported
\* milestones only.
EscrowConsistent ==
  EscrowTypeOK /\ EscrowAccountsAgree /\ FundingConserved /\ PaidOnlyReportedMilestones
=============================================================================
