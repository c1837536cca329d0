---------------------------- MODULE Negotiation ----------------------------
(***************************************************************************)
(* The negotiation contracts of OpenlawStateTracking.sol and the two       *)
(* factories an approval calls: ProjectTrackerFactory deploys one          *)
(* ProjectNegotiationTracker per project name, bidders post terms on it,   *)
(* and the owner's approval deploys, in the same transaction, the escrow   *)
(* (HolderFactory) and the funding token (TokenFactory) of the project.    *)
(*                                                                         *)
(* An action is one transaction that succeeds.  A transaction that fails a *)
(* require, in the contract called or in one it calls, reverts as a whole: *)
(* it is the action not being enabled.  Contracts are deployed once and    *)
(* never removed, so a deployed contract is its index in the factory's     *)
(* array.  Every tracker is given the same two factories (the application  *)
(* passes the deployed ones; a tracker stores whatever it is given).       *)
(* Names, symbols and arrays of terms are opaque values.  Milestone text,  *)
(* URIs, the Dai and ConditionalTokens addresses and events are left out:  *)
(* nothing below depends on them.                                          *)
(***************************************************************************)
EXTENDS Naturals, Sequences

CONSTANTS Party,       \* accounts that send transactions
          Auditors,    \* accounts named as a project's auditor
          NoAddress,   \* address(0), the value of winningBidder before approval
          Name,        \* project names
          Symbol,      \* token symbols
          Timelines,   \* timeline arrays a transaction may carry
          Budgets,     \* budget arrays a transaction may carry
          NoTerms,     \* the empty array, what a mapping holds for an unset key
          MaxBids      \* bound: bids posted on one tracker

ASSUME NegotiationAssumption ==
  /\ NoAddress \notin Party
  /\ NoTerms \notin Timelines \cup Budgets
  /\ MaxBids \in Nat

VARIABLES projects,             \* ProjectTrackerFactory.projects
          nameToProjectIndex,   \* ProjectTrackerFactory's name index, 0 is free
          holders,              \* HolderFactory.holders
          nameToHolderIndex,    \* HolderFactory's name index
          tokens,               \* TokenFactory.projects
          nameToTokenIndex,     \* TokenFactory.nameToProjectIndex
          symbolToTokenIndex    \* TokenFactory.symbolToProjectIndex

vars == <<projects, nameToProjectIndex, holders, nameToHolderIndex,
          tokens, nameToTokenIndex, symbolToTokenIndex>>

\* The storage of a ProjectNegotiationTracker.
Tracker ==
  [owner : Party, ownerApproval : BOOLEAN, projectName : Name, symbol : Symbol,
   winningBidder : Party \cup {NoAddress},
   timelinesOwner : Timelines \cup {NoTerms}, budgetsOwner : Budgets \cup {NoTerms},
   all_bidders : Seq(Party),
   BidderToTimeline : [Party -> Timelines \cup {NoTerms}],
   BidderToBudgets : [Party -> Budgets \cup {NoTerms}],
   BidderProposalStatus : [Party -> BOOLEAN]]

\* What the constructor of a HolderContract records of the agreement.
HolderContract ==
  [projectName : Name, owner : Party, bidder : Party, auditor : Auditors,
   budgets : Budgets \cup {NoTerms}, timelines : Timelines \cup {NoTerms}]

\* What the constructor of a SecurityToken records of the agreement.
SecurityToken ==
  [projectName : Name, projectSymbol : Symbol, owner : Party,
   bidder : Party, auditor : Auditors]

\* The type invariant: arrays hold contracts of their kind, the mappings of a
\* tracker hold terms of their kind.
TypeOK ==
  /\ projects \in Seq(Tracker)
  /\ nameToProjectIndex \in [Name -> Nat]
  /\ holders \in Seq(HolderContract)
  /\ nameToHolderIndex \in [Name -> Nat]
  /\ tokens \in Seq(SecurityToken)
  /\ nameToTokenIndex \in [Name -> Nat]
  /\ symbolToTokenIndex \in [Symbol -> Nat]

Init ==
  /\ projects = <<>>
  /\ nameToProjectIndex = [n \in Name |-> 0]
  /\ holders = <<>>
  /\ nameToHolderIndex = [n \in Name |-> 0]
  /\ tokens = <<>>
  /\ nameToTokenIndex = [n \in Name |-> 0]
  /\ symbolToTokenIndex = [s \in Symbol |-> 0]

-----------------------------------------------------------------------------
(* The three factories.                                                    *)

\* ProjectNegotiationTracker's constructor, over the zeroed storage.
NewTracker(owner, name, symbol, timelines, budgets) ==
  [owner |-> owner, ownerApproval |-> FALSE, projectName |-> name,
   symbol |-> symbol, winningBidder |-> NoAddress,
   timelinesOwner |-> timelines, budgetsOwner |-> budgets,
   all_bidders |-> <<>>,
   BidderToTimeline |-> [a \in Party |-> NoTerms],
   BidderToBudgets |-> [a \in Party |-> NoTerms],
   BidderProposalStatus |-> [a \in Party |-> FALSE]]

\* ProjectTrackerFactory.deployNewProject: any sender, for any owner.
DeployNewProject(owner, name, symbol, timelines, budgets) ==
  /\ nameToProjectIndex[name] = 0
  /\ projects' = Append(projects, NewTracker(owner, name, symbol, timelines, budgets))
  /\ nameToProjectIndex' = [nameToProjectIndex EXCEPT ![name] = Len(projects) + 1]
  /\ UNCHANGED <<holders, nameToHolderIndex, tokens, nameToTokenIndex, symbolToTokenIndex>>

\* HolderFactory.deployNewHolder: called by a tracker, or directly by anyone.
DeployNewHolder(name, owner, bidder, auditor, budgets, timelines) ==
  /\ nameToHolderIndex[name] = 0
  /\ holders' = Append(holders,
       [projectName |-> name, owner |-> owner, bidder |-> bidder,
        auditor |-> auditor, budgets |-> budgets, timelines |-> timelines])
  /\ nameToHolderIndex' = [nameToHolderIndex EXCEPT ![name] = Len(holders) + 1]

\* TokenFactory.deployNewProject: called by a tracker, or directly by anyone.
DeployNewToken(name, symbol, owner, bidder, auditor) ==
  /\ nameToTokenIndex[name] = 0
  /\ symbolToTokenIndex[symbol] = 0
  /\ tokens' = Append(tokens,
       [projectName |-> name, projectSymbol |-> symbol, owner |-> owner,
        bidder |-> bidder, auditor |-> auditor])
  /\ symbolToTokenIndex' = [symbolToTokenIndex EXCEPT ![symbol] = Len(tokens) + 1]
  /\ nameToTokenIndex' = [nameToTokenIndex EXCEPT ![name] = Len(tokens) + 1]

-----------------------------------------------------------------------------
(* The tracker.  i is the tracker's index in projects.                     *)

\* Faulty variant: a bid is taken after the approval too.
NewBidderTermsAnytime(i, sender, timelines, budgets) ==
  /\ Len(projects[i].all_bidders) < MaxBids
  /\ projects' = [projects EXCEPT ![i].BidderToTimeline[sender] = timelines,
                                  ![i].BidderToBudgets[sender] = budgets,
                                  ![i].BidderProposalStatus[sender] = FALSE,
                                  ![i].all_bidders = Append(@, sender)]
  /\ UNCHANGED <<nameToProjectIndex, holders, nameToHolderIndex,
                 tokens, nameToTokenIndex, symbolToTokenIndex>>

\* newBidderTerms: a later bid of the same sender overwrites the earlier one,
\* and the owner may bid too (the require against it is commented out).
NewBidderTerms(i, sender, timelines, budgets) ==
  /\ ~projects[i].ownerApproval
  /\ Len(projects[i].all_bidders) < MaxBids
  /\ projects' = [projects EXCEPT ![i].BidderToTimeline[sender] = timelines,
                                  ![i].BidderToBudgets[sender] = budgets,
                                  ![i].BidderProposalStatus[sender] = FALSE,
                                  ![i].all_bidders = Append(@, sender)]
  /\ UNCHANGED <<nameToProjectIndex, holders, nameToHolderIndex,
                 tokens, nameToTokenIndex, symbolToTokenIndex>>

\* Faulty variant: only the escrow is given the bidder's terms.
ApproveBidderTermsHalf(i, sender, bidder, auditor) ==
  LET p == projects[i] IN
  /\ sender = p.owner
  /\ projects' = [projects EXCEPT ![i].ownerApproval = TRUE,
                                  ![i].BidderProposalStatus[bidder] = TRUE,
                                  ![i].winningBidder = bidder,
                                  ![i].budgetsOwner = p.BidderToBudgets[sender],
                                  ![i].timelinesOwner = p.BidderToTimeline[sender]]
  /\ DeployNewHolder(p.projectName, p.owner, bidder, auditor,
                     p.BidderToBudgets[bidder], p.BidderToTimeline[bidder])
  /\ DeployNewToken(p.projectName, p.symbol, p.owner, bidder, auditor)
  /\ UNCHANGED nameToProjectIndex

\* approveBidderTerms: bidder is any address, whether it has bid or not.  The
\* terms recorded and handed to the escrow are the ones stored for msg.sender.
\* A name or symbol taken in one of the factories reverts all of it.
ApproveBidderTerms(i, sender, bidder, auditor) ==
  LET p == projects[i]
      budgets == p.BidderToBudgets[sender]
      timelines == p.BidderToTimeline[sender] IN
  /\ sender = p.owner
  /\ projects' = [projects EXCEPT ![i].ownerApproval = TRUE,
                                  ![i].BidderProposalStatus[bidder] = TRUE,
                                  ![i].winningBidder = bidder,
                                  ![i].budgetsOwner = budgets,
                                  ![i].timelinesOwner = timelines]
  /\ DeployNewHolder(p.projectName, p.owner, bidder, auditor, budgets, timelines)
  /\ DeployNewToken(p.projectName, p.symbol, p.owner, bidder, auditor)
  /\ UNCHANGED nameToProjectIndex

-----------------------------------------------------------------------------
Deploy ==
  \E owner \in Party, n \in Name, s \in Symbol, t \in Timelines, b \in Budgets :
    DeployNewProject(owner, n, s, t, b)

Bid ==
  \E i \in 1..Len(projects), a \in Party, t \in Timelines, b \in Budgets :
    NewBidderTerms(i, a, t, b)

ApproveBid ==
  \E i \in 1..Len(projects), sender, bidder \in Party, auditor \in Auditors :
    ApproveBidderTerms(i, sender, bidder, auditor)

\* A factory called directly instead of by a tracker's approval.
DirectHolder ==
  /\ \E n \in Name, owner, bidder \in Party, auditor \in Auditors,
        b \in Budgets, t \in Timelines :
       DeployNewHolder(n, owner, bidder, auditor, b, t)
  /\ UNCHANGED <<projects, nameToProjectIndex, tokens, nameToTokenIndex, symbolToTokenIndex>>

DirectToken ==
  /\ \E n \in Name, s \in Symbol, owner, bidder \in Party, auditor \in Auditors :
       DeployNewToken(n, s, owner, bidder, auditor)
  /\ UNCHANGED <<projects, nameToProjectIndex, holders, nameToHolderIndex>>

Next == Deploy \/ Bid \/ ApproveBid \/ DirectHolder \/ DirectToken

Spec == Init /\ [][Next]_vars

-----------------------------------------------------------------------------
(* Properties.                                                             *)

\* At most one bid is ever accepted: the proposal marked approved is the one
\* of winningBidder, and only after the owner's approval.  approveBidderTerms
\* does not test ownerApproval itself; a second approval fails only because
\* the factories have handed out the project's name.
OneWinner ==
  \A i \in 1..Len(projects), a \in Party :
    projects[i].BidderProposalStatus[a]
      <=> projects[i].ownerApproval /\ projects[i].winningBidder = a

\* Every approved project has an escrow and a token that getHolder and
\* getProject find under its name, for the winning bidder and the same owner,
\* and the escrow holds the terms the tracker shows: approval and both
\* deployments are one transaction.
AgreementDeployed ==
  \A i \in 1..Len(projects) : projects[i].ownerApproval =>
    LET p == projects[i]
        h == nameToHolderIndex[p.projectName]
        t == nameToTokenIndex[p.projectName] IN
    /\ h \in 1..Len(holders)
    /\ t \in 1..Len(tokens)
    /\ holders[h].owner = p.owner /\ holders[h].bidder = p.winningBidder
    /\ holders[h].budgets = p.budgetsOwner /\ holders[h].timelines = p.timelinesOwner
    /\ tokens[t].owner = p.owner /\ tokens[t].bidder = p.winningBidder
    /\ tokens[t].projectSymbol = p.symbol
    /\ tokens[t].auditor = holders[h].auditor

\* The lookups by name or symbol of the three factories return the contract
\* deployed under that name or symbol, and no entry of an array is unreachable.
LookupsFindOwnName ==
  /\ \A n \in Name :
       /\ nameToProjectIndex[n] # 0 => projects[nameToProjectIndex[n]].projectName = n
       /\ nameToHolderIndex[n] # 0 => holders[nameToHolderIndex[n]].projectName = n
       /\ nameToTokenIndex[n] # 0 => tokens[nameToTokenIndex[n]].projectName = n
  /\ \A s \in Symbol : symbolToTokenIndex[s] # 0 =>
       tokens[symbolToTokenIndex[s]].projectSymbol = s
  /\ \A i \in 1..Len(projects) : nameToProjectIndex[projects[i].projectName] = i
  /\ \A i \in 1..Len(holders) : nameToHolderIndex[holders[i].projectName] = i
  /\ \A i \in 1..Len(tokens) : nameToTokenIndex[tokens[i].projectName] = i

\* Once the owner has approved, nothing about the agreement changes any more:
\* not the winner, not the terms, and not the bids they were chosen from.
AgreementFrozen ==
  [][\A i \in 1..Len(projects) :
       projects[i].ownerApproval => projects'[i] = projects[i]]_vars

\* What the comment in approveBidderTerms says: "adjust owner terms to be same
\* as bidder terms".  Not what the code does: it copies the terms stored for
\* msg.sender, who is the owner, also when the winner has posted terms.
OwnerTermsAreBidderTerms ==
  \A i \in 1..Len(projects) :
    LET p == projects[i] IN
    p.ownerApproval /\ p.BidderToBudgets[p.winningBidder] # NoTerms =>
    /\ p.budgetsOwner = p.BidderToBudgets[p.winningBidder]
    /\ p.timelinesOwner = p.BidderToTimeline[p.winningBidder]

\* The trackers and the factories agree: approveBidderTerms has deployed what it
\* promises, or nothing, and every name leads to its own contract.
NegotiationConsistent == TypeOK /\ AgreementDeployed /\ LookupsFindOwnName
=============================================================================
